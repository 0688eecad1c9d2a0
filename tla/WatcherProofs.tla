---------------------------- MODULE WatcherProofs ----------------------------
(***************************************************************************)
(* What holds of the watcher however many goroutines run, whatever the     *)
(* chain does and wherever calls fail: the types, and that nothing is      *)
(* recorded, applied or claimed by the cursor that is not yet confirmed.   *)
(*                                                                         *)
(* The invariant follows a block number from where it is read to where it  *)
(* is used: every number held in between is a confirmed one.               *)
(*                                                                         *)
(* Then the configuration that is shipped, in which only the poll loop     *)
(* works, and the path from the chain to the orders table.                 *)
(***************************************************************************)
EXTENDS System, TLAPS

(* The variables of a life of the process go by one name or by their own. *)
USE DEF runVars

(* A block number that is 0 or deep enough below the tip. *)
Deep(b) == b = 0 \/ b + Confirmations <= latest

(* A log that was emitted and is deep enough. *)
Settling(l) == l <= mined /\ Confirmed(l)

(* The labels of handleLog after waitConfirmations. *)
Past == {"insert", "handle", "advance", "mark", "rollback", "purge"}

ConfirmInv ==
    /\ \A i \in 1..Len(feed) : feed[i].log <= mined
    /\ \A l \in pollTodo : l <= mined
    /\ \A p \in Proc : hand[p].pc # "idle" => LogOf(p) <= mined
    /\ \A p \in Proc : hand[p].pc \in Past => Confirmed(LogOf(p))
    /\ \A l \in Log : (l \in recorded \/ applied[l] > 0) => Settling(l)
    /\ Deep(cursor) /\ Deep(saved) /\ Deep(pollTo)
    /\ cancelled => "shutdown" \in Env

WatchInv == TypeOK /\ ConfirmInv

(* Confirmations are counted in natural numbers of blocks. *)
LEMMA BlockFacts ==
    /\ Confirmations \in Nat /\ Lookback \in Nat /\ Rollback \in Nat
    /\ MaxHeight \in Nat /\ NLogs \in Nat /\ MaxApplied \in Nat \ {0} /\ SemCap \in Nat
    /\ \A l \in Log : BlockOf[l] \in 1..MaxHeight
BY BoundsAssumption, BlockAssumption DEF Log

(* The initial state: nothing mined, nothing running. *)
LEMMA WatchInit == Init => WatchInv
<1> SUFFICES ASSUME Init PROVE WatchInv
  OBVIOUS
<1>1. hand \in [Proc -> Job] /\ \A p \in Proc : hand[p].pc = "idle"
  <2>1. 1 \in Log
    BY BoundsAssumption DEF Log
  <2>2. Idle \in Job /\ Idle.pc = "idle"
    BY <2>1 DEF Idle, Job, PC
  <2> HIDE DEF Idle
  <2> QED BY <2>2 DEF Init
<1>2. feed \in Seq(Notification) /\ Len(feed) = 0
  BY DEF Init
<1>3. applied \in [Log -> 0..MaxApplied] /\ \A l \in Log : ~ (applied[l] > 0)
  BY BlockFacts DEF Init
<1>4. TypeOK
  <2>1. latest \in 0..MaxHeight /\ mined \in 0..NLogs /\ off \subseteq Log
    BY BlockFacts DEF Init
  <2> QED BY <1>1, <1>2, <1>3, <2>1 DEF Init, TypeOK
<1>5. ConfirmInv
  BY <1>1, <1>2, <1>3, BlockFacts DEF Init, ConfirmInv, Deep, Past
<1> QED BY <1>4, <1>5 DEF WatchInv

-----------------------------------------------------------------------------
(* The chain. *)

(* The chain only grows, so what is confirmed stays confirmed. *)
LEMMA ConfirmedStays ==
    ASSUME TypeOK, latest' \in Nat, latest <= latest', mined' \in Nat, mined <= mined'
    PROVE  /\ \A l \in Log : Confirmed(l) => Confirmed(l)'
           /\ \A l \in Log : Settling(l) => Settling(l)'
           /\ \A b \in Nat : Deep(b) => b = 0 \/ b + Confirmations <= latest'
<1>1. latest \in Nat /\ mined \in Nat /\ Confirmations \in Nat /\ \A l \in Log : BlockOf[l] \in Nat
  BY BlockFacts DEF TypeOK
<1>2. \A l \in Log : l \in Nat
  BY DEF Log
<1> QED BY <1>1, <1>2 DEF Confirmed, Settling, Deep

(* A longer chain and one more notification disturb nothing else. *)
LEMMA ChainKeeps ==
    ASSUME WatchInv, latest' \in 0..MaxHeight, latest <= latest', mined' \in 0..NLogs, mined <= mined',
           off' \subseteq Log, feed' = feed \/ \E n \in Notification :
                                    n.log <= mined' /\ feed' = Append(feed, n),
           UNCHANGED <<sub, up, cursor, hand, pollVars, dbVars, runVars>>
    PROVE  WatchInv'
<1>1. feed' \in Seq(Notification) /\ \A i \in 1..Len(feed') : feed'[i].log <= mined'
  <2>1. /\ feed \in Seq(Notification) /\ mined \in Nat /\ mined' \in Nat
        /\ \A i \in 1..Len(feed) : feed[i] \in Notification /\ feed[i].log <= mined
    BY DEF WatchInv, ConfirmInv, TypeOK
  <2>2. \A i \in 1..Len(feed) : feed[i].log \in Nat
    BY <2>1 DEF Notification, Log
  <2>3. CASE feed' = feed
    BY <2>1, <2>2, <2>3
  <2>4. CASE \E n \in Notification : n.log <= mined' /\ feed' = Append(feed, n)
    BY <2>1, <2>2, <2>4
  <2> QED BY <2>3, <2>4
<1>2. TypeOK'
  BY <1>1 DEF WatchInv, TypeOK, pollVars, dbVars
<1>3. \A b \in {cursor, saved, pollTo} : b \in Nat /\ (Deep(b) => Deep(b)')
  BY ConfirmedStays DEF WatchInv, TypeOK, Deep
<1>4. mined \in Nat /\ mined' \in Nat /\ \A l \in Log : l \in Nat
  BY DEF WatchInv, TypeOK, Log
<1>5. \A p \in Proc : LogOf(p) \in Log /\ LogOf(p)' = LogOf(p) /\ hand'[p] = hand[p]
  BY DEF WatchInv, TypeOK, Job, LogOf
<1>6. /\ \A l \in pollTodo' : l <= mined'
      /\ \A p \in Proc : hand'[p].pc # "idle" => LogOf(p)' <= mined'
  BY <1>4, <1>5 DEF WatchInv, ConfirmInv, TypeOK, pollVars
<1>7. /\ \A l \in Log : Confirmed(l) => Confirmed(l)'
      /\ \A l \in Log : Settling(l) => Settling(l)'
  BY ConfirmedStays DEF WatchInv, TypeOK
<1>8. \A p \in Proc : hand'[p].pc \in Past => Confirmed(LogOf(p))'
  BY <1>5, <1>7 DEF WatchInv, ConfirmInv, Confirmed
<1>9. \A l \in Log : (l \in recorded' \/ applied'[l] > 0) => Settling(l)'
  BY <1>7 DEF WatchInv, ConfirmInv, dbVars
<1>10. Deep(cursor)' /\ Deep(saved)' /\ Deep(pollTo)'
  BY <1>3 DEF WatchInv, ConfirmInv, Deep, dbVars, pollVars
<1>11. ConfirmInv'
  <2>1. cancelled' => "shutdown" \in Env
    BY DEF WatchInv, ConfirmInv
  <2> QED BY <1>1, <1>6, <1>8, <1>9, <1>10, <2>1 DEF ConfirmInv
<1> QED BY <1>2, <1>11 DEF WatchInv

(* The chain grows, or is reorganised at its tip: the program's numbers    *)
(* stay good.                                                              *)
LEMMA ChainStep ==
    ASSUME WatchInv, Chain
    PROVE  WatchInv'
<1>1. latest \in 0..MaxHeight /\ mined \in 0..NLogs /\ off \subseteq Log
  BY DEF WatchInv, TypeOK
<1>2. CASE MineLog
  <2> DEFINE n == [log |-> mined + 1, removed |-> FALSE]
  <2>1. /\ mined' = mined + 1 /\ mined' \in Log /\ off' = off
        /\ latest' = BlockOf[mined'] /\ latest' \in {latest, latest + 1}
        /\ feed' = feed \/ feed' = Append(feed, n)
        /\ UNCHANGED <<sub, up, cursor, hand, pollVars, dbVars, runVars>>
    BY <1>2 DEF MineLog, Notify
  <2>2. n \in Notification /\ n.log <= mined'
    BY <1>1, <2>1 DEF Notification, Log
  <2>3. latest' \in 0..MaxHeight /\ latest <= latest' /\ mined' \in 0..NLogs /\ mined <= mined'
    BY <1>1, <2>1, BlockFacts DEF Log
  <2> QED BY <1>1, <2>1, <2>2, <2>3, ChainKeeps
<1>3. CASE MineBlock
  <2>1. latest' \in 0..MaxHeight /\ latest <= latest' /\ mined' \in 0..NLogs /\ mined <= mined'
    BY <1>1, <1>3, BlockFacts DEF MineBlock
  <2> QED BY <1>1, <1>3, <2>1, ChainKeeps DEF MineBlock, wireVars
<1>4. CASE \E l \in Log : Reorg(l)
  <2>1. PICK l \in Log : Reorg(l)
    BY <1>4
  <2> DEFINE n == [log |-> l, removed |-> TRUE]
  <2>2. n \in Notification /\ n.log <= mined
    BY <2>1 DEF Notification, Reorg, OnChain
  <2>3. /\ feed' = feed \/ feed' = Append(feed, n)
        /\ off' \subseteq Log /\ latest' = latest /\ mined' = mined
        /\ UNCHANGED <<sub, up, cursor, hand, pollVars, dbVars, runVars>>
    BY <1>1, <2>1 DEF Reorg, Notify
  <2>4. latest <= latest' /\ mined <= mined'
    BY <1>1, <2>3
  <2> QED BY <1>1, <2>2, <2>3, <2>4, ChainKeeps
<1> QED BY <1>2, <1>3, <1>4 DEF Chain

-----------------------------------------------------------------------------
(* The program.  The chain stands still, so a part of the invariant that    *)
(* speaks of variables a step leaves alone holds after it.                  *)

TypeChain == latest \in 0..MaxHeight /\ mined \in 0..NLogs /\ off \subseteq Log

WireInv ==
    /\ sub \in BOOLEAN /\ feed \in Seq(Notification)
    /\ \A i \in 1..Len(feed) : feed[i].log <= mined

HandInv ==
    /\ hand \in [Proc -> Job]
    /\ \A p \in Proc : hand[p].pc # "idle" => LogOf(p) <= mined
    /\ \A p \in Proc : hand[p].pc \in Past => Confirmed(LogOf(p))

PollInv ==
    /\ pollFrom \in Nat /\ pollTo \in Nat /\ pollTodo \subseteq Log
    /\ \A l \in pollTodo : l <= mined
    /\ Deep(pollTo)

StoreInv ==
    /\ recorded \subseteq Log /\ marked \subseteq recorded
    /\ applied \in [Log -> 0..MaxApplied]
    /\ \A l \in Log : (l \in recorded \/ applied[l] > 0) => Settling(l)

NumberInv ==
    /\ up \in BOOLEAN /\ cursor \in Nat /\ saved \in Nat
    /\ cancelled \in BOOLEAN /\ base \in Nat /\ resumed \subseteq Nat
    /\ Deep(cursor) /\ Deep(saved)
    /\ cancelled => "shutdown" \in Env

(* The invariant is the conjunction of its parts.                          *)
LEMMA Parts ==
    WatchInv <=> TypeChain /\ WireInv /\ HandInv /\ PollInv /\ StoreInv /\ NumberInv
BY DEF WatchInv, TypeOK, ConfirmInv, TypeChain, WireInv, HandInv, PollInv, StoreInv, NumberInv

(* So it holds after a step when its parts do.                             *)
LEMMA PartsNext ==
    ASSUME TypeChain', WireInv', HandInv', PollInv', StoreInv', NumberInv'
    PROVE  WatchInv'
BY DEF WatchInv, TypeOK, ConfirmInv, TypeChain, WireInv, HandInv, PollInv, StoreInv, NumberInv

(* What a step does not touch keeps its part. *)
LEMMA PartsKept ==
    ASSUME WatchInv, UNCHANGED chainVars
    PROVE  /\ TypeChain'
           /\ UNCHANGED wireVars => WireInv'
           /\ UNCHANGED hand => HandInv'
           /\ UNCHANGED pollVars => PollInv'
           /\ UNCHANGED <<recorded, marked, applied>> => StoreInv'
           /\ UNCHANGED <<up, cursor, saved, runVars>> => NumberInv'
<1>1. TypeChain'
  BY Parts DEF TypeChain, chainVars
<1>2. UNCHANGED wireVars => WireInv'
  BY Parts DEF WireInv, chainVars, wireVars
<1>3. UNCHANGED hand => HandInv'
  BY Parts DEF HandInv, chainVars, LogOf, Confirmed
<1>4. UNCHANGED pollVars => PollInv'
  BY Parts DEF PollInv, chainVars, pollVars, Deep
<1>5. UNCHANGED <<recorded, marked, applied>> => StoreInv'
  BY Parts DEF StoreInv, chainVars, Settling, Confirmed
<1>6. UNCHANGED <<up, cursor, saved, runVars>> => NumberInv'
  BY Parts DEF NumberInv, chainVars, Deep
<1> QED BY <1>1, <1>2, <1>3, <1>4, <1>5, <1>6

(* A process takes up a job, goes on with it or ends it. *)
LEMMA HandStep ==
    ASSUME WatchInv, UNCHANGED chainVars, NEW p \in Proc, NEW j \in Job,
           hand' = [hand EXCEPT ![p] = j],
           j.pc # "idle" => j.log <= mined,
           j.pc \in Past => Confirmed(j.log)
    PROVE  HandInv'
<1>1. hand \in [Proc -> Job] /\ \A q \in Proc : hand'[q] = IF q = p THEN j ELSE hand[q]
  BY Parts DEF HandInv
<1>2. hand' \in [Proc -> Job]
  BY <1>1
<1>3. \A q \in Proc : hand'[q].pc # "idle" => hand'[q].log <= mined'
  BY <1>1, Parts DEF HandInv, LogOf, chainVars
<1>4. \A q \in Proc : hand'[q].pc \in Past => latest' >= BlockOf[hand'[q].log] + Confirmations
  BY <1>1, Parts DEF HandInv, LogOf, chainVars, Confirmed
<1> QED BY <1>2, <1>3, <1>4 DEF HandInv, LogOf, Confirmed

(* An idle process has a job of the right type, and is not past the wait.  *)
LEMMA IdleJob == Idle \in Job /\ Idle.pc = "idle" /\ "idle" \notin Past
<1>1. 1 \in Log
  BY BoundsAssumption DEF Log
<1> QED BY <1>1 DEF Idle, Job, PC, Past

(* handleLog returns. *)
LEMMA ReturnStep ==
    ASSUME WatchInv, UNCHANGED chainVars, NEW p \in Proc, Return(p)
    PROVE  HandInv'
<1> HIDE DEF Idle
<1> QED BY HandStep, IdleJob DEF Return

(* handleLog goes to its next call: a confirmed log stays confirmed, and   *)
(* only waitConfirmations lets a log into the calls behind it.             *)
LEMMA GotoStep ==
    ASSUME WatchInv, UNCHANGED chainVars, NEW p \in Proc, NEW label \in PC,
           Goto(p, label), hand[p].pc # "idle",
           label \in Past => Confirmed(LogOf(p))
    PROVE  HandInv'
<1> DEFINE j == [hand[p] EXCEPT !.pc = label]
<1>1. hand \in [Proc -> Job] /\ hand[p] \in Job /\ LogOf(p) <= mined
  BY Parts DEF HandInv
<1>2. j \in Job /\ j.pc = label /\ j.log = LogOf(p)
  BY <1>1 DEF Job, LogOf
<1>3. hand' = [hand EXCEPT ![p] = j]
  BY <1>1 DEF Goto
<1> HIDE DEF j
<1> QED BY <1>1, <1>2, <1>3, HandStep

-----------------------------------------------------------------------------
(* The calls of handleLog. *)

(* What the job of a busy process is known to be. *)
LEMMA JobFacts ==
    ASSUME WatchInv, NEW p \in Proc, hand[p].pc # "idle"
    PROVE  /\ LogOf(p) \in Log /\ LogOf(p) <= mined
           /\ hand[p].pc \in Past => Settling(LogOf(p))
           /\ latest \in Nat /\ BlockOfJob(p) \in Nat
<1>1. hand[p] \in Job /\ LogOf(p) <= mined /\ (hand[p].pc \in Past => Confirmed(LogOf(p)))
  BY Parts DEF HandInv
<1>2. LogOf(p) \in Log
  BY <1>1 DEF Job, LogOf
<1>3. latest \in Nat /\ BlockOfJob(p) \in Nat
  BY <1>2, BlockFacts, Parts DEF TypeChain, BlockOfJob
<1> QED BY <1>1, <1>2, <1>3 DEF Settling

(* The cursor a removed log is rolled back to, and the one a handled log   *)
(* advances it to, are confirmed because the log is.                       *)
LEMMA CursorFacts ==
    ASSUME WatchInv, NEW p \in Proc, hand[p].pc \in Past
    PROVE  /\ ReorgBlock(p) \in Nat /\ Deep(ReorgBlock(p))
           /\ Top(cursor, BlockOfJob(p)) \in Nat /\ Deep(Top(cursor, BlockOfJob(p)))
<1>1. /\ latest \in Nat /\ BlockOfJob(p) \in Nat
      /\ latest >= BlockOfJob(p) + Confirmations
  BY JobFacts DEF Past, Settling, Confirmed, BlockOfJob
<1>2. cursor \in Nat /\ Deep(cursor) /\ Confirmations \in Nat /\ Rollback \in Nat
  BY Parts, BlockFacts DEF NumberInv
<1> QED BY <1>1, <1>2 DEF ReorgBlock, Top, Deep

(* Each call of handleLog, in whichever goroutine, keeps the invariant.    *)
LEMMA HandleLogStep ==
    ASSUME WatchInv, NEW p \in Proc, HandleLog(p)
    PROVE  WatchInv'
<1> USE DEF At
<1>0. /\ hand[p].pc # "idle" /\ UNCHANGED <<chainVars, wireVars, pollVars, up, runVars>>
      /\ TypeChain' /\ WireInv' /\ PollInv'
  <2>1. hand[p].pc # "idle" /\ UNCHANGED <<chainVars, wireVars, pollVars, up, runVars>>
    BY DEF HandleLog, Check, WaitConfirmations, WaitCancelled, InsertEvent, Handle, AdvanceCursor, MarkRemoved,
           RollbackCursor, DeleteEventsAboveBlock, dbVars
  <2> QED BY <2>1, PartsKept
<1>1. CASE Check(p)
  <2>1. HandInv'
    BY <1>0, <1>1, ReturnStep, GotoStep DEF Check, PC, Past
  <2> QED BY <1>0, <1>1, <2>1, PartsKept, PartsNext DEF Check, dbVars
<1>2. CASE WaitConfirmations(p)
  <2>1. HandInv'
    BY <1>0, <1>2, GotoStep DEF WaitConfirmations, WaitCancelled, PC
  <2> QED BY <1>0, <1>2, <2>1, PartsKept, PartsNext DEF WaitConfirmations, WaitCancelled, dbVars
<1>9. CASE WaitCancelled(p)
  <2>1. HandInv'
    BY <1>0, <1>9, ReturnStep DEF WaitCancelled
  <2> QED BY <1>0, <1>9, <2>1, PartsKept, PartsNext DEF WaitCancelled, dbVars
<1>3. CASE InsertEvent(p)
  <2>1. HandInv'
    BY <1>0, <1>3, GotoStep, JobFacts DEF InsertEvent, PC, Past, Settling
  <2>2. StoreInv'
    BY <1>0, <1>3, JobFacts, Parts
       DEF InsertEvent, StoreInv, Past, Settling, Confirmed, chainVars
  <2> QED BY <1>0, <1>3, <2>1, <2>2, PartsKept, PartsNext DEF InsertEvent
<1>4. CASE Handle(p)
  <2>1. HandInv'
    BY <1>0, <1>4, GotoStep, JobFacts DEF Handle, PC, Past, Settling
  <2>2. applied' \in [Log -> 0..MaxApplied]
           /\ \A l \in Log : applied'[l] > 0 => applied[l] > 0 \/ l = LogOf(p)
    <3>1. applied \in [Log -> 0..MaxApplied]
      BY Parts DEF StoreInv
    <3>2. LogOf(p) \in Log
      BY <1>0, JobFacts
    <3>3. Count(applied[LogOf(p)]) \in 0..MaxApplied
      BY <3>1, <3>2, BlockFacts DEF Count
    <3>4. applied' = [applied EXCEPT ![LogOf(p)] = Count(applied[LogOf(p)])]
      BY <1>4 DEF Handle
    <3> QED BY <3>1, <3>2, <3>3, <3>4
  <2>3. StoreInv'
    BY <1>0, <1>4, <2>2, JobFacts, Parts
       DEF Handle, StoreInv, Past, Settling, Confirmed, chainVars
  <2> QED BY <1>0, <1>4, <2>1, <2>3, PartsKept, PartsNext DEF Handle
<1>5. CASE AdvanceCursor(p)
  <2>1. HandInv'
    BY <1>0, <1>5, ReturnStep DEF AdvanceCursor
  <2>2. NumberInv'
    BY <1>0, <1>5, CursorFacts, Parts
       DEF AdvanceCursor, NumberInv, Past, Deep, chainVars, dbVars
  <2> QED BY <1>0, <1>5, <2>1, <2>2, PartsKept, PartsNext DEF AdvanceCursor, dbVars
<1>6. CASE MarkRemoved(p)
  <2>1. HandInv'
    BY <1>0, <1>6, GotoStep, JobFacts DEF MarkRemoved, PC, Past, Settling
  <2>2. StoreInv'
    BY <1>0, <1>6, Parts DEF MarkRemoved, StoreInv, Settling, Confirmed, chainVars
  <2> QED BY <1>0, <1>6, <2>1, <2>2, PartsKept, PartsNext DEF MarkRemoved
<1>7. CASE RollbackCursor(p)
  <2>1. HandInv'
    BY <1>0, <1>7, GotoStep, JobFacts DEF RollbackCursor, PC, Past, Settling
  <2>2. NumberInv'
    BY <1>0, <1>7, CursorFacts, Parts
       DEF RollbackCursor, NumberInv, Past, Deep, chainVars, dbVars
  <2> QED BY <1>0, <1>7, <2>1, <2>2, PartsKept, PartsNext DEF RollbackCursor, dbVars
<1>8. CASE DeleteEventsAboveBlock(p)
  <2>1. HandInv'
    BY <1>0, <1>8, ReturnStep DEF DeleteEventsAboveBlock
  <2>2. StoreInv'
    BY <1>0, <1>8, Parts
       DEF DeleteEventsAboveBlock, StoreInv, Settling, Confirmed, chainVars
  <2> QED BY <1>0, <1>8, <2>1, <2>2, PartsKept, PartsNext DEF DeleteEventsAboveBlock
<1> QED
  BY <1>1, <1>2, <1>3, <1>4, <1>5, <1>6, <1>7, <1>8, <1>9 DEF HandleLog

(* So does a call of handleLog that fails.                                 *)
LEMMA HandleFaultStep ==
    ASSUME WatchInv, NEW p \in Proc, HandleFault(p)
    PROVE  WatchInv'
<1>1. /\ hand[p].pc # "idle"
      /\ UNCHANGED <<chainVars, wireVars, up, cursor, pollVars, dbVars, runVars>>
  BY DEF HandleFault
<1>2. HandInv'
  BY <1>1, ReturnStep, GotoStep, JobFacts DEF HandleFault, PC, Past, Settling
<1> QED BY <1>1, <1>2, PartsKept, PartsNext DEF dbVars

-----------------------------------------------------------------------------
(* Polling, the subscription, and the life of the process. *)

(* A poll reads a range that ends at a confirmed block, and claims no      *)
(* more.                                                                   *)
LEMMA PollStep ==
    ASSUME WatchInv, PollBegin \/ PollQuery \/ PollFault \/ PollNext \/ PollEnd \/ SaveCursor
    PROVE  WatchInv'
<1>0. latest \in Nat /\ mined \in Nat /\ cursor \in Nat /\ Confirmations \in Nat
  BY Parts, BlockFacts DEF TypeChain, NumberInv
<1>1. CASE PollBegin
  <2>1. pollFrom' \in Nat /\ pollTo' \in Nat /\ pollTo' + Confirmations <= latest
    BY <1>0, <1>1 DEF PollBegin, FromBlock, ToBlock
  <2>2. PollInv'
    BY <1>1, <2>1, Parts DEF PollBegin, PollInv, Deep, chainVars
  <2> QED BY <1>1, <2>2, PartsKept, PartsNext DEF PollBegin, dbVars
<1>2. CASE PollQuery
  <2>1. \A l \in pollTodo' : l \in Log /\ l <= mined
    BY <1>2 DEF PollQuery, OnChain
  <2>2. PollInv'
    BY <1>2, <2>1, Parts DEF PollQuery, PollInv, Deep, chainVars
  <2> QED BY <1>2, <2>2, PartsKept, PartsNext DEF PollQuery, dbVars
<1>3. CASE PollFault
  <2>1. PollInv'
    BY <1>3, Parts DEF PollFault, PollInv, Deep, chainVars
  <2> QED BY <1>3, <2>1, PartsKept, PartsNext DEF PollFault, dbVars
<1>4. CASE PollNext
  <2>1. PICK l \in pollTodo :
            /\ hand' = [hand EXCEPT ![Poller] = StartOn([log |-> l, removed |-> FALSE])]
            /\ pollTodo' = pollTodo \ {l}
    BY <1>4 DEF PollNext
  <2> DEFINE j == StartOn([log |-> l, removed |-> FALSE])
  <2>2. l \in Log /\ l <= mined
    BY Parts DEF PollInv
  <2>3. j \in Job /\ j.log = l /\ j.pc = "check"
    BY <2>2 DEF StartOn, Job, PC
  <2>4. Poller \in Proc
    BY BlockFacts DEF Poller, Proc
  <2> HIDE DEF j
  <2>5. HandInv'
    BY <1>4, <2>1, <2>2, <2>3, <2>4, HandStep DEF PollNext, Past, j
  <2>6. PollInv'
    BY <1>4, <2>1, Parts DEF PollNext, PollInv, Deep, chainVars
  <2> QED BY <1>4, <2>5, <2>6, PartsKept, PartsNext DEF PollNext, dbVars
<1>5. CASE PollEnd
  <2>1. /\ cursor' = Top(cursor, pollTo) /\ pollTo' = 0 /\ pollTodo' = pollTodo /\ pollFrom' = pollFrom
        /\ UNCHANGED <<chainVars, wireVars, up, hand, dbVars, runVars>>
    BY <1>5 DEF PollEnd
  <2>2. pollTo \in Nat /\ Deep(pollTo) /\ Deep(cursor)
    BY Parts DEF PollInv, NumberInv
  <2>3. cursor' \in Nat /\ Deep(cursor')
    BY <1>0, <2>1, <2>2 DEF Top, Deep
  <2>4. NumberInv' /\ PollInv'
    BY <2>1, <2>3, Parts DEF NumberInv, PollInv, Deep, chainVars, dbVars
  <2> QED BY <2>1, <2>4, PartsKept, PartsNext DEF dbVars
<1>6. CASE SaveCursor
  <2>1. NumberInv'
    BY <1>6, Parts DEF SaveCursor, NumberInv, Deep, chainVars
  <2> QED BY <1>6, <2>1, PartsKept, PartsNext DEF SaveCursor, dbVars
<1> QED BY <1>1, <1>2, <1>3, <1>4, <1>5, <1>6

(* An empty wire carries nothing that could be wrong. *)
LEMMA EmptyWire ==
    ASSUME sub' = FALSE, feed' = <<>>
    PROVE  WireInv'
<1>1. feed' \in Seq(Notification) /\ Len(feed') = 0
  OBVIOUS
<1>2. \A i \in 1..Len(feed') : FALSE
  BY <1>1
<1> QED BY <1>1, <1>2 DEF WireInv

(* The subscription delivers only logs that were emitted.                  *)
LEMMA SubscriptionStep ==
    ASSUME WatchInv, Subscribe \/ SubscriptionError \/ Receive
    PROVE  WatchInv'
<1>1. CASE Subscribe
  <2>1. WireInv'
    BY <1>1, Parts DEF Subscribe, WireInv, chainVars
  <2> QED BY <1>1, <2>1, PartsKept, PartsNext DEF Subscribe, dbVars
<1>2. CASE SubscriptionError
  <2>1. WireInv'
    BY <1>2, EmptyWire DEF SubscriptionError
  <2> QED BY <1>2, <2>1, PartsKept, PartsNext DEF SubscriptionError, dbVars
<1>3. CASE Receive
  <2>1. feed \in Seq(Notification) /\ feed # <<>>
    BY <1>3, Parts DEF Receive, WireInv
  <2>2. Head(feed) \in Notification /\ Head(feed).log <= mined
    BY <2>1, Parts DEF WireInv
  <2>3. WireInv'
    BY <1>3, <2>1, Parts DEF Receive, WireInv, chainVars
  <2>4. CASE UNCHANGED hand
    BY <1>3, <2>3, <2>4, PartsKept, PartsNext DEF Receive, dbVars
  <2>5. ASSUME NEW p \in Free, hand' = [hand EXCEPT ![p] = StartOn(Head(feed))]
        PROVE  WatchInv'
    <3> DEFINE j == StartOn(Head(feed))
    <3>1. j \in Job /\ j.log <= mined /\ j.pc = "check"
      BY <2>2 DEF StartOn, Job, PC, Notification
    <3>2. p \in Proc
      BY BlockFacts DEF Free, Proc
    <3> HIDE DEF j
    <3>3. HandInv'
      BY <1>3, <2>5, <3>1, <3>2, HandStep DEF Receive, Past, j
    <3> QED BY <1>3, <2>3, <3>3, PartsKept, PartsNext DEF Receive, dbVars
  <2> QED BY <1>3, <2>4, <2>5 DEF Receive
<1> QED BY <1>1, <1>2, <1>3

(* A start begins at a confirmed block: at the saved one, or as far behind *)
(* the tip as LookbackAssumption makes sufficient.                         *)
LEMMA LifeStep ==
    ASSUME WatchInv, Start \/ StartFault \/ Shutdown \/ Exit \/ Crash
    PROVE  WatchInv'
<1>0. /\ latest \in Nat /\ saved \in Nat /\ Deep(saved) /\ base \in Nat
      /\ Confirmations \in Nat /\ Lookback \in Nat /\ Confirmations <= Lookback
  BY Parts, BlockFacts, LookbackAssumption DEF TypeChain, NumberInv
<1>1. CASE Start \/ StartFault
  <2>1. cursor' \in Nat /\ Deep(cursor')
    BY <1>0, <1>1 DEF Start, Begin, StartFault, StartCursor, Deep
  <2>2. base' \in Nat /\ resumed' \subseteq Nat /\ cancelled' = FALSE
    <3>1. /\ base' \in {base, cursor'} /\ resumed' \subseteq resumed \cup {cursor'}
          /\ cancelled' = FALSE
      BY <1>1 DEF Start, Begin, StartFault
    <3>2. resumed \subseteq Nat
      BY Parts DEF NumberInv
    <3> QED BY <1>0, <2>1, <3>1, <3>2
  <2>3. up' \in BOOLEAN /\ UNCHANGED <<chainVars, wireVars, hand, pollVars, dbVars>>
    BY <1>1 DEF Start, Begin, StartFault
  <2>4. NumberInv'
    BY <1>0, <2>1, <2>2, <2>3 DEF NumberInv, Deep, chainVars, dbVars
  <2> QED BY <2>3, <2>4, PartsKept, PartsNext DEF dbVars
<1>2. CASE Crash \/ Exit
  <2>1. UNCHANGED <<chainVars, dbVars, runVars>>
    BY <1>2 DEF Crash, Exit, ProcessEnds
  <2>2. /\ up' = FALSE /\ cursor' = 0 /\ sub' = FALSE /\ feed' = <<>>
        /\ pollFrom' = 0 /\ pollTo' = 0 /\ pollTodo' = {}
    BY <1>2 DEF Crash, Exit, ProcessEnds
  <2>3. WireInv' /\ PollInv'
    BY <2>2, EmptyWire DEF PollInv, Deep
  <2>4. HandInv'
    <3> HIDE DEF Idle
    <3>1. hand' = [p \in Proc |-> Idle]
      BY <1>2 DEF Crash, Exit, ProcessEnds
    <3>2. hand' \in [Proc -> Job] /\ \A p \in Proc : hand'[p] = Idle
      BY <3>1, IdleJob
    <3> QED BY <3>2, IdleJob DEF HandInv
  <2>5. NumberInv'
    BY <2>1, <2>2, Parts DEF NumberInv, Deep, chainVars, dbVars
  <2> QED BY <2>1, <2>3, <2>4, <2>5, PartsKept, PartsNext DEF dbVars
<1>3. CASE Shutdown
  <2>1. NumberInv'
    BY <1>0, <1>3, Parts DEF Shutdown, NumberInv, Deep, chainVars, dbVars
  <2> QED BY <1>3, <2>1, PartsKept, PartsNext DEF Shutdown, dbVars
<1> QED BY <1>1, <1>2, <1>3

(* Every step of the watcher and of its environment keeps the invariant.   *)
LEMMA WatchStep ==
    ASSUME WatchInv, [Next]_vars
    PROVE  WatchInv'
<1>1. CASE UNCHANGED vars
  <2>1. UNCHANGED <<chainVars, wireVars, up, cursor, hand, pollVars, dbVars, runVars>>
    BY <1>1 DEF vars
  <2> QED BY <2>1, PartsKept, PartsNext DEF dbVars
<1> QED
  BY <1>1, ChainStep, HandleLogStep, HandleFaultStep, PollStep, SubscriptionStep, LifeStep
     DEF Next, Program

(* The invariant of the watcher, under every environment.                  *)
LEMMA WatchInvHolds == Spec => []WatchInv
BY WatchInit, WatchStep, PTL DEF Spec

-----------------------------------------------------------------------------
(* Every variable of the watcher keeps its type, through reorganisations,  *)
(* failed calls and restarts: in particular no cursor goes below zero.     *)
THEOREM WatcherTypeCorrect == Spec => []TypeOK
BY WatchInvHolds, PTL DEF WatchInv

(* The cursor, saved or not, never claims an unconfirmed block.  Run, the  *)
(* poll and the handlers all write it, each from a block number it read    *)
(* earlier; the number was a confirmed one when it was read, and the chain *)
(* has only grown since.                                                   *)
THEOREM CursorStaysConfirmed == Spec => []CursorIsConfirmed
<1>1. WatchInv => CursorIsConfirmed
  BY DEF WatchInv, ConfirmInv, CursorIsConfirmed, Deep
<1> QED BY <1>1, WatchInvHolds, PTL

(* No log is recorded, and none has its effect applied, before its block   *)
(* has the configured number of confirmations.                             *)
THEOREM OnlyConfirmedActs == Spec => []ActsOnlyOnConfirmed
<1>1. WatchInv => ActsOnlyOnConfirmed
  BY DEF WatchInv, TypeOK, ConfirmInv, ActsOnlyOnConfirmed, Settling, Confirmed
<1> QED BY <1>1, WatchInvHolds, PTL

-----------------------------------------------------------------------------
(* The watcher as the shipped configuration runs it: rpc_url is an HTTPS    *)
(* endpoint, the subscription never comes up, and pollLoop does all the     *)
(* work.  Then nothing has to be taken back, and a kill loses no more than  *)
(* the rest of one block, for a chain of any length, through any number of  *)
(* restarts and reorganisations.                                            *)

(* What the theorems assume of the environment. *)
PollOnly == "subscribe" \notin Env
NoFaults == "fault" \notin Env
ShallowReorgs == ReorgDepth <= Confirmations
SomeConfirmation == Confirmations > 0

(* Without a subscription only the poll loop works. *)
QuietInv ==
    /\ sub = FALSE /\ feed = <<>>
    /\ \A p \in Proc : p # Poller => hand[p].pc = "idle"
    /\ hand[Poller].pc \in {"idle", "check", "wait", "insert", "handle", "advance"}
    /\ hand[Poller].removed = FALSE

(* A log the poll has taken up is on the chain to stay. *)
SafeLog(l) == l \notin off /\ BlockOf[l] + Confirmations <= latest

StaysInv ==
    /\ \A l \in pollTodo : SafeLog(l)
    /\ hand[Poller].pc # "idle" => SafeLog(LogOf(Poller))
    /\ \A l \in Log : (l \in recorded \/ applied[l] > 0) => l \notin off

(* The poll in progress: it works through its logs in order, ... *)
OrderInv ==
    /\ ~ up => pollTo = 0
    /\ pollTo = 0 => pollFrom = 0 /\ pollTodo = {} /\ hand[Poller].pc = "idle"
    /\ pollFrom # 0 => pollTodo = {} /\ hand[Poller].pc = "idle"
    /\ \A l \in pollTodo : BlockOf[l] <= pollTo
    /\ hand[Poller].pc # "idle" =>
          /\ BlockOf[LogOf(Poller)] <= pollTo
          /\ \A l \in pollTodo : LogOf(Poller) < l
    /\ hand[Poller].pc \in {"handle", "advance"} => LogOf(Poller) \in recorded

(* ... which are still to be asked for, or in hand.                         *)
Pending(l) == pollFrom # 0 /\ pollFrom <= BlockOf[l]
InHand(l) == hand[Poller].pc \in {"check", "wait", "insert"} /\ l = LogOf(Poller)

-----------------------------------------------------------------------------
(* The steps of the poll loop's own handleLog. *)
PollerStep ==
    \/ Check(Poller) \/ WaitConfirmations(Poller) \/ WaitCancelled(Poller)
    \/ InsertEvent(Poller) \/ Handle(Poller) \/ AdvanceCursor(Poller)

(* The poll loop is one of the processes that run handleLog.               *)
LEMMA PollerIsProc == Poller \in Proc
BY BoundsAssumption DEF Poller, Proc

(* Without a subscription, these are all the steps there are.              *)
LEMMA PollOnlySteps ==
    ASSUME PollOnly, QuietInv, Next
    PROVE  \/ Chain \/ Start \/ StartFault \/ Shutdown \/ Exit \/ Crash
           \/ PollerStep \/ HandleFault(Poller)
           \/ PollBegin \/ PollQuery \/ PollFault \/ PollNext \/ PollEnd \/ SaveCursor
<1>1. ~ Subscribe /\ ~ SubscriptionError /\ ~ Receive
  BY DEF PollOnly, QuietInv, Subscribe, SubscriptionError, Receive
<1>2. ASSUME NEW p \in Proc, HandleLog(p) \/ HandleFault(p)
      PROVE  PollerStep \/ HandleFault(Poller)
  <2>1. hand[p].pc # "idle"
    BY <1>2 DEF HandleLog, HandleFault, At, Check, WaitConfirmations, WaitCancelled, InsertEvent, Handle,
                AdvanceCursor, MarkRemoved, RollbackCursor, DeleteEventsAboveBlock
  <2>2. p = Poller
    BY <2>1 DEF QuietInv
  <2> QED
    BY <1>2, <2>2 DEF HandleLog, At, MarkRemoved, RollbackCursor, DeleteEventsAboveBlock,
                      PollerStep, QuietInv
<1> QED BY <1>1, <1>2 DEF Next, Program

(* The job in the poller's hands, before and after each of its steps. *)
LEMMA PollerMoves ==
    ASSUME WatchInv
    PROVE  /\ hand \in [Proc -> Job] /\ hand[Poller] \in Job
           /\ \A label \in PC : Goto(Poller, label) =>
                 /\ hand'[Poller].pc = label /\ LogOf(Poller)' = LogOf(Poller)
                 /\ hand'[Poller].removed = hand[Poller].removed
                 /\ \A p \in Proc : p # Poller => hand'[p] = hand[p]
           /\ Return(Poller) =>
                 /\ hand'[Poller] = Idle
                 /\ \A p \in Proc : p # Poller => hand'[p] = hand[p]
<1>1. hand \in [Proc -> Job] /\ hand[Poller] \in Job
  BY PollerIsProc, Parts DEF HandInv
<1>2. ASSUME NEW label \in PC, Goto(Poller, label)
      PROVE  /\ hand'[Poller].pc = label /\ LogOf(Poller)' = LogOf(Poller)
             /\ hand'[Poller].removed = hand[Poller].removed
             /\ \A p \in Proc : p # Poller => hand'[p] = hand[p]
  BY <1>1, <1>2, PollerIsProc DEF Goto, LogOf, Job
<1>3. ASSUME Return(Poller)
      PROVE  /\ hand'[Poller] = Idle
             /\ \A p \in Proc : p # Poller => hand'[p] = hand[p]
  <2> HIDE DEF Idle
  <2> QED BY <1>1, <1>3, PollerIsProc DEF Return
<1> QED BY <1>1, <1>2, <1>3

(* Nothing runs and nothing is subscribed at the start.                    *)
LEMMA QuietInit == Init => QuietInv
BY PollerIsProc DEF Init, QuietInv, Idle

(* Without a subscription no handler goroutine is ever started.            *)
LEMMA QuietStep ==
    ASSUME PollOnly, WatchInv, QuietInv, [Next]_vars
    PROVE  QuietInv'
<1> USE PollerIsProc
<1>1. CASE UNCHANGED vars
  BY <1>1 DEF vars, wireVars, QuietInv
<1>2. CASE Chain
  BY <1>2 DEF Chain, MineLog, MineBlock, Reorg, Notify, wireVars, QuietInv
<1>3. CASE Start \/ StartFault
  BY <1>3 DEF Start, Begin, StartFault, wireVars, QuietInv
<1>4. CASE Crash \/ Exit
  BY <1>4 DEF Crash, Exit, ProcessEnds, Idle, QuietInv
<1>5. CASE PollerStep
  <2>1. UNCHANGED wireVars
    BY <1>5 DEF PollerStep, Check, WaitConfirmations, WaitCancelled, InsertEvent, Handle, AdvanceCursor
  <2>2. Return(Poller) \/ \E label \in {"wait", "insert", "handle", "advance"} : Goto(Poller, label)
    BY <1>5 DEF PollerStep, Check, WaitConfirmations, WaitCancelled, InsertEvent, Handle, AdvanceCursor, QuietInv
  <2>3. Idle.pc = "idle" /\ Idle.removed = FALSE
    BY DEF Idle
  <2> QED BY <2>1, <2>2, <2>3, PollerMoves DEF QuietInv, wireVars, PC
<1>6. CASE HandleFault(Poller)
  <2>1. UNCHANGED wireVars
    BY <1>6 DEF HandleFault
  <2>2. Return(Poller) \/ Goto(Poller, "advance")
    BY <1>6 DEF HandleFault, QuietInv
  <2>3. Idle.pc = "idle" /\ Idle.removed = FALSE
    BY DEF Idle
  <2> QED BY <2>1, <2>2, <2>3, PollerMoves DEF QuietInv, wireVars, PC
<1>7. CASE PollBegin \/ PollQuery \/ PollFault \/ PollEnd \/ SaveCursor \/ Shutdown
  BY <1>7 DEF PollBegin, PollQuery, PollFault, PollEnd, SaveCursor, Shutdown, wireVars, QuietInv
<1>8. CASE PollNext
  BY <1>8, PollerMoves DEF PollNext, StartOn, wireVars, QuietInv
<1> QED
  BY <1>1, <1>2, <1>3, <1>4, <1>5, <1>6, <1>7, <1>8, PollOnlySteps

-----------------------------------------------------------------------------
(* Nothing has to be taken back. *)

(* At the start no log is taken up.                                        *)
LEMMA StaysInit == Init => StaysInv
<1> SUFFICES ASSUME Init PROVE StaysInv
  OBVIOUS
<1>1. hand[Poller].pc = "idle"
  BY PollerIsProc DEF Init, Idle
<1> QED BY <1>1 DEF Init, StaysInv

(* A reorganisation does not reach the logs that are confirmed. *)
LEMMA ReorgSpares ==
    ASSUME ShallowReorgs, WatchInv, NEW l \in Log, Reorg(l), NEW k \in Log,
           BlockOf[k] + Confirmations <= latest
    PROVE  k # l
<1>1. latest \in Nat /\ Confirmations \in Nat /\ ReorgDepth \in Nat /\ BlockOf[l] \in Nat
  BY BlockFacts, BoundsAssumption, Parts DEF TypeChain
<1> QED BY <1>1 DEF Reorg, ShallowReorgs

(* Every step keeps what was taken up on the chain for good.               *)
LEMMA StaysStep ==
    ASSUME PollOnly, ShallowReorgs, WatchInv, QuietInv, StaysInv, [Next]_vars
    PROVE  StaysInv'
<1> USE PollerIsProc
<1>0. /\ latest \in Nat /\ Confirmations \in Nat /\ \A l \in Log : BlockOf[l] \in Nat
      /\ pollTodo \subseteq Log /\ recorded \subseteq Log
      /\ hand[Poller].pc # "idle" => LogOf(Poller) \in Log
  BY BlockFacts, Parts, JobFacts DEF TypeChain, PollInv, StoreInv
<1>1. CASE UNCHANGED vars
  BY <1>1 DEF vars, chainVars, pollVars, dbVars, StaysInv, SafeLog, LogOf
<1>2. CASE MineLog \/ MineBlock
  <2>1. latest' \in Nat /\ latest <= latest' /\ off' = off
    BY <1>0, <1>2 DEF MineLog, MineBlock
  <2>2. UNCHANGED <<hand, pollVars, dbVars>>
    BY <1>2 DEF MineLog, MineBlock
  <2>3. \A l \in Log : SafeLog(l) => SafeLog(l)'
    BY <1>0, <2>1 DEF SafeLog
  <2> QED BY <1>0, <2>1, <2>2, <2>3 DEF StaysInv, pollVars, dbVars, LogOf
<1>3. ASSUME NEW l \in Log, Reorg(l)
      PROVE  StaysInv'
  <2>1. off' = off \cup {l} /\ UNCHANGED <<latest, hand, pollVars, dbVars>>
    BY <1>3 DEF Reorg
  <2>2. \A k \in Log : SafeLog(k) => SafeLog(k)'
    BY <1>3, <2>1, ReorgSpares DEF SafeLog
  <2>3. \A k \in Log : (k \in recorded \/ applied[k] > 0) => BlockOf[k] + Confirmations <= latest
    BY <1>0, Parts DEF StoreInv, Settling, Confirmed
  <2>4. \A k \in Log : (k \in recorded \/ applied[k] > 0) => k \notin off'
    BY <1>3, <2>1, <2>3, ReorgSpares DEF StaysInv
  <2> QED BY <1>0, <2>1, <2>2, <2>4 DEF StaysInv, pollVars, dbVars, LogOf
<1>4. CASE Start \/ StartFault \/ SaveCursor
  BY <1>4 DEF Start, Begin, StartFault, SaveCursor, chainVars, pollVars, dbVars, StaysInv, SafeLog, LogOf
<1>5. CASE Crash \/ Exit
  BY <1>5 DEF Crash, Exit, ProcessEnds, Idle, chainVars, dbVars, StaysInv, SafeLog
<1>6. CASE PollerStep \/ HandleFault(Poller)
  <2>1. UNCHANGED <<chainVars, pollVars>> /\ hand[Poller].pc # "idle"
    BY <1>6 DEF PollerStep, Check, WaitConfirmations, WaitCancelled, InsertEvent, Handle, AdvanceCursor, At,
                HandleFault
  <2>2. Return(Poller) \/ \E label \in PC : Goto(Poller, label)
    BY <1>6 DEF PollerStep, Check, WaitConfirmations, WaitCancelled, InsertEvent, Handle, AdvanceCursor,
                HandleFault, PC
  <2>3. hand'[Poller].pc = "idle" \/ LogOf(Poller)' = LogOf(Poller)
    <3>1. Idle.pc = "idle"
      BY DEF Idle
    <3> QED BY <2>2, <3>1, PollerMoves
  <2>4. \A l \in Log : (l \in recorded' \/ applied'[l] > 0) =>
            (l \in recorded \/ applied[l] > 0) \/ l = LogOf(Poller)
    <3>1. applied \in [Log -> 0..MaxApplied]
      BY Parts DEF StoreInv
    <3> QED
      BY <1>6, <3>1 DEF PollerStep, Check, WaitConfirmations, WaitCancelled, InsertEvent, Handle, AdvanceCursor,
                        HandleFault, dbVars
  <2>5. SafeLog(LogOf(Poller))
    BY <2>1 DEF StaysInv
  <2>6. \A l \in Log : (l \in recorded' \/ applied'[l] > 0) => l \notin off'
    BY <2>1, <2>4, <2>5 DEF StaysInv, SafeLog, chainVars
  <2> QED BY <2>1, <2>3, <2>5, <2>6 DEF StaysInv, SafeLog, chainVars, pollVars
<1>7. CASE PollQuery
  <2>1. /\ pollTo \in Nat /\ pollFrom \in Nat /\ pollFrom # 0
        /\ pollTo = 0 \/ pollTo + Confirmations <= latest
    BY <1>7, Parts DEF PollInv, Deep, PollQuery
  <2>2. \A l \in pollTodo' : l \in Log /\ l \notin off /\ BlockOf[l] <= pollTo /\ pollTo # 0
    BY <1>0, <1>7, <2>1 DEF PollQuery, OnChain
  <2>3. \A l \in pollTodo' : SafeLog(l)'
    BY <1>0, <1>7, <2>1, <2>2 DEF PollQuery, SafeLog, chainVars
  <2> QED BY <1>7, <2>3 DEF PollQuery, StaysInv, SafeLog, chainVars, dbVars, LogOf
<1>8. CASE PollNext
  <2>1. PICK l \in pollTodo :
            /\ hand' = [hand EXCEPT ![Poller] = StartOn([log |-> l, removed |-> FALSE])]
            /\ pollTodo' = pollTodo \ {l}
    BY <1>8 DEF PollNext
  <2>2. LogOf(Poller)' = l
    BY <2>1, PollerMoves DEF LogOf, StartOn
  <2> QED BY <1>8, <2>1, <2>2 DEF PollNext, StaysInv, SafeLog, chainVars, dbVars
<1>9. CASE PollBegin \/ PollFault \/ PollEnd \/ Shutdown
  BY <1>9 DEF PollBegin, PollFault, PollEnd, Shutdown, pollVars, StaysInv, SafeLog, chainVars, dbVars, LogOf
<1> QED
  BY <1>1, <1>2, <1>3, <1>4, <1>5, <1>6, <1>7, <1>8, <1>9, PollOnlySteps DEF Chain

(* A watcher that only polls never applies a log that a reorganisation     *)
(* within the confirmation depth removes, whatever fails and however often *)
(* the process restarts: it reads a range only once all of it is confirmed.*)
THEOREM PollingAppliesNoPhantom ==
    ASSUME PollOnly, ShallowReorgs
    PROVE  Spec => []NoPhantomEffect
<1>1. StaysInv => NoPhantomEffect
  BY DEF StaysInv, NoPhantomEffect
<1> QED
  BY <1>1, QuietInit, QuietStep, StaysInit, StaysStep, WatchInvHolds, PTL DEF Spec

(* Nor does it keep a row of a log that is no longer on the chain. *)
THEOREM PollingRecordsTheChain ==
    ASSUME PollOnly, ShallowReorgs
    PROVE  Spec => []RecordedIsOnChain
<1>1. WatchInv /\ StaysInv => RecordedIsOnChain
  BY Parts DEF StoreInv, StaysInv, RecordedIsOnChain
<1> QED
  BY <1>1, QuietInit, QuietStep, StaysInit, StaysStep, WatchInvHolds, PTL DEF Spec

-----------------------------------------------------------------------------
(* A log is applied once. *)

(* An effect has its row; what is on its way to the events table has none, *)
(* and what has just got its row has no effect yet.                        *)
OnceInv ==
    /\ \A l \in Log : applied[l] = 0 \/ (applied[l] = 1 /\ l \in recorded)
    /\ hand[Poller].pc \in {"wait", "insert"} => LogOf(Poller) \notin recorded
    /\ hand[Poller].pc = "handle" => LogOf(Poller) \in recorded /\ applied[LogOf(Poller)] = 0

LEMMA OnceInit == Init => OnceInv
<1> SUFFICES ASSUME Init PROVE OnceInv
  OBVIOUS
<1>1. hand[Poller].pc = "idle"
  BY PollerIsProc DEF Init, Idle
<1> QED BY <1>1 DEF Init, OnceInv

(* The poller's job takes one path from the check to the effect. *)
LEMMA OnceStep ==
    ASSUME PollOnly, WatchInv, QuietInv, OnceInv, [Next]_vars
    PROVE  OnceInv'
<1> USE PollerIsProc
<1>0. Idle.pc = "idle"
  BY DEF Idle
<1>1. CASE UNCHANGED <<hand, recorded, applied>>
  BY <1>1 DEF OnceInv, LogOf
<1>2. CASE Crash \/ Exit
  BY <1>0, <1>2 DEF Crash, Exit, ProcessEnds, OnceInv, dbVars
<1>3. CASE PollNext
  <2>1. hand'[Poller].pc = "check"
    BY <1>3, PollerMoves DEF PollNext, StartOn
  <2> QED BY <1>3, <2>1 DEF PollNext, OnceInv, dbVars
<1>4. CASE Check(Poller)
  <2>1. Return(Poller) \/ (Goto(Poller, "wait") /\ LogOf(Poller) \notin recorded)
    BY <1>4 DEF Check, AlreadyStored
  <2> QED BY <1>0, <1>4, <2>1, PollerMoves DEF Check, OnceInv, dbVars, PC
<1>5. CASE WaitConfirmations(Poller)
  <2>1. Goto(Poller, "insert") /\ hand[Poller].pc = "wait"
    BY <1>5 DEF WaitConfirmations, WaitCancelled, QuietInv, At
  <2> QED BY <1>5, <2>1, PollerMoves DEF WaitConfirmations, WaitCancelled, OnceInv, dbVars, PC
<1>6. CASE InsertEvent(Poller)
  <2>1. /\ hand'[Poller].pc = "handle" /\ LogOf(Poller)' = LogOf(Poller)
        /\ recorded' = recorded \cup {LogOf(Poller)} /\ applied' = applied
        /\ LogOf(Poller) \notin recorded /\ LogOf(Poller) \in Log
    BY <1>6, PollerMoves, JobFacts DEF InsertEvent, At, OnceInv, PC
  <2> QED BY <2>1 DEF OnceInv
<1>7. CASE Handle(Poller)
  <2>1. /\ hand'[Poller].pc = "advance"
        /\ LogOf(Poller) \in recorded /\ applied[LogOf(Poller)] = 0
        /\ applied' = [applied EXCEPT ![LogOf(Poller)] = Count(@)] /\ recorded' = recorded
    BY <1>7, PollerMoves DEF Handle, At, OnceInv, PC
  <2>2. Count(0) \in {0, 1}
    BY DEF Count
  <2>3. applied \in [Log -> 0..MaxApplied]
    BY Parts DEF StoreInv
  <2>4. \A l \in Log : applied'[l] = IF l = LogOf(Poller) THEN Count(0) ELSE applied[l]
    BY <2>1, <2>3
  <2> QED BY <2>1, <2>2, <2>4 DEF OnceInv
<1>8. CASE AdvanceCursor(Poller) \/ WaitCancelled(Poller)
  BY <1>0, <1>8, PollerMoves DEF AdvanceCursor, WaitCancelled, OnceInv, dbVars
<1>9. CASE HandleFault(Poller)
  <2>1. hand'[Poller].pc \in {"idle", "advance"}
    BY <1>0, <1>9, PollerMoves DEF HandleFault, QuietInv, PC
  <2> QED BY <1>9, <2>1 DEF HandleFault, OnceInv, dbVars
<1>10. \/ Chain \/ Start \/ StartFault \/ Shutdown \/ PollBegin \/ PollQuery \/ PollFault
       \/ PollEnd \/ SaveCursor
       => UNCHANGED <<hand, recorded, applied>>
  BY DEF Shutdown, Chain, MineLog, MineBlock, Reorg, Start, Begin, StartFault, PollBegin, PollQuery, PollFault,
         PollEnd, SaveCursor, dbVars
<1>11. UNCHANGED vars => UNCHANGED <<hand, recorded, applied>>
  BY DEF vars, dbVars
<1> QED
  BY <1>1, <1>2, <1>3, <1>4, <1>5, <1>6, <1>7, <1>8, <1>9, <1>10, <1>11, PollOnlySteps
     DEF PollerStep

(* A watcher that only polls applies no log twice, however often it is     *)
(* fetched again after a failure, a restart or a reorganisation.           *)
THEOREM PollingAppliesOnce ==
    ASSUME PollOnly
    PROVE  Spec => []AppliedAtMostOnce
<1>1. OnceInv => AppliedAtMostOnce
  BY DEF OnceInv, AppliedAtMostOnce
<1> QED
  BY <1>1, QuietInit, QuietStep, OnceInit, OnceStep, WatchInvHolds, PTL DEF Spec

-----------------------------------------------------------------------------
(* The poll works through its range in order. *)

(* At the start no poll is under way.                                      *)
LEMMA OrderInit == Init => OrderInv
<1> SUFFICES ASSUME Init PROVE OrderInv
  OBVIOUS
<1>1. hand[Poller].pc = "idle"
  BY PollerIsProc DEF Init, Idle
<1> QED BY <1>1 DEF Init, OrderInv

(* Every step keeps the poll working through its range in order.           *)
LEMMA OrderStep ==
    ASSUME PollOnly, NoFaults, WatchInv, QuietInv, OrderInv, [Next]_vars
    PROVE  OrderInv'
<1> USE PollerIsProc
<1>0. Idle.pc = "idle"
  BY DEF Idle
<1>1. CASE UNCHANGED <<up, hand, pollVars, dbVars>>
  BY <1>1 DEF pollVars, dbVars, OrderInv, LogOf
<1>2. CASE Start \/ StartFault
  BY <1>2 DEF Start, Begin, StartFault, pollVars, dbVars, OrderInv, LogOf
<1>3. CASE Crash \/ Exit
  BY <1>0, <1>3 DEF Crash, Exit, ProcessEnds, OrderInv
<1>4. CASE PollerStep
  <2>1. /\ UNCHANGED <<up, pollVars>> /\ hand[Poller].pc # "idle" /\ recorded \subseteq recorded'
    BY <1>4 DEF PollerStep, Check, WaitConfirmations, WaitCancelled, InsertEvent, Handle, AdvanceCursor, At, dbVars
  <2>2. \/ Return(Poller)
        \/ Goto(Poller, "wait")
        \/ Goto(Poller, "insert")
        \/ Goto(Poller, "handle") /\ LogOf(Poller) \in recorded'
        \/ Goto(Poller, "advance") /\ LogOf(Poller) \in recorded'
    BY <1>4, <2>1 DEF PollerStep, Check, WaitConfirmations, WaitCancelled, InsertEvent, Handle, AdvanceCursor, At,
                      QuietInv, OrderInv
  <2>3. CASE Return(Poller)
    BY <1>0, <2>1, <2>3, PollerMoves DEF OrderInv, pollVars
  <2>4. ASSUME NEW label \in {"wait", "insert", "handle", "advance"}, Goto(Poller, label),
               label \in {"handle", "advance"} => LogOf(Poller) \in recorded'
        PROVE  OrderInv'
    <3>1. hand'[Poller].pc = label /\ LogOf(Poller)' = LogOf(Poller)
      BY <2>4, PollerMoves DEF PC
    <3> QED BY <2>1, <2>4, <3>1 DEF OrderInv, pollVars
  <2> QED BY <2>2, <2>3, <2>4
<1>5. CASE PollBegin
  <2>1. /\ UNCHANGED <<up, hand, pollTodo>> /\ up /\ pollTo = 0 /\ pollTo' = ToBlock
    BY <1>5 DEF PollBegin
  <2>2. pollTo' # 0
    <3>1. cursor \in Nat /\ latest \in Nat /\ Confirmations \in Nat
      BY BlockFacts, Parts DEF TypeChain, NumberInv
    <3> QED BY <1>5, <3>1 DEF PollBegin, FromBlock, ToBlock
  <2> QED BY <2>1, <2>2 DEF OrderInv
<1>8. CASE PollQuery
  <2>1. UNCHANGED <<up, hand, pollTo>> /\ pollFrom' = 0 /\ up /\ pollTo # 0 /\ hand[Poller].pc = "idle"
    BY <1>8 DEF PollQuery, OrderInv
  <2>2. \A l \in pollTodo' : BlockOf[l] <= pollTo
    BY <1>8, BlockFacts, Parts DEF PollQuery, PollInv
  <2> QED BY <2>1, <2>2 DEF OrderInv
<1>6. CASE PollNext
  <2>1. PICK l \in pollTodo :
            /\ \A k \in pollTodo : l <= k
            /\ hand' = [hand EXCEPT ![Poller] = StartOn([log |-> l, removed |-> FALSE])]
            /\ pollTodo' = pollTodo \ {l}
    BY <1>6 DEF PollNext
  <2>2. LogOf(Poller)' = l /\ hand'[Poller].pc = "check"
    BY <2>1, PollerMoves DEF LogOf, StartOn
  <2>3. \A k \in pollTodo : k \in Nat
    BY Parts DEF PollInv, Log
  <2>4. \A k \in pollTodo' : l < k
    BY <2>1, <2>3
  <2> QED BY <1>6, <2>1, <2>2, <2>4 DEF PollNext, OrderInv
<1>7. CASE PollEnd
  BY <1>7 DEF PollEnd, At, OrderInv, Poller
<1>9. CASE PollFault
  <2>1. /\ pollTodo' = {} /\ pollFrom' = 0 /\ pollTo' = 0 /\ hand' = hand /\ hand[Poller].pc = "idle"
    BY <1>9 DEF PollFault, OrderInv
  <2> QED BY <2>1 DEF OrderInv
<1> QED
  <2>1. CASE UNCHANGED vars \/ Chain \/ SaveCursor \/ Shutdown
    <3>1. UNCHANGED <<up, hand, pollFrom, pollTo, pollTodo, recorded>>
      BY <2>1 DEF vars, Shutdown, Chain, MineLog, MineBlock, Reorg, SaveCursor, pollVars, dbVars
    <3> QED BY <3>1 DEF OrderInv, LogOf
  <2>2. ~ HandleFault(Poller)
    BY DEF HandleFault, NoFaults
  <2> QED BY <1>9, <1>2, <1>3, <1>4, <1>5, <1>6, <1>7, <1>8, <2>1, <2>2, PollOnlySteps

-----------------------------------------------------------------------------
(* Nothing is lost. *)

(* A log appears on the chain only by being mined. *)
LEMMA OnlyMinedAppears ==
    ASSUME WatchInv, Chain, NEW l \in Log, OnChain(l)', ~ OnChain(l)
    PROVE  MineLog /\ l = mined + 1
<1>1. mined \in Nat /\ l \in Nat
  BY Parts DEF TypeChain, Log
<1>2. CASE MineLog
  <2>1. mined' = mined + 1 /\ off' = off
    BY <1>2 DEF MineLog
  <2>2. l <= mined + 1 /\ ~ (l <= mined)
    BY <2>1 DEF OnChain
  <2> QED BY <1>1, <1>2, <2>2
<1>3. CASE MineBlock
  BY <1>3 DEF MineBlock, OnChain
<1>4. CASE \E k \in Log : Reorg(k)
  BY <1>4 DEF Reorg, OnChain
<1> QED BY <1>2, <1>3, <1>4 DEF Chain

(* Logs that are still to be mined lie above every confirmed block. *)
LEMMA NewLogIsAbove ==
    ASSUME SomeConfirmation, WatchInv, MineLog
    PROVE  \A b \in {cursor, saved, pollTo} : ~ (BlockOf[mined + 1] <= b)
<1>1. /\ latest \in Nat /\ Confirmations \in Nat /\ Confirmations > 0
      /\ \A b \in {cursor, saved, pollTo} : b \in Nat /\ Deep(b)
  BY BlockFacts, Parts DEF TypeChain, NumberInv, PollInv, SomeConfirmation
<1>2. mined + 1 \in Log /\ BlockOf[mined + 1] >= latest /\ BlockOf[mined + 1] \in 1..MaxHeight
  BY <1>1, BlockFacts DEF MineLog
<1>3. MaxHeight \in Nat
  BY BlockFacts
<1> QED BY <1>1, <1>2, <1>3 DEF Deep

(* A log in the poller's hands stays there until it is recorded, while the *)
(* context lives. *)
LEMMA HandIsRecorded ==
    ASSUME WatchInv, QuietInv, PollerStep, ~ WaitCancelled(Poller)
    PROVE  \A l \in Log : InHand(l) => InHand(l)' \/ l \in recorded'
<1>1. CASE Check(Poller)
  <2>1. LogOf(Poller) \in recorded' \/ Goto(Poller, "wait")
    BY <1>1 DEF Check, AlreadyStored, dbVars
  <2>2. LogOf(Poller) \in recorded' \/
            (hand'[Poller].pc = "wait" /\ LogOf(Poller)' = LogOf(Poller))
    BY <2>1, PollerMoves DEF PC
  <2> QED BY <2>2 DEF InHand
<1>2. CASE WaitConfirmations(Poller)
  <2>1. Goto(Poller, "insert")
    BY <1>2 DEF WaitConfirmations, WaitCancelled, QuietInv
  <2>2. hand'[Poller].pc = "insert" /\ LogOf(Poller)' = LogOf(Poller)
    BY <2>1, PollerMoves DEF PC
  <2> QED BY <2>2 DEF InHand
<1>3. CASE InsertEvent(Poller)
  <2>1. LogOf(Poller) \in recorded'
    BY <1>3 DEF InsertEvent
  <2> QED BY <2>1 DEF InHand
<1>4. CASE Handle(Poller) \/ AdvanceCursor(Poller)
  <2>1. hand[Poller].pc \in {"handle", "advance"}
    BY <1>4 DEF Handle, AdvanceCursor, At
  <2> QED BY <2>1 DEF InHand
<1> QED BY <1>1, <1>2, <1>3, <1>4 DEF PollerStep

(* What is recorded is applied, unless a step is cut off. *)

(* The process is not stopped between two calls, and no call fails.        *)
Undisturbed == Env \cap {"crash", "shutdown", "fault"} = {}

(* A row without its effect is the one in the poller's hands.              *)
EffectInv ==
    \A l \in recorded : applied[l] > 0 \/ (hand[Poller].pc = "handle" /\ LogOf(Poller) = l)

(* The row and its effect are two calls, one after the other.              *)
LEMMA EffectStep ==
    ASSUME PollOnly, Undisturbed, WatchInv, QuietInv, EffectInv, [Next]_vars
    PROVE  EffectInv'
<1> USE PollerIsProc
<1>0. hand[Poller].pc = "handle" \/ \A l \in recorded : applied[l] > 0
  BY DEF EffectInv
<1>1. CASE UNCHANGED <<hand, recorded, applied>>
  BY <1>1 DEF EffectInv, LogOf
<1>2. CASE hand[Poller].pc # "handle" /\ UNCHANGED <<recorded, applied>>
  BY <1>0, <1>2 DEF EffectInv
<1>3. CASE InsertEvent(Poller)
  <2>1. /\ hand'[Poller].pc = "handle" /\ LogOf(Poller)' = LogOf(Poller)
        /\ recorded' = recorded \cup {LogOf(Poller)} /\ applied' = applied
        /\ \A l \in recorded : applied[l] > 0
    BY <1>0, <1>3, PollerMoves DEF InsertEvent, At, PC
  <2> QED BY <2>1 DEF EffectInv
<1>4. CASE Handle(Poller)
  <2>1. applied \in [Log -> 0..MaxApplied] /\ LogOf(Poller) \in Log /\ recorded \subseteq Log
    BY PollerMoves, Parts DEF StoreInv, Job, LogOf
  <2>2. applied' = [applied EXCEPT ![LogOf(Poller)] = Count(@)] /\ recorded' = recorded
    BY <1>4 DEF Handle
  <2>3. \A n \in 0..MaxApplied : Count(n) > 0 /\ Count(n) >= n
    BY BlockFacts DEF Count
  <2>4. \A l \in recorded : applied'[l] > 0
    BY <2>1, <2>2, <2>3 DEF EffectInv
  <2> QED BY <2>2, <2>4 DEF EffectInv
<1>5. ~ Crash /\ ~ Exit /\ ~ Shutdown /\ ~ StartFault /\ ~ HandleFault(Poller) /\ ~ PollFault
  BY Parts DEF NumberInv, Undisturbed, Crash, Exit, Shutdown, StartFault, HandleFault, PollFault
<1>6. \/ Check(Poller) \/ WaitConfirmations(Poller) \/ WaitCancelled(Poller)
      \/ AdvanceCursor(Poller) \/ PollNext
      => hand[Poller].pc # "handle" /\ UNCHANGED <<recorded, applied>>
  BY DEF Check, WaitConfirmations, WaitCancelled, AdvanceCursor, PollNext, At, dbVars
<1>7. Chain \/ Start \/ PollBegin \/ PollQuery \/ PollEnd \/ SaveCursor
      => UNCHANGED <<hand, recorded, applied>>
  BY DEF Chain, MineLog, MineBlock, Reorg, Start, Begin, PollBegin, PollQuery, PollEnd, SaveCursor, dbVars
<1>8. UNCHANGED vars => UNCHANGED <<hand, recorded, applied>>
  BY DEF vars, dbVars
<1> QED BY <1>1, <1>2, <1>3, <1>4, <1>5, <1>6, <1>7, <1>8, PollOnlySteps DEF PollerStep

(* The cursor moves ahead of the logs that share its block: what it covers *)
(* and the table lacks is still in the hands of the poll, unless it was    *)
(* left behind by a kill, in the block at which the next process began, or *)
(* given up by a poll whose context is cancelled, which records no more.   *)
Reached(b) == b <= cursor \/ b <= pollTo
LeftBehind(l) == BlockOf[l] \in resumed
GivingUp == cancelled /\ hand[Poller].pc # "insert"
NoStops == Env \cap {"crash", "shutdown"} = {}

RestInv ==
    /\ ~ up => cursor = 0 /\ (NoStops => saved = 0)
    /\ up => saved <= cursor
    /\ NoStops => resumed = {}
    /\ \A b \in resumed : b <= saved
    /\ pollFrom # 0 => cursor < pollFrom
    /\ \A l \in pollTodo : cursor <= BlockOf[l]
    /\ hand[Poller].pc # "idle" => cursor <= BlockOf[LogOf(Poller)]
    /\ \A l \in Log : OnChain(l) /\ base < BlockOf[l] /\ Reached(BlockOf[l])
            => \/ l \in recorded \/ l \in pollTodo \/ InHand(l) \/ Pending(l)
               \/ LeftBehind(l) \/ GivingUp
    /\ ~ up /\ ~ cancelled =>
          \A l \in Log : OnChain(l) /\ base < BlockOf[l] /\ BlockOf[l] <= saved
            => l \in recorded \/ LeftBehind(l) \/ BlockOf[l] = saved

(* At the start the cursor covers no block.                                *)
LEMMA RestInit == Init => RestInv
<1> SUFFICES ASSUME Init PROVE RestInv
  OBVIOUS
<1>1. \A l \in Log : ~ (BlockOf[l] <= 0)
  BY BlockFacts
<1>2. hand[Poller].pc = "idle"
  BY PollerIsProc DEF Init, Idle
<1> QED BY <1>1, <1>2 DEF Init, RestInv, Reached

(* Every step of the poll keeps what the cursor covers in sight.            *)
LEMMA RestStep ==
    ASSUME PollOnly, NoFaults, SomeConfirmation,
           WatchInv, QuietInv, OrderInv, RestInv, [Next]_vars
    PROVE  RestInv'
<1> USE PollerIsProc
<1>0. /\ \A l \in Log : l \in Nat /\ BlockOf[l] \in Nat /\ ~ (BlockOf[l] <= 0)
      /\ cursor \in Nat /\ base \in Nat /\ pollTo \in Nat /\ pollFrom \in Nat
      /\ saved \in Nat /\ resumed \subseteq Nat /\ pollTodo \subseteq Log
      /\ cancelled => "shutdown" \in Env
  BY BlockFacts, Parts DEF NumberInv, PollInv, Log
<1>13. Idle.pc = "idle"
  BY DEF Idle
<1>1. ASSUME UNCHANGED <<up, cursor, cancelled, pollFrom, pollTo, pollTodo, base, resumed, hand, recorded>>,
             saved' = saved \/ (up /\ saved' = cursor),
             \A l \in Log : OnChain(l)' =>
                 OnChain(l) \/ \A b \in {cursor, saved, pollTo} : ~ (BlockOf[l] <= b)
      PROVE  RestInv'
  <2>1. saved <= saved' /\ saved' \in Nat
    BY <1>0, <1>1 DEF RestInv
  <2>2. \A b \in resumed : b <= saved'
    BY <1>0, <2>1 DEF RestInv
  <2>3. \A l \in Log : /\ InHand(l)' <=> InHand(l)
                       /\ Pending(l)' <=> Pending(l)
                       /\ GivingUp' <=> GivingUp
                       /\ Reached(BlockOf[l])' <=> Reached(BlockOf[l])
    BY <1>1 DEF Reached, GivingUp, InHand, Pending, LogOf
  <2>4. \A l \in Log : OnChain(l)' /\ Reached(BlockOf[l]) => OnChain(l)
    BY <1>1 DEF Reached
  <2>5. \A l \in Log : ~ up /\ OnChain(l)' /\ BlockOf[l] <= saved' => OnChain(l)
    BY <1>1
  <2> QED BY <1>0, <1>1, <2>1, <2>2, <2>3, <2>4, <2>5 DEF RestInv, LeftBehind, LogOf
<1>2. CASE UNCHANGED vars \/ SaveCursor
  BY <1>1, <1>2 DEF vars, SaveCursor, chainVars, pollVars, dbVars, OnChain
<1>3. CASE Chain
  <2>1. UNCHANGED <<up, cursor, saved, cancelled, pollFrom, pollTo, pollTodo, base, resumed, hand, recorded>>
    BY <1>3 DEF Chain, MineLog, MineBlock, Reorg, pollVars, dbVars
  <2>2. \A l \in Log : OnChain(l)' /\ ~ OnChain(l) => MineLog /\ l = mined + 1
    BY <1>3, OnlyMinedAppears
  <2> QED BY <1>1, <2>1, <2>2, NewLogIsAbove
<1>4. CASE Start
  <2>1. /\ UNCHANGED <<pollFrom, pollTo, pollTodo, saved, hand, recorded, off, mined>>
        /\ up' /\ ~ cancelled' /\ ~ up
        /\ pollTo = 0 /\ pollFrom = 0 /\ pollTodo = {} /\ hand[Poller].pc = "idle"
        /\ saved # 0 => cursor' = saved /\ ~ NoStops
        /\ IF saved # 0 /\ ~ cancelled
           THEN base' = base /\ resumed' = resumed \cup {saved}
           ELSE base' = cursor' /\ resumed' = {}
    BY <1>4 DEF Start, Begin, StartCursor, OrderInv, RestInv, chainVars, pollVars, dbVars
  <2>2. cursor' \in Nat
    BY <1>0, <1>4, BlockFacts, Parts DEF Start, Begin, StartCursor, TypeChain, NumberInv
  <2>3. /\ saved <= cursor' /\ \A b \in resumed' : b <= saved
        /\ NoStops => resumed' = {}
    <3>1. saved <= cursor'
      BY <1>0, <2>1, <2>2
    <3>2. \A b \in resumed' : b \in resumed \/ b = saved
      BY <2>1
    <3>3. saved <= saved /\ \A b \in resumed : b <= saved
      BY <1>0 DEF RestInv
    <3>4. NoStops => resumed' = {}
      BY <2>1 DEF RestInv
    <3> QED BY <3>1, <3>2, <3>3, <3>4
  <2>4. ASSUME NEW l \in Log, OnChain(l)', base' < BlockOf[l], Reached(BlockOf[l])'
        PROVE  l \in recorded' \/ LeftBehind(l)'
    <3>1. BlockOf[l] <= cursor'
      BY <1>0, <2>1, <2>4 DEF Reached
    <3>2. base' # cursor'
      BY <1>0, <2>2, <2>4, <3>1
    <3>3. saved # 0 /\ ~ cancelled /\ base' = base /\ resumed' = resumed \cup {saved} /\ cursor' = saved
      BY <2>1, <3>2
    <3>4. l \in recorded \/ LeftBehind(l) \/ BlockOf[l] = saved
      BY <2>1, <2>4, <3>1, <3>3 DEF RestInv, OnChain
    <3> QED BY <2>1, <3>3, <3>4 DEF LeftBehind
  <2> QED BY <2>1, <2>2, <2>3, <2>4 DEF RestInv
<1>11. CASE Crash \/ Exit
  <2>1. /\ up /\ ~ up' /\ cursor' = 0 /\ pollFrom' = 0 /\ pollTo' = 0 /\ pollTodo' = {}
        /\ hand'[Poller] = Idle /\ ~ NoStops
        /\ UNCHANGED <<mined, off, recorded, saved, cancelled, base, resumed>>
    BY <1>0, <1>11 DEF Crash, Exit, ProcessEnds, NoStops, chainVars, dbVars
  <2>2. ASSUME ~ cancelled, NEW l \in Log, OnChain(l), base < BlockOf[l], BlockOf[l] <= saved
        PROVE  l \in recorded \/ LeftBehind(l) \/ BlockOf[l] = saved
    <3>1. saved <= cursor /\ BlockOf[l] <= cursor
      BY <1>0, <2>1, <2>2 DEF RestInv
    <3>2. ~ GivingUp /\ Reached(BlockOf[l]) /\ ~ Pending(l)
      BY <1>0, <2>2, <3>1 DEF GivingUp, Reached, Pending, RestInv
    <3>3. l \in pollTodo \/ InHand(l) => cursor <= BlockOf[l]
      BY DEF RestInv, InHand
    <3> QED BY <1>0, <2>2, <3>1, <3>2, <3>3 DEF RestInv
  <2>3. \A l \in Log : ~ Reached(BlockOf[l])'
    BY <1>0, <2>1 DEF Reached
  <2>4. \A b \in resumed' : b <= saved'
    BY <2>1 DEF RestInv
  <2> QED BY <1>13, <2>1, <2>2, <2>3, <2>4 DEF RestInv, LeftBehind, OnChain
<1>14. CASE Shutdown
  <2>1. /\ UNCHANGED <<chainVars, up, cursor, hand, pollVars, dbVars, base, resumed>>
        /\ cancelled' /\ ~ cancelled /\ up
    BY <1>14 DEF Shutdown
  <2> QED
    BY <2>1 DEF RestInv, Reached, InHand, Pending, LeftBehind, GivingUp, OnChain, LogOf,
                chainVars, pollVars, dbVars
<1>5. CASE PollerStep
  <2>1. /\ UNCHANGED <<chainVars, pollVars, saved, cancelled, base, resumed, up>>
        /\ recorded \subseteq recorded'
        /\ hand[Poller].pc # "idle" /\ up
    BY <1>5 DEF PollerStep, Check, WaitConfirmations, WaitCancelled, InsertEvent, Handle,
                AdvanceCursor, At, dbVars
  <2>2. /\ LogOf(Poller) \in Log /\ BlockOf[LogOf(Poller)] <= pollTo /\ pollFrom = 0
        /\ \A l \in pollTodo : LogOf(Poller) < l
    BY <2>1, JobFacts DEF OrderInv
  <2>3. cursor' = cursor \/ (cursor' = Top(cursor, BlockOf[LogOf(Poller)]) /\ Return(Poller))
    BY <1>5 DEF PollerStep, Check, WaitConfirmations, WaitCancelled, InsertEvent, Handle,
                AdvanceCursor, BlockOfJob
  <2>4. \A l \in Log : Reached(BlockOf[l])' => Reached(BlockOf[l])
    BY <1>0, <2>1, <2>2, <2>3 DEF Reached, Top, pollVars
  <2>5. cursor <= cursor' /\ cursor' \in Nat
    BY <1>0, <2>2, <2>3 DEF Top
  <2>6. \A l \in pollTodo : cursor' <= BlockOf[l]
    <3>1. \A l \in pollTodo : BlockOf[LogOf(Poller)] <= BlockOf[l]
      BY <1>0, <2>2, BlockAssumption
    <3> QED BY <1>0, <2>2, <2>3, <3>1 DEF RestInv, Top
  <2>7. hand'[Poller].pc # "idle" => cursor' = cursor /\ LogOf(Poller)' = LogOf(Poller)
    <3>1. Return(Poller) \/ \E label \in PC : Goto(Poller, label)
      BY <1>5 DEF PollerStep, Check, WaitConfirmations, WaitCancelled, InsertEvent, Handle,
                  AdvanceCursor, PC
    <3>2. Return(Poller) => hand'[Poller].pc = "idle"
      BY <1>13, PollerMoves
    <3> QED BY <2>3, <3>1, <3>2, PollerMoves
  <2>8. GivingUp => GivingUp'
    BY <1>5, <1>13, <2>1, PollerMoves
       DEF GivingUp, PollerStep, Check, WaitConfirmations, WaitCancelled, InsertEvent, Handle,
           AdvanceCursor, PC, At
  <2>9. \A l \in Log : InHand(l) => InHand(l)' \/ l \in recorded' \/ GivingUp'
    <3>1. WaitCancelled(Poller) => GivingUp'
      BY <1>13, <2>1, PollerMoves DEF WaitCancelled, GivingUp
    <3> QED BY <1>5, <3>1, HandIsRecorded
  <2>10. \A l \in Log : ~ Pending(l) /\ (LeftBehind(l)' <=> LeftBehind(l)) /\ (OnChain(l)' <=> OnChain(l))
    BY <2>1, <2>2 DEF Pending, LeftBehind, OnChain, chainVars
  <2>11. \A l \in Log : OnChain(l)' /\ base' < BlockOf[l] /\ Reached(BlockOf[l])'
            => \/ l \in recorded' \/ l \in pollTodo' \/ InHand(l)'
               \/ LeftBehind(l)' \/ GivingUp'
    BY <2>1, <2>4, <2>8, <2>9, <2>10 DEF RestInv, pollVars
  <2>12. UNCHANGED <<pollFrom, pollTodo>>
    BY <2>1 DEF pollVars
  <2>13. saved <= cursor' /\ (hand'[Poller].pc # "idle" => cursor' <= BlockOf[LogOf(Poller)'])
    BY <1>0, <2>1, <2>5, <2>7 DEF RestInv
  <2> QED BY <2>1, <2>2, <2>6, <2>11, <2>12, <2>13 DEF RestInv
<1>6. CASE PollBegin
  <2>1. /\ UNCHANGED <<chainVars, cursor, hand, pollTodo, dbVars, runVars, up>> /\ up /\ ~ cancelled
        /\ pollFrom' = cursor + 1 /\ pollTo = 0 /\ pollTodo = {} /\ hand[Poller].pc = "idle"
    BY <1>6 DEF PollBegin, FromBlock, OrderInv
  <2>2. ASSUME NEW l \in Log, OnChain(l), base < BlockOf[l]
        PROVE  l \in recorded \/ Pending(l)' \/ LeftBehind(l)
    <3>1. CASE BlockOf[l] <= cursor
      BY <2>1, <2>2, <3>1 DEF RestInv, Reached, OrderInv, InHand, Pending, GivingUp
    <3>2. CASE ~ (BlockOf[l] <= cursor)
      BY <1>0, <2>1, <3>2 DEF Pending
    <3> QED BY <3>1, <3>2
  <2> QED BY <1>0, <2>1, <2>2 DEF RestInv, LeftBehind, OnChain, chainVars, dbVars
<1>7. CASE PollQuery
  <2>1. /\ UNCHANGED <<chainVars, cursor, hand, pollTo, dbVars, runVars, up>> /\ pollFrom' = 0 /\ up
        /\ pollTodo = {} /\ hand[Poller].pc = "idle" /\ cursor < pollFrom /\ ~ cancelled
        /\ pollTodo' = {l \in Log : OnChain(l) /\ BlockOf[l] \in pollFrom..pollTo}
    BY <1>7 DEF PollQuery, OrderInv, RestInv
  <2>2. ASSUME NEW l \in Log, OnChain(l), Reached(BlockOf[l]), Pending(l)
        PROVE  l \in pollTodo'
    BY <1>0, <2>1, <2>2 DEF Pending, Reached
  <2>3. \A l \in Log : ~ InHand(l)
    BY <2>1 DEF InHand
  <2>4. \A l \in pollTodo' : cursor <= BlockOf[l]
    BY <1>0, <2>1
  <2> QED
    BY <2>1, <2>2, <2>3, <2>4
       DEF RestInv, LeftBehind, OnChain, Reached, GivingUp, chainVars, dbVars
<1>8. CASE PollNext
  <2>1. PICK l \in pollTodo :
            /\ hand' = [hand EXCEPT ![Poller] = StartOn([log |-> l, removed |-> FALSE])]
            /\ pollTodo' = pollTodo \ {l}
    BY <1>8 DEF PollNext
  <2>2. LogOf(Poller)' = l /\ hand'[Poller].pc = "check" /\ hand[Poller].pc = "idle"
    BY <1>8, <2>1, PollerMoves DEF LogOf, StartOn, PollNext, At
  <2>3. InHand(l)' /\ \A k : ~ InHand(k)
    BY <2>2 DEF InHand
  <2>4. UNCHANGED <<chainVars, cursor, pollFrom, pollTo, dbVars, runVars, up>> /\ up
    BY <1>8 DEF PollNext, At
  <2>5. (GivingUp => GivingUp') /\ cursor <= BlockOf[l]
    BY <2>1, <2>2, <2>4 DEF GivingUp, RestInv
  <2> QED
    BY <2>1, <2>2, <2>3, <2>4, <2>5
       DEF RestInv, LeftBehind, Reached, Pending, OnChain, chainVars, dbVars
<1>9. CASE PollEnd
  <2>1. /\ pollTodo = {} /\ hand[Poller].pc = "idle" /\ pollFrom = 0 /\ pollFrom' = 0 /\ up
        /\ pollTo' = 0 /\ cursor' = Top(cursor, pollTo)
        /\ UNCHANGED <<chainVars, dbVars, runVars, hand, pollTodo, up>>
    BY <1>9 DEF PollEnd, At
  <2>2. \A l \in Log : Reached(BlockOf[l])' => Reached(BlockOf[l])
    BY <1>0, <2>1 DEF Reached, Top
  <2>3. \A l \in Log : ~ InHand(l) /\ ~ Pending(l)
    BY <2>1 DEF InHand, Pending
  <2>4. cursor' \in Nat /\ cursor <= cursor' /\ saved <= cursor'
    BY <1>0, <2>1 DEF Top, RestInv
  <2> QED
    BY <1>0, <2>1, <2>2, <2>3, <2>4
       DEF RestInv, LeftBehind, OnChain, GivingUp, chainVars, dbVars
<1>12. CASE PollFault
  <2>1. /\ cancelled /\ up /\ pollFrom' = 0 /\ pollTo' = 0 /\ pollTodo = {} /\ hand[Poller].pc = "idle"
        /\ UNCHANGED <<chainVars, up, cursor, hand, pollTodo, dbVars, runVars>>
    BY <1>12 DEF PollFault, OrderInv, NoFaults
  <2> QED BY <2>1 DEF RestInv, LeftBehind, GivingUp, OnChain, chainVars, dbVars
<1>10. ~ StartFault /\ ~ HandleFault(Poller)
  BY DEF NoFaults, StartFault, HandleFault
<1> QED
  BY <1>2, <1>3, <1>4, <1>5, <1>6, <1>7, <1>8, <1>9, <1>10, <1>11, <1>12, <1>14, PollOnlySteps

(* A watcher that only polls, and whose calls succeed, loses through a kill *)
(* at most what was left of one block, however many logs share a block,     *)
(* wherever it is killed and started again and whatever the chain drops; a  *)
(* shutdown is where its accounting stops and begins anew.                  *)
THEOREM PollingPassesNoBlockOver ==
    ASSUME PollOnly, NoFaults, SomeConfirmation
    PROVE  Spec => []PassesNoBlockOver
<1>1. ASSUME WatchInv, RestInv PROVE PassesNoBlockOver
  <2> SUFFICES ASSUME ~ cancelled, NEW l \in Log, NEW c \in {cursor, saved},
                      OnChain(l), base < BlockOf[l], BlockOf[l] <= c
               PROVE  \/ l \in recorded
                      \/ BlockOf[l] = cursor /\ Polled(l)
                      \/ BlockOf[l] \in resumed
                      \/ ~ up /\ BlockOf[l] = saved
    BY DEF PassesNoBlockOver
  <2>1. cursor \in Nat /\ saved \in Nat /\ pollFrom \in Nat /\ BlockOf[l] \in Nat /\ BlockOf[l] > 0
    BY <1>1, BlockFacts, Parts DEF NumberInv, PollInv
  <2>2. CASE ~ up
    BY <1>1, <2>1, <2>2 DEF RestInv, LeftBehind
  <2>3. CASE up
    <3>1. BlockOf[l] <= cursor
      BY <1>1, <2>1, <2>3 DEF RestInv
    <3>2. Reached(BlockOf[l]) /\ ~ Pending(l) /\ ~ GivingUp
      BY <1>1, <2>1, <3>1 DEF RestInv, Reached, Pending, GivingUp
    <3>3. l \in pollTodo \/ InHand(l) => BlockOf[l] = cursor /\ Polled(l)
      BY <1>1, <2>1, <3>1 DEF RestInv, InHand, Polled
    <3> QED BY <1>1, <3>2, <3>3 DEF RestInv, LeftBehind
  <2> QED BY <2>2, <2>3
<1> QED
  BY <1>1, QuietInit, QuietStep, OrderInit, OrderStep, RestInit, RestStep, WatchInvHolds, PTL
     DEF Spec

(* At rest, every log the chain has between the block the watcher began at *)
(* and its cursor has had its effect, and has had it once.                 *)
SettledAppliedOnce ==
    Settled => \A l \in Log : OnChain(l) /\ base < BlockOf[l] /\ BlockOf[l] <= cursor
                               => applied[l] = 1

(* The shipped, poll-only watcher, while no call fails and the process is   *)
(* not stopped: at rest every row has had its effect, and the effects are the   *)
(* chain's, each exactly once, however many logs share a block.  With a     *)
(* kill this is false: MCWatcherHalf.cfg (a row without its effect) and    *)
(* MCWatcherSameBlock.cfg (a log lost behind the cursor).                   *)
THEOREM PollingSettles ==
    ASSUME PollOnly, Undisturbed, SomeConfirmation
    PROVE  Spec => [](SettledRecordedIsApplied /\ SettledAppliedOnce)
<1>0. NoFaults
  BY DEF Undisturbed, NoFaults
<1>1. Init => EffectInv
  BY DEF Init, EffectInv
<1>2. Spec => [](EffectInv /\ RestInv /\ QuietInv /\ OrderInv)
  BY <1>0, <1>1, QuietInit, QuietStep, OrderInit, OrderStep, RestInit, RestStep, EffectStep,
     WatchInvHolds, PTL DEF Spec
<1>3. EffectInv => SettledRecordedIsApplied
  BY PollerIsProc DEF EffectInv, Settled, SettledRecordedIsApplied
<1>4. ASSUME WatchInv, RestInv, OrderInv, AppliedAtMostOnce, SettledRecordedIsApplied
      PROVE  SettledAppliedOnce
  <2> SUFFICES ASSUME Settled, NEW l \in Log, OnChain(l), base < BlockOf[l], BlockOf[l] <= cursor
               PROVE  applied[l] = 1
    BY DEF SettledAppliedOnce
  <2>1. pollFrom = 0 /\ pollTodo = {} /\ hand[Poller].pc = "idle"
    BY <1>4 DEF Settled, OrderInv
  <2>2. l \in recorded
    <3>1. NoStops /\ ~ GivingUp
      BY <1>4, Parts DEF NumberInv, Undisturbed, NoStops, GivingUp
    <3> QED BY <1>4, <2>1, <3>1 DEF RestInv, Reached, InHand, Pending, LeftBehind
  <2>3. applied[l] \in Nat /\ applied[l] > 0 /\ applied[l] <= 1
    BY <1>4, <2>2, BlockFacts DEF WatchInv, TypeOK, SettledRecordedIsApplied, AppliedAtMostOnce
  <2> QED BY <2>3
<1> QED BY <1>2, <1>3, <1>4, WatchInvHolds, PollingAppliesOnce, PTL

-----------------------------------------------------------------------------
(* The effects come in the order of the chain. *)

(* What the poll has still to record.                                      *)
Waiting(l) == l \in pollTodo \/ InHand(l)

(* A log that is not in the table is later than every one that is, unless  *)
(* it lies where no poll looks any more: behind the first cursor or behind *)
(* a saved one.                                                            *)
SequenceInv ==
    /\ saved = 0 => base = 0 \/ base + Lookback <= latest
    /\ up => base <= cursor
    /\ saved = 0 \/ base <= saved
    /\ \A l \in Log \ recorded :
          \/ Waiting(l)
          \/ OnChain(l) /\ base < BlockOf[l] /\ saved < BlockOf[l]
          => \A k \in recorded : k < l
    /\ hand[Poller].pc = "handle" => \A k \in recorded : k <= LogOf(Poller)

(* At the start the table is empty. *)
LEMMA SequenceInit == Init => SequenceInv
<1> SUFFICES ASSUME Init PROVE SequenceInv
  OBVIOUS
<1>1. hand[Poller].pc = "idle"
  BY PollerIsProc DEF Init, Idle
<1> QED BY <1>1 DEF Init, SequenceInv

(* Every step keeps the table in the order of the chain.                   *)
LEMMA SequenceStep ==
    ASSUME PollOnly, NoFaults, SomeConfirmation,
           WatchInv, QuietInv, OrderInv, RestInv, OnceInv, SequenceInv, [Next]_vars
    PROVE  SequenceInv'
<1> USE PollerIsProc
<1>0. /\ \A l \in Log : l \in Nat /\ BlockOf[l] \in Nat
      /\ cursor \in Nat /\ saved \in Nat /\ base \in Nat /\ pollFrom \in Nat /\ pollTo \in Nat
      /\ latest \in Nat /\ mined \in Nat /\ Lookback \in Nat
      /\ recorded \subseteq Log /\ \A k \in recorded : k <= mined
  BY BlockFacts, Parts DEF TypeChain, NumberInv, PollInv, StoreInv, Settling, Log
<1>1. CASE Chain
  <2>0. latest' \in {latest, latest + 1}
    BY <1>1 DEF Chain, MineLog, MineBlock, Reorg
  <2>1. UNCHANGED <<up, cursor, saved, pollTodo, base, hand, recorded>>
    BY <1>1 DEF Chain, MineLog, MineBlock, Reorg, pollVars, dbVars
  <2>2. \A l \in Log : OnChain(l)' /\ ~ OnChain(l) => \A k \in recorded : k < l
    BY <1>0, <1>1, OnlyMinedAppears
  <2>3. saved = 0 => base = 0 \/ base + Lookback <= latest'
    BY <1>0, <2>0 DEF SequenceInv
  <2>4. \A l \in Log : Waiting(l)' => Waiting(l)
    BY <2>1 DEF Waiting, InHand, LogOf
  <2>5. \A l \in Log \ recorded :
           Waiting(l)' \/ (OnChain(l)' /\ base < BlockOf[l] /\ saved < BlockOf[l])
           => \A k \in recorded : k < l
    BY <2>2, <2>4 DEF SequenceInv
  <2> QED BY <2>1, <2>3, <2>5 DEF SequenceInv, LogOf
<1>2. CASE Start
  <2>1. /\ UNCHANGED <<latest, mined, off, pollTodo, hand, saved, recorded>> /\ up'
        /\ pollTodo = {} /\ hand[Poller].pc = "idle"
    BY <1>2 DEF Start, Begin, OrderInv, chainVars, pollVars, dbVars
  <2>2. /\ saved # 0 => cursor' = saved /\ base' \in {base, saved}
        /\ saved = 0 => base' = cursor'
        /\ saved = 0 => cursor' = IF latest > Lookback THEN latest - Lookback ELSE 0
    BY <1>2 DEF Start, Begin, StartCursor
  <2>3. base <= base' /\ base' \in Nat /\ (saved = 0 => base' = 0 \/ base' + Lookback <= latest)
    BY <1>0, <2>2 DEF SequenceInv
  <2>4. base' <= cursor' /\ (saved = 0 \/ base' <= saved)
    BY <1>0, <2>2 DEF SequenceInv
  <2>5. \A l \in Log : Waiting(l)' => Waiting(l)
    BY <2>1 DEF Waiting, InHand
  <2>6. ASSUME NEW l \in Log \ recorded,
               Waiting(l)' \/ (OnChain(l)' /\ base' < BlockOf[l] /\ saved < BlockOf[l])
        PROVE  \A k \in recorded : k < l
    <3>1. OnChain(l)' => OnChain(l)
      BY <2>1 DEF OnChain
    <3>2. base' < BlockOf[l] => base < BlockOf[l]
      BY <1>0, <2>3
    <3> QED BY <2>5, <2>6, <3>1, <3>2 DEF SequenceInv
  <2>7. hand'[Poller].pc # "handle"
    BY <2>1
  <2> QED BY <2>1, <2>3, <2>4, <2>6, <2>7 DEF SequenceInv
<1>3. CASE Crash \/ Exit
  <2>1. /\ UNCHANGED <<latest, mined, off, saved, recorded, base>> /\ ~ up' /\ pollTodo' = {}
        /\ hand'[Poller].pc = "idle"
    BY <1>3 DEF Crash, Exit, ProcessEnds, chainVars, dbVars, Idle
  <2> QED BY <1>0, <2>1 DEF SequenceInv, OnChain, Waiting, InHand
<1>4. CASE PollerStep
  <2>0. /\ UNCHANGED <<latest, mined, off, pollFrom, pollTo, pollTodo, saved, base, up>>
        /\ hand[Poller].pc # "idle" /\ up
    BY <1>4 DEF PollerStep, Check, WaitConfirmations, WaitCancelled, InsertEvent, Handle, AdvanceCursor, At,
                chainVars, pollVars, dbVars
  <2>1. LogOf(Poller) \in Log /\ BlockOf[LogOf(Poller)] <= pollTo /\ pollFrom = 0
        /\ \A l \in pollTodo : LogOf(Poller) < l
    BY <2>0, JobFacts DEF OrderInv
  <2>2. cursor' = cursor \/ cursor' = Top(cursor, BlockOf[LogOf(Poller)])
    BY <1>4 DEF PollerStep, Check, WaitConfirmations, WaitCancelled, InsertEvent, Handle, AdvanceCursor, BlockOfJob
  <2>3. base <= cursor'
    BY <1>0, <2>0, <2>1, <2>2 DEF SequenceInv, Top
  <2>4. CASE InsertEvent(Poller)
    <3>1. /\ hand[Poller].pc = "insert" /\ recorded' = recorded \cup {LogOf(Poller)}
          /\ hand'[Poller].pc = "handle" /\ LogOf(Poller)' = LogOf(Poller)
          /\ LogOf(Poller) \notin recorded
      BY <2>4, PollerMoves DEF InsertEvent, At, OnceInv, PC
    <3>2. \A k \in recorded : k < LogOf(Poller)
      BY <2>1, <3>1 DEF SequenceInv, Waiting, InHand
    <3>3. ASSUME NEW l \in Log \ recorded', OnChain(l), base < BlockOf[l], saved < BlockOf[l],
                 l < LogOf(Poller)
          PROVE  FALSE
      <4>1. BlockOf[l] <= BlockOf[LogOf(Poller)]
        BY <1>0, <2>1, <3>3, BlockAssumption
      <4>2. Reached(BlockOf[l]) /\ ~ LeftBehind(l) /\ ~ Pending(l) /\ ~ GivingUp
        <5>1. \A b \in resumed : b \in Nat /\ b <= saved
          BY Parts DEF NumberInv, RestInv
        <5> QED BY <1>0, <2>1, <3>1, <3>3, <4>1, <5>1 DEF Reached, LeftBehind, Pending, GivingUp
      <4>3. l \notin pollTodo /\ ~ InHand(l)
        BY <1>0, <2>1, <3>3 DEF InHand
      <4> QED BY <3>1, <3>3, <4>2, <4>3 DEF RestInv
    <3>4. ASSUME NEW l \in Log \ recorded',
                 \/ Waiting(l)'
                 \/ OnChain(l) /\ base < BlockOf[l] /\ saved < BlockOf[l]
          PROVE  \A k \in recorded' : k < l
      <4>1. l # LogOf(Poller) /\ (Waiting(l)' => l \in pollTodo)
        BY <2>0, <3>1, <3>4 DEF Waiting, InHand
      <4>2. LogOf(Poller) < l
        BY <1>0, <2>1, <3>3, <3>4, <4>1
      <4> QED BY <1>0, <2>1, <3>1, <3>2, <4>2
    <3>5. \A k \in recorded' : k <= LogOf(Poller)'
      BY <1>0, <2>1, <3>1, <3>2
    <3> QED BY <2>0, <2>3, <3>4, <3>5 DEF SequenceInv, OnChain
  <2>5. CASE ~ InsertEvent(Poller)
    <3>1. recorded' = recorded
      BY <1>4, <2>5 DEF PollerStep, Check, WaitConfirmations, WaitCancelled, Handle, AdvanceCursor, dbVars
    <3>2. hand'[Poller].pc # "handle" /\ \A l \in Log : InHand(l)' => InHand(l)
      <4>1. CASE Check(Poller)
        <5>1. Return(Poller) \/ Goto(Poller, "wait")
          BY <4>1 DEF Check
        <5>2. hand[Poller].pc = "check"
          BY <4>1 DEF Check, At
        <5> QED BY <5>1, <5>2, PollerMoves DEF InHand, PC, Idle
      <4>2. CASE WaitConfirmations(Poller)
        <5>1. Goto(Poller, "insert") /\ hand[Poller].pc = "wait"
          BY <4>2 DEF WaitConfirmations, WaitCancelled, QuietInv, At
        <5> QED BY <5>1, PollerMoves DEF InHand, PC
      <4>3. CASE Handle(Poller)
        <5>1. Goto(Poller, "advance")
          BY <4>3 DEF Handle
        <5> QED BY <5>1, PollerMoves DEF InHand, PC
      <4>4. CASE AdvanceCursor(Poller) \/ WaitCancelled(Poller)
        <5>1. Return(Poller)
          BY <4>4 DEF AdvanceCursor, WaitCancelled
        <5> QED BY <5>1, PollerMoves DEF InHand, Idle
      <4> QED BY <1>4, <2>5, <4>1, <4>2, <4>3, <4>4 DEF PollerStep
    <3> QED BY <2>0, <2>3, <3>1, <3>2 DEF SequenceInv, Waiting, OnChain
  <2> QED BY <2>4, <2>5
<1>5. CASE PollBegin
  BY <1>5 DEF PollBegin, SequenceInv, Waiting, InHand, OnChain, LogOf, chainVars, dbVars
<1>6. CASE PollQuery
  <2>1. /\ UNCHANGED <<latest, mined, off, up, cursor, saved, base, hand, recorded>> /\ up
        /\ pollFrom # 0
        /\ pollTodo' = {l \in Log : OnChain(l) /\ BlockOf[l] \in pollFrom..pollTo}
    BY <1>6 DEF PollQuery, chainVars, dbVars
  <2>2. base < pollFrom /\ saved < pollFrom
    BY <1>0, <2>1 DEF RestInv, SequenceInv
  <2>3. \A l \in pollTodo' : l \in Log /\ OnChain(l) /\ base < BlockOf[l] /\ saved < BlockOf[l]
    BY <1>0, <2>1, <2>2
  <2> QED BY <2>1, <2>3 DEF SequenceInv, Waiting, InHand, OnChain, LogOf
<1>7. CASE PollNext
  <2>1. PICK l \in pollTodo :
            /\ hand' = [hand EXCEPT ![Poller] = StartOn([log |-> l, removed |-> FALSE])]
            /\ pollTodo' = pollTodo \ {l}
    BY <1>7 DEF PollNext
  <2>2. LogOf(Poller)' = l /\ hand'[Poller].pc = "check"
    BY <2>1, PollerMoves DEF LogOf, StartOn
  <2>3. \A k \in Log : Waiting(k)' => k \in pollTodo
    BY <2>1, <2>2 DEF Waiting, InHand
  <2>4. UNCHANGED <<latest, mined, off, up, cursor, saved, base, recorded>>
    BY <1>7 DEF PollNext, chainVars, dbVars
  <2> QED BY <2>2, <2>3, <2>4 DEF SequenceInv, Waiting, OnChain
<1>8. CASE PollEnd
  <2>1. /\ UNCHANGED <<latest, mined, off, up, saved, base, hand, pollTodo, recorded>>
        /\ cursor <= cursor' /\ cursor' \in Nat
    BY <1>0, <1>8 DEF PollEnd, Top, chainVars, dbVars
  <2> QED BY <1>0, <2>1 DEF SequenceInv, Waiting, InHand, OnChain, LogOf
<1>9. CASE SaveCursor
  <2>1. /\ UNCHANGED <<latest, mined, off, up, cursor, base, hand, pollTodo, recorded>>
        /\ up /\ saved' = cursor
    BY <1>9 DEF SaveCursor, chainVars, pollVars
  <2>2. saved <= saved' /\ base <= saved' /\ saved' \in Nat /\ (saved' = 0 => saved = 0)
    BY <1>0, <2>1 DEF RestInv, SequenceInv
  <2>3. \A l \in Log : saved' < BlockOf[l] => saved < BlockOf[l]
    BY <1>0, <2>2
  <2> QED BY <2>1, <2>2, <2>3 DEF SequenceInv, Waiting, InHand, OnChain, LogOf
<1>10. CASE UNCHANGED vars
  BY <1>10 DEF vars, chainVars, pollVars, dbVars, SequenceInv, Waiting, InHand, OnChain, LogOf
<1>11. ~ StartFault /\ ~ HandleFault(Poller)
  BY DEF NoFaults, StartFault, HandleFault
<1>12. CASE PollFault \/ Shutdown
  <2>1. UNCHANGED <<latest, mined, off, up, cursor, saved, base, hand, pollTodo, recorded>>
    BY <1>12 DEF PollFault, Shutdown, chainVars, pollVars, dbVars
  <2> QED BY <2>1 DEF SequenceInv, Waiting, InHand, OnChain, LogOf
<1> QED
  BY <1>1, <1>2, <1>3, <1>4, <1>5, <1>6, <1>7, <1>8, <1>9, <1>10, <1>11, <1>12, PollOnlySteps

(* What holds in every state of a poll-only watcher whose calls succeed.   *)
LedgerInv ==
    WatchInv /\ QuietInv /\ StaysInv /\ OnceInv /\ OrderInv /\ RestInv /\ SequenceInv

LEMMA LedgerInvHolds ==
    ASSUME PollOnly, NoFaults, ShallowReorgs, SomeConfirmation
    PROVE  Spec => []LedgerInv
BY QuietInit, QuietStep, StaysInit, StaysStep, OnceInit, OnceStep, OrderInit, OrderStep,
   RestInit, RestStep, SequenceInit, SequenceStep, WatchInvHolds, PTL DEF Spec, LedgerInv

(* A step of the chain is one of the ledger: what is dropped is not final. *)
LEMMA ChainIsLedgerStep ==
    ASSUME ShallowReorgs, WatchInv, Chain
    PROVE  Promised!Grow \/ \E l \in Log : Promised!Drop(l)
<1>0. /\ \A l \in Log : l \in Nat /\ BlockOf[l] \in Nat
      /\ latest \in Nat /\ mined \in Nat /\ Confirmations \in Nat /\ ReorgDepth \in Nat
  BY BlockFacts, BoundsAssumption, Parts DEF TypeChain, Log
<1>1. applied' = applied
  BY DEF Chain, MineLog, MineBlock, Reorg, dbVars
<1>2. CASE MineLog \/ MineBlock
  <2>1. off' = off /\ mined' \in {mined, mined + 1} /\ latest' \in {latest, latest + 1}
    BY <1>2 DEF MineLog, MineBlock
  <2>2. \A l \in Log : (OnChain(l) => OnChain(l)') /\ (Confirmed(l) => Confirmed(l)')
    BY <1>0, <2>1 DEF OnChain, Confirmed
  <2>3. \A l \in Log : OnChain(l)' => l \notin off
    BY <2>1 DEF OnChain
  <2> QED BY <1>1, <2>1, <2>2, <2>3 DEF Promised!Grow
<1>3. CASE \E l \in Log : Reorg(l)
  <2>1. PICK l \in Log : Reorg(l)
    BY <1>3
  <2>2. OnChain(l) /\ off' = off \cup {l} /\ mined' = mined /\ latest' = latest
    BY <2>1 DEF Reorg
  <2>3. ~ Confirmed(l)
    BY <1>0, <2>1 DEF Reorg, Confirmed, ShallowReorgs
  <2>4. \A k \in Log : /\ OnChain(k)' <=> OnChain(k) /\ k # l
                       /\ Confirmed(k)' <=> Confirmed(k)
    BY <2>2 DEF OnChain, Confirmed
  <2>5. {k \in Log : OnChain(k)}' = {k \in Log : OnChain(k)} \ {l}
    BY <2>4
  <2>6. {k \in Log : OnChain(k) /\ Confirmed(k)}' = {k \in Log : OnChain(k) /\ Confirmed(k)}
    BY <2>3, <2>4
  <2> QED BY <1>1, <2>2, <2>3, <2>5, <2>6 DEF Promised!Drop
<1> QED BY <1>2, <1>3 DEF Chain

(* The poller's call of Handle applies the log in its hands.               *)
LEMMA HandleIsApply ==
    ASSUME LedgerInv, Handle(Poller)
    PROVE  LogOf(Poller) \in Log /\ Promised!Apply(LogOf(Poller))
<1> USE PollerIsProc DEF LedgerInv
<1> DEFINE l == LogOf(Poller)
<1>1. hand[Poller].pc = "handle" /\ UNCHANGED chainVars
  BY DEF Handle, At
<1>2. l \in Log /\ l <= mined /\ Confirmed(l) /\ applied \in [Log -> 0..MaxApplied]
  BY <1>1, JobFacts, Parts DEF HandInv, StoreInv, Past
<1>3. OnChain(l)
  BY <1>1, <1>2 DEF StaysInv, SafeLog, OnChain
<1>4. \A k \in Log : k >= l => applied[k] = 0
  <2>1. applied[l] = 0 /\ \A k \in Log : applied[k] # 0 => k \in recorded
    BY <1>1 DEF OnceInv
  <2>2. \A k \in recorded : k <= l
    BY <1>1 DEF SequenceInv
  <2>3. \A k \in Log : k \in Nat
    BY DEF Log
  <2> QED BY <1>2, <2>1, <2>2, <2>3
<1>5. applied' = [applied EXCEPT ![l] = 1]
  <2>1. applied' = [applied EXCEPT ![l] = Count(@)]
    BY DEF Handle
  <2>2. applied[l] = 0 /\ Count(0) = 1
    BY <1>2, <1>4, BlockFacts DEF Count, Log
  <2> QED BY <1>2, <2>1, <2>2
<1>6. UNCHANGED <<{k \in Log : OnChain(k)}, {k \in Log : OnChain(k) /\ Confirmed(k)}, off>>
  BY <1>1 DEF chainVars, OnChain, Confirmed
<1> QED BY <1>2, <1>3, <1>4, <1>5, <1>6 DEF Promised!Apply

(* All but the chain and Handle change nothing the ledger shows.           *)
LEMMA QuietSteps ==
    ASSUME PollOnly, NoFaults, LedgerInv, [Next]_vars, ~ Chain, ~ Handle(Poller)
    PROVE  UNCHANGED <<chainVars, applied>>
<1>1. \/ Start \/ Shutdown \/ Exit \/ Crash
      \/ PollBegin \/ PollQuery \/ PollFault \/ PollNext \/ PollEnd \/ SaveCursor
      \/ Check(Poller) \/ WaitConfirmations(Poller) \/ WaitCancelled(Poller)
      \/ InsertEvent(Poller) \/ AdvanceCursor(Poller)
      => UNCHANGED <<chainVars, applied>>
  BY DEF Start, Begin, Shutdown, Exit, Crash, ProcessEnds, PollBegin, PollQuery, PollFault,
         PollNext, PollEnd, SaveCursor, Check, WaitConfirmations, WaitCancelled, InsertEvent, AdvanceCursor, dbVars
<1>2. ~ StartFault /\ ~ HandleFault(Poller)
  BY DEF NoFaults, StartFault, HandleFault
<1>3. UNCHANGED vars => UNCHANGED <<chainVars, applied>>
  BY DEF vars, dbVars
<1> QED BY <1>1, <1>2, <1>3, PollOnlySteps DEF LedgerInv, PollerStep

(* Every step is one of the ledger, or changes nothing it shows.           *)
LEMMA LedgerStep ==
    ASSUME PollOnly, NoFaults, ShallowReorgs, LedgerInv, [Next]_vars
    PROVE  [Promised!Next]_(Promised!ledgerVars)
<1>1. CASE Chain
  BY <1>1, ChainIsLedgerStep DEF LedgerInv, Promised!Next
<1>2. CASE Handle(Poller)
  BY <1>2, HandleIsApply DEF Promised!Next
<1>3. CASE ~ Chain /\ ~ Handle(Poller)
  BY <1>3, QuietSteps DEF Promised!ledgerVars, chainVars, OnChain, Confirmed
<1> QED BY <1>1, <1>2, <1>3

(* The poll-only watcher, when its calls succeed and reorganisations are    *)
(* shallower than the confirmations, keeps its promise: through polls cut   *)
(* off by a stop of the process and repeated after the next start, effects  *)
(* come in the order of the chain, once at most, and only of final logs.    *)
THEOREM PollingImplementsLedger ==
    ASSUME PollOnly, NoFaults, ShallowReorgs, SomeConfirmation
    PROVE  Spec => ImplementsLedger
<1>1. Init => Promised!Init
  <2> SUFFICES ASSUME Init PROVE Promised!Init
    OBVIOUS
  <2>1. \A l \in Log : ~ OnChain(l)
    BY DEF Init, OnChain, Log
  <2> QED BY <2>1 DEF Init, Promised!Init
<1> QED BY <1>1, LedgerInvHolds, LedgerStep, PTL DEF Spec, ImplementsLedger, Promised!Spec

-----------------------------------------------------------------------------
(* The watcher as written, with a subscription beside the poll. *)

(* A process goes on with its job or ends it; the others keep theirs.      *)
LEMMA Moves ==
    ASSUME WatchInv, NEW p \in Proc
    PROVE  /\ \A label \in PC : Goto(p, label) =>
                 /\ hand'[p].pc = label /\ hand'[p].log = hand[p].log
                 /\ hand'[p].removed = hand[p].removed
                 /\ \A q \in Proc : q # p => hand'[q] = hand[q]
           /\ Return(p) =>
                 /\ hand'[p] = Idle
                 /\ \A q \in Proc : q # p => hand'[q] = hand[q]
<1>1. hand \in [Proc -> Job] /\ hand[p] \in Job
  BY Parts DEF HandInv
<1>2. ASSUME NEW label \in PC, Goto(p, label)
      PROVE  /\ hand'[p].pc = label /\ hand'[p].log = hand[p].log
             /\ hand'[p].removed = hand[p].removed
             /\ \A q \in Proc : q # p => hand'[q] = hand[q]
  BY <1>1, <1>2 DEF Goto, Job
<1>3. ASSUME Return(p)
      PROVE  hand'[p] = Idle /\ \A q \in Proc : q # p => hand'[q] = hand[q]
  <2> HIDE DEF Idle
  <2> QED BY <1>1, <1>3 DEF Return
<1> QED BY <1>2, <1>3

(* Receive gives the oldest notification to a free goroutine, or to nobody. *)
LEMMA Receives ==
    ASSUME WatchInv, Receive
    PROVE  /\ feed # <<>> /\ feed' = Tail(feed)
           /\ \/ hand' = hand
              \/ \E p \in 1..SemCap :
                    /\ hand[p].pc = "idle" /\ hand'[p] = StartOn(Head(feed))
                    /\ \A q \in Proc : q # p => hand'[q] = hand[q]
<1>1. CASE \E p \in Free : hand' = [hand EXCEPT ![p] = StartOn(Head(feed))]
  <2>1. PICK p \in Free : hand' = [hand EXCEPT ![p] = StartOn(Head(feed))]
    BY <1>1
  <2>2. p \in 1..SemCap /\ p \in Proc /\ hand[p].pc = "idle" /\ hand \in [Proc -> Job]
    BY BlockFacts, Parts DEF Free, Proc, HandInv
  <2> HIDE DEF StartOn
  <2> QED BY <2>1, <2>2 DEF Receive
<1>2. CASE UNCHANGED hand
  BY <1>2 DEF Receive
<1> QED BY <1>1, <1>2 DEF Receive

(* A row without its effect is in the hands of the goroutine that wrote it. *)
RowInv ==
    \A l \in recorded :
        applied[l] > 0 \/ \E p \in Proc : hand[p].pc = "handle" /\ LogOf(p) = l

(* A goroutine about to call Handle is left alone by all others.           *)
LEMMA RowKept ==
    ASSUME RowInv, NEW p \in Proc, hand[p].pc # "handle",
           \A q \in Proc : q # p => hand'[q] = hand[q],
           recorded' \subseteq recorded, applied' = applied
    PROVE  RowInv'
<1> SUFFICES ASSUME NEW l \in recorded', ~ (applied'[l] > 0)
             PROVE  \E q \in Proc : hand'[q].pc = "handle" /\ hand'[q].log = l
  BY DEF RowInv, LogOf
<1>1. PICK q \in Proc : hand[q].pc = "handle" /\ LogOf(q) = l
  BY DEF RowInv
<1> QED BY <1>1 DEF LogOf

(* The row and its effect are two calls of one goroutine.                  *)
LEMMA RowStep ==
    ASSUME Undisturbed, WatchInv, RowInv, [Next]_vars
    PROVE  RowInv'
<1>1. CASE UNCHANGED <<hand, recorded, applied>>
  BY <1>1 DEF RowInv, LogOf
<1>2. ASSUME NEW p \in Proc, InsertEvent(p) PROVE RowInv'
  <2>1. /\ hand[p].pc = "insert" /\ hand'[p].pc = "handle" /\ hand'[p].log = LogOf(p)
        /\ \A q \in Proc : q # p => hand'[q] = hand[q]
        /\ recorded' = recorded \cup {LogOf(p)} /\ applied' = applied
    BY <1>2, Moves DEF InsertEvent, At, PC, LogOf
  <2> SUFFICES ASSUME NEW l \in recorded', ~ (applied'[l] > 0)
               PROVE  \E q \in Proc : hand'[q].pc = "handle" /\ hand'[q].log = l
    BY DEF RowInv, LogOf
  <2>2. CASE l = LogOf(p)
    BY <2>1, <2>2
  <2>3. CASE l # LogOf(p)
    <3>1. PICK q \in Proc : hand[q].pc = "handle" /\ LogOf(q) = l
      BY <2>1, <2>3 DEF RowInv
    <3> QED BY <2>1, <3>1 DEF LogOf
  <2> QED BY <2>2, <2>3
<1>3. ASSUME NEW p \in Proc, Handle(p) PROVE RowInv'
  <2>1. /\ applied \in [Log -> 0..MaxApplied] /\ recorded \subseteq Log /\ LogOf(p) \in Log
        /\ hand[p].pc = "handle"
    BY <1>3, JobFacts, Parts DEF StoreInv, Handle, At
  <2>2. /\ applied' = [applied EXCEPT ![LogOf(p)] = Count(@)] /\ recorded' = recorded
        /\ \A q \in Proc : q # p => hand'[q] = hand[q]
    BY <1>3, Moves DEF Handle, PC
  <2>3. \A n \in 0..MaxApplied : Count(n) > 0
    BY BlockFacts DEF Count
  <2> SUFFICES ASSUME NEW l \in recorded', ~ (applied'[l] > 0)
               PROVE  \E q \in Proc : hand'[q].pc = "handle" /\ hand'[q].log = l
    BY DEF RowInv, LogOf
  <2>4. l # LogOf(p) /\ ~ (applied[l] > 0)
    BY <2>1, <2>2, <2>3
  <2>5. PICK q \in Proc : hand[q].pc = "handle" /\ LogOf(q) = l
    BY <2>2, <2>4 DEF RowInv
  <2> QED BY <2>2, <2>4, <2>5 DEF LogOf
<1>4. ASSUME NEW p \in Proc,
             \/ Check(p) \/ WaitConfirmations(p) \/ WaitCancelled(p) \/ AdvanceCursor(p)
             \/ MarkRemoved(p) \/ RollbackCursor(p) \/ DeleteEventsAboveBlock(p)
      PROVE  RowInv'
  <2>1. hand[p].pc # "handle" /\ recorded' \subseteq recorded /\ applied' = applied
    BY <1>4 DEF Check, WaitConfirmations, WaitCancelled, AdvanceCursor, MarkRemoved, RollbackCursor,
                DeleteEventsAboveBlock, At, dbVars
  <2>2. Return(p) \/ \E label \in PC : Goto(p, label)
    BY <1>4 DEF Check, WaitConfirmations, WaitCancelled, AdvanceCursor, MarkRemoved, RollbackCursor,
                DeleteEventsAboveBlock, PC
  <2> QED BY <2>1, <2>2, Moves, RowKept
<1>5. CASE Receive
  <2>1. recorded' = recorded /\ applied' = applied
    BY <1>5 DEF Receive, dbVars
  <2>2. ASSUME NEW p \in 1..SemCap, hand[p].pc = "idle",
               \A q \in Proc : q # p => hand'[q] = hand[q]
        PROVE  RowInv'
    BY <2>1, <2>2, RowKept, BlockFacts DEF Proc
  <2> QED BY <1>1, <1>5, <2>1, <2>2, Receives
<1>6. CASE PollNext
  <2>1. /\ hand[Poller].pc = "idle" /\ UNCHANGED <<recorded, applied>>
        /\ \A q \in Proc : q # Poller => hand'[q] = hand[q]
    BY <1>6, Parts DEF PollNext, At, dbVars, HandInv
  <2> QED BY <2>1, PollerIsProc, RowKept
<1>7. /\ ~ Crash /\ ~ Exit /\ ~ Shutdown /\ ~ StartFault /\ ~ PollFault
      /\ \A p \in Proc : ~ HandleFault(p)
  BY Parts DEF NumberInv, Undisturbed, Crash, Exit, Shutdown, StartFault, HandleFault, PollFault
<1>8. \/ Chain \/ Start \/ Subscribe \/ SubscriptionError \/ PollBegin \/ PollQuery \/ PollEnd
      \/ SaveCursor \/ UNCHANGED vars
      => UNCHANGED <<hand, recorded, applied>>
  BY DEF Chain, MineLog, MineBlock, Reorg, Start, Begin, Subscribe, SubscriptionError, PollBegin,
         PollQuery, PollEnd, SaveCursor, dbVars, vars
<1> QED
  BY <1>1, <1>2, <1>3, <1>4, <1>5, <1>6, <1>7, <1>8 DEF Next, Program, HandleLog

(* With a subscription too, dropped notifications, reorganisations of any   *)
(* depth, rollbacks and purges included: while the process runs and calls   *)
(* succeed, no row of the events table is left behind without its effect    *)
(* when the watcher comes to rest.  What the check against the table skips  *)
(* has been handled.                                                        *)
THEOREM RecordedTakesEffect ==
    ASSUME Undisturbed
    PROVE  Spec => []SettledRecordedIsApplied
<1>1. Init => RowInv
  BY DEF Init, RowInv
<1>2. RowInv => SettledRecordedIsApplied
  BY DEF RowInv, SettledRecordedIsApplied, Settled
<1> QED BY <1>1, <1>2, RowStep, WatchInvHolds, PTL DEF Spec

(* How often one log can take effect when none is removed from the chain.  *)
NoReorgs == "reorg" \notin Env

Busy(p) == hand[p].pc # "idle"
Subscriber == 1..SemCap

(* Each log is notified of once, in chain order, and goes to one goroutine. *)
NotifyInv ==
    /\ \A i \in 1..Len(feed) : ~ feed[i].removed
    /\ \A p \in Proc : Busy(p) =>
          /\ ~ hand[p].removed
          /\ hand[p].pc \in {"check", "wait", "insert", "handle", "advance"}
    /\ \A i, j \in 1..Len(feed) : i < j => feed[i].log < feed[j].log
    /\ \A p \in Subscriber : Busy(p) => \A i \in 1..Len(feed) : LogOf(p) < feed[i].log
    /\ \A p, q \in Subscriber : Busy(p) /\ Busy(q) /\ p # q => LogOf(p) # LogOf(q)

(* At the start nothing is notified of and nobody is busy.                 *)
LEMMA NotifyInit == Init => NotifyInv
<1> SUFFICES ASSUME Init PROVE NotifyInv
  OBVIOUS
<1>1. Len(feed) = 0 /\ \A p \in Proc : ~ Busy(p)
  BY DEF Init, Busy, Idle
<1>2. \A p \in Subscriber : p \in Proc
  BY BlockFacts DEF Subscriber, Proc
<1> QED BY <1>1, <1>2 DEF NotifyInv

(* A step that starts nothing and notifies of nothing keeps this.          *)
LEMMA NotifyKept ==
    ASSUME NotifyInv, feed' = feed,
           \A p \in Proc : Busy(p)' =>
               /\ Busy(p) /\ hand'[p].log = hand[p].log /\ hand'[p].removed = hand[p].removed
               /\ hand'[p].pc \in {"check", "wait", "insert", "handle", "advance"}
    PROVE  NotifyInv'
<1>1. \A p \in Subscriber : p \in Proc
  BY BlockFacts DEF Subscriber, Proc
<1> QED BY <1>1 DEF NotifyInv, LogOf

(* Every step keeps it.                                                    *)
LEMMA NotifyStep ==
    ASSUME NoReorgs, WatchInv, NotifyInv, [Next]_vars
    PROVE  NotifyInv'
<1>0. /\ \A p \in Subscriber : p \in Proc /\ p # Poller
      /\ Poller \in Proc /\ Poller \notin Subscriber
      /\ hand \in [Proc -> Job]
      /\ feed \in Seq(Notification) /\ mined \in Nat
      /\ \A i \in 1..Len(feed) : feed[i].log \in Nat /\ feed[i].log <= mined
      /\ \A p \in Proc : Busy(p) => LogOf(p) \in Nat /\ LogOf(p) <= mined
  <2>1. /\ \A p \in Subscriber : p \in Proc /\ p # Poller
        /\ Poller \in Proc /\ Poller \notin Subscriber
    BY BlockFacts DEF Subscriber, Proc, Poller
  <2>2. \A p \in Proc : Busy(p) => LogOf(p) \in Nat /\ LogOf(p) <= mined
    BY JobFacts DEF Busy, Log
  <2>3. /\ hand \in [Proc -> Job] /\ feed \in Seq(Notification) /\ mined \in Nat
        /\ \A i \in 1..Len(feed) : feed[i].log <= mined
    BY Parts DEF HandInv, WireInv, TypeChain
  <2>4. \A i \in 1..Len(feed) : feed[i] \in Notification
    BY <2>3
  <2>5. \A n \in Notification : n.log \in Nat
    BY DEF Notification, Log
  <2> QED BY <2>1, <2>2, <2>3, <2>4, <2>5
<1>1. CASE UNCHANGED <<hand, feed>>
  BY <1>1 DEF NotifyInv, LogOf, Busy
<1>2. CASE MineLog
  <2>1. hand' = hand /\ mined + 1 \in Log
    BY <1>2 DEF MineLog
  <2>2. CASE feed' = feed
    BY <1>1, <2>1, <2>2
  <2>3. CASE feed' = Append(feed, [log |-> mined + 1, removed |-> FALSE])
    <3>1. /\ Len(feed') = Len(feed) + 1
          /\ \A i \in 1..Len(feed) : feed'[i] = feed[i]
          /\ feed'[Len(feed) + 1] = [log |-> mined + 1, removed |-> FALSE]
      BY <1>0, <2>1, <2>3 DEF Notification
    <3>2. \A i \in 1..Len(feed') : feed'[i] = IF i <= Len(feed) THEN feed[i]
                                              ELSE [log |-> mined + 1, removed |-> FALSE]
      BY <1>0, <3>1
    <3>3. \A i \in 1..Len(feed') : ~ feed'[i].removed
      BY <1>0, <3>1, <3>2 DEF NotifyInv
    <3>4. \A i, j \in 1..Len(feed') : i < j => feed'[i].log < feed'[j].log
      BY <1>0, <3>1, <3>2 DEF NotifyInv
    <3>5. \A p \in Subscriber : Busy(p) => \A i \in 1..Len(feed') : LogOf(p) < feed'[i].log
      BY <1>0, <3>1, <3>2 DEF NotifyInv
    <3> QED BY <2>1, <3>3, <3>4, <3>5 DEF NotifyInv, LogOf, Busy
  <2> QED BY <1>2, <2>2, <2>3 DEF MineLog, Notify
<1>3. CASE Receive
  <2>1. feed # <<>> /\ feed' = Tail(feed)
    BY <1>3, Receives
  <2>2. /\ Len(feed') = Len(feed) - 1 /\ Len(feed) \in Nat \ {0}
        /\ \A i \in 1..Len(feed') : feed'[i] = feed[i + 1]
        /\ Head(feed) = feed[1]
    BY <1>0, <2>1
  <2>3. /\ \A i \in 1..Len(feed') : ~ feed'[i].removed
        /\ \A i, j \in 1..Len(feed') : i < j => feed'[i].log < feed'[j].log
        /\ \A p \in Subscriber : Busy(p) => \A i \in 1..Len(feed') : LogOf(p) < feed'[i].log
    <3>1. \A i \in 1..Len(feed') : i \in Nat /\ i + 1 \in 1..Len(feed)
      BY <2>2
    <3>2. \A i, j \in 1..Len(feed') : i < j => i + 1 < j + 1
      BY <3>1
    <3> QED BY <2>2, <3>1, <3>2 DEF NotifyInv
  <2>4. CASE hand' = hand
    BY <2>3, <2>4 DEF NotifyInv, LogOf, Busy
  <2>5. ASSUME NEW p \in Subscriber, ~ Busy(p), hand'[p] = StartOn(Head(feed)),
               \A q \in Proc : q # p => hand'[q] = hand[q]
        PROVE  NotifyInv'
    <3>1. /\ hand'[p].log = feed[1].log /\ hand'[p].pc = "check"
          /\ ~ hand'[p].removed
      BY <2>2, <2>5 DEF StartOn, NotifyInv
    <3>2. \A i \in 1..Len(feed') : hand'[p].log < feed'[i].log
      BY <2>2, <3>1 DEF NotifyInv
    <3>3. \A q \in Subscriber : Busy(q) => LogOf(q) < hand'[p].log
      BY <2>2, <3>1 DEF NotifyInv
    <3>4. \A q \in Subscriber : q # p /\ Busy(q)' => Busy(q) /\ LogOf(q)' = LogOf(q)
      BY <1>0, <2>5 DEF Busy, LogOf
    <3>5. \A q \in Subscriber : Busy(q)' => \A i \in 1..Len(feed') : LogOf(q)' < feed'[i].log
      BY <2>3, <3>2, <3>4 DEF LogOf
    <3>6. \A q, r \in Subscriber : Busy(q)' /\ Busy(r)' /\ q # r => LogOf(q)' # LogOf(r)'
      <4>1. \A q \in Subscriber : q # p /\ Busy(q)' => LogOf(q)' # LogOf(p)'
        BY <1>0, <3>3, <3>4 DEF LogOf
      <4> QED BY <3>4, <4>1 DEF NotifyInv
    <3>7. \A q \in Proc : Busy(q)' =>
            /\ ~ hand'[q].removed
            /\ hand'[q].pc \in {"check", "wait", "insert", "handle", "advance"}
      BY <2>5, <3>1 DEF NotifyInv, Busy
    <3> QED BY <2>3, <3>5, <3>6, <3>7 DEF NotifyInv
  <2> QED BY <1>3, <2>4, <2>5, Receives DEF Subscriber, Busy
<1>4. ASSUME NEW p \in Proc,
             \/ Check(p) \/ WaitConfirmations(p) \/ WaitCancelled(p) \/ InsertEvent(p)
             \/ Handle(p) \/ AdvanceCursor(p) \/ HandleFault(p)
      PROVE  NotifyInv'
  <2>1. Busy(p) /\ feed' = feed /\ hand[p].pc # "mark" /\ ~ hand[p].removed
    BY <1>4 DEF Check, WaitConfirmations, WaitCancelled, InsertEvent, Handle, AdvanceCursor, HandleFault, At,
                Busy, wireVars, NotifyInv
  <2>2. \/ Return(p)
        \/ \E label \in {"wait", "insert", "handle", "advance"} : Goto(p, label)
    BY <1>4, <2>1 DEF Check, WaitConfirmations, WaitCancelled, InsertEvent, Handle, AdvanceCursor, HandleFault
  <2>3. CASE Return(p)
    BY <2>1, <2>3, Moves, NotifyKept DEF Busy, Idle, NotifyInv
  <2>4. ASSUME NEW label \in {"wait", "insert", "handle", "advance"}, Goto(p, label)
        PROVE  NotifyInv'
    <3>1. label \in PC
      BY DEF PC
    <3> QED BY <2>1, <2>4, <3>1, Moves, NotifyKept DEF Busy, NotifyInv
  <2> QED BY <2>2, <2>3, <2>4
<1>5. \A p \in Proc : ~ MarkRemoved(p) /\ ~ RollbackCursor(p) /\ ~ DeleteEventsAboveBlock(p)
  BY DEF NotifyInv, Busy, MarkRemoved, RollbackCursor, DeleteEventsAboveBlock, At
<1>6. CASE PollNext
  <2>1. PICK l \in pollTodo : hand' = [hand EXCEPT ![Poller] = StartOn([log |-> l, removed |-> FALSE])]
    BY <1>6 DEF PollNext
  <2>2. /\ hand'[Poller].pc = "check" /\ ~ hand'[Poller].removed
        /\ \A q \in Proc : q # Poller => hand'[q] = hand[q]
    BY <1>0, <2>1 DEF StartOn
  <2>3. feed' = feed
    BY <1>6 DEF PollNext, wireVars
  <2>4. \A q \in Proc : Busy(q)' =>
            /\ ~ hand'[q].removed
            /\ hand'[q].pc \in {"check", "wait", "insert", "handle", "advance"}
    BY <2>2 DEF NotifyInv, Busy
  <2>5. \A q \in Subscriber : hand'[q] = hand[q]
    BY <1>0, <2>2
  <2> QED BY <2>3, <2>4, <2>5 DEF NotifyInv, LogOf, Busy
<1>7. CASE Crash \/ Exit \/ SubscriptionError
  <2>1. Len(feed') = 0 /\ (hand' = hand \/ \A p \in Proc : ~ Busy(p)')
    BY <1>7 DEF Crash, Exit, ProcessEnds, SubscriptionError, Busy, Idle
  <2> QED BY <1>0, <2>1 DEF NotifyInv, LogOf, Busy
<1>8. \A l \in Log : ~ Reorg(l)
  BY DEF NoReorgs, Reorg
<1>9. \/ MineBlock \/ Start \/ StartFault \/ Subscribe \/ PollBegin \/ PollQuery \/ PollFault
      \/ PollEnd \/ SaveCursor \/ Shutdown \/ UNCHANGED vars
      => UNCHANGED <<hand, feed>>
  BY DEF Shutdown, MineBlock, Start, Begin, StartFault, Subscribe, PollBegin, PollQuery, PollFault, PollEnd,
         SaveCursor, wireVars, vars
<1> QED
  BY <1>1, <1>2, <1>3, <1>4, <1>5, <1>6, <1>7, <1>8, <1>9 DEF Next, Program, Chain, HandleLog

(* A log has two chances to take effect: its notification, until the one    *)
(* goroutine it goes to has called Handle, and the polls, until there is a  *)
(* row and no poll holds the log past its check.                            *)
Unhandled == {"check", "wait", "insert", "handle"}
Checked == {"wait", "insert", "handle"}

SubMay(l) ==
    \/ l > mined
    \/ \E i \in 1..Len(feed) : feed[i].log = l
    \/ \E p \in Subscriber : hand[p].pc \in Unhandled /\ LogOf(p) = l

PollMay(l) == l \notin recorded \/ (hand[Poller].pc \in Checked /\ LogOf(Poller) = l)

(* Each effect has used up one of the two.                                  *)
ChanceInv ==
    /\ \A p \in Proc : hand[p].pc = "handle" => LogOf(p) \in recorded
    /\ \A l \in Log :
          /\ applied[l] > 0 => l \in recorded
          /\ applied[l] <= 2
          /\ SubMay(l) \/ PollMay(l) => applied[l] <= 1
          /\ SubMay(l) /\ PollMay(l) => applied[l] = 0

(* No step without an effect gives a log another chance, ...                *)
LEMMA ChanceKept ==
    ASSUME ChanceInv, applied' = applied, recorded \subseteq recorded',
           \A p \in Proc : hand'[p].pc = "handle" => hand'[p].log \in recorded',
           \A l \in Log : (SubMay(l)' => SubMay(l)) /\ (PollMay(l)' => PollMay(l))
    PROVE  ChanceInv'
BY DEF ChanceInv, LogOf

(* ... and a goroutine that goes on with its job least of all.              *)
LEMMA JobKeepsChance ==
    ASSUME WatchInv, NEW p \in Proc, UNCHANGED <<mined, feed>>, recorded \subseteq recorded',
           \A q \in Proc : q # p => hand'[q] = hand[q],
           hand'[p].pc \in Unhandled => hand[p].pc \in Unhandled /\ hand'[p].log = hand[p].log,
           hand'[p].pc \in Checked => hand[p].pc \in Checked \/ hand[p].log \notin recorded
    PROVE  \A l \in Log : (SubMay(l)' => SubMay(l)) /\ (PollMay(l)' => PollMay(l))
<1>1. Subscriber \subseteq Proc /\ Poller \in Proc /\ Checked \subseteq Unhandled
  BY BlockFacts DEF Subscriber, Proc, Poller, Checked, Unhandled
<1> TAKE l \in Log
<1>2. SubMay(l)' => SubMay(l)
  BY <1>1 DEF SubMay, LogOf
<1>3. PollMay(l)' => PollMay(l)
  BY <1>1 DEF PollMay, LogOf
<1> QED BY <1>2, <1>3

(* A call of Handle uses up the chance it was made by.                      *)
LEMMA HandleSpendsChance ==
    ASSUME WatchInv, NotifyInv, ChanceInv, NEW p \in Proc, Handle(p)
    PROVE  ChanceInv'
<1> SUFFICES ASSUME NEW k \in Log, k = LogOf(p)
             PROVE  ChanceInv'
  BY JobFacts DEF Handle, At
<1>0. Subscriber \subseteq Proc /\ Poller \in Proc /\ Subscriber = Proc \ {Poller}
  BY BlockFacts DEF Subscriber, Proc, Poller
<1>1. /\ hand[p].pc = "handle" /\ hand'[p].pc = "advance" /\ hand'[p].log = k
      /\ \A q \in Proc : q # p => hand'[q] = hand[q]
      /\ UNCHANGED <<mined, feed, recorded>>
      /\ applied' = [applied EXCEPT ![k] = Count(@)]
  BY Moves DEF Handle, At, PC, chainVars, wireVars, LogOf
<1>2. /\ k \in Log /\ k \in recorded /\ k <= mined /\ mined \in Nat /\ k \in Nat
      /\ applied \in [Log -> 0..MaxApplied] /\ MaxApplied \in Nat
  BY <1>1, JobFacts, BlockFacts, Parts DEF ChanceInv, StoreInv, TypeChain, Log
<1>3. \A l \in Log : (SubMay(l)' => SubMay(l)) /\ (PollMay(l)' => PollMay(l))
  BY <1>1, JobKeepsChance DEF Unhandled, Checked
<1>4. /\ applied[k] \in Nat /\ applied'[k] \in Nat /\ applied'[k] <= applied[k] + 1
      /\ \A l \in Log : l # k => applied'[l] = applied[l]
  BY <1>1, <1>2 DEF Count
<1>7. ASSUME applied'[k] <= 2,
              SubMay(k)' \/ PollMay(k)' => applied'[k] <= 1,
              ~ (SubMay(k)' /\ PollMay(k)')
       PROVE  ChanceInv'
  <2>1. \A q \in Proc : hand'[q].pc = "handle" => LogOf(q)' \in recorded'
    BY <1>1 DEF ChanceInv, LogOf
  <2>2. ASSUME NEW l \in Log, l # k
        PROVE  /\ applied'[l] > 0 => l \in recorded'
               /\ applied'[l] <= 2
               /\ SubMay(l)' \/ PollMay(l)' => applied'[l] <= 1
               /\ SubMay(l)' /\ PollMay(l)' => applied'[l] = 0
    BY <1>1, <1>3, <1>4, <2>2 DEF ChanceInv
  <2> QED BY <1>1, <1>2, <1>7, <2>1, <2>2 DEF ChanceInv
<1>5. CASE p \in Subscriber
  <2>1. SubMay(k)
    BY <1>1, <1>5 DEF SubMay, Unhandled
  <2>2. ~ SubMay(k)'
    <3>1. Busy(p) /\ \A i \in 1..Len(feed) : feed[i].log # k
      <4>1. Busy(p) /\ \A i \in 1..Len(feed) : k < feed[i].log
        BY <1>1, <1>5 DEF NotifyInv, Busy
      <4>2. \A i \in 1..Len(feed) : feed[i].log # k
        BY <1>2, <4>1
      <4> QED BY <4>1, <4>2
    <3>2. \A q \in Subscriber : q # p /\ hand[q].pc \in Unhandled => LogOf(q) # k
      BY <1>5, <3>1 DEF NotifyInv, Busy, Unhandled
    <3>3. \A q \in Subscriber : hand'[q].pc \in Unhandled => hand'[q].log # k
      BY <1>0, <1>1, <3>2 DEF Unhandled, LogOf
    <3>4. ~ (k > mined)
      BY <1>2
    <3> QED BY <1>1, <3>1, <3>3, <3>4 DEF SubMay, LogOf
  <2>3. applied[k] <= 1 /\ (PollMay(k) => applied[k] = 0)
    BY <1>2, <2>1 DEF ChanceInv
  <2>4. applied'[k] <= 2
    BY <1>2, <1>4, <2>3
  <2>5. PollMay(k)' => applied'[k] <= 1
    <3> HAVE PollMay(k)'
    <3>1. PollMay(k) BY <1>2, <1>3
    <3> QED BY <1>2, <1>4, <2>3, <3>1
  <2> QED BY <1>7, <2>2, <2>4, <2>5
<1>6. CASE p = Poller
  <2>1. PollMay(k) /\ ~ PollMay(k)'
    BY <1>1, <1>2, <1>6 DEF PollMay, Checked, LogOf
  <2>2. applied[k] <= 1 /\ (SubMay(k) => applied[k] = 0)
    BY <1>2, <2>1 DEF ChanceInv
  <2>3. applied'[k] <= 2
    BY <1>2, <1>4, <2>2
  <2>4. SubMay(k)' => applied'[k] <= 1
    <3> HAVE SubMay(k)'
    <3>1. SubMay(k) BY <1>2, <1>3
    <3> QED BY <1>2, <1>4, <2>2, <3>1
  <2> QED BY <1>7, <2>1, <2>3, <2>4
<1> QED BY <1>0, <1>5, <1>6

(* At the start no log has had an effect.                                  *)
LEMMA ChanceInit == Init => ChanceInv
BY DEF Init, ChanceInv, Idle, LogOf

(* Every step keeps the account.                                           *)
LEMMA ChanceStep ==
    ASSUME NoReorgs, WatchInv, NotifyInv, ChanceInv, [Next]_vars
    PROVE  ChanceInv'
<1>0. /\ \A p \in Subscriber : p \in Proc /\ p # Poller
      /\ Poller \in Proc /\ Subscriber = Proc \ {Poller}
      /\ hand \in [Proc -> Job] /\ feed \in Seq(Notification) /\ mined \in Nat
      /\ \A l \in Log : l \in Nat
  BY BlockFacts, Parts DEF Subscriber, Proc, Poller, HandInv, WireInv, TypeChain, Log
<1>1. CASE UNCHANGED <<mined, feed, hand, recorded, applied>>
  <2>1. \A l \in Log : (SubMay(l)' => SubMay(l)) /\ (PollMay(l)' => PollMay(l))
    BY <1>1 DEF SubMay, PollMay, LogOf
  <2> QED BY <1>1, <2>1, ChanceKept DEF ChanceInv, LogOf
<1>2. CASE MineLog
  <2>1. /\ mined' = mined + 1 /\ mined + 1 \in Log /\ UNCHANGED <<hand, recorded, applied>>
        /\ feed' = feed \/ feed' = Append(feed, [log |-> mined + 1, removed |-> FALSE])
    BY <1>2 DEF MineLog, Notify, dbVars
  <2>2. \A i \in 1..Len(feed') : feed'[i].log = mined + 1 \/ (i \in 1..Len(feed) /\ feed'[i] = feed[i])
    <3>1. CASE feed' = feed
      BY <3>1
    <3>2. CASE feed' = Append(feed, [log |-> mined + 1, removed |-> FALSE])
      <4>1. /\ Len(feed') = Len(feed) + 1
            /\ \A i \in 1..Len(feed) : feed'[i] = feed[i]
            /\ feed'[Len(feed) + 1] = [log |-> mined + 1, removed |-> FALSE]
        BY <1>0, <2>1, <3>2 DEF Notification
      <4>2. \A i \in 1..Len(feed') : i = Len(feed) + 1 \/ i \in 1..Len(feed)
        BY <1>0, <4>1
      <4> QED BY <4>1, <4>2
    <3> QED BY <2>1, <3>1, <3>2
  <2>3. ASSUME NEW l \in Log PROVE (SubMay(l)' => SubMay(l)) /\ (PollMay(l)' => PollMay(l))
    <3>1. l > mined' => l > mined
      BY <1>0, <2>1
    <3>2. mined + 1 > mined
      BY <1>0
    <3> QED BY <2>1, <2>2, <3>1, <3>2 DEF SubMay, PollMay, LogOf
  <2> QED BY <2>1, <2>3, ChanceKept DEF ChanceInv, LogOf
<1>3. CASE Receive
  <2>1. UNCHANGED <<mined, recorded, applied>>
    BY <1>3 DEF Receive, chainVars, dbVars
  <2>2. feed # <<>> /\ feed' = Tail(feed)
    BY <1>3, Receives
  <2>3. /\ Head(feed) = feed[1] /\ 1 \in 1..Len(feed)
        /\ \A i \in 1..Len(feed') : i + 1 \in 1..Len(feed) /\ feed'[i] = feed[i + 1]
    BY <1>0, <2>2
  <2>4. \A l \in Log : (\E i \in 1..Len(feed') : feed'[i].log = l) => SubMay(l)
    BY <2>3 DEF SubMay
  <2>5. CASE hand' = hand
    <3>1. \A l \in Log : (SubMay(l)' => SubMay(l)) /\ (PollMay(l)' => PollMay(l))
      BY <2>1, <2>4, <2>5 DEF SubMay, PollMay, LogOf
    <3> QED BY <2>1, <2>5, <3>1, ChanceKept DEF ChanceInv, LogOf
  <2>6. ASSUME NEW p \in 1..SemCap, hand'[p] = StartOn(Head(feed)),
               \A q \in Proc : q # p => hand'[q] = hand[q]
        PROVE  ChanceInv'
    <3>1. /\ hand'[p].pc = "check" /\ hand'[p].log = feed[1].log
          /\ p \in Subscriber /\ p \in Proc /\ p # Poller /\ hand'[Poller] = hand[Poller]
      BY <1>0, <2>3, <2>6 DEF StartOn, Subscriber
    <3>2. ASSUME NEW l \in Log PROVE (SubMay(l)' => SubMay(l)) /\ (PollMay(l)' => PollMay(l))
      <4>1. ASSUME NEW q \in Subscriber, hand'[q].pc \in Unhandled, hand'[q].log = l
            PROVE  SubMay(l)
        <5>1. CASE q = p
          BY <2>3, <3>1, <4>1, <5>1 DEF SubMay
        <5>2. CASE q # p
          BY <1>0, <2>6, <4>1, <5>2 DEF SubMay, LogOf
        <5> QED BY <5>1, <5>2
      <4>2. SubMay(l)' => SubMay(l)
        <5>1. l > mined => SubMay(l)
          BY DEF SubMay
        <5> QED BY <2>1, <2>4, <4>1, <5>1 DEF SubMay, LogOf
      <4>3. PollMay(l)' => PollMay(l)
        BY <2>1, <3>1 DEF PollMay, LogOf
      <4> QED BY <4>2, <4>3
    <3>3. \A q \in Proc : hand'[q].pc = "handle" => hand'[q].log \in recorded'
      BY <2>1, <2>6, <3>1 DEF ChanceInv, LogOf
    <3> QED BY <2>1, <3>2, <3>3, ChanceKept
  <2> QED BY <1>3, <2>5, <2>6, Receives
<1>4. ASSUME NEW p \in Proc,
             \/ Check(p) \/ WaitConfirmations(p) \/ WaitCancelled(p) \/ AdvanceCursor(p)
             \/ InsertEvent(p) \/ HandleFault(p)
      PROVE  ChanceInv'
  <2>1. /\ UNCHANGED <<mined, feed, applied>> /\ recorded \subseteq recorded'
        /\ hand[p].pc # "idle" /\ hand[p].pc # "mark" /\ ~ hand[p].removed
    BY <1>4 DEF Check, WaitConfirmations, WaitCancelled, AdvanceCursor, InsertEvent, HandleFault, At,
                chainVars, wireVars, dbVars, NotifyInv, Busy
  <2>2. ASSUME hand'[p].pc \in Unhandled => hand[p].pc \in Unhandled /\ hand'[p].log = hand[p].log,
               hand'[p].pc \in Checked => hand[p].pc \in Checked \/ hand[p].log \notin recorded,
               hand'[p].pc = "handle" => hand'[p].log \in recorded',
               \A q \in Proc : q # p => hand'[q] = hand[q]
        PROVE  ChanceInv'
    <3>1. \A q \in Proc : hand'[q].pc = "handle" => hand'[q].log \in recorded'
      BY <2>1, <2>2 DEF ChanceInv, LogOf
    <3>2. \A l \in Log : (SubMay(l)' => SubMay(l)) /\ (PollMay(l)' => PollMay(l))
      BY <2>1, <2>2, JobKeepsChance
    <3> QED BY <2>1, <3>1, <3>2, ChanceKept
  <2>3. CASE Return(p)
    <3>1. hand'[p].pc = "idle" /\ \A q \in Proc : q # p => hand'[q] = hand[q]
      BY <2>3, Moves DEF Idle
    <3> QED BY <2>2, <3>1 DEF Unhandled, Checked
  <2>4. CASE Check(p) /\ Goto(p, "wait")
    <3>1. hand[p].pc = "check" /\ hand[p].log \notin recorded
      <4>1. hand[p].pc = "check" /\ (AlreadyStored(LogOf(p)) => Return(p))
        BY <2>4 DEF Check, At
      <4>2. ~ Return(p)
        <5>1. hand'[p].pc = "wait"
          BY <2>4, Moves DEF PC
        <5> QED BY <5>1, Moves DEF Idle
      <4> QED BY <4>1, <4>2 DEF AlreadyStored, LogOf
    <3>2. /\ hand'[p].pc = "wait" /\ hand'[p].log = hand[p].log
          /\ \A q \in Proc : q # p => hand'[q] = hand[q]
      BY <2>4, Moves DEF PC
    <3> QED BY <2>2, <3>1, <3>2 DEF Unhandled, Checked
  <2>5. CASE WaitConfirmations(p)
    <3>1. hand[p].pc = "wait" /\ Goto(p, "insert")
      BY <2>1, <2>5 DEF WaitConfirmations, WaitCancelled, At
    <3>2. /\ hand'[p].pc = "insert" /\ hand'[p].log = hand[p].log
          /\ \A q \in Proc : q # p => hand'[q] = hand[q]
      BY <3>1, Moves DEF PC
    <3> QED BY <2>2, <3>1, <3>2 DEF Unhandled, Checked
  <2>6. CASE InsertEvent(p)
    <3>1. hand[p].pc = "insert" /\ Goto(p, "handle") /\ LogOf(p) \in recorded'
      BY <2>6 DEF InsertEvent, At
    <3>2. /\ hand'[p].pc = "handle" /\ hand'[p].log = hand[p].log
          /\ \A q \in Proc : q # p => hand'[q] = hand[q]
      BY <3>1, Moves DEF PC
    <3> QED BY <2>2, <3>1, <3>2 DEF Unhandled, Checked, LogOf
  <2>7. CASE Goto(p, "advance")
    <3>1. hand'[p].pc = "advance" /\ \A q \in Proc : q # p => hand'[q] = hand[q]
      BY <2>7, Moves DEF PC
    <3> QED BY <2>2, <3>1 DEF Unhandled, Checked
  <2>8. AdvanceCursor(p) \/ WaitCancelled(p) => Return(p)
    BY DEF AdvanceCursor, WaitCancelled
  <2>9. HandleFault(p) => Return(p) \/ Goto(p, "advance")
    BY <2>1 DEF HandleFault
  <2>10. Check(p) => Return(p) \/ Goto(p, "wait")
    BY DEF Check
  <2> QED BY <1>4, <2>3, <2>4, <2>5, <2>6, <2>7, <2>8, <2>9, <2>10
<1>5. \A p \in Proc : ~ MarkRemoved(p) /\ ~ RollbackCursor(p) /\ ~ DeleteEventsAboveBlock(p)
  BY DEF NotifyInv, Busy, MarkRemoved, RollbackCursor, DeleteEventsAboveBlock, At
<1>6. CASE PollNext
  <2>1. /\ hand'[Poller].pc = "check" /\ UNCHANGED <<mined, feed, recorded, applied>>
        /\ \A q \in Proc : q # Poller => hand'[q] = hand[q]
    BY <1>0, <1>6 DEF PollNext, StartOn, chainVars, wireVars, dbVars
  <2>2. ASSUME NEW l \in Log PROVE (SubMay(l)' => SubMay(l)) /\ (PollMay(l)' => PollMay(l))
    <3>1. \A q \in Subscriber : hand'[q] = hand[q]
      BY <1>0, <2>1
    <3>2. SubMay(l)' => SubMay(l)
      BY <2>1, <3>1 DEF SubMay, LogOf
    <3>3. PollMay(l)' => PollMay(l)
      BY <2>1 DEF PollMay, Checked
    <3> QED BY <3>2, <3>3
  <2>3. \A q \in Proc : hand'[q].pc = "handle" => hand'[q].log \in recorded'
    BY <2>1 DEF ChanceInv, LogOf
  <2> QED BY <2>1, <2>2, <2>3, ChanceKept
<1>7. CASE Crash \/ Exit \/ SubscriptionError
  <2>1. /\ Len(feed') = 0 /\ UNCHANGED <<mined, recorded, applied>>
        /\ \/ hand' = hand
           \/ \A p \in Proc : hand'[p].pc = "idle"
    BY <1>7 DEF Crash, Exit, ProcessEnds, SubscriptionError, Idle, chainVars, dbVars
  <2>2. ASSUME NEW l \in Log PROVE (SubMay(l)' => SubMay(l)) /\ (PollMay(l)' => PollMay(l))
    BY <1>0, <2>1 DEF SubMay, PollMay, LogOf, Unhandled, Checked
  <2>3. \A q \in Proc : hand'[q].pc = "handle" => hand'[q].log \in recorded'
    BY <2>1 DEF ChanceInv, LogOf
  <2> QED BY <2>1, <2>2, <2>3, ChanceKept
<1>8. \A l \in Log : ~ Reorg(l)
  BY DEF NoReorgs, Reorg
<1>9. \/ MineBlock \/ Start \/ StartFault \/ Subscribe \/ PollBegin \/ PollQuery \/ PollFault
      \/ PollEnd \/ SaveCursor \/ Shutdown \/ UNCHANGED vars
      => UNCHANGED <<mined, feed, hand, recorded, applied>>
  BY DEF Shutdown, MineBlock, Start, Begin, StartFault, Subscribe, PollBegin, PollQuery, PollFault, PollEnd,
         SaveCursor, chainVars, wireVars, dbVars, vars
<1> QED
  BY <1>1, <1>2, <1>3, <1>4, <1>5, <1>6, <1>7, <1>8, <1>9, HandleSpendsChance
     DEF Next, Program, Chain, HandleLog

(* The price of checking for the row long before it is written: without     *)
(* reorganisations, whatever calls fail, connections break and starts and   *)
(* stops happen, a log takes effect twice at most, once through its         *)
(* notification and once through the polls, which never see it again when   *)
(* its row is there.                                                        *)
AppliedTwiceAtMost == \A l \in Log : applied[l] <= 2

THEOREM EffectsTwiceAtMost ==
    ASSUME NoReorgs
    PROVE  Spec => []AppliedTwiceAtMost
<1>1. ChanceInv => AppliedTwiceAtMost
  BY DEF ChanceInv, AppliedTwiceAtMost
<1> QED BY <1>1, WatchInvHolds, NotifyInit, NotifyStep, ChanceInit, ChanceStep, PTL DEF Spec

-----------------------------------------------------------------------------
(* The guarantees carried through to the orders table. *)

Closed == {"Filled", "Cancelled"}

(* A closed order has a log whose effect was applied and that closes it. *)
CauseInv ==
    /\ status \in [Hash -> {"None", "Active", "Filled", "Cancelled", "Expired"}]
    /\ applied \in [Log -> Nat]
    /\ emitted \in [Log -> RawLog]
    /\ \A h \in Hash : status[h] \in Closed =>
            \E l \in Log : applied[l] > 0 /\ Says(emitted[l], h, status[h])

(* The system's steps, seen by the watcher, are the watcher's. *)
LEMMA StepIsWatcherStep == [SystemNext]_systemVars => [Next]_vars
BY DEF SystemNext, systemVars, WatchOnly, HandleEvent, Next, Program, HandleLog, Submit, Sweep, Pass

LEMMA SystemIsWatcher == SystemSpec => Spec
<1>1. SystemInit => Init BY DEF SystemInit
<1> QED BY <1>1, StepIsWatcherStep, PTL DEF SystemSpec, Spec

(* Only Handle changes the count of effects, and never downwards. *)
LEMMA AppliedGrows ==
    ASSUME BoundsAssumption, applied \in [Log -> Nat], [Next]_vars
    PROVE  /\ applied' \in [Log -> Nat]
           /\ \A l \in Log : applied[l] > 0 => applied'[l] > 0
<1> DEFINE Grown == applied' \in [Log -> Nat] /\ \A l \in Log : applied[l] > 0 => applied'[l] > 0
<1>1. ASSUME NEW p \in Proc, Handle(p) PROVE Grown
  <2>1. \A n \in Nat : Count(n) \in Nat /\ Count(n) >= n
    BY DEF Count, BoundsAssumption
  <2>2. applied' = [applied EXCEPT ![LogOf(p)] = Count(@)]
    BY <1>1 DEF Handle
  <2>3. \A l \in Log : applied'[l] = IF l = LogOf(p) THEN Count(applied[l]) ELSE applied[l]
    BY <2>2
  <2>4. \A l \in Log : applied'[l] \in Nat /\ applied'[l] >= applied[l]
    BY <2>1, <2>3
  <2>5. applied' \in [Log -> Nat]
    BY <2>2, <2>4
  <2> QED BY <2>4, <2>5
<1>2. CASE UNCHANGED applied BY <1>2
<1>3. Next /\ ~ (\E p \in Proc : Handle(p)) => UNCHANGED applied
  BY DEF Next, Chain, Program, HandleLog, HandleFault, MineLog, MineBlock, Reorg, Start, Begin, StartFault,
     Subscribe, Receive, Check, WaitConfirmations, WaitCancelled, InsertEvent, AdvanceCursor, MarkRemoved,
     RollbackCursor, DeleteEventsAboveBlock, PollBegin, PollQuery, PollFault, PollNext, PollEnd,
     SaveCursor, Shutdown, Crash, Exit, ProcessEnds, SubscriptionError, dbVars
<1>4. UNCHANGED vars => UNCHANGED applied BY DEF vars, dbVars
<1> QED BY <1>1, <1>2, <1>3, <1>4

(* What the statement of an event closes, the log it was parsed from says. *)
LEMMA StatementSays ==
    ASSUME NEW log \in RawLog, Statement(log), NEW h \in Hash,
           status \in [Hash -> {"None", "Active", "Filled", "Cancelled", "Expired"}]
    PROVE  /\ status' \in [Hash -> {"None", "Active", "Filled", "Cancelled", "Expired"}]
           /\ status'[h] = status[h] \/ Says(log, h, status'[h])
<1>1. CASE log.topic0 = "OrderFulfilled"
  BY <1>1 DEF Statement, Book!Fill, Book!SetWhere, Says
<1>2. CASE log.topic0 = "OrderCancelled"
  BY <1>2 DEF Statement, Book!CancelByMakerSalt, Book!SetWhere, Book!MakerSalt, Says
<1>3. CASE log.topic0 = "CounterIncremented"
  BY <1>3 DEF Statement, Book!CancelByMakerCounter, Book!SetWhere, Book!StoredCounter, NewCounter, Says
<1>4. CASE log.topic0 = "CollectionUpdated"
  BY <1>4 DEF Statement, Blocks, Book!CancelByCollection, Book!SetWhere, Says, bookVars
<1> QED BY <1>1, <1>2, <1>3, <1>4 DEF RawLog

LEMMA CauseInit == SystemInit => CauseInv
BY HistoriesAssumption DEF SystemInit, Init, Book!BookInit, CauseInv, Closed

LEMMA CauseStep == CauseInv /\ TypeOK /\ [SystemNext]_systemVars => CauseInv'
<1> SUFFICES ASSUME CauseInv, TypeOK, [SystemNext]_systemVars PROVE CauseInv'
  OBVIOUS
<1>1. applied' \in [Log -> Nat] /\ \A l \in Log : applied[l] > 0 => applied'[l] > 0
  BY StepIsWatcherStep, AppliedGrows, BoundsAssumption DEF CauseInv
<1>2. emitted' = emitted
  BY DEF SystemNext, systemVars
<1>3. ASSUME UNCHANGED status PROVE CauseInv'
  BY <1>1, <1>2, <1>3 DEF CauseInv
<1>4. ASSUME NEW p \in Proc, HandleEvent(p) PROVE CauseInv'
  <2>1. LogOf(p) \in Log /\ emitted[LogOf(p)] \in RawLog
    BY DEF TypeOK, CauseInv, Job, LogOf
  <2>2. applied'[LogOf(p)] > 0
    BY <1>4, <2>1, BoundsAssumption DEF HandleEvent, Handle, Count, CauseInv, BoundsAssumption
  <2>3. status' \in [Hash -> {"None", "Active", "Filled", "Cancelled", "Expired"}]
    <3>1. CASE Hash = {} BY <3>1, <1>4, <2>1 DEF HandleEvent, Statement, RawLog, CauseInv,
       Book!Fill, Book!CancelByMakerSalt, Book!CancelByMakerCounter, Book!CancelByCollection,
       Book!SetWhere, bookVars
    <3>2. CASE Hash # {} BY <3>2, <1>4, <2>1, StatementSays DEF HandleEvent, CauseInv
    <3> QED BY <3>1, <3>2
  <2>4. ASSUME NEW h \in Hash, status'[h] \in Closed
        PROVE  \E l \in Log : applied'[l] > 0 /\ Says(emitted'[l], h, status'[h])
    <3>1. status'[h] = status[h] \/ Says(emitted[LogOf(p)], h, status'[h])
      BY <1>4, <2>1, StatementSays DEF HandleEvent, CauseInv
    <3> QED BY <1>1, <1>2, <2>1, <2>2, <2>4, <3>1 DEF CauseInv
  <2> QED BY <1>1, <1>2, <2>3, <2>4 DEF CauseInv
<1>5. ASSUME NEW h \in Hash, Submit(h) PROVE CauseInv'
  BY <1>1, <1>2, <1>5 DEF CauseInv, Submit, Book!Insert, Closed
<1>6. CASE Sweep
  BY <1>1, <1>2, <1>6 DEF CauseInv, Sweep, Book!ExpireOrders, Book!SetWhere, Closed
<1>7. WatchOnly \/ Pass \/ UNCHANGED systemVars => UNCHANGED status
  BY DEF WatchOnly, Pass, Book!Tick, systemVars, bookVars
<1> QED BY <1>3, <1>4, <1>5, <1>6, <1>7 DEF SystemNext

(* The shipped, poll-only system with reorganisations shallower than the   *)
(* confirmations: whatever fails and however often it restarts, an order   *)
(* is filled or cancelled in the table only if a confirmed log that is     *)
(* still on the chain says so.                                             *)
THEOREM OnlyTheChainCloses ==
    ASSUME PollOnly, ShallowReorgs
    PROVE  SystemSpec => []ClosedByTheChain
<1>1. SystemSpec => []TypeOK
  BY SystemIsWatcher, WatcherTypeCorrect, PTL
<1>2. SystemSpec => []CauseInv
  BY <1>1, CauseInit, CauseStep, PTL DEF SystemSpec
<1>3. SystemSpec => []NoPhantomEffect
  BY SystemIsWatcher, PollingAppliesNoPhantom, PTL
<1>4. SystemSpec => []ActsOnlyOnConfirmed
  BY SystemIsWatcher, OnlyConfirmedActs, PTL
<1>5. CauseInv /\ NoPhantomEffect /\ ActsOnlyOnConfirmed => ClosedByTheChain
  BY DEF CauseInv, NoPhantomEffect, ActsOnlyOnConfirmed, ClosedByTheChain, OnChain, Closed
<1> QED BY <1>2, <1>3, <1>4, <1>5, PTL

-----------------------------------------------------------------------------
(* The table as the replay of the chain. *)

(* The statement of a log carries out its verdict on every live order.     *)
LEMMA StatementIsVerdict ==
    ASSUME NEW log \in RawLog, Statement(log), NEW S, status \in [Hash -> S]
    PROVE  status' = [h \in Hash |-> IF status[h] = "Active" THEN Verdict(log, h) ELSE status[h]]
<1> USE DEF Verdict, Says
<1>1. CASE log.topic0 = "OrderFulfilled"
  BY <1>1 DEF Statement, Book!Fill, Book!SetWhere
<1>2. CASE log.topic0 = "OrderCancelled"
  <2>1. \A h \in Hash : Book!MakerSalt(h) = <<log.topics[1], log.topics[2]>>
            <=> log.topics[1] = Order[h].maker /\ log.topics[2] = Order[h].salt
    BY DEF Book!MakerSalt
  <2> QED BY <1>2, <2>1 DEF Statement, Book!CancelByMakerSalt, Book!SetWhere
<1>3. CASE log.topic0 = "CounterIncremented"
  <2>1. Book!StoredCounter < NewCounter(log)
        <=> Len(log.words) >= 1 /\ log.words[1] > Book!StoredCounter
    BY DEF NewCounter, Book!StoredCounter, RawLog
  <2> QED BY <1>3, <2>1 DEF Statement, Book!CancelByMakerCounter, Book!SetWhere
<1>4. CASE log.topic0 = "CollectionUpdated"
  BY <1>4 DEF Statement, Blocks, Book!CancelByCollection, Book!SetWhere, bookVars
<1> QED BY <1>1, <1>2, <1>3, <1>4 DEF RawLog

(* The parts of a step of the watcher, as the replay sees them.            *)
LEMMA WatchIsReplayStep ==
    ASSUME PollOnly, NoFaults, ShallowReorgs, LedgerInv, WatchOnly
    PROVE  \/ Traded!Grow \/ \E l \in Log : Traded!Drop(l)
           \/ UNCHANGED Traded!ledgerVars
<1>1. CASE Chain
  BY <1>1, ChainIsLedgerStep
     DEF LedgerInv, Promised!Grow, Traded!Grow, Promised!Drop, Traded!Drop
<1>2. CASE ~ Chain
  <2>1. ~ Handle(Poller)
    BY PollerIsProc DEF WatchOnly
  <2>2. UNCHANGED <<chainVars, applied>>
    BY <1>2, <2>1, QuietSteps DEF WatchOnly
  <2> QED BY <2>2 DEF Traded!ledgerVars, chainVars, OnChain, Confirmed
<1> QED BY <1>1, <1>2

(* Every step of the system is one of the replay.                          *)
LEMMA ReplayStep ==
    ASSUME PollOnly, NoFaults, ShallowReorgs, LedgerInv, CauseInv, [SystemNext]_systemVars
    PROVE  [Traded!ReplayNext]_(Traded!replayVars)
<1> DEFINE Verdicts == [l \in Log |-> [h \in Hash |-> Verdict(emitted[l], h)]]
<1>0. emitted' = emitted /\ Verdicts' = Verdicts
  BY DEF SystemNext, systemVars, Verdict, Says, Book!StoredCounter
<1>1. ASSUME UNCHANGED vars PROVE UNCHANGED Traded!ledgerVars
  BY <1>1 DEF Traded!ledgerVars, vars, chainVars, dbVars, OnChain, Confirmed
<1>2. CASE UNCHANGED systemVars
  BY <1>0, <1>1, <1>2 DEF systemVars, bookVars, Traded!replayVars
<1>3. CASE WatchOnly
  <2>1. status' = status
    BY <1>3 DEF WatchOnly, bookVars
  <2> QED BY <1>0, <1>3, <2>1, WatchIsReplayStep DEF Traded!ReplayNext, Traded!replayVars
<1>4. ASSUME NEW p \in Proc, HandleEvent(p)
      PROVE  \E l \in Log : Traded!Carry(l)
  <2>1. Handle(p) /\ Statement(emitted[LogOf(p)])
    BY <1>4 DEF HandleEvent
  <2>2. p = Poller
    BY <2>1 DEF Handle, At, LedgerInv, QuietInv
  <2> DEFINE l == LogOf(p)
  <2>3. l \in Log /\ Traded!Apply(l)
    BY <2>1, <2>2, HandleIsApply DEF Promised!Apply, Traded!Apply
  <2>4. status' = [h \in Hash |-> IF status[h] = "Active" THEN Verdict(emitted[l], h) ELSE status[h]]
    BY <2>1, <2>3, StatementIsVerdict DEF CauseInv
  <2>5. status' = [h \in Hash |-> IF status[h] = "Active" THEN Verdicts[l][h] ELSE status[h]]
    BY <2>3, <2>4
  <2> QED BY <2>3, <2>5 DEF Traded!Carry
<1>5. ASSUME NEW h \in Hash, Submit(h) PROVE Traded!Offer(h)
  BY <1>1, <1>5 DEF Submit, Book!Insert, Book!Insertable, Traded!Offer
<1>6. CASE Sweep
  <2>1. status' = [h \in Hash |-> IF h \in Book!Overdue \cap Hash /\ status[h] = "Active"
                                  THEN "Expired" ELSE status[h]]
    BY <1>6 DEF Sweep, Book!ExpireOrders, Book!SetWhere
  <2>2. Traded!Expire(Book!Overdue \cap Hash)
    BY <1>1, <1>6, <2>1 DEF Sweep, Traded!Expire
  <2> QED BY <1>0, <2>2 DEF Traded!ReplayNext
<1>7. CASE Pass
  BY <1>0, <1>1, <1>7 DEF Pass, Book!Tick, Traded!replayVars
<1> QED BY <1>0, <1>2, <1>3, <1>4, <1>5, <1>6, <1>7 DEF SystemNext, Traded!ReplayNext

(* The shipped, poll-only system whose calls succeed, with reorganisations  *)
(* shallower than the confirmations: chain, watcher, parser, statements,    *)
(* submissions and sweeps together implement the replay.  Each final log    *)
(* that is applied closes every live order it fills or voids, and no other, *)
(* in chain order, however often the process stops in between.              *)
THEOREM SystemReplaysTheChain ==
    ASSUME PollOnly, NoFaults, ShallowReorgs, SomeConfirmation
    PROVE  SystemSpec => ImplementsReplay
<1>1. SystemInit => Traded!ReplayInit
  <2> SUFFICES ASSUME SystemInit PROVE Traded!ReplayInit
    OBVIOUS
  <2>1. \A l \in Log : ~ OnChain(l)
    BY DEF SystemInit, Init, OnChain, Log
  <2> QED BY <2>1 DEF SystemInit, Init, Book!BookInit, Traded!ReplayInit, Traded!Init
<1>2. SystemSpec => []LedgerInv
  BY SystemIsWatcher, LedgerInvHolds, PTL
<1>3. SystemSpec => []TypeOK
  BY SystemIsWatcher, WatcherTypeCorrect, PTL
<1>4. SystemSpec => []CauseInv
  BY <1>3, CauseInit, CauseStep, PTL DEF SystemSpec
<1> QED BY <1>1, <1>2, <1>4, ReplayStep, PTL DEF SystemSpec, ImplementsReplay, Traded!ReplaySpec

-----------------------------------------------------------------------------
(* The orders table the watcher writes to is the table of OrderBook, so    *)
(* what is proved of that table in OrderBookProofs holds of it here.       *)
Tables == INSTANCE OrderBookProofs

(* OrderBook bounds the counters an event carries, the logs do not: one    *)
(* above zero stands for all of them, since every row holds zero.          *)
SomeCounter == MaxCounter > 0

(* An UPDATE that selects none of the stored orders changes nothing.      *)
LEMMA NobodysRows ==
    ASSUME Book!BookTypeOK, NEW W, W \cap Hash = {}, NEW s, Book!SetWhere(W, s)
    PROVE  UNCHANGED bookVars
BY DEF Book!BookTypeOK, Book!SetWhere, bookVars

(* The statement of a log is one of OrderBook, or finds no row.            *)
LEMMA LogIsStatement ==
    ASSUME SomeCounter, Book!BookTypeOK, NEW log \in RawLog, Statement(log)
    PROVE  [Book!BookNext]_bookVars
<1>0. \A h \in Hash : Order[h].maker \in Maker /\ Order[h].salt \in Salt /\ Order[h].collection \in Collection
  BY BookAssumption DEF Book!OrderAssumption, Book!OrderRecord
<1>1. CASE log.topic0 = "OrderFulfilled"
  <2>1. Book!Fill(log.topics[1])
    BY <1>1 DEF Statement
  <2>2. CASE log.topics[1] \in Hash
    BY <2>1, <2>2 DEF Book!BookNext
  <2>3. CASE log.topics[1] \notin Hash
    BY <2>1, <2>3, NobodysRows DEF Book!Fill
  <2> QED BY <2>2, <2>3
<1>2. CASE log.topic0 = "OrderCancelled"
  <2> DEFINE m == log.topics[1]
             x == log.topics[2]
  <2>1. Book!CancelByMakerSalt(m, x)
    BY <1>2 DEF Statement
  <2>2. CASE m \in Maker /\ x \in Salt
    BY <2>1, <2>2 DEF Book!BookNext
  <2>3. CASE ~ (m \in Maker /\ x \in Salt)
    <3>1. {h \in Hash : Book!MakerSalt(h) = <<m, x>>} \cap Hash = {}
      BY <1>0, <2>3 DEF Book!MakerSalt
    <3> QED BY <2>1, <3>1, NobodysRows DEF Book!CancelByMakerSalt
  <2> QED BY <2>2, <2>3
<1>3. CASE log.topic0 = "CounterIncremented"
  <2> DEFINE m == log.topics[1]
             c == IF NewCounter(log) > 0 THEN 1 ELSE 0
             W == {h \in Hash : Order[h].maker = m /\ Book!StoredCounter < NewCounter(log)}
  <2>0. NewCounter(log) \in Nat
    BY DEF NewCounter, RawLog
  <2>1. Book!SetWhere(W, "Cancelled")
    BY <1>3 DEF Statement, Book!CancelByMakerCounter
  <2>2. CASE m \in Maker
    <3>1. c \in 0..MaxCounter
      BY BookAssumption DEF SomeCounter, Book!BoundsAssumption
    <3>2. W = {h \in Hash : Order[h].maker = m /\ Book!StoredCounter < c}
      BY <2>0 DEF Book!StoredCounter
    <3>3. Book!CancelByMakerCounter(m, c)
      BY <2>1, <3>2 DEF Book!CancelByMakerCounter
    <3> QED BY <2>2, <3>1, <3>3 DEF Book!BookNext
  <2>3. CASE m \notin Maker
    <3>1. W \cap Hash = {}
      BY <1>0, <2>3
    <3> QED BY <2>1, <3>1, NobodysRows
  <2> QED BY <2>2, <2>3
<1>4. CASE log.topic0 = "CollectionUpdated" /\ Blocks(log)
  <2>1. Book!CancelByCollection(log.topics[1])
    BY <1>4 DEF Statement
  <2>2. CASE log.topics[1] \in Collection
    BY <2>1, <2>2 DEF Book!BookNext
  <2>3. CASE log.topics[1] \notin Collection
    <3>1. {h \in Hash : Order[h].collection = log.topics[1]} \cap Hash = {}
      BY <1>0, <2>3
    <3> QED BY <2>1, <3>1, NobodysRows DEF Book!CancelByCollection
  <2> QED BY <2>2, <2>3
<1>5. CASE log.topic0 = "CollectionUpdated" /\ ~ Blocks(log)
  BY <1>5 DEF Statement
<1> QED BY <1>1, <1>2, <1>3, <1>4, <1>5 DEF Statement

(* The system's steps, seen by the table, are statements of OrderBook.     *)
LEMMA StepIsBookStep ==
    ASSUME SomeCounter, Book!BookTypeOK, TypeOK, emitted \in Histories, [SystemNext]_systemVars
    PROVE  [Book!BookNext]_bookVars
<1>1. CASE UNCHANGED systemVars
  BY <1>1 DEF systemVars
<1>2. CASE WatchOnly
  BY <1>2 DEF WatchOnly
<1>3. ASSUME NEW p \in Proc, HandleEvent(p) PROVE [Book!BookNext]_bookVars
  <2>1. Handle(p) /\ Statement(emitted[LogOf(p)])
    BY <1>3 DEF HandleEvent
  <2>2. emitted \in [Log -> RawLog] /\ LogOf(p) \in Log
    BY HistoriesAssumption DEF TypeOK, Job, LogOf
  <2> QED BY <2>1, <2>2, LogIsStatement
<1>4. CASE \E h \in Hash : Submit(h)
  BY <1>4 DEF Submit, Book!BookNext
<1>5. CASE Sweep \/ Pass
  BY <1>5 DEF Sweep, Pass, Book!BookNext
<1> QED BY <1>1, <1>2, <1>3, <1>4, <1>5 DEF SystemNext

(* The table moves by the statements of OrderBook alone, whatever is       *)
(* parsed from the logs.                                                   *)
TableInv == Book!BookTypeOK /\ emitted \in Histories

LEMMA TableTypeCorrect ==
    ASSUME SomeCounter
    PROVE  SystemSpec => [](TypeOK /\ TableInv)
<1>1. SystemSpec => []TypeOK
  BY SystemIsWatcher, WatcherTypeCorrect, PTL
<1>2. SystemInit => TableInv
  BY BookAssumption DEF SystemInit, Book!BookInit, TableInv, Book!BookTypeOK, Book!Status, Book!BoundsAssumption
<1>3. TypeOK /\ TableInv /\ [SystemNext]_systemVars => TableInv'
  <2> SUFFICES ASSUME TypeOK, TableInv, [SystemNext]_systemVars
               PROVE  TableInv'
    OBVIOUS
  <2>1. [Book!BookNext]_bookVars
    BY StepIsBookStep DEF TableInv
  <2>2. emitted' = emitted
    BY DEF SystemNext, systemVars
  <2>3. ASSUME NEW W, NEW s \in Book!Status, Book!SetWhere(W, s) PROVE Book!BookTypeOK'
    BY <2>3 DEF TableInv, Book!SetWhere, Book!BookTypeOK
  <2>4. CASE \E h \in Hash : Book!Insert(h)
    BY <2>2, <2>4 DEF TableInv, Book!Insert, Book!BookTypeOK, Book!Status
  <2>5. CASE Book!Tick
    BY <2>2, <2>5, BookAssumption DEF TableInv, Book!Tick, Book!BookTypeOK, Book!BoundsAssumption
  <2>6. CASE UNCHANGED bookVars
    BY <2>2, <2>6 DEF TableInv, bookVars, Book!BookTypeOK
  <2>7. {"Filled", "Cancelled", "Expired"} \subseteq Book!Status
    BY DEF Book!Status, Book!Terminal
  <2> QED BY <2>1, <2>2, <2>3, <2>4, <2>5, <2>6, <2>7
         DEF TableInv, Book!BookNext, Book!Fill, Book!CancelByMakerSalt, Book!CancelByMakerCounter,
             Book!CancelByCollection, Book!ExpireOrders
<1> QED BY <1>1, <1>2, <1>3, PTL DEF SystemSpec

(* Chain, watcher, submitters and sweep together implement the table.      *)
THEOREM SystemIsBook ==
    ASSUME SomeCounter
    PROVE  SystemSpec => Book!BookSpec
<1>1. SystemInit => Book!BookInit
  BY DEF SystemInit
<1>2. TypeOK /\ TableInv /\ [SystemNext]_systemVars
      => [Book!BookNext]_(Book!bookVars)
  BY StepIsBookStep DEF TableInv, bookVars, Book!bookVars
<1> QED BY <1>1, <1>2, TableTypeCorrect, PTL DEF SystemSpec, Book!BookSpec

(* The two names of the table's specification. *)
LEMMA SameTable == Book!BookSpec <=> Tables!BookSpec
<1>1. Book!BookInit <=> Tables!BookInit
  BY DEF Book!BookInit, Tables!BookInit
<1>2. [Book!BookNext]_(Book!bookVars) <=> [Tables!BookNext]_(Tables!bookVars)
  BY DEF Book!BookNext, Tables!BookNext, Book!bookVars, Tables!bookVars,
     Book!Insert, Tables!Insert, Book!Fill, Tables!Fill,
     Book!CancelByMakerSalt, Tables!CancelByMakerSalt,
     Book!CancelByMakerCounter, Tables!CancelByMakerCounter,
     Book!CancelByCollection, Tables!CancelByCollection,
     Book!ExpireOrders, Tables!ExpireOrders, Book!Tick, Tables!Tick,
     Book!SetWhere, Tables!SetWhere, Book!Insertable, Tables!Insertable,
     Book!Overdue, Tables!Overdue, Book!Deadline, Tables!Deadline,
     Book!Active, Tables!Active, Book!MakerSalt, Tables!MakerSalt,
     Book!StoredCounter, Tables!StoredCounter
<1> QED BY <1>1, <1>2, PTL DEF Book!BookSpec, Tables!BookSpec

(* Whatever the chain emits and the watcher does with it, crashes, retries *)
(* and reorganisations included: a maker's salt is live in one row at      *)
(* most, and no late log reopens or rewrites an order that was filled,     *)
(* cancelled or expired.  The whole system implements the slots.           *)
THEOREM SystemKeepsTheBook ==
    ASSUME SomeCounter
    PROVE  SystemSpec => /\ []Book!OneActivePerSlot
                         /\ Book!TerminalIsFinal
                         /\ Book!ImplementsSlots
<1>1. Tables!BoundsAssumption /\ Tables!OrderAssumption
  BY BookAssumption DEF Book!BoundsAssumption, Tables!BoundsAssumption, Book!OrderAssumption,
     Tables!OrderAssumption, Book!OrderRecord, Tables!OrderRecord
<1>2. SystemSpec => Tables!BookSpec
  BY SystemIsBook, SameTable, PTL
<1>3. Tables!BookSpec => []Tables!OneActivePerSlot
  BY <1>1, Tables!SlotIsUnique
<1>4. Tables!BookSpec => Tables!TerminalIsFinal
  BY <1>1, Tables!TerminalStatusIsFinal
<1>5. Tables!OneActivePerSlot => Book!OneActivePerSlot
  BY DEF Tables!OneActivePerSlot, Book!OneActivePerSlot, Tables!Active, Book!Active,
     Tables!MakerSalt, Book!MakerSalt
<1>6. Tables!TerminalIsFinal => Book!TerminalIsFinal
  <2>1. [\A h \in Hash : status[h] \in Tables!Terminal => status'[h] = status[h]]_(Tables!bookVars)
        => [\A h \in Hash : status[h] \in Book!Terminal => status'[h] = status[h]]_(Book!bookVars)
    BY DEF Tables!Terminal, Book!Terminal, Tables!bookVars, Book!bookVars
  <2> QED BY <2>1, PTL DEF Tables!TerminalIsFinal, Book!TerminalIsFinal
<1>7. Tables!BookSpec => Tables!ImplementsSlots
  BY <1>1, Tables!BookImplementsSlots
<1>8. Tables!ImplementsSlots => Book!ImplementsSlots
  <2>1. Tables!Slots!Init => Book!Slots!Init
    BY DEF Tables!Slots!Init, Book!Slots!Init, Tables!Active, Book!Active,
       Tables!MakerSalt, Book!MakerSalt, Tables!Terminal, Book!Terminal
  <2>2. [Tables!Slots!Next]_(Tables!Slots!slotVars) => [Book!Slots!Next]_(Book!Slots!slotVars)
    BY DEF Tables!Slots!Next, Book!Slots!Next, Tables!Slots!slotVars, Book!Slots!slotVars,
       Tables!Slots!Open, Book!Slots!Open, Tables!Slots!Close, Book!Slots!Close,
       Tables!Active, Book!Active, Tables!MakerSalt, Book!MakerSalt, Tables!Terminal, Book!Terminal
  <2> QED BY <2>1, <2>2, PTL
         DEF Tables!ImplementsSlots, Book!ImplementsSlots, Tables!Slots!Spec, Book!Slots!Spec
<1> QED BY <1>2, <1>3, <1>4, <1>5, <1>6, <1>7, <1>8, PTL

=============================================================================
