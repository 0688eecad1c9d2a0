------------------------------- MODULE Watcher -------------------------------
(***************************************************************************)
(* internal/watcher/watcher.go: the goroutines that bring contract logs    *)
(* from the chain into the events table and hand them to EventService.     *)
(*                                                                         *)
(* Every goroutine that runs handleLog is a process: 1..SemCap are the     *)
(* goroutines subscribeLoop starts (one per semaphore slot), 0 is pollLoop,*)
(* which runs handleLog itself.  A process takes one step per call that    *)
(* reads or writes state others share: the database, the node, w.cursor.   *)
(*                                                                         *)
(* The chain is the environment.  The logs the contracts will emit are     *)
(* 1..NLogs in chain order, which is also their key (block, tx, index) in  *)
(* the events table.                                                       *)
(***************************************************************************)
EXTENDS Integers, Sequences

CONSTANTS
    NLogs,           \* number of logs
    BlockOf,         \* [1..NLogs -> 1..MaxHeight]: the block of each log
    MaxHeight,       \* bound of the chain's height
    Confirmations,   \* confirmation_blocks of the configuration
    Lookback,        \* 100: how far behind the tip a first start begins
    Rollback,        \* 12: how far a removed log moves the cursor back
    SemCap,          \* 64: capacity of the handler semaphore
    MaxApplied,      \* bound of the counter of Handle calls per log
    ReorgDepth,      \* blocks this close to the tip may be replaced
    Env              \* what the environment may do, a subset of Hardships

Log == 1..NLogs
Hardships == {"subscribe", "disconnect", "reorg", "fault", "crash", "shutdown"}

ASSUME BoundsAssumption ==
    /\ NLogs \in Nat \ {0} /\ MaxHeight \in Nat /\ Rollback \in Nat
    /\ SemCap \in Nat /\ MaxApplied \in Nat \ {0} /\ ReorgDepth \in Nat
    /\ Confirmations \in Nat /\ Lookback \in Nat

ASSUME BlockAssumption ==
    /\ BlockOf \in [Log -> 1..MaxHeight]
    /\ \A k, l \in Log : k <= l => BlockOf[k] <= BlockOf[l]

(* The first start never begins ahead of the confirmed chain. *)
ASSUME LookbackAssumption == Confirmations <= Lookback

ASSUME EnvAssumption == Env \subseteq Hardships

VARIABLES
    latest,      \* the node's block number
    mined,       \* logs 1..mined have been emitted
    off,         \* logs a reorganisation has removed from the chain
    sub,         \* TRUE while the log subscription is established
    feed,        \* notifications on their way to subscribeLoop, logCh included
    up,          \* TRUE while the server process runs
    cursor,      \* w.cursor
    hand,        \* [Proc -> what the process is doing in handleLog]
    pollFrom,    \* fromBlock of the query about to be made, 0 when there is none
    pollTo,      \* toBlock of the poll under way, 0 when there is none
    pollTodo,    \* logs of the poll not yet handed to handleLog
    recorded,    \* rows of the events table
    marked,      \* rows whose removed flag is set
    applied,     \* [Log -> number of eventSvc.Handle calls that succeeded]
    saved,       \* sync_cursor.last_synced_block, 0 without a row
    cancelled,   \* TRUE once main has cancelled the context of this process
    base,        \* where the run of cursors began: the block chosen by the last
                 \* start without a saved cursor, or after a shutdown (history)
    resumed      \* blocks at which a process began since (history)

chainVars == <<latest, mined, off>>
wireVars  == <<sub, feed>>
pollVars  == <<pollFrom, pollTo, pollTodo>>
dbVars    == <<recorded, marked, applied, saved>>
runVars  == <<cancelled, base, resumed>>
vars == <<chainVars, wireVars, up, cursor, hand, pollVars, dbVars, runVars>>

Poller == 0
Proc == 0..SemCap
PC == {"idle", "check", "wait", "insert", "handle", "advance",
       "mark", "rollback", "purge"}

Notification == [log : Log, removed : BOOLEAN]

Idle == [pc |-> "idle", log |-> 1, removed |-> FALSE]
StartOn(n) == [pc |-> "check", log |-> n.log, removed |-> n.removed]
Goto(p, label) == hand' = [hand EXCEPT ![p].pc = label]
Return(p) == hand' = [hand EXCEPT ![p] = Idle]

OnChain(l) == l <= mined /\ l \notin off
Top(a, b) == IF a >= b THEN a ELSE b

Init ==
    /\ latest = 0 /\ mined = 0 /\ off = {}
    /\ sub = FALSE /\ feed = <<>>
    /\ up = FALSE /\ cursor = 0
    /\ hand = [p \in Proc |-> Idle]
    /\ pollFrom = 0 /\ pollTo = 0 /\ pollTodo = {}
    /\ recorded = {} /\ marked = {} /\ applied = [l \in Log |-> 0]
    /\ saved = 0 /\ cancelled = FALSE /\ base = 0 /\ resumed = {}

-----------------------------------------------------------------------------
(* The chain. *)

Notify(n) == feed' = IF sub THEN Append(feed, n) ELSE feed

(* The next log is emitted, in the current block or in the one that follows. *)
MineLog ==
    LET l == mined + 1 IN
    /\ l \in Log
    /\ BlockOf[l] \in {latest, latest + 1}
    /\ latest' = BlockOf[l]
    /\ mined' = l
    /\ Notify([log |-> l, removed |-> FALSE])
    /\ UNCHANGED <<off, sub, up, cursor, hand, pollVars, dbVars, runVars>>

MineBlock ==
    /\ latest < MaxHeight
    /\ \A l \in Log : l > mined => BlockOf[l] > latest + 1
    /\ latest' = latest + 1
    /\ UNCHANGED <<mined, off, wireVars, up, cursor, hand, pollVars, dbVars, runVars>>

(* The newest log on the chain is dropped by a reorganisation; a deeper one *)
(* is several of these steps.  The branch that wins is as long as the old. *)
Reorg(l) ==
    /\ "reorg" \in Env
    /\ OnChain(l)
    /\ latest - BlockOf[l] < ReorgDepth
    /\ \A k \in Log : k > l => ~ OnChain(k)
    /\ off' = off \cup {l}
    /\ Notify([log |-> l, removed |-> TRUE])
    /\ UNCHANGED <<latest, mined, sub, up, cursor, hand, pollVars, dbVars, runVars>>

-----------------------------------------------------------------------------
(* Start and stop of the process. *)

(* Mutant: the first start takes the tip itself. *)
MutStartCursor ==
    IF saved # 0 THEN saved ELSE latest

StartCursor ==
    IF saved # 0 THEN saved
    ELSE IF latest > Lookback THEN latest - Lookback ELSE 0

(* The process begins at block c of the chain, with a fresh context. *)
Begin(c) ==
    /\ up' = TRUE /\ cancelled' = FALSE
    /\ cursor' = c
    /\ IF saved # 0 /\ ~ cancelled
       THEN base' = base /\ resumed' = resumed \cup {c}
       ELSE base' = c /\ resumed' = {}
    /\ UNCHANGED <<chainVars, wireVars, hand, pollVars, dbVars>>

Start == ~ up /\ Begin(StartCursor)

(* GetLastSyncedBlock fails, or finds nothing and BlockNumber fails. *)
StartFault ==
    /\ ~ up /\ "fault" \in Env
    /\ \E c \in {0, IF latest > Lookback THEN latest - Lookback ELSE 0} : Begin(c)

ProcessEnds ==
    /\ up
    /\ up' = FALSE
    /\ sub' = FALSE /\ feed' = <<>>
    /\ cursor' = 0
    /\ hand' = [p \in Proc |-> Idle]
    /\ pollFrom' = 0 /\ pollTo' = 0 /\ pollTodo' = {}
    /\ UNCHANGED <<chainVars, dbVars, runVars>>

(* The process is killed, at any point. *)
Crash == "crash" \in Env /\ ProcessEnds

(* SIGTERM: main cancels the context, and the goroutines run on until it   *)
(* returns.  From here on every call that takes the context fails; the     *)
(* loops end only where their select sees it, and one with a ticker or a   *)
(* log ready may take that instead.                                        *)
Shutdown ==
    /\ up /\ ~ cancelled /\ "shutdown" \in Env
    /\ cancelled' = TRUE
    /\ UNCHANGED <<chainVars, wireVars, up, cursor, hand, pollVars, dbVars, base, resumed>>

(* main returns, waiting for none of them.  It has closed the database a   *)
(* moment before: what they do in between leaves nothing behind.           *)
Exit == cancelled /\ ProcessEnds

-----------------------------------------------------------------------------
(* subscribeLoop *)

Subscribe ==
    /\ up /\ ~ cancelled /\ ~ sub /\ "subscribe" \in Env
    /\ sub' = TRUE
    /\ UNCHANGED <<chainVars, feed, up, cursor, hand, pollVars, dbVars, runVars>>

(* The next round makes a new logCh: what the old one held is gone. *)
SubscriptionError ==
    /\ up /\ sub /\ "disconnect" \in Env
    /\ sub' = FALSE /\ feed' = <<>>
    /\ UNCHANGED <<chainVars, up, cursor, hand, pollVars, dbVars, runVars>>

Free == {p \in 1..SemCap : hand[p].pc = "idle"}

Receive ==
    /\ up /\ feed # <<>>
    /\ feed' = Tail(feed)
    /\ \/ /\ Free = {}               \* handler saturated: the log is dropped
          /\ UNCHANGED hand
       \/ \E p \in Free :
            /\ \A q \in Free : p <= q
            /\ hand' = [hand EXCEPT ![p] = StartOn(Head(feed))]
    /\ UNCHANGED <<chainVars, sub, up, cursor, pollVars, dbVars, runVars>>

-----------------------------------------------------------------------------
(* handleLog *)

At(p, label) == up /\ hand[p].pc = label
LogOf(p) == hand[p].log
BlockOfJob(p) == BlockOf[LogOf(p)]

(* Mutant: the existence check is skipped. *)
MutAlreadyStored(l) == FALSE

AlreadyStored(l) == l \in recorded

Check(p) ==
    /\ At(p, "check")
    /\ IF AlreadyStored(LogOf(p)) THEN Return(p) ELSE Goto(p, "wait")
    /\ UNCHANGED <<chainVars, wireVars, up, cursor, pollVars, dbVars, runVars>>

(* Mutant: the log's own block is taken for confirmed. *)
MutConfirmed(l) == latest >= BlockOf[l]

Confirmed(l) == latest >= BlockOf[l] + Confirmations

WaitConfirmations(p) ==
    /\ At(p, "wait") /\ ~ cancelled
    /\ Confirmed(LogOf(p))
    /\ Goto(p, IF hand[p].removed THEN "mark" ELSE "insert")
    /\ UNCHANGED <<chainVars, wireVars, up, cursor, pollVars, dbVars, runVars>>

(* waitConfirmations fails, and the log is given up. *)
WaitCancelled(p) ==
    /\ At(p, "wait") /\ cancelled
    /\ Return(p)
    /\ UNCHANGED <<chainVars, wireVars, up, cursor, pollVars, dbVars, runVars>>

MarkRemoved(p) ==
    /\ At(p, "mark")
    /\ marked' = marked \cup ({LogOf(p)} \cap recorded)
    /\ Goto(p, "rollback")
    /\ UNCHANGED <<chainVars, wireVars, up, cursor, pollVars, recorded, applied, saved, runVars>>

(* Mutant: the subtraction is not guarded against small block numbers. *)
MutReorgBlock(p) == BlockOfJob(p) - Rollback

ReorgBlock(p) == IF BlockOfJob(p) > Rollback THEN BlockOfJob(p) - Rollback ELSE 0

RollbackCursor(p) ==
    /\ At(p, "rollback")
    /\ cursor' = ReorgBlock(p)
    /\ Goto(p, "purge")
    /\ UNCHANGED <<chainVars, wireVars, up, pollVars, dbVars, runVars>>

DeleteEventsAboveBlock(p) ==
    /\ At(p, "purge")
    /\ recorded' = {l \in recorded : BlockOf[l] < ReorgBlock(p)}
    /\ marked' = marked \cap recorded'
    /\ Return(p)
    /\ UNCHANGED <<chainVars, wireVars, up, cursor, pollVars, applied, saved, runVars>>

InsertEvent(p) ==
    /\ At(p, "insert")
    /\ recorded' = recorded \cup {LogOf(p)}
    /\ Goto(p, "handle")
    /\ UNCHANGED <<chainVars, wireVars, up, cursor, pollVars, marked, applied, saved, runVars>>

(* Mutant: the handler returns once the row is stored. *)
MutCount(n) == n

Count(n) == IF n < MaxApplied THEN n + 1 ELSE n

Handle(p) ==
    /\ At(p, "handle")
    /\ applied' = [applied EXCEPT ![LogOf(p)] = Count(@)]
    /\ Goto(p, "advance")
    /\ UNCHANGED <<chainVars, wireVars, up, cursor, pollVars, recorded, marked, saved, runVars>>

(* Mutant: the goroutine ends without releasing its slot. *)
MutAdvanceCursor(p) ==
    /\ At(p, "advance")
    /\ cursor' = Top(cursor, BlockOfJob(p))
    /\ UNCHANGED <<chainVars, wireVars, up, hand, pollVars, dbVars, runVars>>

AdvanceCursor(p) ==
    /\ At(p, "advance")
    /\ cursor' = Top(cursor, BlockOfJob(p))
    /\ Return(p)
    /\ UNCHANGED <<chainVars, wireVars, up, pollVars, dbVars, runVars>>

(* A database or node call fails: the log is given up, except that a failed *)
(* Handle is only logged, and that MarkRemoved and DeleteEventsAboveBlock   *)
(* have their errors discarded.                                             *)
HandleFault(p) ==
    /\ up /\ "fault" \in Env
    /\ \/ hand[p].pc \in {"check", "wait", "insert", "purge"} /\ Return(p)
       \/ hand[p].pc = "handle" /\ Goto(p, "advance")
       \/ hand[p].pc = "mark" /\ Goto(p, "rollback")
    /\ UNCHANGED <<chainVars, wireVars, up, cursor, pollVars, dbVars, runVars>>

HandleLog(p) ==
    \/ Check(p) \/ WaitConfirmations(p) \/ WaitCancelled(p) \/ InsertEvent(p)
    \/ Handle(p) \/ AdvanceCursor(p) \/ MarkRemoved(p) \/ RollbackCursor(p)
    \/ DeleteEventsAboveBlock(p)

-----------------------------------------------------------------------------
(* pollLoop and poll.  The clock that decides whether the subscription has *)
(* been idle for a minute is not modelled: a poll may begin at any time.   *)

(* Mutant: the range starts one block late. *)
MutFromBlock == cursor + 2

FromBlock == cursor + 1

(* Mutant: the poll reads up to the tip. *)
MutToBlock == latest

ToBlock == latest - Confirmations

(* The tip and the cursor are read in one step: a tip read a little earlier *)
(* only makes the range shorter.                                            *)
PollBegin ==
    /\ up /\ ~ cancelled /\ pollTo = 0
    /\ FromBlock + Confirmations <= latest
    /\ pollFrom' = FromBlock /\ pollTo' = ToBlock
    /\ UNCHANGED <<chainVars, wireVars, up, cursor, hand, pollTodo, dbVars, runVars>>

PollQuery ==
    /\ up /\ ~ cancelled /\ pollFrom # 0
    /\ pollTodo' = {l \in Log : OnChain(l) /\ BlockOf[l] \in pollFrom..pollTo}
    /\ pollFrom' = 0
    /\ UNCHANGED <<chainVars, wireVars, up, cursor, hand, pollTo, dbVars, runVars>>

(* FilterLogsQuery fails and the poll is over; the cursor stays. *)
PollFault ==
    /\ up /\ ("fault" \in Env \/ cancelled)
    /\ pollFrom # 0
    /\ pollFrom' = 0 /\ pollTo' = 0
    /\ UNCHANGED <<chainVars, wireVars, up, cursor, hand, pollTodo, dbVars, runVars>>

(* Mutant: the logs are taken up in any order, as from a map. *)
MutPollNext ==
    /\ At(Poller, "idle")
    /\ \E l \in pollTodo :
        /\ hand' = [hand EXCEPT ![Poller] = StartOn([log |-> l, removed |-> FALSE])]
        /\ pollTodo' = pollTodo \ {l}
    /\ UNCHANGED <<chainVars, wireVars, up, cursor, pollFrom, pollTo, dbVars, runVars>>

PollNext ==
    /\ At(Poller, "idle")
    /\ \E l \in pollTodo :
        /\ \A k \in pollTodo : l <= k
        /\ hand' = [hand EXCEPT ![Poller] = StartOn([log |-> l, removed |-> FALSE])]
        /\ pollTodo' = pollTodo \ {l}
    /\ UNCHANGED <<chainVars, wireVars, up, cursor, pollFrom, pollTo, dbVars, runVars>>

PollEnd ==
    /\ At(Poller, "idle")
    /\ pollFrom = 0 /\ pollTo # 0 /\ pollTodo = {}
    /\ cursor' = Top(cursor, pollTo)
    /\ pollTo' = 0
    /\ UNCHANGED <<chainVars, wireVars, up, hand, pollFrom, pollTodo, dbVars, runVars>>

(* processLoop: the cursor is saved every 15 seconds, failures retried.  It *)
(* is read and written in one step: a value that went stale in between is  *)
(* one that an earlier save could have left there.                         *)
SaveCursor ==
    /\ up
    /\ saved' = cursor
    /\ UNCHANGED <<chainVars, wireVars, up, cursor, hand, pollVars, recorded, marked, applied, runVars>>

-----------------------------------------------------------------------------
Chain == MineLog \/ MineBlock \/ \E l \in Log : Reorg(l)

Program ==
    \/ Start \/ StartFault \/ Subscribe \/ Receive
    \/ \E p \in Proc : HandleLog(p) \/ HandleFault(p)
    \/ PollBegin \/ PollQuery \/ PollFault \/ PollNext \/ PollEnd \/ SaveCursor

Next == Chain \/ Program \/ Shutdown \/ Exit \/ Crash \/ SubscriptionError

Spec == Init /\ [][Next]_vars

(* Blocks keep coming, the goroutines keep running, the tickers keep       *)
(* ticking; the stream of logs of interest ends, so a quiet minute comes   *)
(* and pollLoop polls.                                                     *)
Fairness ==
    /\ WF_vars(MineLog) /\ WF_vars(MineBlock)
    /\ WF_vars(Start) /\ WF_vars(Subscribe) /\ WF_vars(Receive)
    /\ \A p \in Proc : WF_vars(HandleLog(p))
    /\ WF_vars(PollBegin) /\ WF_vars(PollQuery) /\ WF_vars(PollNext) /\ WF_vars(PollEnd)
    /\ WF_vars(SaveCursor)

FairSpec == Spec /\ Fairness

-----------------------------------------------------------------------------
Job == [pc : PC, log : Log, removed : BOOLEAN]

TypeOK ==
    /\ latest \in 0..MaxHeight /\ mined \in 0..NLogs /\ off \subseteq Log
    /\ sub \in BOOLEAN /\ feed \in Seq(Notification)
    /\ up \in BOOLEAN /\ cursor \in Nat
    /\ hand \in [Proc -> Job]
    /\ pollFrom \in Nat /\ pollTo \in Nat /\ pollTodo \subseteq Log
    /\ recorded \subseteq Log /\ marked \subseteq recorded
    /\ applied \in [Log -> 0..MaxApplied]
    /\ saved \in Nat
    /\ cancelled \in BOOLEAN /\ base \in Nat /\ resumed \subseteq Nat

(* Neither the cursor in memory nor the saved one ever claims a block that *)
(* is not confirmed: each of the writers of w.cursor (handleLog's two,     *)
(* poll, Run) uses a block number it read some time before.                *)
CursorIsConfirmed ==
    \A c \in {cursor, saved} : c = 0 \/ c + Confirmations <= latest

(* A row is stored and its effect applied only for a log whose block has   *)
(* the configured number of confirmations (waitConfirmations).             *)
ActsOnlyOnConfirmed ==
    \A l \in Log : (l \in recorded \/ applied[l] > 0) =>
            l <= mined /\ BlockOf[l] + Confirmations <= latest

(* Nothing is lost below the cursor: a log the chain still has, in a block *)
(* the cursor has passed since the run of cursors began, is in the events  *)
(* table.  What the cursor passes is never queried again.                  *)
Covered(c) ==
    \A l \in Log : OnChain(l) /\ base < BlockOf[l] /\ BlockOf[l] <= c => l \in recorded

CursorCoversLogs == Covered(cursor) /\ Covered(saved)

(* What of that the polling watcher does keep up, while no context of its  *)
(* is cancelled.  A handled log moves the cursor to its block while others *)
(* of the block are still to come; a kill at that point gives those up,    *)
(* once the cursor was saved.  So: a log at or below the cursor, or the    *)
(* saved one, is in the table, or in the block of the cursor and still in  *)
(* the poll's hands, or in a block a process began at or is about to begin *)
(* at; no other block is ever passed over.  (A shutdown has poll give up   *)
(* all its remaining logs and raise the cursor over them; base starts      *)
(* anew after one.)                                                        *)
Polled(l) == l \in pollTodo \/ (hand[Poller].pc # "idle" /\ LogOf(Poller) = l)

PassesNoBlockOver ==
    ~ cancelled => \A l \in Log : \A c \in {cursor, saved} :
        OnChain(l) /\ base < BlockOf[l] /\ BlockOf[l] <= c
            => \/ l \in recorded
               \/ BlockOf[l] = cursor /\ Polled(l)
               \/ BlockOf[l] \in resumed
               \/ ~ up /\ BlockOf[l] = saved

(* Every recorded log is on the chain, or marked as removed. *)
RecordedIsOnChain == \A l \in recorded \ marked : l \notin off

(* The same two once the watcher has come to rest: nothing in flight. *)
Settled ==
    /\ up /\ feed = <<>> /\ pollTo = 0
    /\ \A p \in Proc : hand[p].pc = "idle"

(* "Subscription with polling fallback" (watcher.go:50): at rest, no log at *)
(* or below the cursor is missing.                                          *)
SettledCoversLogs == Settled => CursorCoversLogs

(* Design 4.2, "log.removed == true": at rest, a log the chain removed and *)
(* whose removal was delivered is not recorded as valid.                   *)
SettledRetractsRemoved == Settled /\ sub => RecordedIsOnChain

(* The confirmations are waited for so that no effect of a log that a      *)
(* reorganisation of fewer blocks removes is ever applied.                 *)
NoPhantomEffect == \A l \in Log : applied[l] > 0 => l \notin off

(* Design 4.3, an event already processed is skipped. *)
AppliedAtMostOnce == \A l \in Log : applied[l] <= 1

(* A stored event has had, or is about to have, its effect on the orders. *)
SettledRecordedIsApplied == Settled => \A l \in recorded : applied[l] > 0

(* "Roll back and re-sync" (event.go:128): a log whose effect was applied  *)
(* and whose row was purged is still ahead of the cursor.                  *)
PurgedIsResynced ==
    Settled => \A l \in Log : OnChain(l) /\ applied[l] > 0 /\ l \notin recorded => BlockOf[l] > cursor

(* What the polling watcher is for: through polls that are cut off and     *)
(* repeated, restarts and reorganisations, the effects of the logs come    *)
(* about in the order of the chain, each once at most, and only of logs    *)
(* that are there to stay.                                                 *)
Promised == INSTANCE Ledger WITH
    chain   <- {l \in Log : OnChain(l)},
    final   <- {l \in Log : OnChain(l) /\ Confirmed(l)},
    gone    <- off,
    effects <- applied

ImplementsLedger == Promised!Spec

(* Every log that stays on the chain has its effect applied in the end. *)
EveryLogApplied ==
    \A l \in Log :
        (up /\ mined >= l /\ base < BlockOf[l]) ~> (applied[l] > 0 \/ l \in off)

(* A semaphore slot, and the poll loop, is never held for ever: whatever    *)
(* notifications and failures come, every handleLog call returns.           *)
HandlersReturn ==
    \A p \in Proc : (hand[p].pc # "idle") ~> (hand[p].pc = "idle")
=============================================================================
