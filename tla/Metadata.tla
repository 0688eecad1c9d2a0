------------------------------- MODULE Metadata -------------------------------
(***************************************************************************)
(* internal/service/metadata.go: the queue of NFTs whose metadata is to be *)
(* fetched, the workers that fetch it with retries, and the daily refresh  *)
(* of rows that have not been written for 24 hours.                        *)
(*                                                                         *)
(* The refresh of collections is left out: it rewrites rows of a table     *)
(* into which no code puts a first row.                                    *)
(***************************************************************************)
EXTENDS Naturals, Sequences, SequencesExt

CONSTANTS
    Token,          \* the NFTs, (collection, token id) pairs
    Worker,         \* the goroutines of Run, 3 of them
    QueueCap,       \* 1000: capacity of the queue
    RefreshLimit,   \* 100: rows one refresh looks at
    MaxAttempts,    \* 3: fetches of one job
    Breakable,      \* tokens whose contract may stop to answer, for ever
    MaxVersion,     \* bound of the versions of the published documents
    MaxSubmits,     \* bound of the orders submitted
    MaxFaults       \* bound of the stops of the process and of the passing
                    \* failures of node, gateway and database, together

ASSUME BoundsAssumption ==
    /\ QueueCap \in Nat \ {0} /\ RefreshLimit \in Nat \ {0} /\ MaxAttempts \in Nat \ {0}
    /\ MaxVersion \in Nat \ {0}
    /\ MaxSubmits \in Nat /\ MaxFaults \in Nat

ASSUME BreakableAssumption == Breakable \subseteq Token

VARIABLES
    up,         \* TRUE while the process runs
    queue,      \* the jobs waiting, a sequence of tokens
    work,       \* [Worker -> the job it is at]
    refresh,    \* rows the refresh under way has still to enqueue
    row,        \* [Token -> the document in nft_metadata]
    old,        \* the tokens whose row was written over 24 hours ago, by synced_at
    recent,     \* the tokens whose row was written since, by synced_at
    version,    \* the version of the documents published now
    broken,     \* tokens whose contract does not answer any more
    spent       \* submits and faults so far (bounds, not program state)

programVars == <<queue, work, refresh>>
tableVars == <<row, old, recent>>
worldVars == <<version, broken, spent>>
vars == <<up, programVars, tableVars, worldVars>>

(* What the table holds of a body that is no JSON, an error page included. *)
Blank == 0
Document == Blank..MaxVersion

NoJob == [pc |-> "idle", token |-> {}, attempt |-> 0, doc |-> Blank]
At(w, label) == up /\ work[w].pc = label
TokenOf(w) == CHOOSE t \in work[w].token : TRUE

IsStale(t) == t \in Range(old)
Stored(t) == t \in Range(old \o recent)

Spend(what) == spent' = [spent EXCEPT ![what] = @ + 1]
Fault == spent.faults < MaxFaults /\ Spend("faults")

Init ==
    /\ up = TRUE
    /\ queue = <<>>
    /\ work = [w \in Worker |-> NoJob]
    /\ refresh = <<>>
    /\ row = [t \in Token |-> Blank] /\ old = <<>> /\ recent = <<>>
    /\ version = 1 /\ broken = {}
    /\ spent = [submits |-> 0, faults |-> 0]

-----------------------------------------------------------------------------
(* Mutant: off by one at the capacity. *)
MutHasRoom == Len(queue) <= QueueCap

HasRoom == Len(queue) < QueueCap

(* A job is dropped without a word when the queue is full. *)
Enqueue(t) == queue' = IF HasRoom THEN Append(queue, t) ELSE queue

(* The REST handler of a stored order; it does not look whether there is a *)
(* row already.                                                            *)
Submit(t) ==
    /\ up
    /\ spent.submits < MaxSubmits
    /\ Enqueue(t)
    /\ Spend("submits")
    /\ UNCHANGED <<up, work, refresh, tableVars, version, broken>>

-----------------------------------------------------------------------------
(* The workers. *)

Take(w) ==
    /\ At(w, "idle")
    /\ queue # <<>>
    /\ queue' = Tail(queue)
    /\ work' = [work EXCEPT ![w] = [NoJob EXCEPT !.pc = "fetch", !.token = {Head(queue)}]]
    /\ UNCHANGED <<up, refresh, tableVars, worldVars>>

Answers(w) == work[w].token \cap broken = {}

(* tokenURI and the document behind it. *)
Read(w) ==
    /\ At(w, "fetch")
    /\ Answers(w)
    /\ work' = [work EXCEPT ![w].pc = "store", ![w].doc = version]
    /\ UNCHANGED <<up, queue, refresh, tableVars, worldVars>>

(* The gateway sends an error page: its status is not looked at, and its   *)
(* body is taken for a document without fields.                            *)
ReadErrorPage(w) ==
    /\ At(w, "fetch")
    /\ Answers(w)
    /\ Fault
    /\ work' = [work EXCEPT ![w].pc = "store", ![w].doc = Blank]
    /\ UNCHANGED <<up, queue, refresh, tableVars, version, broken>>

(* Mutant: the last attempt is not made. *)
MutTriesAgain(w) == work[w].attempt + 2 < MaxAttempts

TriesAgain(w) == work[w].attempt + 1 < MaxAttempts

(* fetchOne returns an error: the contract is broken, or a call to node,   *)
(* gateway or table fails. The back-off that follows only takes time.      *)
FetchFails(w) ==
    /\ \/ At(w, "fetch") /\ ~ Answers(w) /\ UNCHANGED spent
       \/ (At(w, "fetch") \/ At(w, "store")) /\ Fault
    /\ work' = [work EXCEPT ![w] =
            IF TriesAgain(w)
            THEN [work[w] EXCEPT !.pc = "fetch", !.attempt = work[w].attempt + 1, !.doc = Blank]
            ELSE NoJob]
    /\ UNCHANGED <<up, queue, refresh, tableVars, version, broken>>


Upsert(t, doc) == [row EXCEPT ![t] = doc]


Sync(t) == old' = RemoveFirst(old, t) /\ recent' = Append(RemoveFirst(recent, t), t)

Store(w) ==
    /\ At(w, "store")
    /\ row' = Upsert(TokenOf(w), work[w].doc)
    /\ Sync(TokenOf(w))
    /\ work' = [work EXCEPT ![w] = NoJob]
    /\ UNCHANGED <<up, queue, refresh, worldVars>>

-----------------------------------------------------------------------------
(* The daily refresh. *)

(* The oldest row that is not yet stale becomes 24 hours old. *)
Age ==
    /\ recent # <<>>
    /\ old' = Append(old, Head(recent)) /\ recent' = Tail(recent)
    /\ UNCHANGED <<up, programVars, row, worldVars>>

(* GetStaleMetadata: the oldest RefreshLimit of the stale rows. *)
StaleRows ==
    SubSeq(old, 1, IF Len(old) < RefreshLimit THEN Len(old) ELSE RefreshLimit)

(* The 24-hour ticker fires. In a day the workers have taken every job of  *)
(* the last refresh: there are 1000 at most, given up in half a minute.    *)
RefreshStale ==
    /\ up
    /\ queue = <<>> /\ refresh = <<>>
    /\ \/ refresh' = StaleRows /\ UNCHANGED spent
       \/ /\ Fault    \* a query fails
          /\ UNCHANGED refresh
    /\ UNCHANGED <<up, queue, work, tableVars, version, broken>>

RefreshEnqueue ==
    /\ up
    /\ refresh # <<>>
    /\ Enqueue(Head(refresh))
    /\ refresh' = Tail(refresh)
    /\ UNCHANGED <<up, work, tableVars, worldVars>>

-----------------------------------------------------------------------------
(* The world: new documents, contracts that break, stops of the process. *)

Publish ==
    /\ version < MaxVersion
    /\ version' = version + 1
    /\ UNCHANGED <<up, programVars, tableVars, broken, spent>>

Break(t) ==
    /\ t \in Breakable \ broken
    /\ broken' = broken \cup {t}
    /\ UNCHANGED <<up, programVars, tableVars, version, spent>>

(* Everything but the table is lost. *)
Crash ==
    /\ up
    /\ Fault
    /\ up' = FALSE
    /\ queue' = <<>> /\ work' = [w \in Worker |-> NoJob]
    /\ refresh' = <<>>
    /\ UNCHANGED <<tableVars, version, broken>>

Restart ==
    /\ ~ up
    /\ up' = TRUE
    /\ UNCHANGED <<programVars, tableVars, worldVars>>

WorkerStep(w) ==
    Take(w) \/ Read(w) \/ ReadErrorPage(w) \/ FetchFails(w) \/ Store(w)

Next ==
    \/ \E t \in Token : Submit(t) \/ Break(t)
    \/ \E w \in Worker : WorkerStep(w)
    \/ Age \/ RefreshStale \/ RefreshEnqueue
    \/ Publish \/ Crash \/ Restart

Spec == Init /\ [][Next]_vars

(* Goroutines run, time passes, and a stopped process is started again. *)
Fairness ==
    /\ \A w \in Worker : WF_vars(WorkerStep(w))
    /\ WF_vars(Age) /\ WF_vars(RefreshStale) /\ WF_vars(RefreshEnqueue)
    /\ WF_vars(Restart)

FairSpec == Spec /\ Fairness

-----------------------------------------------------------------------------
(* Properties. *)

Job == [pc : {"idle", "fetch", "store"},
        token : {{}} \cup {{t} : t \in Token},
        attempt : 0..(MaxAttempts - 1),
        doc : Document]

(* The variables have the types of the code's: the channel never holds     *)
(* more than its capacity, a job is tried MaxAttempts times at most, and   *)
(* the table has one row for a token.                                      *)
TypeOK ==
    /\ up \in BOOLEAN
    /\ queue \in Seq(Token) /\ Len(queue) <= QueueCap
    /\ work \in [Worker -> Job]
    /\ refresh \in Seq(Token) /\ Len(refresh) <= RefreshLimit
    /\ row \in [Token -> Document]
    /\ old \o recent \in Seq(Token) /\ IsInjective(old \o recent)
    /\ version \in 1..MaxVersion
    /\ broken \subseteq Breakable
    /\ spent \in [submits : 0..MaxSubmits, faults : 0..MaxFaults]

Steady == Token \ Breakable

(* A token that got into the queue gets a row, even if its fetch fails     *)
(* less than MaxAttempts times, unless the process stops (fetchWithRetry). *)
QueuedIsFetched == \A t \in Steady : t \in Range(queue) ~> (Stored(t) \/ ~ up)



-----------------------------------------------------------------------------
(* What the design says, and the code does not do.                         *)

(* A fetch that fails writes nothing to nft_metadata (design, 7.3).        *)
FailureWritesNothing == \A t \in Token : Stored(t) => row[t] # Blank

(* A row does not go back to an older document.                            *)
NeverOlder == [][\A t \in Token : row'[t] >= row[t]]_vars

=============================================================================
