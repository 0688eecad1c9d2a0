---------------------------- MODULE MetadataProofs ----------------------------
(***************************************************************************)
(* What holds of the metadata service for any number of tokens, workers,   *)
(* failures and stops: the types, the order in which rows are refreshed,   *)
(* and the one way in which a row comes to hold an older document.         *)
(***************************************************************************)
EXTENDS Metadata, SequenceTheorems, TLAPS

(* A sequence without repetitions, element by element. *)
Distinct(s) == \A i, j \in 1..Len(s) : s[i] = s[j] => i = j
Among(t, s) == \E i \in 1..Len(s) : s[i] = t
Apart(r, s) == \A i \in 1..Len(r), j \in 1..Len(s) : r[i] # s[j]

(* Where the elements of a sequence come from when one is taken out.       *)
LEMMA RemoveFirstShifts ==
    ASSUME NEW s \in Seq(Token), NEW t \in Token, Distinct(s)
    PROVE  LET r == RemoveFirst(s, t)
           IN  /\ r \in Seq(Token)
               /\ \/ r = s /\ ~ Among(t, s)
                  \/ \E n \in 1..Len(s) :
                        /\ s[n] = t
                        /\ Len(r) = Len(s) - 1
                        /\ \A i \in 1..Len(r) : r[i] = IF i < n THEN s[i] ELSE s[i + 1]
<1> DEFINE r == RemoveFirst(s, t)
<1>1. CASE ~ Among(t, s)
  <2>1. r = s
    BY <1>1 DEF RemoveFirst, Among
  <2> QED BY <1>1, <2>1
<1>2. CASE Among(t, s)
  <2>1. PICK n \in 1..Len(s) : s[n] = t
    BY <1>2 DEF Among
  <2>2. {i \in 1..Len(s) : s[i] = t} = {n}
    BY <2>1 DEF Distinct
  <2>3. SelectInSeq(s, LAMBDA v : v = t) = n
    <3>1. Min({n}) = n
      BY <2>1 DEF Min
    <3> QED BY <2>2, <3>1 DEF SelectInSeq
  <2>4. r = SubSeq(s, 1, n - 1) \o SubSeq(s, n + 1, Len(s))
    BY <2>1, <2>3 DEF RemoveFirst, RemoveAt
  <2>5. /\ SubSeq(s, 1, n - 1) \in Seq(Token) /\ SubSeq(s, n + 1, Len(s)) \in Seq(Token)
        /\ Len(SubSeq(s, 1, n - 1)) = n - 1 /\ Len(SubSeq(s, n + 1, Len(s))) = Len(s) - n
        /\ \A i \in 1..(n - 1) : SubSeq(s, 1, n - 1)[i] = s[i]
        /\ \A i \in 1..(Len(s) - n) : SubSeq(s, n + 1, Len(s))[i] = s[n + i]
    BY <2>1
  <2> DEFINE front == SubSeq(s, 1, n - 1)
             rest == SubSeq(s, n + 1, Len(s))
  <2> HIDE DEF front, rest, r
  <2>6. /\ r \in Seq(Token) /\ Len(r) = Len(s) - 1
        /\ \A i \in 1..Len(r) : r[i] = IF i <= Len(front) THEN front[i] ELSE rest[i - Len(front)]
    <3>1. /\ r = front \o rest /\ front \in Seq(Token) /\ rest \in Seq(Token)
          /\ Len(front) = n - 1 /\ Len(rest) = Len(s) - n
      BY <2>4, <2>5 DEF front, rest
    <3>2. /\ r \in Seq(Token) /\ Len(r) = Len(front) + Len(rest)
          /\ \A i \in 1..(Len(front) + Len(rest)) :
                r[i] = IF i <= Len(front) THEN front[i] ELSE rest[i - Len(front)]
      BY <3>1, ConcatProperties, Zenon
    <3>3. Len(r) = Len(s) - 1
      BY <2>1, <3>1, <3>2
    <3> QED BY <3>2, <3>3
  <2>7. \A i \in 1..Len(r) : r[i] = IF i < n THEN s[i] ELSE s[i + 1]
    <3> SUFFICES ASSUME NEW i \in 1..Len(r)
                 PROVE  r[i] = IF i < n THEN s[i] ELSE s[i + 1]
      OBVIOUS
    <3>1. CASE i < n
      BY <2>1, <2>5, <2>6, <3>1 DEF front
    <3>2. CASE ~ (i < n)
      <4>1. i - (n - 1) \in 1..(Len(s) - n) /\ n + (i - (n - 1)) = i + 1
        BY <2>1, <2>6, <3>2
      <4>2. r[i] = rest[i - (n - 1)]
        BY <2>1, <2>5, <2>6, <3>2 DEF front
      <4> QED BY <2>5, <3>2, <4>1, <4>2 DEF rest
    <3> QED BY <3>1, <3>2
  <2>8. /\ r \in Seq(Token)
        /\ \E m \in 1..Len(s) :
              /\ s[m] = t
              /\ Len(r) = Len(s) - 1
              /\ \A i \in 1..Len(r) : r[i] = IF i < m THEN s[i] ELSE s[i + 1]
    BY <2>1, <2>6, <2>7
  <2> QED BY <2>8 DEF r
<1> QED BY <1>1, <1>2

Before(u, t, s) == \E i, j \in 1..Len(s) : i < j /\ s[i] = u /\ s[j] = t

(* Taking an element out leaves the others, in their order.                *)
LEMMA RemoveFirstKeeps ==
    ASSUME NEW s \in Seq(Token), NEW t \in Token, Distinct(s)
    PROVE  /\ RemoveFirst(s, t) \in Seq(Token) /\ Distinct(RemoveFirst(s, t))
           /\ ~ Among(t, RemoveFirst(s, t))
           /\ \A i \in 1..Len(RemoveFirst(s, t)) : \E j \in 1..Len(s) : RemoveFirst(s, t)[i] = s[j]
           /\ \A u, v : Before(u, v, RemoveFirst(s, t)) => Before(u, v, s)
<1> DEFINE r == RemoveFirst(s, t)
<1>1. ASSUME NEW n \in 1..Len(s), s[n] = t, r \in Seq(Token), Len(r) = Len(s) - 1,
             \A i \in 1..Len(r) : r[i] = IF i < n THEN s[i] ELSE s[i + 1]
      PROVE  /\ Distinct(r) /\ ~ Among(t, r)
             /\ \A i \in 1..Len(r) : \E j \in 1..Len(s) : r[i] = s[j]
             /\ \A u, v : Before(u, v, r) => Before(u, v, s)
  <2> HIDE DEF r
  <2> DEFINE at == [i \in 1..Len(r) |-> IF i < n THEN i ELSE i + 1]
  <2>1. \A i \in 1..Len(r) : at[i] \in 1..Len(s) /\ at[i] # n /\ r[i] = s[at[i]]
    BY <1>1
  <2>2. \A i, j \in 1..Len(r) : i < j => at[i] < at[j]
    BY <1>1
  <2>3. \A i, j \in 1..Len(r) : i # j => at[i] # at[j]
    BY <1>1
  <2> HIDE DEF at
  <2>4. Distinct(r)
    BY <2>1, <2>3 DEF Distinct
  <2>5. ~ Among(t, r)
    BY <1>1, <2>1 DEF Distinct, Among
  <2>6. \A u, v : Before(u, v, r) => Before(u, v, s)
    BY <2>1, <2>2 DEF Before
  <2> QED BY <2>1, <2>4, <2>5, <2>6
<1>2. /\ r \in Seq(Token)
      /\ \/ r = s /\ ~ Among(t, s)
         \/ \E n \in 1..Len(s) :
               /\ s[n] = t
               /\ Len(r) = Len(s) - 1
               /\ \A i \in 1..Len(r) : r[i] = IF i < n THEN s[i] ELSE s[i + 1]
  BY RemoveFirstShifts
<1> HIDE DEF r
<1>3. /\ Distinct(r) /\ ~ Among(t, r)
      /\ \A i \in 1..Len(r) : \E j \in 1..Len(s) : r[i] = s[j]
      /\ \A u, v : Before(u, v, r) => Before(u, v, s)
  <2>1. CASE r = s /\ ~ Among(t, s)
    BY <2>1
  <2>2. CASE \E n \in 1..Len(s) :
               /\ s[n] = t
               /\ Len(r) = Len(s) - 1
               /\ \A i \in 1..Len(r) : r[i] = IF i < n THEN s[i] ELSE s[i + 1]
    BY <1>1, <1>2, <2>2
  <2> QED BY <1>2, <2>1, <2>2
<1> QED BY <1>2, <1>3 DEF r

-----------------------------------------------------------------------------
(* The rows, in the order of synced_at: a token has one row, which is      *)
(* either older than 24 hours or not.                                      *)
TableInv ==
    /\ old \in Seq(Token) /\ recent \in Seq(Token)
    /\ Distinct(old) /\ Distinct(recent) /\ Apart(old, recent)

(* The rest; a worker that is at a job has a token.                        *)
ServiceInv ==
    /\ up \in BOOLEAN
    /\ queue \in Seq(Token) /\ Len(queue) <= QueueCap
    /\ work \in [Worker -> Job]
    /\ \A w \in Worker : work[w].pc # "idle" => work[w].token # {}
    /\ refresh \in Seq(Token) /\ Len(refresh) <= RefreshLimit
    /\ row \in [Token -> Document]
    /\ version \in 1..MaxVersion
    /\ broken \subseteq Breakable
    /\ spent \in [submits : 0..MaxSubmits, faults : 0..MaxFaults]

(* Both hold at the start.                                                 *)
LEMMA ServiceInit == Init => TableInv /\ ServiceInv
<1> SUFFICES ASSUME Init PROVE TableInv /\ ServiceInv
  OBVIOUS
<1>1. TableInv
  BY DEF Init, TableInv, Distinct, Apart
<1>2. NoJob \in Job
  BY BoundsAssumption DEF NoJob, Job, Document, Blank
<1>3. work \in [Worker -> Job] /\ \A w \in Worker : work[w].pc = "idle"
  BY <1>2 DEF Init, NoJob
<1>4. /\ queue \in Seq(Token) /\ Len(queue) <= QueueCap
      /\ refresh \in Seq(Token) /\ Len(refresh) <= RefreshLimit
  BY BoundsAssumption DEF Init
<1>5. /\ row \in [Token -> Document] /\ version \in 1..MaxVersion
      /\ spent \in [submits : 0..MaxSubmits, faults : 0..MaxFaults]
  BY BoundsAssumption DEF Init, Document, Blank
<1> QED BY <1>1, <1>3, <1>4, <1>5 DEF Init, ServiceInv

(* The upsert moves a row to the end: it is the youngest then.             *)
LEMMA SyncKeepsTable ==
    ASSUME TableInv, NEW t \in Token, Sync(t)
    PROVE  TableInv'
<1>1. /\ old' = RemoveFirst(old, t) /\ recent' = Append(RemoveFirst(recent, t), t)
  BY DEF Sync
<1> DEFINE r == RemoveFirst(recent, t)
<1>2. /\ old' \in Seq(Token) /\ Distinct(old') /\ ~ Among(t, old')
      /\ \A i \in 1..Len(old') : \E j \in 1..Len(old) : old'[i] = old[j]
  BY <1>1, RemoveFirstKeeps DEF TableInv
<1>3. /\ r \in Seq(Token) /\ Distinct(r) /\ ~ Among(t, r)
      /\ \A i \in 1..Len(r) : \E j \in 1..Len(recent) : r[i] = recent[j]
  BY RemoveFirstKeeps DEF TableInv
<1> HIDE DEF r
<1>4. /\ recent' \in Seq(Token) /\ Len(recent') = Len(r) + 1
      /\ \A i \in 1..Len(r) : recent'[i] = r[i]
      /\ recent'[Len(r) + 1] = t
  BY <1>1, <1>3 DEF r
<1>5. \A i \in 1..Len(recent') : i \in 1..Len(r) \/ i = Len(r) + 1
  BY <1>3, <1>4
<1>6. Distinct(recent')
  BY <1>3, <1>4, <1>5 DEF Distinct, Among
<1>7. Apart(old', recent')
  <2> SUFFICES ASSUME NEW i \in 1..Len(old'), NEW j \in 1..Len(recent')
               PROVE  old'[i] # recent'[j]
    BY DEF Apart
  <2>1. CASE j \in 1..Len(r)
    <3>1. \E k \in 1..Len(recent) : recent'[j] = recent[k]
      BY <1>3, <1>4, <2>1
    <3> QED BY <1>2, <3>1 DEF TableInv, Apart
  <2>2. CASE j = Len(r) + 1
    BY <1>2, <1>4, <2>2 DEF Among
  <2> QED BY <1>5, <2>1, <2>2
<1> QED BY <1>2, <1>4, <1>6, <1>7 DEF TableInv

(* A day later the oldest of the young rows is the youngest of the old.    *)
LEMMA AgeMoves ==
    ASSUME TableInv, Age
    PROVE  /\ old' \in Seq(Token) /\ Len(old') = Len(old) + 1
           /\ \A i \in 1..Len(old) : old'[i] = old[i]
           /\ old'[Len(old) + 1] = recent[1]
           /\ recent' \in Seq(Token) /\ 1 \in 1..Len(recent)
           /\ \A i \in 1..Len(recent') : i + 1 \in 1..Len(recent) /\ recent'[i] = recent[i + 1]
<1>1. /\ recent # <<>> /\ old' = Append(old, Head(recent)) /\ recent' = Tail(recent)
      /\ old \in Seq(Token) /\ recent \in Seq(Token)
  BY DEF Age, TableInv
<1>2. Len(recent) \in Nat \ {0} /\ Head(recent) = recent[1] /\ Head(recent) \in Token
  BY <1>1
<1> QED BY <1>1, <1>2

LEMMA TableStep ==
    ASSUME TableInv, ServiceInv, [Next]_vars
    PROVE  TableInv'
<1>1. ASSUME NEW w \in Worker, Store(w) PROVE TableInv'
  <2>1. TokenOf(w) \in Token
    BY <1>1 DEF ServiceInv, Store, At, Job, TokenOf
  <2> QED BY <1>1, <2>1, SyncKeepsTable DEF Store
<1>2. CASE Age
  <2>1. \A i \in 1..Len(old') : i \in 1..Len(old) \/ i = Len(old) + 1
    BY <1>2, AgeMoves DEF TableInv
  <2>2. Distinct(old')
    BY <1>2, <2>1, AgeMoves DEF TableInv, Distinct, Apart
  <2>3. Distinct(recent')
    <3> SUFFICES ASSUME NEW i \in 1..Len(recent'), NEW j \in 1..Len(recent'), recent'[i] = recent'[j]
                 PROVE  i = j
      BY DEF Distinct
    <3>1. i + 1 = j + 1
      BY <1>2, AgeMoves DEF TableInv, Distinct
    <3> QED BY <3>1
  <2>4. Apart(old', recent')
    <3> SUFFICES ASSUME NEW i \in 1..Len(old'), NEW j \in 1..Len(recent')
                 PROVE  old'[i] # recent'[j]
      BY DEF Apart
    <3>1. recent'[j] = recent[j + 1] /\ j + 1 \in 1..Len(recent) /\ j + 1 # 1 /\ 1 \in 1..Len(recent)
      BY <1>2, AgeMoves
    <3>2. CASE i \in 1..Len(old)
      BY <1>2, <3>1, <3>2, AgeMoves DEF TableInv, Apart
    <3>3. CASE i = Len(old) + 1
      BY <1>2, <3>1, <3>3, AgeMoves DEF TableInv, Distinct
    <3> QED BY <2>1, <3>2, <3>3
  <2> QED BY <1>2, <2>2, <2>3, <2>4, AgeMoves DEF TableInv
<1>3. CASE UNCHANGED <<old, recent>>
  BY <1>3 DEF TableInv, Distinct, Apart
<1>4. \/ \E t \in Token : Submit(t) \/ Break(t)
      \/ \E w \in Worker : Take(w) \/ Read(w) \/ ReadErrorPage(w) \/ FetchFails(w)
      \/ RefreshStale \/ RefreshEnqueue \/ Publish \/ Crash \/ Restart \/ UNCHANGED vars
      => UNCHANGED <<old, recent>>
  BY DEF Submit, Break, Take, Read, ReadErrorPage, FetchFails, RefreshStale, RefreshEnqueue,
         Publish, Crash, Restart, vars, tableVars
<1> QED BY <1>1, <1>2, <1>3, <1>4 DEF Next, WorkerStep

(* Only what has room is sent to the channel.                              *)
LEMMA EnqueueKeepsCap ==
    ASSUME ServiceInv, NEW t \in Token, Enqueue(t)
    PROVE  queue' \in Seq(Token) /\ Len(queue') <= QueueCap
<1>1. QueueCap \in Nat /\ Len(queue) \in Nat
  BY BoundsAssumption DEF ServiceInv
<1>2. CASE HasRoom
  <2>1. queue' = Append(queue, t)
    BY <1>2 DEF Enqueue
  <2>2. Len(queue') = Len(queue) + 1
    BY <2>1 DEF ServiceInv
  <2> QED BY <1>1, <1>2, <2>1, <2>2 DEF ServiceInv, HasRoom
<1>3. CASE ~ HasRoom
  BY <1>3 DEF Enqueue, ServiceInv
<1> QED BY <1>2, <1>3

(* A fault is one of those the bound allows.                               *)
LEMMA FaultKeepsBound ==
    ASSUME ServiceInv, Fault
    PROVE  spent' \in [submits : 0..MaxSubmits, faults : 0..MaxFaults]
BY BoundsAssumption DEF ServiceInv, Fault, Spend

LEMMA ServiceStep ==
    ASSUME TableInv, ServiceInv, [Next]_vars
    PROVE  ServiceInv'
<1>0. /\ MaxAttempts \in Nat \ {0} /\ MaxVersion \in Nat \ {0} /\ MaxSubmits \in Nat
      /\ RefreshLimit \in Nat \ {0} /\ QueueCap \in Nat \ {0} /\ NoJob \in Job
  BY BoundsAssumption DEF NoJob, Job, Document, Blank
<1>1. ASSUME NEW w \in Worker, NEW j \in Job, j.pc # "idle" => j.token # {},
             work' = [work EXCEPT ![w] = j]
      PROVE  work' \in [Worker -> Job] /\ \A v \in Worker : work'[v].pc # "idle" => work'[v].token # {}
  BY <1>1 DEF ServiceInv
<1>2. ASSUME NEW t \in Token, Submit(t) PROVE ServiceInv'
  <2>1. spent' \in [submits : 0..MaxSubmits, faults : 0..MaxFaults]
    BY <1>0, <1>2 DEF Submit, Spend, ServiceInv
  <2> QED BY <1>2, <2>1, EnqueueKeepsCap DEF Submit, ServiceInv, tableVars
<1>3. ASSUME NEW w \in Worker, Take(w) PROVE ServiceInv'
  <2>1. queue # <<>> /\ queue' = Tail(queue)
    BY <1>3 DEF Take
  <2>2. /\ Head(queue) \in Token /\ queue' \in Seq(Token) /\ Len(queue') <= QueueCap
    <3>1. Len(queue) \in Nat \ {0} /\ Len(queue') = Len(queue) - 1
      BY <2>1 DEF ServiceInv
    <3> QED BY <1>0, <2>1, <3>1 DEF ServiceInv
  <2> DEFINE j == [NoJob EXCEPT !.pc = "fetch", !.token = {Head(queue)}]
  <2>3. j \in Job /\ j.token # {}
    BY <1>0, <2>2 DEF NoJob, Job
  <2>4. work' = [work EXCEPT ![w] = j]
    BY <1>3 DEF Take
  <2> HIDE DEF j
  <2>5. work' \in [Worker -> Job] /\ \A v \in Worker : work'[v].pc # "idle" => work'[v].token # {}
    BY <1>1, <2>3, <2>4
  <2> QED BY <1>3, <2>2, <2>5 DEF Take, ServiceInv, tableVars, worldVars
<1>4. ASSUME NEW w \in Worker, Read(w) \/ ReadErrorPage(w) PROVE ServiceInv'
  <2>0. version \in Document /\ Blank \in Document
    BY <1>0 DEF ServiceInv, Document, Blank
  <2>1. PICK d \in Document : work' = [work EXCEPT ![w].pc = "store", ![w].doc = d]
    <3>1. CASE Read(w)
      BY <2>0, <3>1 DEF Read
    <3>2. CASE ReadErrorPage(w)
      BY <2>0, <3>2 DEF ReadErrorPage
    <3> QED BY <1>4, <3>1, <3>2
  <2> DEFINE j == [[work[w] EXCEPT !.pc = "store"] EXCEPT !.doc = d]
  <2>2. work[w] \in Job /\ work[w].token # {}
    BY <1>4 DEF Read, ReadErrorPage, At, ServiceInv
  <2>3. j \in Job /\ j.token # {}
    BY <2>2 DEF Job
  <2>4. work' = [work EXCEPT ![w] = j]
    BY <2>1 DEF ServiceInv
  <2> HIDE DEF j
  <2>5. work' \in [Worker -> Job] /\ \A v \in Worker : work'[v].pc # "idle" => work'[v].token # {}
    BY <1>1, <2>3, <2>4
  <2>6. spent' \in [submits : 0..MaxSubmits, faults : 0..MaxFaults]
    BY <1>4, FaultKeepsBound DEF Read, ReadErrorPage, ServiceInv, worldVars
  <2> QED BY <1>4, <2>5, <2>6 DEF Read, ReadErrorPage, ServiceInv, tableVars, worldVars
<1>5. ASSUME NEW w \in Worker, FetchFails(w) PROVE ServiceInv'
  <2> DEFINE j == IF TriesAgain(w)
                  THEN [work[w] EXCEPT !.pc = "fetch", !.attempt = work[w].attempt + 1, !.doc = Blank]
                  ELSE NoJob
  <2>1. work[w] \in Job /\ work[w].token # {}
    BY <1>5 DEF FetchFails, At, ServiceInv
  <2>2. TriesAgain(w) => work[w].attempt + 1 \in 0..(MaxAttempts - 1)
    BY <1>0, <2>1 DEF TriesAgain, Job
  <2>3. Blank \in Document
    BY <1>0 DEF Blank, Document
  <2>4. j \in Job
    BY <1>0, <2>1, <2>2, <2>3 DEF Job
  <2>5. j.pc # "idle" => j.token # {}
    BY <2>1 DEF Job, NoJob
  <2>6. work' = [work EXCEPT ![w] = j]
    <3>1. CASE TriesAgain(w)
      BY <1>5, <3>1 DEF FetchFails
    <3>2. CASE ~ TriesAgain(w)
      BY <1>5, <3>2 DEF FetchFails
    <3> QED BY <3>1, <3>2
  <2> HIDE DEF j
  <2>7. work' \in [Worker -> Job] /\ \A v \in Worker : work'[v].pc # "idle" => work'[v].token # {}
    BY <1>1, <2>4, <2>5, <2>6
  <2>8. spent' \in [submits : 0..MaxSubmits, faults : 0..MaxFaults]
    BY <1>5, FaultKeepsBound DEF FetchFails, ServiceInv
  <2> QED BY <1>5, <2>7, <2>8 DEF FetchFails, ServiceInv, tableVars
<1>6. ASSUME NEW w \in Worker, Store(w) PROVE ServiceInv'
  <2>1. work' = [work EXCEPT ![w] = NoJob] /\ row' = [row EXCEPT ![TokenOf(w)] = work[w].doc]
    BY <1>6 DEF Store, Upsert
  <2>2. work[w].doc \in Document
    BY DEF ServiceInv, Job
  <2>3. row' \in [Token -> Document]
    BY <2>1, <2>2 DEF ServiceInv
  <2>4. work' \in [Worker -> Job] /\ \A v \in Worker : work'[v].pc # "idle" => work'[v].token # {}
    BY <1>0, <1>1, <2>1 DEF NoJob
  <2> QED BY <1>6, <2>3, <2>4 DEF Store, ServiceInv, worldVars
<1>7. CASE RefreshStale
  <2>1. refresh' = StaleRows \/ refresh' = refresh
    BY <1>7 DEF RefreshStale
  <2>2. StaleRows \in Seq(Token) /\ Len(StaleRows) <= RefreshLimit
    BY <1>0 DEF StaleRows, TableInv
  <2>3. spent' \in [submits : 0..MaxSubmits, faults : 0..MaxFaults]
    BY <1>7, FaultKeepsBound DEF RefreshStale, ServiceInv
  <2> QED BY <1>7, <2>1, <2>2, <2>3 DEF RefreshStale, ServiceInv, tableVars
<1>8. CASE RefreshEnqueue
  <2>1. refresh # <<>> /\ refresh' = Tail(refresh)
    BY <1>8 DEF RefreshEnqueue
  <2>2. Head(refresh) \in Token /\ refresh' \in Seq(Token) /\ Len(refresh') <= RefreshLimit
    <3>1. Len(refresh) \in Nat \ {0} /\ Len(refresh') = Len(refresh) - 1
      BY <2>1 DEF ServiceInv
    <3> QED BY <1>0, <2>1, <3>1 DEF ServiceInv
  <2> QED BY <1>8, <2>2, EnqueueKeepsCap DEF RefreshEnqueue, ServiceInv, tableVars, worldVars
<1>9. CASE Crash
  <2>1. work' = [v \in Worker |-> NoJob] /\ NoJob.pc = "idle"
    BY <1>9 DEF Crash, NoJob
  <2>2. /\ queue' \in Seq(Token) /\ Len(queue') <= QueueCap
        /\ refresh' \in Seq(Token) /\ Len(refresh') <= RefreshLimit
    BY <1>0, <1>9 DEF Crash
  <2> QED BY <1>0, <1>9, <2>1, <2>2, FaultKeepsBound DEF Crash, ServiceInv, tableVars
<1>10. CASE Age \/ Publish \/ Restart \/ (\E t \in Token : Break(t)) \/ UNCHANGED vars
  <2>1. UNCHANGED <<queue, work, refresh, row, spent>>
    BY <1>10 DEF Age, Publish, Restart, Break, vars, programVars, tableVars, worldVars
  <2>2. version' \in 1..MaxVersion
    BY <1>0, <1>10 DEF Age, Publish, Restart, Break, vars, worldVars, ServiceInv
  <2>3. broken' = broken \/ \E t \in Breakable : broken' = broken \cup {t}
    BY <1>10 DEF Age, Publish, Restart, Break, vars, worldVars
  <2>4. up' = up \/ up' = TRUE
    BY <1>10 DEF Age, Publish, Restart, Break, vars
  <2> QED BY <2>1, <2>2, <2>3, <2>4 DEF ServiceInv
<1> QED
  BY <1>2, <1>3, <1>4, <1>5, <1>6, <1>7, <1>8, <1>9, <1>10 DEF Next, WorkerStep

LEMMA ServiceInvHolds == Spec => [](TableInv /\ ServiceInv)
BY ServiceInit, TableStep, ServiceStep, PTL DEF Spec

(* Whatever fails and however many workers write: the channel stays within *)
(* its capacity, no job is tried once too often, and a token has one row.  *)
THEOREM MetadataTypes == Spec => []TypeOK
<1>1. TableInv /\ ServiceInv => TypeOK
  <2> SUFFICES ASSUME TableInv, ServiceInv PROVE TypeOK
    OBVIOUS
  <2> DEFINE rows == old \o recent
  <2>1. /\ rows \in Seq(Token) /\ Len(rows) = Len(old) + Len(recent)
        /\ \A i \in 1..(Len(old) + Len(recent)) :
              rows[i] = IF i <= Len(old) THEN old[i] ELSE recent[i - Len(old)]
    BY ConcatProperties, Zenon DEF TableInv
  <2> HIDE DEF rows
  <2>2. IsInjective(rows)
    <3> SUFFICES ASSUME NEW i \in 1..Len(rows), NEW j \in 1..Len(rows), rows[i] = rows[j]
                 PROVE  i = j
      BY <2>1 DEF IsInjective
    <3>1. /\ Len(old) \in Nat /\ Len(recent) \in Nat
          /\ \A k \in 1..Len(rows) : ~ (k <= Len(old)) => k - Len(old) \in 1..Len(recent)
          /\ \A k \in 1..Len(rows) : k <= Len(old) => k \in 1..Len(old)
      BY <2>1 DEF TableInv
    <3>2. CASE i <= Len(old) /\ j <= Len(old)
      BY <2>1, <3>1, <3>2 DEF TableInv, Distinct
    <3>3. CASE ~ (i <= Len(old)) /\ ~ (j <= Len(old))
      <4>1. i - Len(old) = j - Len(old)
        BY <2>1, <3>1, <3>3 DEF TableInv, Distinct
      <4> QED BY <3>1, <4>1
    <3>4. CASE i <= Len(old) /\ ~ (j <= Len(old))
      BY <2>1, <3>1, <3>4 DEF TableInv, Apart
    <3>5. CASE ~ (i <= Len(old)) /\ j <= Len(old)
      BY <2>1, <3>1, <3>5 DEF TableInv, Apart
    <3> QED BY <3>2, <3>3, <3>4, <3>5
  <2> QED BY <2>1, <2>2 DEF rows, ServiceInv, TypeOK
<1> QED BY <1>1, ServiceInvHolds, PTL

-----------------------------------------------------------------------------
(* GetStaleMetadata takes the rows by synced_at: a row that waits for its  *)
(* refresh is never overtaken by another, so what is before it only gets   *)
(* less, until it is its turn.                                             *)
NoOvertaking ==
    [][\A t, u \in Token :
          IsStale(t) /\ IsStale(t)' /\ Before(u, t, old)' => Before(u, t, old)]_vars

THEOREM StaleRowsAreNotOvertaken == Spec => NoOvertaking
<1>1. ASSUME TableInv, ServiceInv, [Next]_vars, NEW t \in Token, NEW u \in Token,
             IsStale(t), Before(u, t, old)'
      PROVE  Before(u, t, old)
  <2>0. Among(t, old)
    BY <1>1 DEF IsStale, Range, TableInv, Among
  <2>1. CASE old' = old
    BY <1>1, <2>1 DEF Before
  <2>2. CASE Age
    <3>1. PICK i \in 1..Len(old'), j \in 1..Len(old') : i < j /\ old'[i] = u /\ old'[j] = t
      BY <1>1 DEF Before
    <3>2. \A k \in 1..Len(old') : k \in 1..Len(old) \/ k = Len(old) + 1
      BY <1>1, <2>2, AgeMoves DEF TableInv
    <3>3. j # Len(old) + 1
      BY <1>1, <2>0, <2>2, <3>1, AgeMoves DEF TableInv, Apart, Among
    <3>4. i \in 1..Len(old) /\ j \in 1..Len(old)
      BY <1>1, <3>1, <3>2, <3>3 DEF TableInv
    <3> QED BY <1>1, <2>2, <3>1, <3>4, AgeMoves DEF Before
  <2>3. ASSUME NEW w \in Worker, Store(w) PROVE Before(u, t, old)
    <3>1. TokenOf(w) \in Token
      BY <1>1, <2>3 DEF ServiceInv, Store, At, Job, TokenOf
    <3>2. old' = RemoveFirst(old, TokenOf(w))
      BY <2>3 DEF Store, Sync
    <3>3. Before(u, t, RemoveFirst(old, TokenOf(w)))
      BY <1>1, <3>2 DEF Before
    <3> QED BY <1>1, <3>1, <3>3, RemoveFirstKeeps DEF TableInv
  <2>4. \/ \E v \in Token : Submit(v) \/ Break(v)
        \/ \E w \in Worker : Take(w) \/ Read(w) \/ ReadErrorPage(w) \/ FetchFails(w)
        \/ RefreshStale \/ RefreshEnqueue \/ Publish \/ Crash \/ Restart \/ UNCHANGED vars
        => old' = old
    BY DEF Submit, Break, Take, Read, ReadErrorPage, FetchFails, RefreshStale, RefreshEnqueue,
           Publish, Crash, Restart, vars, tableVars
  <2> QED BY <1>1, <2>1, <2>2, <2>3, <2>4 DEF Next, WorkerStep
<1>2. TableInv /\ ServiceInv /\ [Next]_vars =>
        [\A t, u \in Token :
            IsStale(t) /\ IsStale(t)' /\ Before(u, t, old)' => Before(u, t, old)]_vars
  BY <1>1
<1> QED BY <1>2, ServiceInvHolds, PTL DEF Spec, NoOvertaking

-----------------------------------------------------------------------------
(* No two workers are at the same token.                                   *)
OneJobPerToken ==
    \A v, w \in Worker : v # w => work[v].token \cap work[w].token = {}

(* A row does not go back to an older document; an error page is none.     *)
NeverOlderDocument ==
    [][\A t \in Token : row'[t] # Blank => row'[t] >= row[t]]_vars

(* What is in a row was published; what a worker brings is as new as that. *)
FreshInv ==
    /\ \A t \in Token : row[t] <= version
    /\ \A w \in Worker : work[w].pc = "store" =>
          /\ work[w].doc <= version
          /\ work[w].doc = Blank \/ \A t \in work[w].token : row[t] <= work[w].doc

LEMMA FreshStep ==
    ASSUME TableInv, ServiceInv, OneJobPerToken, FreshInv, [Next]_vars
    PROVE  FreshInv' /\ \A t \in Token : row'[t] # Blank => row'[t] >= row[t]
<1>0. /\ version \in Nat /\ version' \in Nat /\ version <= version'
      /\ \A t \in Token : row[t] \in Nat
      /\ \A w \in Worker : work[w].doc \in Nat /\ work[w].token \subseteq Token
  <2>1. version' = version \/ version' = version + 1
    BY DEF Next, WorkerStep, Submit, Break, Take, Read, ReadErrorPage, FetchFails, Store, Age,
           RefreshStale, RefreshEnqueue, Publish, Crash, Restart, vars, worldVars
  <2>2. \A d \in Document : d \in Nat
    BY BoundsAssumption DEF Document, Blank
  <2>3. version \in Nat /\ \A t \in Token : row[t] \in Nat
    BY <2>2 DEF ServiceInv
  <2>4. ASSUME NEW w \in Worker
        PROVE  work[w].doc \in Nat /\ work[w].token \subseteq Token
    BY <2>2 DEF ServiceInv, Job
  <2> QED BY <2>1, <2>3, <2>4
<1>1. ASSUME row' = row,
             \A w \in Worker : work'[w].pc = "store" =>
                work[w].pc = "store" /\ work'[w].doc = work[w].doc /\ work'[w].token = work[w].token
      PROVE  FreshInv'
  BY <1>0, <1>1 DEF FreshInv
<1>2. ASSUME NEW w \in Worker, Read(w) PROVE FreshInv'
  <2>1. /\ work[w].pc = "fetch" /\ row' = row /\ version' = version
        /\ work'[w].pc = "store" /\ work'[w].doc = version /\ work'[w].token = work[w].token
        /\ \A v \in Worker : v # w => work'[v] = work[v]
    BY <1>2 DEF Read, At, ServiceInv, Job, tableVars, worldVars
  <2> QED BY <1>0, <2>1 DEF FreshInv
<1>3. ASSUME NEW w \in Worker, ReadErrorPage(w) PROVE FreshInv'
  <2>1. /\ row' = row /\ version' = version
        /\ work'[w].pc = "store" /\ work'[w].doc = Blank
        /\ \A v \in Worker : v # w => work'[v] = work[v]
    BY <1>3 DEF ReadErrorPage, ServiceInv, Job, tableVars
  <2> QED BY <1>0, <2>1 DEF FreshInv, Blank
<1>4. ASSUME NEW w \in Worker, Store(w)
      PROVE  FreshInv' /\ \A t \in Token : row'[t] # Blank => row'[t] >= row[t]
  <2> DEFINE s == TokenOf(w)
  <2>1. work[w].pc = "store" /\ s \in Token /\ work[w].token = {s}
    BY <1>4 DEF Store, At, ServiceInv, Job, TokenOf
  <2>2. /\ version' = version /\ row' = [row EXCEPT ![s] = work[w].doc]
        /\ work' = [work EXCEPT ![w] = NoJob]
    BY <1>4 DEF Store, Upsert, worldVars
  <2> HIDE DEF s
  <2>3. /\ row'[s] = work[w].doc /\ \A t \in Token : t # s => row'[t] = row[t]
        /\ work'[w].pc = "idle" /\ \A v \in Worker : v # w => work'[v] = work[v]
    BY <2>1, <2>2 DEF ServiceInv, NoJob
  <2>4. ASSUME NEW v \in Worker, work'[v].pc = "store"
        PROVE  /\ work'[v].doc <= version'
               /\ work'[v].doc = Blank \/ \A t \in work'[v].token : row'[t] <= work'[v].doc
    <3>1. v # w /\ work'[v] = work[v]
      BY <2>3, <2>4
    <3>2. s \notin work[v].token
      BY <2>1, <3>1 DEF OneJobPerToken
    <3> QED BY <1>0, <2>2, <2>3, <2>4, <3>1, <3>2 DEF FreshInv
  <2>5. \A t \in Token : row'[t] <= version'
    BY <2>1, <2>2, <2>3 DEF FreshInv
  <2>6. row'[s] # Blank => row'[s] >= row[s]
    BY <1>0, <2>1, <2>3 DEF FreshInv
  <2> QED BY <1>0, <2>3, <2>4, <2>5, <2>6 DEF FreshInv
<1>5. ASSUME NEW w \in Worker, Take(w) \/ FetchFails(w) PROVE FreshInv' /\ row' = row
  <2>1. /\ row' = row /\ work'[w].pc # "store"
        /\ \A v \in Worker : v # w => work'[v] = work[v]
    <3>1. CASE Take(w)
      BY <3>1 DEF Take, NoJob, tableVars, ServiceInv
    <3>2. CASE FetchFails(w)
      BY <3>2 DEF FetchFails, NoJob, tableVars, ServiceInv, Job
    <3> QED BY <1>5, <3>1, <3>2
  <2> QED BY <1>1, <2>1
<1>6. CASE \/ \E t \in Token : Submit(t) \/ Break(t)
           \/ Age \/ RefreshStale \/ RefreshEnqueue \/ Publish \/ Restart \/ UNCHANGED vars
  <2>1. row' = row /\ work' = work
    BY <1>6 DEF Submit, Break, Age, RefreshStale, RefreshEnqueue, Publish, Restart, vars,
                tableVars, programVars
  <2> QED BY <1>0, <1>1, <2>1
<1>7. CASE Crash
  <2>1. row' = row /\ \A v \in Worker : work'[v].pc = "idle"
    BY <1>7 DEF Crash, NoJob, tableVars
  <2> QED BY <1>0, <1>1, <2>1
<1>8. ASSUME NEW w \in Worker, Read(w) \/ ReadErrorPage(w) PROVE row' = row
  BY <1>8 DEF Read, ReadErrorPage, tableVars
<1>9. row' = row => \A t \in Token : row'[t] # Blank => row'[t] >= row[t]
  BY <1>0
<1> QED
  BY <1>2, <1>3, <1>4, <1>5, <1>6, <1>7, <1>8, <1>9 DEF Next, WorkerStep

(* Older documents come back (NeverOlder) in no other way than two workers *)
(* at one token: with no such pair each document stored is as new as the   *)
(* one it replaces, or an error page.                                      *)
THEOREM OlderOnlyInARace == Spec /\ []OneJobPerToken => NeverOlderDocument
<1>1. Init => FreshInv
  <2> SUFFICES ASSUME Init PROVE FreshInv
    OBVIOUS
  <2>1. \A w \in Worker : work[w].pc = "idle"
    BY DEF Init, NoJob
  <2> QED BY <2>1 DEF Init, FreshInv, Blank
<1>2. TableInv /\ ServiceInv /\ OneJobPerToken /\ FreshInv /\ [Next]_vars =>
        FreshInv' /\ [\A t \in Token : row'[t] # Blank => row'[t] >= row[t]]_vars
  BY FreshStep
<1> QED BY <1>1, <1>2, ServiceInvHolds, PTL DEF Spec, NeverOlderDocument

=============================================================================
