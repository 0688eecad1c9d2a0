--------------------------- MODULE RateLimitProofs ----------------------------
(***************************************************************************)
(* Theorems about RateLimit, for any number of addresses and any rate.     *)
(***************************************************************************)
EXTENDS RateLimit, FiniteSetTheorems, TLAPS

(* What was taken since t, and what is left, came from a full bucket and   *)
(* what dripped: this is inductive, and bounds what was taken.             *)
LeftInv ==
    \A a \in Address : \A t \in 0..now :
        spent[a] - spentBy[a][t] + Tokens(a) <= Full + (now - t) * Rate

RateInv == TypeOK /\ LeftInv

(* What has dripped grows by Rate with each step of the clock. *)
LEMMA DripStep ==
    ASSUME NEW n \in Int, NEW t \in Int, NEW r \in Int
    PROVE  (n + 1 - t) * r = (n - t) * r + r /\ (n - n) * r = 0 /\ (n - t) * r \in Int
  BY SMT

(* Nothing negative drips. *)
LEMMA DripIsNat ==
    ASSUME NEW n \in Nat, NEW r \in Nat
    PROVE  n * r \in Nat
  BY SMT

(* The longer idle, the more has dripped. *)
LEMMA DripGrows ==
    ASSUME NEW m \in Nat, NEW n \in Nat, NEW r \in Nat, m <= n
    PROVE  m * r <= n * r
<1>1. (n - m) * r \in Nat BY DripIsNat
<1>2. n * r = m * r + (n - m) * r BY SMT
<1> QED BY <1>1, <1>2, DripIsNat

(* A bucket that is looked at holds between nothing and a full bucket. *)
LEMMA RefilledInRange ==
    ASSUME RateAssumption, NEW b \in [tokens : 0..Full, lastCheck : 0..MaxTime],
           now \in 0..MaxTime, b.lastCheck <= now
    PROVE  Refilled(b) \in 0..Full
<1>1. (now - b.lastCheck) * Rate \in Nat
  BY DripIsNat DEF RateAssumption
<1> QED BY <1>1 DEF RateAssumption, Refilled

(* What is in a bucket now, whether it exists or not. *)
LEMMA TokensInRange ==
    ASSUME RateAssumption, TypeOK, NEW a \in Address
    PROVE  /\ Tokens(a) \in 0..Full
           /\ a \notin held => Tokens(a) = Full
<1>1. CASE a \in held
  BY <1>1, RefilledInRange DEF TypeOK, Tokens
<1>2. CASE a \notin held
  <2>1. (now - now) * Rate = 0
    BY DripStep DEF RateAssumption, TypeOK
  <2>2. New.tokens = Full /\ New.lastCheck = now
    BY DEF New
  <2>3. Refilled(New) = Full
    BY <2>1, <2>2 DEF Refilled, RateAssumption
  <2> QED BY <1>2, <2>3 DEF Tokens, RateAssumption
<1> QED BY <1>1, <1>2

LEMMA TokensNow == RateAssumption /\ TypeOK => \A a \in Address : Tokens(a) \in 0..Full
  BY TokensInRange

LEMMA TokensNext == RateAssumption /\ TypeOK' => \A a \in Address : Tokens(a)' \in 0..Full
<1>1. (RateAssumption /\ TypeOK => \A a \in Address : Tokens(a) \in 0..Full)'
  BY TokensNow, PTL
<1> QED BY <1>1

(* A bucket just written holds what was written. *)
LEMMA JustWritten ==
    ASSUME RateAssumption, TypeOK, NEW a \in Address, NEW n \in 0..Full, Keep(a, n), now' = now
    PROVE  /\ Tokens(a)' = n
           /\ \A c \in Address \ {a} : Tokens(c)' = Tokens(c)
<1>1. (now - now) * Rate = 0
  BY DripStep DEF RateAssumption, TypeOK
<1>2. a \in held' /\ bucket'[a].tokens = n /\ bucket'[a].lastCheck = now
  BY DEF Keep, TypeOK
<1>3. Tokens(a)' = n
  BY <1>1, <1>2 DEF Tokens, Refilled, RateAssumption
<1>4. ASSUME NEW c \in Address \ {a}
      PROVE  Tokens(c)' = Tokens(c)
  BY <1>4 DEF Keep, Tokens, Refilled, New, TypeOK
<1> QED BY <1>3, <1>4

(* A tick fills each bucket by Rate, up to the brim. *)
LEMMA TickDrips ==
    ASSUME RateAssumption, TypeOK, Tick, NEW a \in Address
    PROVE  Tokens(a)' = IF Tokens(a) + Rate > Full THEN Full ELSE Tokens(a) + Rate
<1>1. CASE a \in held
  <2> DEFINE b == bucket[a]
             d == (now - b.lastCheck) * Rate
  <2>1. b.tokens \in 0..Full /\ b.lastCheck \in 0..MaxTime /\ b.lastCheck <= now /\ now \in Nat
    BY <1>1 DEF TypeOK
  <2>2. (now + 1 - b.lastCheck) * Rate = d + Rate /\ d \in Int
    BY <2>1, DripStep DEF RateAssumption
  <2>3. Tokens(a) = IF b.tokens + d > Full THEN Full ELSE b.tokens + d
    BY <1>1 DEF Tokens, Refilled
  <2>4. Tokens(a)' = IF b.tokens + (d + Rate) > Full THEN Full ELSE b.tokens + (d + Rate)
    <3>1. Tokens(a)' = IF b.tokens + (now + 1 - b.lastCheck) * Rate > Full
                       THEN Full ELSE b.tokens + (now + 1 - b.lastCheck) * Rate
      <4>1. bucket' = bucket /\ a \in held' /\ now' = now + 1
        BY <1>1 DEF Tick
      <4>2. Tokens(a)' = IF bucket'[a].tokens + (now' - bucket'[a].lastCheck) * Rate > Full
                         THEN Full
                         ELSE bucket'[a].tokens + (now' - bucket'[a].lastCheck) * Rate
        BY <4>1, Zenon DEF Tokens, Refilled
      <4>3. bucket'[a] = b
        BY <4>1
      <4>4. (now' - bucket'[a].lastCheck) * Rate = (now + 1 - b.lastCheck) * Rate
        <5>1. now' - bucket'[a].lastCheck = now + 1 - b.lastCheck
          BY <2>1, <4>1, <4>3
        <5> QED BY <5>1, Zenon
      <4> HIDE DEF b
      <4> QED BY <4>2, <4>3, <4>4
    <3>2. b.tokens + (now + 1 - b.lastCheck) * Rate = b.tokens + (d + Rate)
      BY <2>2
    <3> HIDE DEF b, d
    <3> QED BY <3>1, <3>2
  <2> QED BY <2>1, <2>2, <2>3, <2>4 DEF RateAssumption
<1>2. CASE a \notin held
  <2>1. Tokens(a) = Full
    BY <1>2, TokensInRange
  <2>2. (now' - now') * Rate = 0
    BY DripStep DEF RateAssumption, TypeOK, Tick
  <2>3. Tokens(a)' = Full
    BY <1>2, <2>2 DEF Tokens, Refilled, New, Tick, RateAssumption
  <2> QED BY <2>1, <2>3 DEF RateAssumption
<1> QED BY <1>1, <1>2

(* The collector takes only buckets that are full. *)
LEMMA CollectedIsFull ==
    ASSUME RateAssumption, StaleIsFull, TypeOK, Collect, NEW a \in Address
    PROVE  Tokens(a)' = Tokens(a)
<1>1. CASE a \in held'
  BY <1>1 DEF Collect, Tokens, Refilled, New
<1>2. CASE a \notin held
  BY <1>2 DEF Collect, Tokens, Refilled, New
<1>3. CASE a \in held /\ a \notin held'
  <2> DEFINE age == now - bucket[a].lastCheck
  <2>1. age > Stale /\ age \in Nat /\ bucket[a].tokens \in 0..Full
    BY <1>3 DEF Collect, IsStale, TypeOK
  <2>2. Full <= age * Rate
    <3>1. (Stale + 1) * Rate <= age * Rate
      BY <2>1, DripGrows DEF RateAssumption
    <3>2. age * Rate \in Nat /\ (Stale + 1) * Rate \in Nat
      BY <2>1, DripIsNat DEF RateAssumption
    <3> QED BY <3>1, <3>2 DEF StaleIsFull, RateAssumption
  <2>3. age * Rate \in Nat
    BY <2>1, DripIsNat DEF RateAssumption
  <2>4. Tokens(a) = Full
    BY <1>3, <2>1, <2>2, <2>3 DEF Tokens, Refilled, RateAssumption
  <2>5. (now - now) * Rate = 0
    BY DripStep DEF RateAssumption, TypeOK
  <2>6. Tokens(a)' = Full
    BY <1>3, <2>5 DEF Tokens, Refilled, New, Collect, RateAssumption
  <2> QED BY <2>4, <2>6
<1> QED BY <1>1, <1>2, <1>3

-----------------------------------------------------------------------------
(* Every variable keeps its type: no bucket overflows, whatever the code   *)
(* creates, refills and collects.                                          *)
LEMMA TypeStep == RateAssumption /\ TypeOK /\ [Next]_vars => TypeOK'
<1> SUFFICES ASSUME RateAssumption, TypeOK, [Next]_vars
             PROVE  TypeOK'
  OBVIOUS
<1>1. CASE Tick
  <2>1. now' \in 0..MaxTime /\ now <= now' /\ now \in Nat
    BY <1>1 DEF Tick, TypeOK, RateAssumption
  <2>2. \A a \in held' : bucket'[a].lastCheck <= now'
    BY <1>1, <2>1 DEF Tick, TypeOK
  <2>3. spentBy' \in [Address -> [0..MaxTime -> Nat]]
    BY <1>1 DEF Tick, TypeOK
  <2> QED BY <1>1, <2>1, <2>2, <2>3 DEF Tick, TypeOK
<1>2. CASE Collect
  BY <1>2 DEF Collect, TypeOK
<1>3. ASSUME NEW a \in Address, Serve(a)
      PROVE  TypeOK'
  <2>1. Tokens(a) - Token \in 0..Full
    BY <1>3, TokensInRange DEF Serve, RateAssumption
  <2>2. bucket' \in [Address -> [tokens : 0..Full, lastCheck : 0..MaxTime]]
    BY <1>3, <2>1 DEF Serve, Keep, TypeOK
  <2>3. held' \subseteq Address /\ \A c \in held' : bucket'[c].lastCheck <= now'
    BY <1>3 DEF Serve, Keep, TypeOK
  <2>4. spent' \in [Address -> Nat]
    BY <1>3 DEF Serve, TypeOK, RateAssumption
  <2> QED BY <1>3, <2>2, <2>3, <2>4 DEF Serve, Answer, TypeOK
<1>4. ASSUME NEW a \in Address, Refuse(a)
      PROVE  TypeOK'
  <2>1. Tokens(a) \in 0..Full
    BY TokensInRange
  <2>2. bucket' \in [Address -> [tokens : 0..Full, lastCheck : 0..MaxTime]]
    BY <1>4, <2>1 DEF Refuse, Keep, TypeOK
  <2>3. held' \subseteq Address /\ \A c \in held' : bucket'[c].lastCheck <= now'
    BY <1>4 DEF Refuse, Keep, TypeOK
  <2> QED BY <1>4, <2>2, <2>3 DEF Refuse, Answer, TypeOK
<1>5. ASSUME NEW a \in Address, Bypass(a)
      PROVE  TypeOK'
  BY <1>5 DEF Bypass, Answer, TypeOK
<1>6. CASE UNCHANGED vars
  BY <1>6 DEF vars, TypeOK
<1> QED BY <1>1, <1>2, <1>3, <1>4, <1>5, <1>6 DEF Next

LEMMA TypeInit == RateAssumption /\ Init => TypeOK
  BY DEF RateAssumption, Init, TypeOK

THEOREM RateTypes == Spec => []TypeOK
<1>1. RateAssumption BY RateAssumption
<1> QED BY <1>1, TypeInit, TypeStep, PTL DEF Spec

-----------------------------------------------------------------------------
LEMMA LeftInit == RateAssumption /\ Init => LeftInv
<1> SUFFICES ASSUME RateAssumption, Init, NEW a \in Address, NEW t \in 0..now
             PROVE  spent[a] - spentBy[a][t] + Tokens(a) <= Full + (now - t) * Rate
  BY DEF LeftInv
<1>1. TypeOK BY TypeInit
<1>2. t = 0 /\ now = 0 /\ t \in 0..MaxTime BY DEF Init, RateAssumption
<1>3. (now - t) * Rate = 0 BY <1>2, DripStep DEF RateAssumption
<1>4. spent[a] = 0 /\ spentBy[a][t] = 0 BY <1>2 DEF Init
<1> QED BY <1>1, <1>3, <1>4, TokensInRange DEF RateAssumption

(* A request takes from the bucket what it adds to the account, a tick     *)
(* drips no more than Rate, and a collected bucket was full already.       *)
LEMMA LeftStep == RateAssumption /\ StaleIsFull /\ RateInv /\ [Next]_vars => LeftInv'
<1> SUFFICES ASSUME RateAssumption, StaleIsFull, RateInv, [Next]_vars,
                    NEW a \in Address, NEW t \in 0..now'
             PROVE  spent'[a] - spentBy'[a][t] + Tokens(a)' <= Full + (now' - t) * Rate
  BY DEF LeftInv
<1>1. TypeOK /\ TypeOK' /\ LeftInv
  BY TypeStep DEF RateInv
<1>2. Tokens(a) \in 0..Full /\ Tokens(a)' \in 0..Full
  BY <1>1, TokensNow, TokensNext
<1>3. CASE Tick
  <2>1. now \in 0..MaxTime /\ now' = now + 1 /\ spent'[a] = spent[a] /\ spent[a] \in Nat
        /\ spentBy'[a] = [spentBy[a] EXCEPT ![now + 1] = spent[a]]
        /\ spentBy[a] \in [0..MaxTime -> Nat] /\ now + 1 \in 0..MaxTime
    BY <1>1, <1>3 DEF Tick, TypeOK, RateAssumption
  <2>2. CASE t = now + 1
    <3>1. spentBy'[a][t] = spent[a]
      BY <2>1, <2>2
    <3>2. (now' - t) * Rate = 0
      BY <2>1, <2>2, DripStep DEF RateAssumption
    <3>3. spent'[a] - spentBy'[a][t] = 0
      BY <2>1, <3>1
    <3>4. Tokens(a)' \in Int /\ Tokens(a)' <= Full /\ Full \in Nat
      BY <1>2 DEF RateAssumption
    <3>5. 0 + Tokens(a)' <= Full + 0
      BY <3>4
    <3> QED BY <3>2, <3>3, <3>5
  <2>3. CASE t # now + 1
    <3>1. t \in 0..now
      BY <2>1, <2>3
    <3>2. spentBy'[a][t] = spentBy[a][t] /\ spentBy[a][t] \in Nat
      BY <2>1, <2>3, <3>1
    <3>3. (now' - t) * Rate = (now - t) * Rate + Rate /\ (now - t) * Rate \in Int
      BY <2>1, <3>1, DripStep DEF RateAssumption
    <3>4. Tokens(a)' <= Tokens(a) + Rate
      BY <1>1, <1>2, <1>3, TickDrips DEF RateAssumption
    <3>5. spent[a] - spentBy[a][t] + Tokens(a) <= Full + (now - t) * Rate
      BY <1>1, <3>1 DEF LeftInv
    <3> QED BY <1>2, <2>1, <3>2, <3>3, <3>4, <3>5 DEF RateAssumption
  <2> QED BY <2>2, <2>3
<1>4. CASE Collect
  <2>1. Tokens(a)' = Tokens(a)
    BY <1>1, <1>4, CollectedIsFull
  <2> QED BY <1>1, <1>4, <2>1 DEF Collect, LeftInv
<1>5. ASSUME NEW c \in Address, Serve(c)
      PROVE  spent'[a] - spentBy'[a][t] + Tokens(a)' <= Full + (now' - t) * Rate
  <2>1. Tokens(c) - Token \in 0..Full
    BY <1>1, <1>5, TokensInRange DEF Serve, RateAssumption
  <2>2. Tokens(c)' = Tokens(c) - Token /\ (a # c => Tokens(a)' = Tokens(a))
    BY <1>1, <1>5, <2>1, JustWritten DEF Serve
  <2>3. now' = now /\ spentBy' = spentBy /\ spent' = [spent EXCEPT ![c] = @ + Token]
    BY <1>5 DEF Serve
  <2>4. spent[a] - spentBy[a][t] + Tokens(a) <= Full + (now - t) * Rate
    BY <1>1, <2>3 DEF LeftInv
  <2>5. spent[a] \in Nat /\ spentBy[a][t] \in Nat /\ Token \in Nat
    <3>1. t \in 0..MaxTime BY <1>1, <2>3 DEF TypeOK, RateAssumption
    <3> QED BY <1>1, <3>1 DEF TypeOK, RateAssumption
  <2>6. spent'[a] + Tokens(a)' = spent[a] + Tokens(a)
    <3>1. CASE a = c
      <4>1. spent'[a] = spent[a] + Token
        BY <1>1, <2>3, <3>1 DEF TypeOK
      <4>2. Tokens(a)' = Tokens(a) - Token
        BY <2>2, <3>1
      <4>3. Tokens(a) \in Int
        BY <1>2
      <4> HIDE DEF Tokens
      <4> QED BY <2>5, <4>1, <4>2, <4>3
    <3>2. CASE a # c
      BY <1>1, <2>2, <2>3, <3>2 DEF TypeOK
    <3> QED BY <3>1, <3>2
  <2>7. spent'[a] \in Nat
    BY <1>1 DEF TypeOK
  <2> DEFINE dripped == (now - t) * Rate
             taken == spentBy[a][t]
             left == Tokens(a)'
  <2>8. spent'[a] - taken + left = spent[a] - taken + Tokens(a)
    <3> HIDE DEF left, taken
    <3>1. left \in Int /\ taken \in Int BY <1>2, <2>5 DEF left, taken
    <3> QED BY <1>2, <2>5, <2>6, <2>7, <3>1 DEF left
  <2> QED BY <2>3, <2>4, <2>8
<1>6. ASSUME NEW c \in Address, Refuse(c)
      PROVE  spent'[a] - spentBy'[a][t] + Tokens(a)' <= Full + (now' - t) * Rate
  <2>1. Tokens(c) \in 0..Full
    BY <1>1, TokensInRange
  <2>2. Tokens(c)' = Tokens(c) /\ (a # c => Tokens(a)' = Tokens(a))
    BY <1>1, <1>6, <2>1, JustWritten DEF Refuse
  <2> QED BY <1>1, <1>6, <2>2 DEF Refuse, LeftInv
<1>7. ASSUME NEW c \in Address, Bypass(c)
      PROVE  spent'[a] - spentBy'[a][t] + Tokens(a)' <= Full + (now' - t) * Rate
  BY <1>1, <1>7 DEF Bypass, LeftInv, Tokens, Refilled, New
<1>8. CASE UNCHANGED vars
  BY <1>1, <1>8 DEF vars, LeftInv, Tokens, Refilled, New
<1> QED BY <1>3, <1>4, <1>5, <1>6, <1>7, <1>8 DEF Next

LEMMA LeftBounds == RateAssumption /\ RateInv => WindowIsBounded
<1> SUFFICES ASSUME RateAssumption, RateInv, NEW a \in Address, NEW t \in 0..now
             PROVE  spent[a] - spentBy[a][t] <= Full + (now - t) * Rate
  BY DEF WindowIsBounded
<1>1. Tokens(a) \in 0..Full
  BY TokensInRange DEF RateInv
<1>2. t \in 0..MaxTime /\ now \in 0..MaxTime
  BY DEF RateInv, TypeOK, RateAssumption
<1>3. spent[a] \in Nat /\ spentBy[a][t] \in Nat
  BY <1>2 DEF RateInv, TypeOK
<1>4. (now - t) * Rate \in Int
  BY <1>2, DripStep DEF RateAssumption
<1>5. spent[a] - spentBy[a][t] + Tokens(a) <= Full + (now - t) * Rate
  BY DEF RateInv, LeftInv
<1> QED BY <1>1, <1>3, <1>4, <1>5 DEF RateAssumption

(* If a bucket old enough to be collected is full, no address takes more   *)
(* than a full bucket and what drips, over any stretch of time, though its *)
(* bucket be collected and created anew. (What it is let through without a *)
(* bucket is not counted.)                                                 *)
THEOREM WindowBound == StaleIsFull /\ Spec => []WindowIsBounded
<1>1. RateAssumption BY RateAssumption
<1>2. StaleIsFull /\ Init => RateInv BY <1>1, TypeInit, LeftInit DEF RateInv
<1>3. StaleIsFull /\ RateInv /\ [Next]_vars => RateInv'
  BY <1>1, TypeStep, LeftStep DEF RateInv
<1>4. RateInv => WindowIsBounded BY <1>1, LeftBounds
<1>5. StaleIsFull => []StaleIsFull
  BY DEF StaleIsFull
<1> QED BY <1>2, <1>3, <1>4, <1>5, PTL DEF Spec

-----------------------------------------------------------------------------
LEMMA LevelInit == RateAssumption /\ Init => Ideal!Init
<1> SUFFICES ASSUME RateAssumption, Init PROVE Ideal!Init
  OBVIOUS
<1>1. \A a \in Address : Tokens(a) = Full
  BY TypeInit, TokensInRange DEF Init
<1> QED BY <1>1 DEF Init, Ideal!Init

(* Without a bucket an address is let through only if there are more       *)
(* addresses than buckets.                                                 *)
LEMMA BypassIsLax ==
    ASSUME RateAssumption, TypeOK, IsFiniteSet(Address), NEW a \in Address, Bypass(a)
    PROVE  Cardinality(Address) > MaxBuckets
<1>1. held \subseteq Address /\ held # Address /\ ~ HasRoom
  BY DEF TypeOK, Bypass
<1>2. /\ IsFiniteSet(held) /\ Cardinality(held) <= Cardinality(Address)
      /\ Cardinality(held) # Cardinality(Address)
  BY <1>1, FS_Subset
<1>3. Cardinality(held) \in Nat /\ Cardinality(Address) \in Nat
  BY <1>2, FS_CardinalityType
<1> QED BY <1>1, <1>2, <1>3 DEF HasRoom, RateAssumption

LEMMA LimiterStep ==
    RateAssumption /\ StaleIsFull /\ IsFiniteSet(Address) /\ TypeOK /\ [Next]_vars
    => [Ideal!Next]_<<[a \in Address |-> Tokens(a)], answer>>
<1> SUFFICES ASSUME RateAssumption, StaleIsFull, IsFiniteSet(Address), TypeOK, [Next]_vars
             PROVE  [Ideal!Next]_<<[a \in Address |-> Tokens(a)], answer>>
  OBVIOUS
<1> DEFINE level == [a \in Address |-> Tokens(a)]
<1>a. level' = [a \in Address |-> Tokens(a)']
  OBVIOUS
<1>1. CASE Tick
  <2>1. level' = [a \in Address |-> Ideal!AtMost(level[a] + Rate, Full)]
    BY <1>1, TickDrips DEF Ideal!AtMost
  <2> QED BY <1>1, <2>1 DEF Tick, Ideal!Next, Ideal!Drip
<1>2. CASE Collect
  <2>1. level' = level BY <1>2, CollectedIsFull
  <2> QED BY <1>2, <2>1 DEF Collect
<1>3. ASSUME NEW a \in Address, Serve(a) PROVE Ideal!Next
  <2>1. Tokens(a) - Token \in 0..Full /\ Tokens(a) >= Token
    BY <1>3, TokensInRange DEF Serve, RateAssumption
  <2>2. \A c \in Address : Tokens(c)' = IF c = a THEN Tokens(a) - Token ELSE Tokens(c)
    BY <1>3, <2>1, JustWritten DEF Serve
  <2>3. level' = [level EXCEPT ![a] = @ - Token]
    BY <2>2
  <2>4. Ideal!Serve(a)
    BY <1>3, <2>1, <2>3 DEF Serve, Answer, Ideal!Serve
  <2> QED BY <2>4 DEF Ideal!Next
<1>4. ASSUME NEW a \in Address, Refuse(a) PROVE Ideal!Next
  <2>1. Tokens(a) \in 0..Full /\ Tokens(a) < Token
    BY <1>4, TokensInRange DEF Refuse
  <2>2. \A c \in Address : Tokens(c)' = Tokens(c)
    BY <1>4, <2>1, JustWritten DEF Refuse
  <2>3. level' = level
    BY <2>2
  <2>4. Ideal!Refuse(a)
    BY <1>4, <2>1, <2>3 DEF Refuse, Answer, Ideal!Refuse
  <2> QED BY <2>4 DEF Ideal!Next
<1>5. ASSUME NEW a \in Address, Bypass(a) PROVE Ideal!Next
  <2>1. level' = level
    BY <1>5 DEF Bypass, Tokens, Refilled, New
  <2>2. level[a] = Full
    BY <1>5, TokensInRange DEF Bypass
  <2>3. Ideal!Exempt(a)
    BY <1>5, <2>1, <2>2, BypassIsLax DEF Bypass, Answer, Ideal!Exempt
  <2> QED BY <2>3 DEF Ideal!Next
<1>6. CASE UNCHANGED vars
  BY <1>6 DEF vars, Tokens, Refilled, New
<1> QED BY <1>1, <1>2, <1>3, <1>4, <1>5, <1>6 DEF Next

(* The middleware answers as a limiter with a bucket for every address     *)
(* that forgets none, if a bucket old enough to be collected is full; with *)
(* no more addresses than buckets it lets nobody through for nothing.      *)
THEOREM RateLimitIsLimiter ==
    StaleIsFull /\ IsFiniteSet(Address) /\ Spec => ImplementsLimiter
<1>1. RateAssumption BY RateAssumption
<1>2. Spec => []TypeOK BY RateTypes
<1>3. Init => Ideal!Init BY <1>1, LevelInit
<1>4. StaleIsFull /\ IsFiniteSet(Address) /\ TypeOK /\ [Next]_vars
      => [Ideal!Next]_<<[a \in Address |-> Tokens(a)], answer>>
  BY <1>1, LimiterStep
<1>5. StaleIsFull /\ IsFiniteSet(Address) => [](StaleIsFull /\ IsFiniteSet(Address))
  BY DEF StaleIsFull
<1> QED BY <1>2, <1>3, <1>4, <1>5, PTL DEF Spec, ImplementsLimiter, Ideal!Spec

=============================================================================
