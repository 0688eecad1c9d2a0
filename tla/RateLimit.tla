------------------------------ MODULE RateLimit -------------------------------
(***************************************************************************)
(* The token buckets of internal/middleware/ratelimit.go. A bucket is      *)
(* created by the first request of its address, refilled when a request    *)
(* looks at it, deleted by the collector when nobody has for long; over    *)
(* maxBuckets an address gets none, and its requests are let through.      *)
(*                                                                         *)
(* A bucket is counted in parts of a token, Token of which make one: the   *)
(* fractions of the code's float64, of which Rate drip in a step of the    *)
(* clock. The mutex makes a request, and a pass of the collector, a step.  *)
(***************************************************************************)
EXTENDS Integers, FiniteSets

CONSTANTS
    Address,
    Rate,           \* parts of a token per step of the clock
    Token,          \* the parts of a token
    Full,           \* the parts of burst tokens
    Stale,          \* the age at which the collector deletes a bucket (5 minutes)
    MaxBuckets,
    MaxTime         \* bound of the clock

ASSUME RateAssumption ==
    /\ Rate \in Nat /\ Token \in Nat \ {0} /\ Full \in Nat /\ Token <= Full
    /\ Stale \in Nat /\ MaxBuckets \in Nat /\ MaxTime \in Nat

(* A bucket that is collected would be full: 10 a second for 5 minutes   *)
(* make 3000, over a burst of 20 (cmd/api/main.go:162).                  *)
StaleIsFull == (Stale + 1) * Rate >= Full

VARIABLES
    now,
    held,       \* the keys of the map: the addresses that have a bucket
    bucket,     \* the map; what it says of an address not in held is nothing
    answer,     \* the last answer: to whom, and whether it was let through
    spent,       \* [Address -> what its requests have taken] (history)
    spentBy      \* [Address -> [time -> spent when that time began]] (history)

vars == <<now, held, bucket, answer, spent, spentBy>>

New == [tokens |-> Full, lastCheck |-> now]

Init ==
    /\ now = 0
    /\ held = {}
    /\ bucket = [a \in Address |-> [tokens |-> Full, lastCheck |-> 0]]
    /\ answer = [to |-> {}, served |-> TRUE]
    /\ spent = [a \in Address |-> 0]
    /\ spentBy = [a \in Address |-> [t \in 0..MaxTime |-> 0]]

-----------------------------------------------------------------------------
(* Mutant: the burst does not bound what an idle bucket gathers. *)
MutRefilled(b) == b.tokens + (now - b.lastCheck) * Rate

(* elapsed * rate more tokens, up to the burst. *)
Refilled(b) ==
    LET tokens == b.tokens + (now - b.lastCheck) * Rate
    IN  IF tokens > Full THEN Full ELSE tokens

Tokens(a) == Refilled(IF a \in held THEN bucket[a] ELSE New)

HasRoom == Cardinality(held) < MaxBuckets

Answer(a, letThrough) == answer' = [to |-> {a}, served |-> letThrough]

Keep(a, tokens) ==
    /\ held' = held \cup {a}
    /\ bucket' = [bucket EXCEPT ![a] = [tokens |-> tokens, lastCheck |-> now]]

Serve(a) ==
    /\ a \in held \/ HasRoom
    /\ Tokens(a) >= Token
    /\ Keep(a, Tokens(a) - Token)
    /\ Answer(a, TRUE)
    /\ spent' = [spent EXCEPT ![a] = @ + Token]
    /\ UNCHANGED <<now, spentBy>>

(* Status 429; the bucket keeps what it has gathered. *)
Refuse(a) ==
    /\ a \in held \/ HasRoom
    /\ Tokens(a) < Token
    /\ Keep(a, Tokens(a))
    /\ Answer(a, FALSE)
    /\ UNCHANGED <<now, spent, spentBy>>

(* As many buckets as may be: the address is let through without one. *)
Bypass(a) ==
    /\ a \notin held /\ ~ HasRoom
    /\ Answer(a, TRUE)
    /\ UNCHANGED <<now, held, bucket, spent, spentBy>>

(* Mutant: the collector takes every bucket. *)
MutIsStale(a) == TRUE

IsStale(a) == now - bucket[a].lastCheck > Stale

(* The collector's pass; its timer is not modelled. *)
Collect ==
    /\ held' = {a \in held : ~ IsStale(a)}
    /\ UNCHANGED <<now, bucket, answer, spent, spentBy>>

Tick ==
    /\ now < MaxTime
    /\ now' = now + 1
    /\ spentBy' = [a \in Address |-> [spentBy[a] EXCEPT ![now + 1] = spent[a]]]
    /\ UNCHANGED <<held, bucket, answer, spent>>

Next ==
    \/ Tick \/ Collect
    \/ \E a \in Address : Serve(a) \/ Refuse(a) \/ Bypass(a)

Spec == Init /\ [][Next]_vars

-----------------------------------------------------------------------------
(* The variables keep their types, and no bucket holds more than a burst. *)
TypeOK ==
    /\ now \in 0..MaxTime
    /\ held \subseteq Address
    /\ bucket \in [Address -> [tokens : 0..Full, lastCheck : 0..MaxTime]]
    /\ \A a \in held : bucket[a].lastCheck <= now
    /\ answer \in [to : SUBSET Address, served : BOOLEAN]
    /\ spent \in [Address -> Nat]
    /\ spentBy \in [Address -> [0..MaxTime -> Nat]]

(* Over no stretch of time does an address take more than a full bucket  *)
(* and what has dripped since, whatever is collected meanwhile. The      *)
(* stretches that end now are enough, as every state is looked at.       *)
(* Requests let through without a bucket (Bypass) take no token and are  *)
(* not counted.                                                          *)
WindowIsBounded ==
    \A a \in Address : \A t \in 0..now :
        spent[a] - spentBy[a][t] <= Full + (now - t) * Rate

(* Answers are those of a limiter that has a bucket for everybody and    *)
(* never forgets one: creating it late, refilling it only when it is     *)
(* looked at and collecting it cannot be told from outside. With more    *)
(* addresses than buckets, an address may be let through for nothing,    *)
(* but only one whose bucket would be full.                              *)
Ideal == INSTANCE Limiter WITH
    level <- [a \in Address |-> Tokens(a)],
    Lax <- Cardinality(Address) > MaxBuckets

ImplementsLimiter == Ideal!Spec

=============================================================================
