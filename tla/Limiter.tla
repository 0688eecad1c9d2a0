------------------------------- MODULE Limiter --------------------------------
(***************************************************************************)
(* What RateLimit promises ("returns a token-bucket rate limiter keyed by  *)
(* client IP. rate is tokens per second, burst is the maximum bucket       *)
(* size"): every address has a bucket, from the beginning and for ever.    *)
(* Nothing is created late or collected. Only if Lax is a request let      *)
(* through for nothing, and then only one that finds a full bucket.        *)
(***************************************************************************)
EXTENDS Integers

CONSTANTS
    Address,
    Rate,       \* what drips into a bucket in a step of the clock
    Token,      \* what a request takes
    Full,       \* what a bucket holds
    Lax

VARIABLES
    level,      \* [Address -> what is in the bucket now]
    answer      \* the last answer given: to whom, and whether it was served

Init ==
    /\ level = [a \in Address |-> Full]
    /\ answer = [to |-> {}, served |-> TRUE]

AtMost(n, bound) == IF n > bound THEN bound ELSE n

Serve(a) ==
    /\ level[a] >= Token
    /\ level' = [level EXCEPT ![a] = @ - Token]
    /\ answer' = [to |-> {a}, served |-> TRUE]

(* A refusal costs nothing. *)
Refuse(a) ==
    /\ level[a] < Token
    /\ level' = level
    /\ answer' = [to |-> {a}, served |-> FALSE]

Exempt(a) ==
    /\ Lax
    /\ level[a] = Full
    /\ level' = level
    /\ answer' = [to |-> {a}, served |-> TRUE]

Drip ==
    /\ level' = [a \in Address |-> AtMost(level[a] + Rate, Full)]
    /\ answer' = answer

Next == Drip \/ \E a \in Address : Serve(a) \/ Refuse(a) \/ Exempt(a)

Spec == Init /\ [][Next]_<<level, answer>>

=============================================================================
