--------------------------------- MODULE Auth ---------------------------------
(***************************************************************************)
(* Login with a wallet: internal/service/auth.go over the Redis of         *)
(* internal/service/cache.go, and its handlers.                            *)
(*                                                                         *)
(* Address stands for addresses up to case: the key is lower case, signers *)
(* are compared with EqualFold. A request that is refused changes nothing  *)
(* and is no step of the module, nor is the check of a token, which keeps  *)
(* no state.                                                               *)
(***************************************************************************)
EXTENDS Naturals, Sequences, FiniteSets

CONSTANTS
    Address,
    Request,        \* the calls of Login that may be under way at once
    ChallengeTTL,   \* how long Redis keeps a nonce
    MaxNonces,      \* bound of the challenges
    MaxTime,        \* bound of the clock
    MaxFaults       \* bound of the failing deletions and the stops of the process

ASSUME AuthAssumption ==
    /\ IsFiniteSet(Request)
    /\ ChallengeTTL \in Nat \ {0}
    /\ MaxNonces \in Nat /\ MaxTime \in Nat /\ MaxFaults \in Nat

VARIABLES
    now,        \* the clock, from 1
    issued,     \* the challenges, in order; a nonce is a place in this sequence
    stored,     \* Redis: [Address -> the nonce under "auth:nonce:" + address]
    signatures, \* what the wallets have signed
    login,      \* [Request -> the local variables of Login]
    tokens,     \* the tokens given out
    racers,     \* [Nonce -> the logins that held it when one first deleted it]
    kept,       \* nonces that a login was good for and failed to delete
    earned,     \* [Nonce -> how many tokens it earned, see Counted]
    faults      \* faults so far (a bound, not program state)

(* What became of the nonces: history, not program state. *)
fates == <<racers, kept, earned>>
vars == <<now, issued, stored, signatures, login, tokens, fates, faults>>

Nonce == 1..MaxNonces

NoNonce == [nonce |-> 0, until |-> 0]
Idle == [pc |-> "idle"]

(* GET of an expired key finds nothing. *)
Found(a) == stored[a].nonce # 0 /\ now < stored[a].until

Init ==
    /\ now = 1
    /\ issued = <<>> /\ stored = [a \in Address |-> NoNonce]
    /\ signatures = {}
    /\ login = [r \in Request |-> Idle]
    /\ tokens = {} /\ kept = {}
    /\ racers = [n \in Nonce |-> {}] /\ earned = [n \in Nonce |-> 0]
    /\ faults = 0

Fault == faults < MaxFaults /\ faults' = faults + 1

-----------------------------------------------------------------------------
Expiry(time) == time + ChallengeTTL

(* GenerateChallenge; a nonce stored before is overwritten. *)
GenerateChallenge(a) ==
    /\ Len(issued) < MaxNonces
    /\ issued' = Append(issued, [to |-> a, at |-> now])
    /\ stored' = [stored EXCEPT ![a] = [nonce |-> Len(issued) + 1, until |-> Expiry(now)]]
    /\ UNCHANGED <<now, signatures, login, tokens, fates, faults>>

(* A wallet signs a challenge, its own or another's. *)
Sign(a, n) ==
    /\ n \in DOMAIN issued
    /\ signatures' = signatures \cup {[by |-> a, nonce |-> n]}
    /\ UNCHANGED <<now, issued, stored, login, tokens, fates, faults>>

-----------------------------------------------------------------------------
(* Login begins: the nonce is read. *)
LoginGet(r, a, sig) ==
    /\ login[r] = Idle
    /\ Found(a)
    /\ login' = [login EXCEPT ![r] =
            [pc |-> "got", address |-> a, sig |-> sig, nonce |-> stored[a].nonce, read |-> now]]
    /\ UNCHANGED <<now, issued, stored, signatures, tokens, fates, faults>>

(* Mutant: the recovered signer is not compared with the address. *)
MutRecovers(sig, nonce, a) == sig.nonce = nonce

(* The signature over another challenge recovers to some other address. *)
Recovers(sig, nonce, a) == sig.nonce = nonce /\ sig.by = a

LoginRefused(r) ==
    /\ login[r].pc = "got"
    /\ ~ Recovers(login[r].sig, login[r].nonce, login[r].address)
    /\ login' = [login EXCEPT ![r] = Idle]
    /\ UNCHANGED <<now, issued, stored, signatures, tokens, fates, faults>>

(* Mutant: the key is not the one the nonce is under. *)
MutDel(a) == stored

(* DEL takes whatever is there, also a nonce stored since the read. *)
Del(a) == [stored EXCEPT ![a] = NoNonce]

(* The logins that have read the nonce and not ended yet. *)
Holders(n) == {r \in Request : login[r] # Idle /\ login[r].nonce = n}

LoginDel(r) ==
    /\ login[r].pc = "got"
    /\ Recovers(login[r].sig, login[r].nonce, login[r].address)
    /\ login' = [login EXCEPT ![r].pc = "deleted"]
    /\ \/ /\ stored' = Del(login[r].address)
          /\ racers' = [racers EXCEPT ![login[r].nonce] =
                            IF @ = {} THEN Holders(login[r].nonce) ELSE @]
          /\ UNCHANGED <<kept, faults>>
       \/ /\ Fault                                   \* the error is ignored
          /\ kept' = kept \cup {login[r].nonce}
          /\ UNCHANGED <<stored, racers>>
    /\ UNCHANGED <<now, issued, signatures, tokens, earned>>

(* Tokens are counted up to one more than there are logins at once. *)
Counted(n) == IF n > Cardinality(Request) THEN n ELSE n + 1

LoginToken(r) ==
    /\ login[r].pc = "deleted"
    /\ tokens' = tokens \cup {[sub |-> login[r].address, nonce |-> login[r].nonce,
                               read |-> login[r].read]}
    /\ earned' = [earned EXCEPT ![login[r].nonce] = Counted(@)]
    /\ login' = [login EXCEPT ![r] = Idle]
    /\ UNCHANGED <<now, issued, stored, signatures, racers, kept, faults>>

-----------------------------------------------------------------------------
Clock ==
    /\ now < MaxTime
    /\ now' = now + 1
    /\ UNCHANGED <<issued, stored, signatures, login, tokens, fates, faults>>

(* The process stops and starts again: the logins under way are gone. *)
Crash ==
    /\ Fault
    /\ login' = [r \in Request |-> Idle]
    /\ UNCHANGED <<now, issued, stored, signatures, tokens, fates>>

LoginStep(r) == LoginRefused(r) \/ LoginDel(r) \/ LoginToken(r)

Next ==
    \/ \E a \in Address : GenerateChallenge(a) \/ \E n \in DOMAIN issued : Sign(a, n)
    \/ \E r \in Request, a \in Address, sig \in signatures : LoginGet(r, a, sig)
    \/ \E r \in Request : LoginStep(r)
    \/ Clock \/ Crash

Spec == Init /\ [][Next]_vars

-----------------------------------------------------------------------------
(* Properties. *)

Signature == [by : Address, nonce : Nonce]
Login == {Idle} \cup
    [pc : {"got", "deleted"}, address : Address, sig : Signature, nonce : Nonce, read : Nat]

(* The variables have their types, and no key of Redis outlives its TTL.   *)
TypeOK ==
    /\ now \in Nat
    /\ issued \in Seq([to : Address, at : Nat]) /\ Len(issued) <= MaxNonces
    /\ stored \in [Address -> [nonce : 0..MaxNonces, until : Nat]]
    /\ \A a \in Address : stored[a].until <= now + ChallengeTTL
    /\ signatures \subseteq Signature
    /\ login \in [Request -> Login]
    /\ tokens \subseteq [sub : Address, nonce : Nonce, read : Nat]
    /\ racers \in [Nonce -> SUBSET Request] /\ kept \subseteq Nonce
    /\ earned \in [Nonce -> Nat]
    /\ faults \in Nat

(* A token was earned: its subject's wallet has signed a challenge that    *)
(* was issued for this address less than ChallengeTTL before the login     *)
(* read it - whatever challenges, logins and stops went on at once.        *)
Earned(t) ==
    /\ t.nonce \in DOMAIN issued
    /\ issued[t.nonce].to = t.sub
    /\ [by |-> t.sub, nonce |-> t.nonce] \in signatures
    /\ t.read < issued[t.nonce].at + ChallengeTTL
TokensAreEarned == \A t \in tokens : Earned(t)

(* A nonce that was used up is never found again by a later login, however *)
(* logins and challenges of its address overlap.                           *)
Consumed == {n \in Nonce : racers[n] # {}}
ConsumedIsGone == \A a \in Address : stored[a].nonce \notin Consumed

(* One signature does not buy any number of tokens: a nonce earns no more  *)
(* of them than logins held it when it was first deleted, and none before. *)
(* So without overlapping logins it earns one. The exception is a nonce    *)
(* that Redis failed to delete, an error which Login ignores (auth.go:88). *)
TokensPerNonce == \A n \in Nonce \ kept : earned[n] <= Cardinality(racers[n])

-----------------------------------------------------------------------------
(* One nonce, one token: violated by two logins that both read it before   *)
(* either deletes it.                                                      *)
OneTokenPerNonce == \A n \in Nonce : earned[n] <= 1

(* A challenge that has not expired stays until it is used: violated, as   *)
(* the login that used the previous one deletes it.                        *)
UsedOrKept ==
    [][\A a \in Address : Found(a) /\ stored'[a] = NoNonce => stored[a].nonce \in Consumed']_vars

=============================================================================
