------------------------------ MODULE AuthProofs ------------------------------
(* Theorems about Auth: the safety properties its run checks. *)
EXTENDS Auth, FiniteSetTheorems, TLAPS

USE DEF fates, Consumed

(* What is under an address's key is a challenge of this address, with the *)
(* time of its issue, and not used up.                                     *)
StoredInv ==
    \A a \in Address : stored[a].nonce # 0 =>
        /\ stored[a].nonce \in DOMAIN issued
        /\ issued[stored[a].nonce].to = a
        /\ stored[a].until = issued[stored[a].nonce].at + ChallengeTTL
        /\ stored[a].nonce \notin Consumed

(* A login under way holds a challenge of its address, read in time; past  *)
(* the deletion, its signature was checked.                                *)
LoginInv ==
    \A r \in Request : login[r].pc # "idle" =>
        /\ login[r].sig \in signatures
        /\ login[r].nonce \in DOMAIN issued
        /\ issued[login[r].nonce].to = login[r].address
        /\ login[r].read < issued[login[r].nonce].at + ChallengeTTL
        /\ login[r].pc = "deleted" =>
               Recovers(login[r].sig, login[r].nonce, login[r].address)

ConsumedInv == Consumed \subseteq DOMAIN issued

AuthInv == TypeOK /\ StoredInv /\ LoginInv /\ ConsumedInv /\ TokensAreEarned

-----------------------------------------------------------------------------
(* A login that is under way has its local variables. *)
LEMMA LoginUnderWay ==
    ASSUME TypeOK, NEW r \in Request, login[r].pc # "idle"
    PROVE  login[r] \in [pc : {"got", "deleted"}, address : Address, sig : Signature,
                         nonce : Nonce, read : Nat]
BY DEF TypeOK, Login, Idle

(* Appending a challenge leaves the earlier ones in place. *)
LEMMA AppendKeeps ==
    ASSUME TypeOK, NEW a \in Address
    PROVE  LET more == Append(issued, [to |-> a, at |-> now])
           IN /\ more \in Seq([to : Address, at : Nat])
              /\ Len(more) = Len(issued) + 1
              /\ DOMAIN issued = 1..Len(issued) /\ DOMAIN more = 1..(Len(issued) + 1)
              /\ \A n \in DOMAIN issued : n \in DOMAIN more /\ more[n] = issued[n]
              /\ more[Len(issued) + 1] = [to |-> a, at |-> now]
BY DEF TypeOK

LEMMA InitInv == Init => AuthInv
<1> SUFFICES ASSUME Init PROVE AuthInv
    OBVIOUS
<1> USE DEF Init, NoNonce, Idle
<1>1. TypeOK
    BY AuthAssumption DEF TypeOK, Login
<1>2. StoredInv /\ LoginInv /\ ConsumedInv
    BY DEF StoredInv, LoginInv, ConsumedInv
<1>3. TokensAreEarned
    BY DEF TokensAreEarned
<1> QED
    BY <1>1, <1>2, <1>3 DEF AuthInv

(* A new challenge. *)
LEMMA GenerateKeeps ==
    ASSUME AuthInv, NEW a \in Address, GenerateChallenge(a)
    PROVE  AuthInv'
<1> DEFINE new == Len(issued) + 1
<1> USE DEF AuthInv
<1>1. /\ issued' \in Seq([to : Address, at : Nat]) /\ Len(issued') = new
      /\ DOMAIN issued = 1..Len(issued) /\ DOMAIN issued' = 1..new
      /\ \A n \in DOMAIN issued : n \in DOMAIN issued' /\ issued'[n] = issued[n]
      /\ issued'[new] = [to |-> a, at |-> now]
    BY AppendKeeps DEF GenerateChallenge
<1>2. new \in 1..MaxNonces /\ new \notin DOMAIN issued /\ new \in DOMAIN issued'
    BY <1>1, AuthAssumption DEF GenerateChallenge, TypeOK
<1>3. \A b \in Address : stored'[b] =
            IF b = a THEN [nonce |-> new, until |-> now + ChallengeTTL] ELSE stored[b]
    BY DEF GenerateChallenge, Expiry, TypeOK
<1>4. TypeOK'
    BY <1>1, <1>2, <1>3, AuthAssumption DEF GenerateChallenge, Expiry, TypeOK
<1>5. StoredInv'
    BY <1>1, <1>2, <1>3 DEF GenerateChallenge, StoredInv, ConsumedInv, TypeOK
<1>6. LoginInv'
    BY <1>1 DEF GenerateChallenge, LoginInv, Recovers
<1>7. ConsumedInv'
    BY <1>1 DEF GenerateChallenge, ConsumedInv
<1>8. TokensAreEarned'
    BY <1>1 DEF GenerateChallenge, TokensAreEarned, Earned
<1> QED
    BY <1>4, <1>5, <1>6, <1>7, <1>8

LEMMA SignKeeps ==
    ASSUME AuthInv, NEW a \in Address, NEW n \in DOMAIN issued, Sign(a, n)
    PROVE  AuthInv'
<1> USE DEF AuthInv, Sign
<1>1. n \in Nonce
    BY AuthAssumption DEF TypeOK, Nonce
<1>2. TypeOK'
  <2>1. [by |-> a, nonce |-> n] \in Signature
      BY <1>1 DEF Signature
  <2> QED
      BY <2>1 DEF TypeOK
<1>3. StoredInv' /\ ConsumedInv'
    BY DEF StoredInv, ConsumedInv
<1>4. LoginInv' /\ TokensAreEarned'
    BY DEF LoginInv, Recovers, TokensAreEarned, Earned
<1> QED
    BY <1>2, <1>3, <1>4

(* The read at the start of a login, which finds a challenge in time. *)
LEMMA GetKeeps ==
    ASSUME AuthInv, NEW r \in Request, NEW a \in Address, NEW sig \in signatures,
           LoginGet(r, a, sig)
    PROVE  AuthInv'
<1> DEFINE job == [pc |-> "got", address |-> a, sig |-> sig,
                   nonce |-> stored[a].nonce, read |-> now]
<1> USE DEF AuthInv
<1>1. stored[a].nonce \in Nonce /\ stored[a].nonce \in DOMAIN issued
      /\ issued[stored[a].nonce].to = a /\ now < issued[stored[a].nonce].at + ChallengeTTL
  <2>1. stored[a].nonce # 0 /\ stored[a].nonce \in 0..MaxNonces
      BY DEF LoginGet, Found, TypeOK
  <2>2. stored[a].nonce \in Nonce
      BY <2>1, AuthAssumption DEF Nonce
  <2> QED
      BY <2>1, <2>2 DEF LoginGet, Found, StoredInv
<1>2. job \in Login
    BY <1>1 DEF TypeOK, Login
<1>3. \A q \in Request : login'[q] = IF q = r THEN job ELSE login[q]
    BY DEF LoginGet, TypeOK
<1>4. TypeOK'
    BY <1>2 DEF LoginGet, TypeOK
<1>5. LoginInv'
    BY <1>1, <1>3 DEF LoginGet, LoginInv, Recovers
<1>6. StoredInv' /\ ConsumedInv' /\ TokensAreEarned'
    BY DEF LoginGet, StoredInv, ConsumedInv, TokensAreEarned, Earned
<1> QED
    BY <1>4, <1>5, <1>6

LEMMA RefusedKeeps ==
    ASSUME AuthInv, NEW r \in Request, LoginRefused(r)
    PROVE  AuthInv'
<1> USE DEF AuthInv, LoginRefused
<1>1. TypeOK'
    BY DEF TypeOK, Login
<1>2. LoginInv'
    BY DEF LoginInv, Recovers, Idle, TypeOK
<1>3. StoredInv' /\ ConsumedInv' /\ TokensAreEarned'
    BY DEF StoredInv, ConsumedInv, TokensAreEarned, Earned
<1> QED
    BY <1>1, <1>2, <1>3

(* The deletion: the challenges of other addresses are other challenges. *)
LEMMA DelKeeps ==
    ASSUME AuthInv, NEW r \in Request, LoginDel(r)
    PROVE  AuthInv'
<1> DEFINE a == login[r].address
<1> USE DEF AuthInv
<1>1. login[r].pc = "got" /\ login[r].pc # "idle"
      /\ Recovers(login[r].sig, login[r].nonce, a)
    BY DEF LoginDel
<1>2. login[r] \in [pc : {"got", "deleted"}, address : Address, sig : Signature,
                    nonce : Nonce, read : Nat]
    BY <1>1, LoginUnderWay
<1>3. login[r].nonce \in DOMAIN issued /\ issued[login[r].nonce].to = a
    BY <1>1 DEF LoginInv
<1>4. \A q \in Request : login'[q] =
            IF q = r THEN [login[r] EXCEPT !.pc = "deleted"] ELSE login[q]
    BY DEF LoginDel, TypeOK
<1>5. [login[r] EXCEPT !.pc = "deleted"] \in Login
    BY <1>2 DEF Login
<1>6. ASSUME stored' = Del(a), UNCHANGED <<kept, faults>>,
             racers' = [racers EXCEPT ![login[r].nonce] =
                            IF @ = {} THEN Holders(login[r].nonce) ELSE @]
      PROVE  TypeOK' /\ StoredInv' /\ ConsumedInv'
  <2>1. stored' = [stored EXCEPT ![a] = NoNonce]
      BY <1>6 DEF Del
  <2>2. \A b \in Address : stored'[b] = IF b = a THEN NoNonce ELSE stored[b]
      BY <2>1 DEF TypeOK
  <2>3. TypeOK'
    <3>1. stored' \in [Address -> [nonce : 0..MaxNonces, until : Nat]]
      <4>1. NoNonce \in [nonce : 0..MaxNonces, until : Nat]
          BY AuthAssumption DEF NoNonce
      <4> QED
          BY <2>1, <4>1 DEF TypeOK
    <3>2. \A b \in Address : stored'[b].until <= now' + ChallengeTTL
        BY <2>2, AuthAssumption DEF LoginDel, TypeOK, NoNonce
    <3>3. racers' \in [Nonce -> SUBSET Request]
        BY <1>2, <1>6 DEF TypeOK, Holders
    <3>4. login' \in [Request -> Login]
        BY <1>5 DEF LoginDel, TypeOK
    <3> QED
        BY <1>6, <3>1, <3>2, <3>3, <3>4 DEF LoginDel, TypeOK
  <2>4. \A n \in Nonce : n # login[r].nonce => racers'[n] = racers[n]
      BY <1>6 DEF TypeOK
  <2>5. StoredInv'
      BY <1>3, <2>2, <2>4 DEF LoginDel, StoredInv, NoNonce
  <2>6. ConsumedInv'
      BY <1>3, <2>4 DEF LoginDel, ConsumedInv, Consumed
  <2> QED
      BY <2>3, <2>5, <2>6
<1>7. ASSUME Fault, kept' = kept \cup {login[r].nonce}, UNCHANGED <<stored, racers>>
      PROVE  TypeOK' /\ StoredInv' /\ ConsumedInv'
  <2>1. TypeOK'
      BY <1>2, <1>5, <1>7, AuthAssumption DEF LoginDel, TypeOK, Fault
  <2> QED
      BY <1>7, <2>1 DEF LoginDel, StoredInv, ConsumedInv
<1>8. TypeOK' /\ StoredInv' /\ ConsumedInv'
    BY <1>6, <1>7 DEF LoginDel
<1>9. LoginInv'
    BY <1>1, <1>2, <1>4 DEF LoginDel, LoginInv, Recovers
<1>10. TokensAreEarned'
    BY DEF LoginDel, TokensAreEarned, Earned
<1> QED
    BY <1>8, <1>9, <1>10

(* A token is given for what the login has checked. *)
LEMMA TokenKeeps ==
    ASSUME AuthInv, NEW r \in Request, LoginToken(r)
    PROVE  AuthInv'
<1> DEFINE token == [sub |-> login[r].address, nonce |-> login[r].nonce,
                     read |-> login[r].read]
<1> USE DEF AuthInv
<1>1. login[r].pc = "deleted" /\ login[r].pc # "idle"
    BY DEF LoginToken
<1>2. login[r] \in [pc : {"got", "deleted"}, address : Address, sig : Signature,
                    nonce : Nonce, read : Nat]
    BY <1>1, LoginUnderWay
<1>3. tokens' = tokens \cup {token} /\ UNCHANGED <<issued, signatures>>
    BY DEF LoginToken
<1>4. TypeOK'
  <2>1. earned' \in [Nonce -> Nat]
    <3>1. Counted(earned[login[r].nonce]) \in Nat
        BY <1>2 DEF TypeOK, Counted
    <3> QED
        BY <3>1 DEF LoginToken, TypeOK
  <2>2. login' \in [Request -> Login]
      BY DEF LoginToken, TypeOK, Login
  <2>3. tokens' \subseteq [sub : Address, nonce : Nonce, read : Nat]
      BY <1>2, <1>3 DEF TypeOK
  <2> QED
      BY <2>1, <2>2, <2>3 DEF LoginToken, TypeOK
<1>5. LoginInv'
    BY DEF LoginToken, LoginInv, Recovers, Idle, TypeOK
<1>6. [by |-> login[r].address, nonce |-> login[r].nonce] = login[r].sig
    BY <1>1, <1>2 DEF LoginInv, Recovers, Signature
<1>7. Earned(token)
    BY <1>1, <1>6 DEF LoginInv, Earned
<1>8. TokensAreEarned'
    BY <1>3, <1>7 DEF TokensAreEarned, Earned
<1>9. StoredInv' /\ ConsumedInv'
    BY <1>3 DEF LoginToken, StoredInv, ConsumedInv
<1> QED
    BY <1>4, <1>5, <1>8, <1>9

LEMMA ClockAndCrashKeep ==
    ASSUME AuthInv, Clock \/ Crash \/ UNCHANGED vars
    PROVE  AuthInv'
<1> USE DEF AuthInv
<1>1. CASE Clock
  <2>1. TypeOK'
      BY <1>1, AuthAssumption DEF Clock, TypeOK
  <2> QED
      BY <1>1, <2>1 DEF Clock, StoredInv, LoginInv, Recovers, ConsumedInv, TokensAreEarned,
         Earned
<1>2. CASE Crash
  <2>1. TypeOK'
      BY <1>2, AuthAssumption DEF Crash, Fault, TypeOK, Login
  <2>2. LoginInv'
      BY <1>2 DEF Crash, LoginInv, Idle
  <2> QED
      BY <1>2, <2>1, <2>2 DEF Crash, StoredInv, ConsumedInv, TokensAreEarned, Earned
<1>3. CASE UNCHANGED vars
    BY <1>3 DEF vars, TypeOK, StoredInv, LoginInv, Recovers, ConsumedInv, TokensAreEarned,
       Earned
<1> QED
    BY <1>1, <1>2, <1>3

LEMMA StepInv == AuthInv /\ [Next]_vars => AuthInv'
<1> SUFFICES ASSUME AuthInv, [Next]_vars PROVE AuthInv'
    OBVIOUS
<1>1. CASE \E a \in Address : GenerateChallenge(a) \/ \E n \in DOMAIN issued : Sign(a, n)
    BY <1>1, GenerateKeeps, SignKeeps
<1>2. CASE \E r \in Request, a \in Address, sig \in signatures : LoginGet(r, a, sig)
    BY <1>2, GetKeeps
<1>3. CASE \E r \in Request : LoginStep(r)
    BY <1>3, RefusedKeeps, DelKeeps, TokenKeeps DEF LoginStep
<1>4. CASE Clock \/ Crash \/ UNCHANGED vars
    BY <1>4, ClockAndCrashKeep
<1> QED
    BY <1>1, <1>2, <1>3, <1>4 DEF Next

LEMMA Invariance == Spec => []AuthInv
BY InitInv, StepInv, PTL DEF Spec

-----------------------------------------------------------------------------
(* The variables keep their types, and a nonce its time to live            *)
(* (GenerateChallenge).                                                    *)
THEOREM AuthTypes == Spec => []TypeOK
<1>1. AuthInv => TypeOK
    BY DEF AuthInv
<1> QED
    BY <1>1, Invariance, PTL

(* Every token was earned by its subject's wallet, for any number of       *)
(* logins at once (Login).                                                 *)
THEOREM EveryTokenIsEarned == Spec => []TokensAreEarned
<1>1. AuthInv => TokensAreEarned
    BY DEF AuthInv
<1> QED
    BY <1>1, Invariance, PTL

(* A nonce deleted by the login it was good for is never found again       *)
(* (Login, the Del).                                                       *)
THEOREM ConsumedNoncesStayGone == Spec => []ConsumedIsGone
<1>1. AuthInv => ConsumedIsGone
  <2> SUFFICES ASSUME AuthInv, NEW a \in Address PROVE stored[a].nonce \notin Consumed
      BY DEF ConsumedIsGone
  <2>1. 0 \notin Consumed
      BY AuthAssumption DEF Consumed, Nonce
  <2> QED
      BY <2>1 DEF AuthInv, StoredInv
<1> QED
    BY <1>1, Invariance, PTL

-----------------------------------------------------------------------------
(* The tokens of a nonce. Before it is deleted nobody is past the deletion *)
(* with it. Then those who still hold it are among those who held it, and  *)
(* only the others of these can have earned a token with it.               *)
EarnedInv ==
    \A n \in Nonce \ kept :
        /\ racers[n] = {} => earned[n] = 0 /\ \A r \in Holders(n) : login[r].pc = "got"
        /\ racers[n] # {} =>
             /\ Holders(n) \subseteq racers[n]
             /\ earned[n] <= Cardinality(racers[n] \ Holders(n))

(* The logins at once are finitely many. *)
LEMMA FewRequests ==
    ASSUME NEW S \in SUBSET Request, NEW T \in SUBSET S
    PROVE  /\ IsFiniteSet(S) /\ IsFiniteSet(T)
           /\ Cardinality(S) \in Nat /\ Cardinality(T) \in Nat
           /\ Cardinality(T) <= Cardinality(S)
<1>1. IsFiniteSet(S)
    BY AuthAssumption, FS_Subset
<1> QED
    BY <1>1, FS_Subset, FS_CardinalityType

(* Logins that end without a token. *)
LEMMA EndKeepsEarned ==
    ASSUME TypeOK, EarnedInv, UNCHANGED fates,
           \A r \in Request : login'[r] = login[r] \/ login'[r] = Idle
    PROVE  EarnedInv'
<1> SUFFICES ASSUME NEW n \in Nonce \ kept
             PROVE  /\ racers[n] = {} =>
                         earned[n] = 0 /\ \A r \in Holders(n)' : login'[r].pc = "got"
                    /\ racers[n] # {} =>
                         /\ Holders(n)' \subseteq racers[n]
                         /\ earned[n] <= Cardinality(racers[n] \ Holders(n)')
    BY DEF EarnedInv
<1>1. Holders(n)' \subseteq Holders(n) /\ \A r \in Holders(n)' : login'[r] = login[r]
    BY DEF Holders
<1>2. CASE racers[n] = {}
    BY <1>1, <1>2 DEF EarnedInv
<1>3. CASE racers[n] # {}
  <2>1. racers[n] \ Holders(n) \subseteq racers[n] \ Holders(n)' /\ racers[n] \subseteq Request
      BY <1>1 DEF TypeOK
  <2>2. Cardinality(racers[n] \ Holders(n)) <= Cardinality(racers[n] \ Holders(n)')
        /\ Cardinality(racers[n] \ Holders(n)) \in Nat
        /\ Cardinality(racers[n] \ Holders(n)') \in Nat
      BY <2>1, FewRequests
  <2>3. earned[n] \in Nat
      BY DEF TypeOK
  <2> QED
      BY <1>1, <1>3, <2>2, <2>3 DEF EarnedInv
<1> QED
    BY <1>2, <1>3

(* A login that begins: the nonce it finds is none that was deleted. *)
LEMMA GetKeepsEarned ==
    ASSUME AuthInv, EarnedInv, NEW r \in Request, NEW a \in Address, NEW sig \in signatures,
           LoginGet(r, a, sig)
    PROVE  EarnedInv'
<1> DEFINE found == stored[a].nonce
<1> SUFFICES ASSUME NEW n \in Nonce \ kept
             PROVE  /\ racers[n] = {} =>
                         earned[n] = 0 /\ \A q \in Holders(n)' : login'[q].pc = "got"
                    /\ racers[n] # {} =>
                         /\ Holders(n)' \subseteq racers[n]
                         /\ earned[n] <= Cardinality(racers[n] \ Holders(n)')
    BY DEF EarnedInv, LoginGet
<1>1. \A q \in Request : login'[q] =
         IF q = r THEN [pc |-> "got", address |-> a, sig |-> sig, nonce |-> found, read |-> now]
         ELSE login[q]
    BY DEF LoginGet, AuthInv, TypeOK
<1>2. login[r] = Idle
    BY DEF LoginGet
<1>3. found \notin Consumed
    BY DEF LoginGet, Found, AuthInv, StoredInv
<1> HIDE DEF found
<1>4. CASE racers[n] = {}
  <2>1. \A q \in Holders(n)' : q = r \/ (q \in Holders(n) /\ login'[q] = login[q])
      BY <1>1 DEF Holders
  <2>2. login'[r].pc = "got"
      BY <1>1
  <2> QED
      BY <1>4, <2>1, <2>2 DEF EarnedInv
<1>5. CASE racers[n] # {}
  <2>1. n # found
      BY <1>3, <1>5 DEF Consumed
  <2>2. r \notin Holders(n)'
      BY <1>1, <2>1 DEF Holders
  <2>3. r \notin Holders(n)
      BY <1>2 DEF Holders
  <2>4. Holders(n)' = Holders(n)
      BY <1>1, <2>2, <2>3 DEF Holders
  <2> QED
      BY <1>5, <2>4 DEF EarnedInv
<1> QED
    BY <1>4, <1>5

(* The deletion: those who hold the nonce now are its racers, if nobody    *)
(* deleted it before.                                                      *)
LEMMA DelKeepsEarned ==
    ASSUME AuthInv, EarnedInv, NEW r \in Request, LoginDel(r)
    PROVE  EarnedInv'
<1> DEFINE mine == login[r].nonce
<1>1. login[r].pc = "got" /\ login[r].pc # "idle"
    BY DEF LoginDel
<1>2. mine \in Nonce /\ login[r] # Idle
    BY <1>1, LoginUnderWay DEF AuthInv, Idle
<1>3. \A q \in Request : login'[q] =
            IF q = r THEN [login[r] EXCEPT !.pc = "deleted"] ELSE login[q]
    BY DEF LoginDel, AuthInv, TypeOK
<1>4. login'[r] # Idle /\ login'[r].nonce = mine
    BY <1>1, <1>3, LoginUnderWay DEF AuthInv, Idle
<1>5. \A n : Holders(n)' = Holders(n)
  <2> TAKE n
  <2>1. \A q \in Request : (login'[q] # Idle /\ login'[q].nonce = n)
                             <=> (login[q] # Idle /\ login[q].nonce = n)
      BY <1>2, <1>3, <1>4
  <2> QED
      BY <2>1 DEF Holders
<1>6. r \in Holders(mine)
    BY <1>2 DEF Holders
<1>7. earned' = earned
    BY DEF LoginDel
<1> HIDE DEF mine
<1> SUFFICES ASSUME NEW n \in Nonce, n \notin kept'
             PROVE  /\ racers'[n] = {} =>
                         earned[n] = 0 /\ \A q \in Holders(n) : login'[q].pc = "got"
                    /\ racers'[n] # {} =>
                         /\ Holders(n) \subseteq racers'[n]
                         /\ earned[n] <= Cardinality(racers'[n] \ Holders(n))
    BY <1>5, <1>7 DEF EarnedInv
<1>8. n \notin kept /\ earned[n] \in Nat
    BY DEF LoginDel, AuthInv, TypeOK
<1>9. CASE n # mine
  <2>1. racers'[n] = racers[n]
      BY <1>9 DEF LoginDel, AuthInv, TypeOK, mine
  <2>2. \A q \in Holders(n) : login'[q] = login[q]
      BY <1>3, <1>9 DEF Holders, mine
  <2> QED
      BY <1>8, <2>1, <2>2 DEF EarnedInv
<1>10. CASE n = mine
  <2>1. racers'[n] = IF racers[n] = {} THEN Holders(n) ELSE racers[n]
      BY <1>2, <1>8, <1>10 DEF LoginDel, AuthInv, TypeOK, mine
  <2>2. CASE racers[n] = {}
    <3>1. racers'[n] = Holders(n) /\ Holders(n) # {} /\ earned[n] = 0
        BY <1>6, <1>8, <1>10, <2>1, <2>2 DEF EarnedInv
    <3>2. racers'[n] \ Holders(n) = {}
        BY <3>1
    <3> QED
        BY <3>1, <3>2, FS_EmptySet
  <2>3. CASE racers[n] # {}
      BY <1>8, <2>1, <2>3 DEF EarnedInv
  <2> QED
      BY <2>2, <2>3
<1> QED
    BY <1>9, <1>10

(* A token is given to a racer, who then holds the nonce no more. *)
LEMMA TokenKeepsEarned ==
    ASSUME AuthInv, EarnedInv, NEW r \in Request, LoginToken(r)
    PROVE  EarnedInv'
<1> DEFINE mine == login[r].nonce
<1>1. login[r].pc = "deleted" /\ login[r].pc # "idle"
    BY DEF LoginToken
<1>2. mine \in Nonce /\ login[r] # Idle
    BY <1>1, LoginUnderWay DEF AuthInv, Idle
<1>3. \A q \in Request : login'[q] = IF q = r THEN Idle ELSE login[q]
    BY DEF LoginToken, AuthInv, TypeOK
<1>4. earned' = [earned EXCEPT ![mine] = Counted(@)] /\ UNCHANGED <<racers, kept>>
    BY DEF LoginToken
<1>5. r \in Holders(mine)
    BY <1>2 DEF Holders
<1>6. \A n : Holders(n)' = Holders(n) \ {r}
  <2> TAKE n
  <2>1. \A q \in Request : (login'[q] # Idle /\ login'[q].nonce = n)
                             <=> (login[q] # Idle /\ login[q].nonce = n /\ q # r)
      BY <1>3
  <2> QED
      BY <2>1 DEF Holders
<1> HIDE DEF mine
<1> SUFFICES ASSUME NEW n \in Nonce \ kept
             PROVE  /\ racers[n] = {} =>
                         earned'[n] = 0 /\ \A q \in Holders(n) \ {r} : login'[q].pc = "got"
                    /\ racers[n] # {} =>
                         /\ Holders(n) \ {r} \subseteq racers[n]
                         /\ earned'[n] <= Cardinality(racers[n] \ (Holders(n) \ {r}))
    BY <1>4, <1>6 DEF EarnedInv
<1>7. earned[n] \in Nat /\ racers[n] \in SUBSET Request
    BY DEF AuthInv, TypeOK
<1>8. CASE n # mine
  <2>1. earned'[n] = earned[n]
      BY <1>4, <1>8 DEF AuthInv, TypeOK
  <2>2. r \notin Holders(n)
      BY <1>8 DEF Holders, mine
  <2>3. \A q \in Holders(n) : login'[q] = login[q] /\ Holders(n) \ {r} = Holders(n)
      BY <1>3, <2>2 DEF Holders
  <2>4. Holders(n) \ {r} = Holders(n)
      BY <2>2
  <2> QED
      BY <2>1, <2>3, <2>4 DEF EarnedInv
<1>9. CASE n = mine
  <2>1. racers[n] # {} /\ r \in Holders(n) /\ r \in racers[n]
      BY <1>1, <1>5, <1>9 DEF EarnedInv
  <2>2. Holders(n) \subseteq racers[n] /\ earned[n] <= Cardinality(racers[n] \ Holders(n))
      BY <2>1 DEF EarnedInv
  <2> DEFINE gone == racers[n] \ Holders(n)
  <2>3. racers[n] \ (Holders(n) \ {r}) = gone \cup {r} /\ r \notin gone
      BY <2>1
  <2>4. IsFiniteSet(gone) /\ Cardinality(gone) \in Nat
      BY <1>7, FewRequests
  <2>5. Cardinality(gone \cup {r}) = Cardinality(gone) + 1
      BY <2>3, <2>4, FS_AddElement
  <2>6. earned'[n] = Counted(earned[n])
      BY <1>4, <1>9 DEF AuthInv, TypeOK
  <2> HIDE DEF gone
  <2>7. earned[n] <= Cardinality(gone)
      BY <2>2 DEF gone
  <2>8. earned'[n] <= Cardinality(gone) + 1
      BY <1>7, <2>4, <2>6, <2>7 DEF Counted
  <2> QED
      BY <2>1, <2>2, <2>3, <2>5, <2>8
<1> QED
    BY <1>8, <1>9

LEMMA EarnedStep ==
    ASSUME AuthInv, EarnedInv, [Next]_vars
    PROVE  EarnedInv'
<1>1. CASE \E r \in Request, a \in Address, sig \in signatures : LoginGet(r, a, sig)
    BY <1>1, GetKeepsEarned
<1>2. CASE \E r \in Request : LoginDel(r)
    BY <1>2, DelKeepsEarned
<1>3. CASE \E r \in Request : LoginToken(r)
    BY <1>3, TokenKeepsEarned
<1>4. ASSUME UNCHANGED fates, \A r \in Request : login'[r] = login[r] \/ login'[r] = Idle
      PROVE  EarnedInv'
    BY <1>4, EndKeepsEarned DEF AuthInv
<1>5. CASE \E a \in Address : GenerateChallenge(a) \/ \E n \in DOMAIN issued : Sign(a, n)
    BY <1>4, <1>5 DEF GenerateChallenge, Sign
<1>6. CASE \E r \in Request : LoginRefused(r)
    BY <1>4, <1>6 DEF LoginRefused, AuthInv, TypeOK
<1>7. CASE Clock \/ Crash \/ UNCHANGED vars
    BY <1>4, <1>7 DEF Clock, Crash, vars
<1> QED
    BY <1>1, <1>2, <1>3, <1>5, <1>6, <1>7 DEF Next, LoginStep

(* A nonce earns no more tokens than there were logins that held it when   *)
(* it was first deleted, so without an overlap one, for any number of      *)
(* logins, challenges and stops (Login, from the Get to the token).        *)
THEOREM NoncesAreNotReplayed == Spec => []TokensPerNonce
<1>1. Init => EarnedInv
    BY DEF Init, EarnedInv, Holders
<1>2. AuthInv /\ EarnedInv => TokensPerNonce
  <2> SUFFICES ASSUME AuthInv, EarnedInv, NEW n \in Nonce \ kept
               PROVE  earned[n] <= Cardinality(racers[n])
      BY DEF TokensPerNonce
  <2>1. earned[n] \in Nat /\ racers[n] \in SUBSET Request
      BY DEF AuthInv, TypeOK
  <2>2. CASE racers[n] = {}
      BY <2>2, FS_EmptySet DEF EarnedInv
  <2>3. CASE racers[n] # {}
    <3>1. Cardinality(racers[n] \ Holders(n)) <= Cardinality(racers[n])
          /\ Cardinality(racers[n] \ Holders(n)) \in Nat /\ Cardinality(racers[n]) \in Nat
        BY <2>1, FewRequests
    <3> QED
        BY <2>1, <2>3, <3>1 DEF EarnedInv
  <2> QED
      BY <2>2, <2>3
<1> QED
    BY <1>1, <1>2, Invariance, EarnedStep, PTL DEF Spec

=============================================================================
