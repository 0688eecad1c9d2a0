------------------------------ MODULE HubProofs ------------------------------
(***************************************************************************)
(* What Hub.Run keeps for any number of clients, collections and           *)
(* broadcasts: its two maps agree, and each send channel is closed once,   *)
(* when its client is unregistered.  The races between Run and Broadcast   *)
(* end the process, but none of them makes the maps disagree.              *)
(***************************************************************************)
EXTENDS Hub, TLAPS

MapInv ==
    /\ clients \subseteq Client
    /\ closes \in [Client -> Nat]
    /\ index \in [Topic -> SUBSET Client]
    /\ upgrade \in [Client -> UpgradePC]
    /\ \A c \in clients : upgrade[c] = "done"
    /\ IndexMatchesClients
    /\ ClosedOnce

(* A hub starts with no clients and empty maps.                            *)
LEMMA MapInit == Init => MapInv
BY DEF Init, MapInv, IndexMatchesClients, ClosedOnce, UpgradePC

(* The only steps that touch the maps are those of Run. *)
LEMMA OnlyRunChangesMaps ==
    ASSUME Next
    PROVE  \/ \E c \in Client : Upgrade(c) /\ UNCHANGED mapVars
           \/ \E c \in Client : Register(c)
           \/ \E c \in Client : Drop(c) /\ UNCHANGED upgrade
           \/ UNCHANGED <<mapVars, upgrade>>
<1>1. ASSUME NEW c \in Client, PeerGone(c) \/ Pumps(c)
      PROVE  UNCHANGED <<mapVars, upgrade>>
  BY <1>1 DEF PeerGone, Pumps, ReadFails, WriteMessage, WriterReturns, pumpVars
<1>2. ASSUME NEW c \in Client, Hubs(c)
      PROVE  Register(c) \/ (Drop(c) /\ UNCHANGED upgrade)
  BY <1>2 DEF Hubs, UnregisterReader, UnregisterSlow, pumpVars
<1>3. ASSUME NEW b \in Broadcaster, Broadcasts(b) \/ \E t \in Topic : BroadcastBegin(b, t)
      PROVE  UNCHANGED <<mapVars, upgrade>>
  BY <1>3 DEF Broadcasts, BroadcastBegin, BroadcastPick, BroadcastSend, BroadcastPanic,
              BroadcastEnd, pumpVars
<1> QED BY <1>1, <1>2, <1>3 DEF Next, Upgrade

(* A client that registers was not registered before, so it is not closed. *)
LEMMA RegisterKeeps ==
    ASSUME MapInv, NEW c \in Client, Register(c)
    PROVE  MapInv'
<1>1. /\ upgrade' = [upgrade EXCEPT ![c] = "done"] /\ upgrade[c] = "registering"
      /\ clients' = clients \cup {c} /\ closes' = closes
      /\ index' = [t \in Topic |-> IF t \in Subscribes[c] THEN index[t] \cup {c} ELSE index[t]]
  BY DEF Register
<1>2. c \notin clients /\ closes[c] = 0
  BY <1>1 DEF MapInv, ClosedOnce
<1>3. IndexMatchesClients'
  BY <1>1, <1>2 DEF MapInv, IndexMatchesClients
<1>4. ClosedOnce'
  BY <1>1, <1>2 DEF MapInv, ClosedOnce
<1>5. index' \in [Topic -> SUBSET Client]
  BY <1>1 DEF MapInv
<1> QED BY <1>1, <1>3, <1>4, <1>5 DEF MapInv, UpgradePC

(* A second request to unregister a client finds it gone and does nothing. *)
LEMMA DropKeeps ==
    ASSUME MapInv, NEW c \in Client, Drop(c), UNCHANGED upgrade
    PROVE  MapInv'
<1>1. CASE c \in clients
  <2>1. /\ clients' = clients \ {c} /\ closes' = [closes EXCEPT ![c] = @ + 1]
        /\ index' = [t \in Topic |-> index[t] \ {c}]
    BY <1>1 DEF Drop, Deindex, Registered
  <2>2. upgrade[c] = "done" /\ closes[c] = 0
    BY <1>1 DEF MapInv, ClosedOnce
  <2>3. IndexMatchesClients'
    BY <2>1 DEF MapInv, IndexMatchesClients
  <2>4. ClosedOnce'
    BY <2>1, <2>2 DEF MapInv, ClosedOnce
  <2>5. index' \in [Topic -> SUBSET Client]
    BY <2>1 DEF MapInv
  <2> QED BY <2>1, <2>3, <2>4, <2>5 DEF MapInv
<1>2. CASE c \notin clients
  BY <1>2 DEF Drop, Registered, mapVars, MapInv, IndexMatchesClients, ClosedOnce
<1> QED BY <1>1, <1>2

(* Every step of the hub keeps the maps in agreement.                      *)
LEMMA MapStep ==
    ASSUME MapInv, [Next]_vars
    PROVE  MapInv'
<1>1. CASE UNCHANGED <<mapVars, upgrade>>
  BY <1>1 DEF mapVars, MapInv, IndexMatchesClients, ClosedOnce
<1>2. ASSUME NEW c \in Client, Upgrade(c), UNCHANGED mapVars
      PROVE  MapInv'
  <2>1. upgrade' = [upgrade EXCEPT ![c] = "registering"] /\ upgrade[c] = "none"
    BY <1>2 DEF Upgrade
  <2> QED
    BY <1>2, <2>1 DEF mapVars, MapInv, IndexMatchesClients, ClosedOnce, UpgradePC
<1>3. CASE UNCHANGED vars
  BY <1>1, <1>3 DEF vars, pumpVars
<1> QED BY <1>1, <1>2, <1>3, OnlyRunChangesMaps, RegisterKeeps, DropKeeps

(* The invariant of the hub: the maps of Hub.Run agree at all times.       *)
LEMMA MapInvHolds == Spec => []MapInv
BY MapInit, MapStep, PTL DEF Spec

(* A collection lists exactly the registered clients that asked for it,    *)
(* through every order of joins, leaves and kicks of slow clients.         *)
THEOREM HubIndexIsRight == Spec => []IndexMatchesClients
BY MapInvHolds, PTL DEF MapInv

(* The send channel of a client is closed exactly once when it has been    *)
(* unregistered and never before, although readPump and several broadcasts *)
(* may hand the same client in: no second close ends the process.          *)
THEOREM HubClosesOnce == Spec => []ClosedOnce
BY MapInvHolds, PTL DEF MapInv

-----------------------------------------------------------------------------
(* A buffer is never over its capacity, and all variables keep their types. *)

LEMMA HubTypeInit == Init => TypeOK
<1>1. NotRanging \in Loop BY DEF NotRanging, Loop
<1> HIDE DEF NotRanging
<1> QED
  BY <1>1, HubAssumption DEF HubAssumption, Init, TypeOK, UpgradePC, ReaderPC, WriterPC, Deaths

(* Run's two cases. *)
LEMMA RunTypes ==
    ASSUME TypeOK, NEW c \in Client, Hubs(c)
    PROVE  TypeOK'
<1>1. CASE Register(c)
  <2>1. dead' \in Deaths
    BY <1>1 DEF Register, Race, TypeOK, Deaths
  <2>2. range' \in [Broadcaster -> Loop]
    <3>1. \A b \in Broadcaster : [range[b] EXCEPT !.topics = @ \ Unlisted] \in Loop
      BY DEF TypeOK, Loop
    <3> QED BY <1>1, <3>1 DEF Register
  <2>3. clients' \subseteq Client /\ index' \in [Topic -> SUBSET Client]
    BY <1>1 DEF Register, TypeOK
  <2> QED BY <1>1, <2>1, <2>2, <2>3 DEF Register, TypeOK, UpgradePC, ReaderPC, WriterPC
<1>2. ASSUME Drop(c)
      PROVE  /\ clients' \subseteq Client /\ closes' \in [Client -> Nat]
             /\ index' \in [Topic -> SUBSET Client] /\ dead' \in Deaths
  <2>1. CASE c \in clients
    <3>1. closes[c] + 1 \in Nat
      BY DEF TypeOK
    <3>2. closes' \in [Client -> Nat]
      BY <1>2, <2>1, <3>1 DEF Drop, Registered, TypeOK
    <3>3. clients' \subseteq Client /\ index' \in [Topic -> SUBSET Client] /\ dead' \in Deaths
      <4>1. clients' = clients \ {c} /\ index' = [t \in Topic |-> index[t] \ {c}] /\ Race(c)
        BY <1>2, <2>1 DEF Drop, Registered, Deindex
      <4>2. dead' \in Deaths
        BY <4>1 DEF Race, TypeOK, Deaths
      <4> QED BY <4>1, <4>2 DEF TypeOK
    <3> QED BY <3>2, <3>3
  <2>2. CASE c \notin clients
    BY <1>2, <2>2 DEF Drop, Registered, TypeOK, mapVars
  <2> QED BY <2>1, <2>2
<1>3. CASE UnregisterReader(c)
  BY <1>2, <1>3 DEF UnregisterReader, TypeOK, ReaderPC
<1>4. CASE UnregisterSlow(c)
  BY <1>2, <1>4 DEF UnregisterSlow, TypeOK, pumpVars
<1> QED BY <1>1, <1>3, <1>4 DEF Hubs

(* The connection and its two pumps. *)
LEMMA PumpTypes ==
    ASSUME TypeOK, NEW c \in Client, Upgrade(c) \/ PeerGone(c) \/ Pumps(c)
    PROVE  TypeOK'
<1>1. CASE WriteMessage(c)
  <2>1. queue[c] - 1 \in 0..BufCap
    BY <1>1, HubAssumption DEF HubAssumption, WriteMessage, TypeOK
  <2> QED BY <1>1, <2>1 DEF WriteMessage, mapVars, pumpVars, TypeOK
<1>2. CASE Upgrade(c)
  BY <1>2 DEF Upgrade, mapVars, TypeOK, UpgradePC
<1>3. CASE PeerGone(c)
  BY <1>3 DEF PeerGone, mapVars, pumpVars, TypeOK
<1>4. CASE ReadFails(c)
  BY <1>4 DEF ReadFails, ReaderLeaves, mapVars, TypeOK, ReaderPC
<1>5. CASE WriterReturns(c)
  BY <1>5 DEF WriterReturns, mapVars, TypeOK, WriterPC
<1> QED BY <1>1, <1>2, <1>3, <1>4, <1>5 DEF Pumps

(* A broadcast sends only into a buffer with room. *)
LEMMA BroadcastTypes ==
    ASSUME TypeOK, NEW b \in Broadcaster, Broadcasts(b) \/ \E t \in Topic : BroadcastBegin(b, t)
    PROVE  TypeOK'
<1>1. range[b] \in Loop
  BY DEF TypeOK
<1>2. NotRanging \in Loop
  BY DEF NotRanging, Loop
<1>3. ASSUME NEW t \in Topic, BroadcastBegin(b, t) PROVE TypeOK'
  <2>1. [pc |-> "ranging", topics |-> {t} \ Unlisted, begun |-> index[t],
         seen |-> {}, at |-> {}] \in Loop
    BY DEF TypeOK, Loop
  <2>2. range' \in [Broadcaster -> Loop]
    BY <1>3, <2>1 DEF BroadcastBegin, TypeOK
  <2> QED BY <1>3, <2>2 DEF BroadcastBegin, mapVars, pumpVars, TypeOK
<1>4. CASE BroadcastPick(b)
  <2>1. PICK c \in Listeners(b) \ range[b].seen :
          range' = [range EXCEPT ![b].pc = "sending", ![b].at = {c}, ![b].seen = @ \cup {c}]
    BY <1>4 DEF BroadcastPick
  <2>2. c \in Client
    BY <1>1, <2>1 DEF Listeners, TypeOK, Loop
  <2>3. range' \in [Broadcaster -> Loop]
    BY <1>1, <2>1, <2>2 DEF TypeOK, Loop
  <2> QED BY <1>4, <2>3 DEF BroadcastPick, mapVars, pumpVars, TypeOK
<1>5. CASE BroadcastSend(b)
  <2>1. PICK c \in range[b].at \ Closed :
          \/ HasRoom(c) /\ queue' = [queue EXCEPT ![c] = @ + 1] /\ UNCHANGED kick
          \/ ~ HasRoom(c) /\ kick' = kick \cup {c} /\ UNCHANGED queue
    BY <1>5 DEF BroadcastSend
  <2>2. c \in Client
    BY <1>1, <2>1 DEF Loop
  <2>3. queue' \in [Client -> 0..BufCap] /\ kick' \subseteq Client
    <3>1. HasRoom(c) => queue[c] + 1 \in 0..BufCap
      BY <2>2, HubAssumption DEF HubAssumption, HasRoom, TypeOK
    <3> QED BY <2>1, <2>2, <3>1 DEF TypeOK
  <2>4. range' \in [Broadcaster -> Loop]
    BY <1>1, <1>5 DEF BroadcastSend, TypeOK, Loop
  <2> QED BY <1>5, <2>3, <2>4 DEF BroadcastSend, mapVars, pumpVars, TypeOK
<1>6. CASE BroadcastPanic(b)
  <2>1. range' \in [Broadcaster -> Loop] /\ dead' \in Deaths
    <3> HIDE DEF NotRanging
    <3> QED BY <1>2, <1>6 DEF BroadcastPanic, TypeOK, Deaths
  <2> QED BY <1>6, <2>1 DEF BroadcastPanic, mapVars, pumpVars, TypeOK
<1>7. CASE BroadcastEnd(b)
  <2>1. range' \in [Broadcaster -> Loop]
    <3> HIDE DEF NotRanging
    <3> QED BY <1>2, <1>7 DEF BroadcastEnd, TypeOK
  <2> QED BY <1>7, <2>1 DEF BroadcastEnd, mapVars, pumpVars, TypeOK
<1> QED BY <1>3, <1>4, <1>5, <1>6, <1>7 DEF Broadcasts

(* No send channel ever holds more than its buffer, whichever broadcasts   *)
(* and pumps work on it at once.                                           *)
THEOREM HubTypes == Spec => []TypeOK
<1>1. TypeOK /\ [Next]_vars => TypeOK'
  <2> SUFFICES ASSUME TypeOK, [Next]_vars PROVE TypeOK'
    OBVIOUS
  <2>1. CASE UNCHANGED vars
    BY <2>1 DEF vars, mapVars, pumpVars, TypeOK
  <2> QED BY <2>1, RunTypes, PumpTypes, BroadcastTypes DEF Next
<1> QED BY <1>1, HubTypeInit, PTL DEF Spec
=============================================================================
