--------------------------------- MODULE Hub ---------------------------------
(***************************************************************************)
(* internal/ws/hub.go: the WebSocket hub, its clients' two pumps, and the  *)
(* goroutines that broadcast.  Hub.Run is the only goroutine that changes  *)
(* the maps; it does so under the mutex, one request at a time.  Broadcast *)
(* holds the mutex only to fetch the inner map, and ranges over the map    *)
(* itself while Run may be changing it.                                    *)
(*                                                                         *)
(* A message is not told from another: a send buffer is its length.        *)
(***************************************************************************)
EXTENDS Naturals

CONSTANTS
    Client,         \* the connections, each upgraded at most once
    Topic,          \* the collections
    Subscribes,     \* [Client -> SUBSET Topic]: the collections parameter
    Broadcaster,    \* goroutines that call Broadcast
    BufCap          \* 64: capacity of a client's send channel

ASSUME HubAssumption ==
    /\ BufCap \in Nat
    /\ Subscribes \in [Client -> SUBSET Topic]

VARIABLES
    clients,     \* Hub.clients
    index,       \* Hub.byCollection: [Topic -> SUBSET Client]
    closes,      \* [Client -> how often its send channel has been closed]
    queue,       \* [Client -> number of messages in its send channel]
    upgrade,     \* [Client -> where Upgrade is]
    reader,      \* [Client -> where readPump is]
    writer,      \* [Client -> where writePump is]
    conn,        \* clients whose connection is open
    kick,        \* clients a goroutine of Broadcast is about to unregister
    range,       \* [Broadcaster -> the state of its loop]
    dead         \* how the process died, "no" while it runs

mapVars == <<clients, index, closes>>
pumpVars == <<upgrade, reader, writer>>
vars == <<mapVars, queue, pumpVars, conn, kick, range, dead>>

UpgradePC == {"none", "registering", "done"}
ReaderPC == {"off", "reading", "leaving", "done"}
WriterPC == {"off", "writing", "done"}
Deaths == {"no", "send on closed channel", "concurrent map access"}

NotRanging == [pc |-> "idle", topics |-> {}, begun |-> {}, seen |-> {}, at |-> {}]

Init ==
    /\ clients = {}
    /\ closes = [c \in Client |-> 0]
    /\ index = [t \in Topic |-> {}]
    /\ queue = [c \in Client |-> 0]
    /\ upgrade = [c \in Client |-> "none"]
    /\ reader = [c \in Client |-> "off"]
    /\ writer = [c \in Client |-> "off"]
    /\ conn = {} /\ kick = {}
    /\ range = [b \in Broadcaster |-> NotRanging]
    /\ dead = "no"

Running == dead = "no"

(* The clients whose send channel is closed. *)
Closed == {c \in Client : closes[c] > 0}

-----------------------------------------------------------------------------
(* Upgrade, and the connection as the peer and the network see it. *)

Upgrade(c) ==
    /\ Running
    /\ upgrade[c] = "none"
    /\ upgrade' = [upgrade EXCEPT ![c] = "registering"]
    /\ conn' = conn \cup {c}
    /\ UNCHANGED <<mapVars, queue, reader, writer, kick, range, dead>>

(* The peer goes away, or stops answering pings. *)
PeerGone(c) ==
    /\ Running
    /\ c \in conn
    /\ conn' = conn \ {c}
    /\ UNCHANGED <<mapVars, queue, pumpVars, kick, range, dead>>

-----------------------------------------------------------------------------
(* Hub.Run.  A write to an inner map that a Broadcast is ranging over is a *)
(* data race: the runtime may abort the process, or not notice.            *)

Ranged == UNION {range[b].topics : b \in Broadcaster}

(* The collections that have no inner map. *)
Unlisted == {t \in Topic : index[t] = {}}

Race(c) ==
    \/ UNCHANGED dead
    \/ /\ (Ranged \cap Subscribes[c]) \ Unlisted # {}
       /\ dead' = "concurrent map access"

(* A collection without listeners gets a new inner map, which a Broadcast  *)
(* that still ranges over the old one does not see.                        *)
Register(c) ==
    /\ Running
    /\ upgrade[c] = "registering"
    /\ upgrade' = [upgrade EXCEPT ![c] = "done"]
    /\ clients' = clients \cup {c}
    /\ index' = [t \in Topic |-> IF t \in Subscribes[c] THEN index[t] \cup {c} ELSE index[t]]
    /\ reader' = [reader EXCEPT ![c] = "reading"]
    /\ writer' = [writer EXCEPT ![c] = "writing"]
    /\ Race(c)
    /\ range' = [b \in Broadcaster |-> [range[b] EXCEPT !.topics = @ \ Unlisted]]
    /\ UNCHANGED <<closes, queue, conn, kick>>

(* Mutant: the client stays listed under its collections. *)
MutDeindex(c) == index

Deindex(c) == [t \in Topic |-> index[t] \ {c}]

(* Mutant: the channel is closed whoever hands the client in. *)
MutRegistered(c) == TRUE

(* The guard of the unregister case: the second to hand in a client finds  *)
(* it gone.                                                                *)
Registered(c) == c \in clients

(* Mutant: the channel is never closed. *)
MutDrop(c) ==
    IF Registered(c)
    THEN /\ clients' = clients \ {c}
         /\ index' = Deindex(c)
         /\ closes' = closes
         /\ Race(c)
    ELSE UNCHANGED <<mapVars, dead>>

(* The body of the unregister case. *)
Drop(c) ==
    IF Registered(c)
    THEN /\ clients' = clients \ {c}
         /\ index' = Deindex(c)
         /\ closes' = [closes EXCEPT ![c] = @ + 1]
         /\ Race(c)
    ELSE UNCHANGED <<mapVars, dead>>

(* readPump hands its client in and closes the connection. *)
UnregisterReader(c) ==
    /\ Running
    /\ reader[c] = "leaving"
    /\ Drop(c)
    /\ reader' = [reader EXCEPT ![c] = "done"]
    /\ conn' = conn \ {c}
    /\ UNCHANGED <<queue, upgrade, writer, kick, range>>

(* So does the goroutine Broadcast started for a full buffer. *)
UnregisterSlow(c) ==
    /\ Running
    /\ c \in kick
    /\ Drop(c)
    /\ kick' = kick \ {c}
    /\ conn' = conn \ {c}
    /\ UNCHANGED <<queue, pumpVars, range>>

-----------------------------------------------------------------------------
(* readPump and writePump *)

(* Mutant: readPump returns without handing its client in. *)
MutReaderLeaves == "done"

ReaderLeaves == "leaving"

ReadFails(c) ==
    /\ Running
    /\ reader[c] = "reading"
    /\ c \notin conn
    /\ reader' = [reader EXCEPT ![c] = ReaderLeaves]
    /\ UNCHANGED <<mapVars, queue, upgrade, writer, conn, kick, range, dead>>

WriteMessage(c) ==
    /\ Running
    /\ writer[c] = "writing"
    /\ queue[c] > 0 /\ c \in conn
    /\ queue' = [queue EXCEPT ![c] = @ - 1]
    /\ UNCHANGED <<mapVars, pumpVars, conn, kick, range, dead>>

ChannelDrained(c) == queue[c] = 0 /\ c \in Closed

(* The channel is closed and drained, or a write or a ping fails. *)
WriterReturns(c) ==
    /\ Running
    /\ writer[c] = "writing"
    /\ ChannelDrained(c) \/ c \notin conn
    /\ writer' = [writer EXCEPT ![c] = "done"]
    /\ conn' = conn \ {c}
    /\ UNCHANGED <<mapVars, queue, upgrade, reader, kick, range, dead>>

-----------------------------------------------------------------------------
(* Broadcast.  The loop ranges over the live map: a client that leaves is  *)
(* not reached any more, one that comes may be reached or not.             *)

Listeners(b) == UNION {index[t] : t \in range[b].topics}

BroadcastBegin(b, t) ==
    /\ Running
    /\ range[b].pc = "idle"
    /\ range' = [range EXCEPT ![b] =
            [pc |-> "ranging", topics |-> {t} \ Unlisted, begun |-> index[t], seen |-> {}, at |-> {}]]
    /\ UNCHANGED <<mapVars, queue, pumpVars, conn, kick, dead>>

BroadcastPick(b) ==
    /\ Running
    /\ range[b].pc = "ranging"
    /\ \E c \in Listeners(b) \ range[b].seen :
        range' = [range EXCEPT ![b].pc = "sending", ![b].at = {c}, ![b].seen = @ \cup {c}]
    /\ UNCHANGED <<mapVars, queue, pumpVars, conn, kick, dead>>

(* Mutant: off by one at the capacity. *)
MutHasRoom(c) == queue[c] <= BufCap

HasRoom(c) == queue[c] < BufCap

(* A full buffer: the message is dropped and the client disconnected. *)
BroadcastSend(b) ==
    /\ Running
    /\ range[b].pc = "sending"
    /\ \E c \in range[b].at \ Closed :
        \/ /\ HasRoom(c)
           /\ queue' = [queue EXCEPT ![c] = @ + 1]
           /\ UNCHANGED kick
        \/ /\ ~ HasRoom(c)
           /\ kick' = kick \cup {c}
           /\ UNCHANGED queue
    /\ range' = [range EXCEPT ![b].pc = "ranging", ![b].at = {}]
    /\ UNCHANGED <<mapVars, pumpVars, conn, dead>>

(* Sending on a closed channel panics.  In a request's goroutine the panic *)
(* is recovered by gin, in a watcher's goroutine it ends the process.      *)
BroadcastPanic(b) ==
    /\ Running
    /\ range[b].pc = "sending"
    /\ range[b].at \cap Closed # {}
    /\ \/ range' = [range EXCEPT ![b] = NotRanging] /\ UNCHANGED dead
       \/ dead' = "send on closed channel" /\ UNCHANGED range
    /\ UNCHANGED <<mapVars, queue, pumpVars, conn, kick>>

BroadcastEnd(b) ==
    /\ Running
    /\ range[b].pc = "ranging"
    /\ range[b].begun \cap Listeners(b) \subseteq range[b].seen
    /\ range' = [range EXCEPT ![b] = NotRanging]
    /\ UNCHANGED <<mapVars, queue, pumpVars, conn, kick, dead>>

-----------------------------------------------------------------------------
Hubs(c) == Register(c) \/ UnregisterReader(c) \/ UnregisterSlow(c)
Pumps(c) == ReadFails(c) \/ WriteMessage(c) \/ WriterReturns(c)
Broadcasts(b) ==
    BroadcastPick(b) \/ BroadcastSend(b) \/ BroadcastPanic(b) \/ BroadcastEnd(b)

Next ==
    \/ \E c \in Client : Upgrade(c) \/ PeerGone(c) \/ Hubs(c) \/ Pumps(c)
    \/ \E b \in Broadcaster : Broadcasts(b) \/ \E t \in Topic : BroadcastBegin(b, t)

Spec == Init /\ [][Next]_vars

(* Run serves every goroutine that waits on its channels, and the pumps    *)
(* and loops run on.  Nothing makes peers leave or messages come.          *)
FairSpec ==
    /\ Spec
    /\ \A c \in Client :
        /\ WF_vars(Register(c)) /\ WF_vars(UnregisterReader(c)) /\ WF_vars(UnregisterSlow(c))
        /\ WF_vars(ReadFails(c)) /\ WF_vars(WriteMessage(c)) /\ WF_vars(WriterReturns(c))
    /\ \A b \in Broadcaster : WF_vars(Broadcasts(b))

-----------------------------------------------------------------------------
Loop ==
    [pc : {"idle", "ranging", "sending"}, topics : SUBSET Topic,
     begun : SUBSET Client, seen : SUBSET Client, at : SUBSET Client]

TypeOK ==
    /\ clients \subseteq Client
    /\ closes \in [Client -> Nat]
    /\ index \in [Topic -> SUBSET Client]
    /\ queue \in [Client -> 0..BufCap]
    /\ upgrade \in [Client -> UpgradePC]
    /\ reader \in [Client -> ReaderPC]
    /\ writer \in [Client -> WriterPC]
    /\ conn \subseteq Client /\ kick \subseteq Client
    /\ range \in [Broadcaster -> Loop]
    /\ dead \in Deaths

(* The two maps agree: a collection lists exactly the registered clients   *)
(* that asked for it, through any number of joins, leaves and kicks.       *)
IndexMatchesClients ==
    \A t \in Topic : index[t] = {c \in clients : t \in Subscribes[c]}

(* A send channel is closed exactly once when its client has been          *)
(* unregistered and never before, though readPump and any number of        *)
(* Broadcasts may hand the same client in: a second close would panic in   *)
(* Run and end the process.                                                *)
ClosedOnce ==
    \A c \in Client :
        closes[c] = IF upgrade[c] = "done" /\ c \notin clients THEN 1 ELSE 0

(* A client whose connection is gone leaves the maps and both of its       *)
(* goroutines end, as long as the process lives: nothing leaks.            *)
GoneIsReleased ==
    \A c \in Client :
        (upgrade[c] = "done" /\ c \notin conn)
            ~> (~ Running \/ (c \in Closed /\ reader[c] = "done" /\ writer[c] = "done"))

(* A client whose buffer was full is disconnected, not only skipped. *)
SlowIsDisconnected ==
    \A c \in Client : (c \in kick) ~> (~ Running \/ (c \in Closed /\ c \notin conn))

(* A broadcast sends to the clients of its collection (hub.go:155), also   *)
(* while some of them leave: it never meets a closed channel, and never    *)
(* ranges over a map that Run is changing.                                 *)
NoSendOnClosedChannel == dead # "send on closed channel"
NoConcurrentMapAccess == dead # "concurrent map access"
=============================================================================
