------------------------ MODULE NotificationService ------------------------
(***************************************************************************)
(* The notification service (apps/notification): WebSocket clients, the     *)
(* registry of clients and of channel subscriptions, the heartbeat that ends *)
(* dead clients, the broadcast of Kafka messages, and the shutdown.         *)
(*                                                                         *)
(* A handler has no await, so each is one action.  A connection is a client  *)
(* of its own: one that comes back has another id.                          *)
(*                                                                         *)
(* A definition Mut_X is a mutated form of the definition it precedes.      *)
(***************************************************************************)
EXTENDS Integers, FiniteSets, Functions

CONSTANTS
  Clients,         \* connections
  Role,            \* of a client's token: user, operator or admin
  User,            \* the user of its token
  OwnRegions,      \* the region of its token, or none
  OwnMeters,       \* the meter of its token, or none
  Prompt,          \* clients that answer a ping before the next heartbeat
  Regions, Meters,
  Messages,        \* Kafka messages: kind, regions and meters, user
  MaxConnections,  \* Config.websocket.maxConnections
  MaxRequests      \* bound: subscribe and unsubscribe requests

Roles == {"user", "operator", "admin"}

(* The six topics the service subscribes to, a kind of message each. *)
Kinds == {"alert", "status", "tariff", "billing", "payment", "dispute"}

(* What a message names that decides whom it is sent to. *)
IsMessage(m) == m.kind \in Kinds /\ m.regions \subseteq Regions /\ m.meters \subseteq Meters

ASSUME TokenAssumption ==
  /\ Role \in [Clients -> Roles]
  /\ OwnRegions \in [Clients -> SUBSET Regions]
  /\ OwnMeters \in [Clients -> SUBSET Meters]
  /\ Prompt \subseteq Clients
ASSUME MessageAssumption == \A m \in Messages : IsMessage(m)
ASSUME NotificationBoundsAssumption ==
  MaxConnections \in Nat \ {0} /\ MaxRequests \in Nat

VARIABLES
  socket,        \* the state of each connection
  clients,       \* this.clients
  ahead,         \* the clients the map yields before each one: those inserted earlier
  channels,      \* ws.channels
  subscriptions, \* this.subscriptions, for the channels it has
  isAlive,       \* ws.isAlive
  pinged,        \* clients with a ping they have not answered
  phase,         \* the shutdown
  requests,      \* requests so far
  gone,          \* peers that have vanished without closing
  rounds,        \* history: heartbeats a vanished client has outlived
  unsubscribed,  \* history: clients that have unsubscribed from something
  missed         \* history: messages that did not reach whom they concern

registry == <<clients, ahead, channels, subscriptions>>
pulse == <<isAlive, pinged, rounds>>
vars == <<socket, registry, pulse, phase, requests, gone, unsubscribed, missed>>

-----------------------------------------------------------------------------
(* Channels.                                                                *)

ByRegion(regions) == {"region"} \X regions
ByMeter(meters) == {"meter"} \X meters
ByUser(user) == {<<"user", user>>}
Named(names) == {<<n>> : n \in names}

StaffChannels == Named({"alerts", "tariffs", "alert_status_updates"})

canAccessChannel(c, ch) ==
  \/ Role[c] = "admin"
  \/ Role[c] = "operator" /\ ch \in StaffChannels \cup ByRegion(Regions)
  \/ ch \in Named({"tariffs"}) \cup ByRegion(OwnRegions[c]) \cup ByMeter(OwnMeters[c])

getDefaultChannels(c) ==
  (IF Role[c] \in {"admin", "operator"} THEN StaffChannels ELSE Named({"tariffs"}))
    \cup ByRegion(OwnRegions[c]) \cup ByMeter(OwnMeters[c])

(* The channels the handlers of NotificationHelper broadcast to. *)
Targets(m) ==
  CASE m.kind = "alert" -> Named({"alerts"}) \cup ByRegion(m.regions) \cup ByMeter(m.meters)
    [] m.kind = "status" -> Named({"alert_status_updates", "alerts"}) \cup ByRegion(m.regions)
    [] m.kind = "tariff" -> Named({"tariffs"}) \cup ByRegion(m.regions)
    [] m.kind = "billing" -> Named({"billing", "invoices"}) \cup ByUser(m.user)
                               \cup ByRegion(m.regions)
    [] m.kind = "payment" -> Named({"payments", "billing"}) \cup ByUser(m.user)
    [] m.kind = "dispute" -> Named({"disputes", "billing"}) \cup ByUser(m.user)

Channels ==
  StaffChannels \cup Named({"billing", "invoices", "payments", "disputes"})
    \cup ByRegion(Regions) \cup ByMeter(Meters) \cup {<<"user", User[c]>> : c \in Clients}

-----------------------------------------------------------------------------
(* The registry.                                                            *)

Subscribers(ch) == IF ch \in DOMAIN subscriptions THEN subscriptions[ch] ELSE {}

(* subscribeToChannels: those the client may not have are passed over. *)
SubscribeToChannels(c, requested) ==
  LET allowed == {ch \in requested : canAccessChannel(c, ch)}
  IN /\ subscriptions' = [ch \in DOMAIN subscriptions \cup allowed |->
                            IF ch \in allowed THEN Subscribers(ch) \cup {c}
                                              ELSE subscriptions[ch]]
     /\ channels' = [channels EXCEPT ![c] = @ \cup allowed]

Mut_EmptyChannelsKept(c, left) ==
  subscriptions' = [ch \in DOMAIN subscriptions |->
                      IF ch \in left THEN subscriptions[ch] \ {c} ELSE subscriptions[ch]]

Mut_ChannelDeletedTooSoon(c, left) ==
  subscriptions' = Restrict(subscriptions, DOMAIN subscriptions \ left)

(* The client leaves the channels, and a channel without clients goes. *)
LeaveChannels(c, left) ==
  subscriptions' =
    [ch \in {x \in DOMAIN subscriptions : x \in left => subscriptions[x] # {c}} |->
       IF ch \in left THEN subscriptions[ch] \ {c} ELSE subscriptions[ch]]

-----------------------------------------------------------------------------
Init ==
  /\ socket = [c \in Clients |-> "new"]
  /\ clients = {} /\ ahead = [c \in Clients |-> {}]
  /\ channels = [c \in Clients |-> {}]
  /\ subscriptions = [ch \in {} |-> {}]
  /\ isAlive = [c \in Clients |-> TRUE]
  /\ pinged = {} /\ gone = {} /\ unsubscribed = {} /\ missed = {}
  /\ phase = "up"
  /\ requests = 0
  /\ rounds = [c \in Clients |-> 0]

Mut_NoLimit(c) ==
  /\ phase \in {"up", "closing"} /\ socket[c] = "new"
  /\ socket' = [socket EXCEPT ![c] = "open"]
  /\ clients' = clients \cup {c}
  /\ ahead' = [ahead EXCEPT ![c] = clients]
  /\ SubscribeToChannels(c, getDefaultChannels(c))
  /\ UNCHANGED <<pulse, phase, requests, gone, unsubscribed, missed>>

(* handleConnection, with room and a valid token.  A connection accepted    *)
(* before the shutdown may still be upgraded during it.                     *)
Connect(c) ==
  /\ phase \in {"up", "closing"} /\ socket[c] = "new"
  /\ Cardinality(clients) < MaxConnections
  /\ socket' = [socket EXCEPT ![c] = "open"]
  /\ clients' = clients \cup {c}
  /\ ahead' = [ahead EXCEPT ![c] = clients]
  /\ SubscribeToChannels(c, getDefaultChannels(c))
  /\ UNCHANGED <<pulse, phase, requests, gone, unsubscribed, missed>>

(* Without room, or with a token that is missing, invalid or expired: the   *)
(* server closes a connection it has not registered.                        *)
Reject(c) ==
  /\ phase \in {"up", "closing"} /\ socket[c] = "new"
  /\ socket' = [socket EXCEPT ![c] = "rejected"]
  /\ UNCHANGED <<registry, pulse, phase, requests, gone, unsubscribed, missed>>

(* A client's request; it may have been received before the connection's    *)
(* end is reported.                                                         *)
Request(c) ==
  /\ socket[c] \in {"open", "ending", "terminated"}
  /\ requests < MaxRequests /\ requests' = requests + 1

Subscribe(c, requested) ==
  /\ Request(c)
  /\ SubscribeToChannels(c, requested)
  /\ UNCHANGED <<socket, clients, ahead, pulse, phase, gone, unsubscribed, missed>>

(* unsubscribeFromChannels: only channels that have subscribers. *)
Unsubscribe(c, requested) ==
  /\ Request(c)
  /\ LeaveChannels(c, requested)
  /\ channels' = [channels EXCEPT ![c] = @ \ (requested \cap DOMAIN subscriptions)]
  /\ unsubscribed' = unsubscribed \cup {c}
  /\ UNCHANGED <<socket, clients, ahead, pulse, phase, gone, missed>>

-----------------------------------------------------------------------------
(* The peer is cut off: no close, no answer to a ping. *)
Vanish(c) ==
  /\ socket[c] = "open" /\ c \notin gone
  /\ gone' = gone \cup {c}
  /\ UNCHANGED <<socket, registry, pulse, phase, requests, unsubscribed, missed>>

(* The peer closes, or the connection fails. *)
Leave(c) ==
  /\ socket[c] = "open"
  /\ socket' = [socket EXCEPT ![c] = "ending"]
  /\ UNCHANGED <<registry, pulse, phase, requests, gone, unsubscribed, missed>>

(* What is recorded of a connection that has ended is of no further use. *)
Forget(c) ==
  /\ channels' = [channels EXCEPT ![c] = {}]
  /\ isAlive' = [isAlive EXCEPT ![c] = TRUE]
  /\ pinged' = pinged \ {c}
  /\ rounds' = [rounds EXCEPT ![c] = 0]

(* handleDisconnection. *)
Disconnect(c) ==
  /\ socket[c] \in {"ending", "terminated"}
  /\ socket' = [socket EXCEPT ![c] = "closed"]
  /\ LeaveChannels(c, channels[c])
  /\ clients' = clients \ {c}
  /\ ahead' = [d \in Clients |-> IF d = c THEN {} ELSE ahead[d] \ {c}]
  /\ Forget(c)
  /\ UNCHANGED <<phase, requests, gone, unsubscribed, missed>>

(* The end of a connection that was never registered. *)
RejectedEnds(c) ==
  /\ socket[c] = "rejected"
  /\ socket' = [socket EXCEPT ![c] = "closed"]
  /\ UNCHANGED <<registry, pulse, phase, requests, gone, unsubscribed, missed>>

-----------------------------------------------------------------------------
Pong(c) ==
  /\ c \in pinged \ gone /\ socket[c] = "open"
  /\ isAlive' = [isAlive EXCEPT ![c] = TRUE]
  /\ pinged' = pinged \ {c}
  /\ UNCHANGED <<socket, registry, rounds, phase, requests, gone, unsubscribed, missed>>

Mut_HeartbeatStoppedFirst ==
  /\ phase = "up"
  /\ \A c \in clients :
       /\ socket[c] # "terminated"
       /\ c \in Prompt \ gone /\ socket[c] = "open" => c \notin pinged

(* Half a minute has passed since the last heartbeat: a terminated socket   *)
(* has reported its end, and a prompt client has answered.                  *)
HeartbeatDue ==
  /\ phase \in {"up", "closing"}
  /\ \A c \in clients :
       /\ socket[c] # "terminated"
       /\ c \in Prompt \ gone /\ socket[c] = "open" => c \notin pinged

Outlive ==
  rounds' = [c \in Clients |->
               rounds[c] + (IF c \in clients \cap gone /\ socket[c] = "open" THEN 1 ELSE 0)]

Ping(cs) ==
  /\ isAlive' = [c \in Clients |-> isAlive[c] /\ c \notin cs]
  /\ pinged' = pinged \cup cs
  /\ Outlive

FirstDead(c) == ~isAlive[c] /\ \A d \in ahead[c] : isAlive[d]

Mut_NotTerminated ==
  /\ HeartbeatDue
  /\ clients # {}
  /\ \/ /\ \A c \in clients : isAlive[c]
        /\ Ping(clients)
     \/ \E c \in clients :
          /\ FirstDead(c)
          /\ Ping(ahead[c])
  /\ UNCHANGED <<socket, registry, phase, requests, gone, unsubscribed, missed>>

(* The loop returns at the first client that has not answered: the clients  *)
(* after it are neither pinged nor looked at.                               *)
Heartbeat ==
  /\ HeartbeatDue
  /\ clients # {}
  /\ \/ /\ \A c \in clients : isAlive[c]
        /\ Ping(clients)
        /\ UNCHANGED socket
     \/ \E c \in clients :
          /\ FirstDead(c)
          /\ Ping(ahead[c])
          /\ socket' = [socket EXCEPT ![c] = "terminated"]
  /\ UNCHANGED <<registry, phase, requests, gone, unsubscribed, missed>>

-----------------------------------------------------------------------------
(* broadcast: the subscribers of each channel that are open. *)
Reached(m) ==
  {c \in Clients : socket[c] = "open" /\ \E ch \in Targets(m) : c \in Subscribers(ch)}

(* Whom a message is for, by the comments at its broadcasts. *)
Concerns(c, m) ==
  CASE m.kind = "alert" -> \/ Role[c] # "user"
                           \/ OwnRegions[c] \cap m.regions # {}
                           \/ OwnMeters[c] \cap m.meters # {}
    [] m.kind = "status" -> Role[c] # "user"
    [] m.kind = "tariff" -> TRUE
    [] OTHER -> User[c] = m.user

(* The handler that startProcessing has chosen by the topic. *)
Dispatch(m) ==
  missed' = missed \cup
    {<<c, m>> : c \in {d \in clients \ (unsubscribed \cup Reached(m)) :
                         socket[d] = "open" /\ Concerns(d, m)}}

(* handleMessage of the consumer. *)
Handle(m) ==
  /\ phase # "stopped"
  /\ Dispatch(m)
  /\ UNCHANGED <<socket, registry, pulse, phase, requests, gone, unsubscribed>>

-----------------------------------------------------------------------------
(* The shutdown.  The HTTP server takes no connection any more, and closes  *)
(* when the last one has ended.                                             *)
Signal ==
  /\ phase = "up"
  /\ phase' = "closing"
  /\ UNCHANGED <<socket, registry, pulse, requests, gone, unsubscribed, missed>>

(* Then the WebSocket service stops its heartbeat, closes the clients it has *)
(* and clears the registry.                                                 *)
ServerClosed ==
  /\ phase = "closing"
  /\ \A c \in Clients : socket[c] \in {"new", "closed"}
  /\ phase' = "closed"
  /\ clients' = {} /\ ahead' = [c \in Clients |-> {}]
  /\ subscriptions' = [ch \in {} |-> {}]
  /\ UNCHANGED <<socket, channels, pulse, requests, gone, unsubscribed, missed>>

(* The consumer is disconnected and the process exits. *)
Exit ==
  /\ phase = "closed"
  /\ phase' = "stopped"
  /\ UNCHANGED <<socket, registry, pulse, requests, gone, unsubscribed, missed>>

-----------------------------------------------------------------------------
ClientStep(c) ==
  \/ Connect(c) \/ Reject(c) \/ Vanish(c) \/ Leave(c)
  \/ Disconnect(c) \/ RejectedEnds(c) \/ Pong(c)
  \/ \E ch \in Channels : Subscribe(c, {ch}) \/ Unsubscribe(c, {ch})

Next ==
  \/ \E c \in Clients : ClientStep(c)
  \/ Heartbeat
  \/ \E m \in Messages : Handle(m)
  \/ Signal \/ ServerClosed \/ Exit

Spec == Init /\ [][Next]_vars

(* The timer fires, connections report their end, prompt clients answer,    *)
(* and a shutdown goes on.  Nothing is said of messages and signals, nor of *)
(* clients that leave.                                                      *)
Fairness ==
  /\ WF_vars(Heartbeat) /\ WF_vars(ServerClosed) /\ WF_vars(Exit)
  /\ \A c \in Clients : WF_vars(Disconnect(c)) /\ WF_vars(RejectedEnds(c))
  /\ \A c \in Prompt : WF_vars(Pong(c))

FairSpec == Spec /\ Fairness

-----------------------------------------------------------------------------
TypeOK ==
  /\ socket \in [Clients -> {"new", "rejected", "open", "ending", "terminated", "closed"}]
  /\ clients \subseteq Clients /\ Cardinality(clients) <= MaxConnections
  /\ ahead \in [Clients -> SUBSET Clients]
  /\ channels \in [Clients -> SUBSET Channels]
  /\ DOMAIN subscriptions \subseteq Channels
  /\ subscriptions \in [DOMAIN subscriptions -> SUBSET Clients]
  /\ isAlive \in [Clients -> BOOLEAN]
  /\ pinged \subseteq Clients /\ gone \subseteq Clients /\ unsubscribed \subseteq Clients
  /\ phase \in {"up", "closing", "closed", "stopped"}
  /\ requests \in 0 .. MaxRequests
  /\ rounds \in [Clients -> Nat]
  /\ missed \subseteq Clients \X Messages

(* The map of clients, the channels each client keeps and the clients each  *)
(* channel keeps are three records of one relation: they agree, with no     *)
(* trace of a client whose end has been handled, no channel without clients, *)
(* and no client in a channel that is not for it.                           *)
RegistryConsistent ==
  /\ clients = {c \in Clients : socket[c] \in {"open", "ending", "terminated"}}
  /\ \A c \in Clients, ch \in Channels :
       c \in Subscribers(ch) <=> c \in clients /\ ch \in channels[c]
  /\ \A ch \in DOMAIN subscriptions : subscriptions[ch] # {}
  /\ \A c \in Clients : \A ch \in channels[c] : canAccessChannel(c, ch)

(* Whoever else comes, goes, dies or subscribes, an open client that never  *)
(* unsubscribed gets the alerts and tariffs that concern it.                *)
NothingMissed ==
  \A x \in missed : x[2].kind \notin {"alert", "status", "tariff"}

(* The heartbeat ends no client that is there and answers in time.          *)
PromptStays ==
  \A c \in Prompt \ gone : socket[c] = "open" => socket'[c] # "terminated"
PromptClientsStay == [][PromptStays]_vars

(* One heartbeat ends one client, so a vanished client may outlive several; *)
(* but each of them ends another, and it outlives no more than there is     *)
(* room for clients.                                                        *)
DeadEndInTime ==
  \A c \in gone : socket[c] = "open" => rounds[c] <= MaxConnections

(* The heartbeat ends the dead in time, and them only. *)
HeartbeatEndsTheDead == [][DeadEndInTime' /\ PromptStays]_vars

(* A shutdown comes to its end unless a client that is there stays: clients *)
(* that have vanished do not hold it up.                                    *)
ShutdownEnds ==
  \/ phase = "closing" ~> phase = "stopped"
  \/ <>[](\E c \in Clients \ gone : socket[c] = "open")

=============================================================================
