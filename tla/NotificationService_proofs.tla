--------------------- MODULE NotificationService_proofs ---------------------
(* Proofs about NotificationService, for all sets of clients, channels and  *)
(* messages and any number of connections.                                  *)
EXTENDS NotificationService, FiniteSetTheorems, TLAPS

(* The order in which the map yields its clients. *)
Ordered ==
  /\ IsFiniteSet(clients)
  /\ \A c \in Clients : ahead[c] \subseteq clients \ {c}
  /\ \A c, d \in clients : c # d => (c \in ahead[d] <=> d \notin ahead[c])

(* A connection that is not registered has no channels. *)
Unregistered == \A c \in Clients \ clients : channels[c] = {}

(* A client marked as not alive has a ping to answer. *)
DeadArePinged == \A c \in Clients : ~isAlive[c] => c \in pinged

(* A client keeps its default channels until it asks otherwise. *)
DefaultsKept == \A c \in clients \ unsubscribed : getDefaultChannels(c) \subseteq channels[c]

(* The heartbeats that may still pass over a client: one for each client    *)
(* ahead of it, and the one that pings it.                                  *)
Before(c) == {d \in ahead[c] : socket[d] # "terminated"}
Patience(c) == Cardinality(Before(c)) + (IF isAlive[c] THEN 1 ELSE 0)

Patient ==
  /\ \A c \in Clients \ gone : rounds[c] = 0
  /\ \A c \in gone : socket[c] # "new"
  /\ \A c \in gone : socket[c] = "open" => rounds[c] + Patience(c) <= MaxConnections

RInv == TypeOK /\ RegistryConsistent /\ Unregistered /\ Ordered
IInv == RInv /\ DeadArePinged /\ DefaultsKept /\ NothingMissed /\ Patient

-----------------------------------------------------------------------------
(* What subscribing to channels changes. *)
LEMMA SubscribeEffect ==
  ASSUME TypeOK, NEW c \in Clients, NEW requested \in SUBSET Channels,
         \A ch \in DOMAIN subscriptions : subscriptions[ch] # {},
         SubscribeToChannels(c, requested)
  PROVE  /\ DOMAIN subscriptions' \subseteq Channels
         /\ subscriptions' \in [DOMAIN subscriptions' -> SUBSET Clients]
         /\ \A ch \in DOMAIN subscriptions' : subscriptions'[ch] # {}
         /\ \A ch \in Channels : ch \in requested /\ canAccessChannel(c, ch)
              => Subscribers(ch)' = Subscribers(ch) \cup {c}
         /\ \A ch \in Channels : ~(ch \in requested /\ canAccessChannel(c, ch))
              => Subscribers(ch)' = Subscribers(ch)
         /\ channels' = [channels EXCEPT ![c] =
                           @ \cup {ch \in requested : canAccessChannel(c, ch)}]
<1>. DEFINE allowed == {ch \in requested : canAccessChannel(c, ch)}
<1>1. /\ subscriptions' = [ch \in DOMAIN subscriptions \cup allowed |->
                             IF ch \in allowed THEN Subscribers(ch) \cup {c}
                                               ELSE subscriptions[ch]]
      /\ channels' = [channels EXCEPT ![c] = @ \cup allowed]
  BY DEF SubscribeToChannels
<1>2. \A ch \in Channels : ch \in allowed <=> ch \in requested /\ canAccessChannel(c, ch)
  OBVIOUS
<1>3. allowed \subseteq Channels
  OBVIOUS
<1>4. \A ch \in Channels : Subscribers(ch) \subseteq Clients
  BY DEF Subscribers, TypeOK
<1>. HIDE DEF allowed
<1>5. DOMAIN subscriptions' = DOMAIN subscriptions \cup allowed
  BY <1>1
<1>6. DOMAIN subscriptions' \subseteq Channels
  BY <1>3, <1>5 DEF TypeOK
<1>7. subscriptions' \in [DOMAIN subscriptions' -> SUBSET Clients]
  BY <1>1, <1>3, <1>4, <1>5 DEF TypeOK
<1>8. \A ch \in DOMAIN subscriptions' : subscriptions'[ch] # {}
  BY <1>1, <1>5
<1>9. \A ch \in Channels : ch \in allowed => Subscribers(ch)' = Subscribers(ch) \cup {c}
  BY <1>1, <1>5 DEF Subscribers
<1>10. \A ch \in Channels : ch \notin allowed => Subscribers(ch)' = Subscribers(ch)
  BY <1>1, <1>5 DEF Subscribers
<1>. QED
  BY <1>1, <1>2, <1>6, <1>7, <1>8, <1>9, <1>10 DEF allowed

(* What leaving channels changes. *)
LEMMA LeaveEffect ==
  ASSUME TypeOK, NEW c \in Clients, NEW left,
         \A ch \in DOMAIN subscriptions : subscriptions[ch] # {},
         LeaveChannels(c, left)
  PROVE  /\ DOMAIN subscriptions' \subseteq Channels
         /\ subscriptions' \in [DOMAIN subscriptions' -> SUBSET Clients]
         /\ \A ch \in DOMAIN subscriptions' : subscriptions'[ch] # {}
         /\ \A ch \in Channels : ch \in left => Subscribers(ch)' = Subscribers(ch) \ {c}
         /\ \A ch \in Channels : ch \notin left => Subscribers(ch)' = Subscribers(ch)
<1>1. DOMAIN subscriptions' = {x \in DOMAIN subscriptions : x \in left => subscriptions[x] # {c}}
  BY DEF LeaveChannels
<1>2. \A ch \in DOMAIN subscriptions' :
        subscriptions'[ch] = IF ch \in left THEN subscriptions[ch] \ {c} ELSE subscriptions[ch]
  BY DEF LeaveChannels
<1>3. DOMAIN subscriptions' \subseteq Channels
  BY <1>1 DEF TypeOK
<1>4. subscriptions' \in [DOMAIN subscriptions' -> SUBSET Clients]
  BY <1>1 DEF LeaveChannels, TypeOK
<1>5. \A ch \in DOMAIN subscriptions' : subscriptions'[ch] # {}
  BY <1>1, <1>2
<1>6. \A ch \in Channels : ch \in left => Subscribers(ch)' = Subscribers(ch) \ {c}
  BY <1>1, <1>2 DEF Subscribers
<1>7. \A ch \in Channels : ch \notin left => Subscribers(ch)' = Subscribers(ch)
  BY <1>1, <1>2 DEF Subscribers
<1>. QED
  BY <1>3, <1>4, <1>5, <1>6, <1>7

(* The default channels are channels a client may have. *)
LEMMA DefaultChannels ==
  ASSUME NEW c \in Clients
  PROVE  /\ getDefaultChannels(c) \subseteq Channels
         /\ \A ch \in getDefaultChannels(c) : canAccessChannel(c, ch)
<1>1. Role[c] \in {"user", "operator", "admin"}
  BY TokenAssumption DEF Roles
<1>2. OwnRegions[c] \subseteq Regions /\ OwnMeters[c] \subseteq Meters
  BY TokenAssumption
<1>3. ByRegion(OwnRegions[c]) \subseteq ByRegion(Regions)
  BY <1>2 DEF ByRegion
<1>4. ByMeter(OwnMeters[c]) \subseteq ByMeter(Meters)
  BY <1>2 DEF ByMeter
<1>5. Named({"tariffs"}) \subseteq StaffChannels
  BY DEF Named, StaffChannels
<1>. QED
  BY <1>1, <1>3, <1>4, <1>5 DEF getDefaultChannels, canAccessChannel, Channels

(* The initial states satisfy the invariant. *)
LEMMA InitInvariant == Init => IInv
<1>. SUFFICES ASSUME Init PROVE IInv
  OBVIOUS
<1>. USE NotificationBoundsAssumption, FS_EmptySet DEF Init
<1>1. TypeOK
  BY DEF TypeOK
<1>2. RegistryConsistent
  BY DEF RegistryConsistent, Subscribers
<1>3. Ordered /\ Unregistered
  BY DEF Ordered, Unregistered
<1>4. DeadArePinged /\ DefaultsKept /\ NothingMissed /\ Patient
  BY DEF DeadArePinged, DefaultsKept, NothingMissed, Patient
<1>. QED
  BY <1>1, <1>2, <1>3, <1>4 DEF IInv, RInv

-----------------------------------------------------------------------------
(* Type correctness is kept by every step. *)
LEMMA StepType ==
  ASSUME TypeOK, RegistryConsistent, Ordered, [Next]_vars
  PROVE  TypeOK'
<1>. USE NotificationBoundsAssumption DEF registry, pulse
<1>0. \A ch \in DOMAIN subscriptions : subscriptions[ch] # {}
  BY DEF RegistryConsistent
<1>1. ASSUME NEW c \in Clients, Connect(c) PROVE TypeOK'
  <2>1. Cardinality(clients') <= MaxConnections
    <3>1. IsFiniteSet(clients) /\ Cardinality(clients) \in Nat
      BY FS_CardinalityType DEF Ordered
    <3>2. Cardinality(clients \cup {c}) =
            IF c \in clients THEN Cardinality(clients) ELSE Cardinality(clients) + 1
      BY <3>1, FS_AddElement
    <3>3. clients' = clients \cup {c} /\ Cardinality(clients) < MaxConnections
      BY <1>1 DEF Connect
    <3>. QED
      BY <3>1, <3>2, <3>3
  <2>2. SubscribeToChannels(c, getDefaultChannels(c))
    BY <1>1 DEF Connect
  <2>3. /\ DOMAIN subscriptions' \subseteq Channels
        /\ subscriptions' \in [DOMAIN subscriptions' -> SUBSET Clients]
        /\ channels' \in [Clients -> SUBSET Channels]
    BY <1>0, <2>2, DefaultChannels, SubscribeEffect DEF TypeOK
  <2>. QED
    BY <1>1, <2>1, <2>3 DEF Connect, TypeOK
<1>2. ASSUME NEW c \in Clients, Reject(c) \/ Leave(c) \/ RejectedEnds(c) PROVE TypeOK'
  BY <1>2 DEF Reject, Leave, RejectedEnds, TypeOK
<1>3. ASSUME NEW c \in Clients, Vanish(c) \/ Pong(c) PROVE TypeOK'
  BY <1>3 DEF Vanish, Pong, TypeOK
<1>4. ASSUME NEW c \in Clients, Disconnect(c) PROVE TypeOK'
  <2>1. clients' \subseteq Clients /\ Cardinality(clients') <= MaxConnections
    <3>1. IsFiniteSet(clients) /\ Cardinality(clients) \in Nat
      BY FS_CardinalityType DEF Ordered
    <3>2. Cardinality(clients \ {c}) <= Cardinality(clients)
      BY <3>1, FS_RemoveElement
    <3>3. Cardinality(clients \ {c}) \in Nat
      BY <3>1, FS_RemoveElement, FS_CardinalityType
    <3>. QED
      BY <1>4, <3>1, <3>2, <3>3 DEF Disconnect, TypeOK
  <2>2. LeaveChannels(c, channels[c])
    BY <1>4 DEF Disconnect
  <2>3. /\ DOMAIN subscriptions' \subseteq Channels
        /\ subscriptions' \in [DOMAIN subscriptions' -> SUBSET Clients]
    BY <1>0, <2>2, LeaveEffect
  <2>. QED
    BY <1>4, <2>1, <2>3 DEF Disconnect, Forget, TypeOK
<1>5. ASSUME NEW c \in Clients, NEW x \in Channels, Subscribe(c, {x}) PROVE TypeOK'
  <2>1. SubscribeToChannels(c, {x})
    BY <1>5 DEF Subscribe
  <2>2. /\ DOMAIN subscriptions' \subseteq Channels
        /\ subscriptions' \in [DOMAIN subscriptions' -> SUBSET Clients]
        /\ channels' \in [Clients -> SUBSET Channels]
    BY <1>0, <2>1, SubscribeEffect DEF TypeOK
  <2>. QED
    BY <1>5, <2>2 DEF Subscribe, Request, TypeOK
<1>6. ASSUME NEW c \in Clients, NEW x \in Channels, Unsubscribe(c, {x}) PROVE TypeOK'
  <2>1. LeaveChannels(c, {x})
    BY <1>6 DEF Unsubscribe
  <2>2. /\ DOMAIN subscriptions' \subseteq Channels
        /\ subscriptions' \in [DOMAIN subscriptions' -> SUBSET Clients]
    BY <1>0, <2>1, LeaveEffect
  <2>. QED
    BY <1>6, <2>2 DEF Unsubscribe, Request, TypeOK
<1>7. ASSUME Heartbeat PROVE TypeOK'
  <2>1. \A cs : Ping(cs) => /\ isAlive' \in [Clients -> BOOLEAN]
                           /\ rounds' \in [Clients -> Nat]
    BY DEF Ping, Outlive, TypeOK
  <2>2. CASE Ping(clients) /\ UNCHANGED socket
    BY <1>7, <2>1, <2>2 DEF Heartbeat, Ping, TypeOK
  <2>3. ASSUME NEW c \in clients, Ping(ahead[c]), socket' = [socket EXCEPT ![c] = "terminated"]
        PROVE  TypeOK'
    <3>1. socket' \in [Clients -> {"new", "rejected", "open", "ending", "terminated", "closed"}]
      BY <2>3 DEF TypeOK
    <3>2. pinged' \subseteq Clients
      BY <2>3 DEF Ping, TypeOK
    <3>3. UNCHANGED <<registry, phase, requests, gone, unsubscribed, missed>>
      BY <1>7 DEF Heartbeat
    <3>. QED
      BY <2>1, <2>3, <3>1, <3>2, <3>3 DEF TypeOK
  <2>. QED
    BY <1>7, <2>2, <2>3 DEF Heartbeat
<1>8. ASSUME NEW m \in Messages, Handle(m) PROVE TypeOK'
  <2>1. missed' \subseteq Clients \X Messages
    BY <1>8 DEF Handle, Dispatch, TypeOK
  <2>. QED
    BY <1>8, <2>1 DEF Handle, Dispatch, TypeOK
<1>9. ASSUME Signal \/ Exit PROVE TypeOK'
  BY <1>9 DEF Signal, Exit, TypeOK
<1>10. ASSUME ServerClosed PROVE TypeOK'
  BY <1>10, FS_EmptySet DEF ServerClosed, TypeOK
<1>11. CASE UNCHANGED vars
  BY <1>11 DEF vars, TypeOK
<1>. QED
  BY <1>1, <1>2, <1>3, <1>4, <1>5, <1>6, <1>7, <1>8, <1>9, <1>10, <1>11 DEF Next, ClientStep

(* The registry stays consistent. *)
LEMMA StepRegistry ==
  ASSUME TypeOK, RegistryConsistent, Unregistered, [Next]_vars
  PROVE  RegistryConsistent'
<1>. USE DEF registry, pulse
<1>0. /\ clients = {c \in Clients : socket[c] \in {"open", "ending", "terminated"}}
      /\ \A c \in Clients, ch \in Channels :
           c \in Subscribers(ch) <=> c \in clients /\ ch \in channels[c]
      /\ \A ch \in DOMAIN subscriptions : subscriptions[ch] # {}
      /\ \A c \in Clients : \A ch \in channels[c] : canAccessChannel(c, ch)
  BY DEF RegistryConsistent
<1>1. ASSUME NEW c \in Clients, Connect(c) PROVE RegistryConsistent'
  <2>. DEFINE defaults == getDefaultChannels(c)
  <2>1. defaults \subseteq Channels /\ \A ch \in defaults : canAccessChannel(c, ch)
    BY DefaultChannels
  <2>. HIDE DEF defaults
  <2>2. SubscribeToChannels(c, defaults) /\ clients' = clients \cup {c}
    BY <1>1 DEF Connect, defaults
  <2>3. /\ \A ch \in DOMAIN subscriptions' : subscriptions'[ch] # {}
        /\ \A ch \in Channels : ch \in defaults => Subscribers(ch)' = Subscribers(ch) \cup {c}
        /\ \A ch \in Channels : ch \notin defaults => Subscribers(ch)' = Subscribers(ch)
        /\ channels' = [channels EXCEPT ![c] = @ \cup {ch \in defaults : canAccessChannel(c, ch)}]
    BY <1>0, <2>1, <2>2, SubscribeEffect
  <2>4. /\ channels'[c] = channels[c] \cup defaults
        /\ \A d \in Clients \ {c} : channels'[d] = channels[d]
    BY <2>1, <2>3 DEF TypeOK
  <2>5. clients' = {d \in Clients : socket'[d] \in {"open", "ending", "terminated"}}
    BY <1>0, <1>1, <2>2 DEF Connect, TypeOK
  <2>6. c \notin clients /\ channels[c] = {}
    BY <1>0, <1>1 DEF Connect, Unregistered
  <2>7. \A d \in Clients : \A ch \in channels'[d] : canAccessChannel(d, ch)
    BY <1>0, <2>1, <2>4
  <2>8. ASSUME NEW d \in Clients, NEW ch \in Channels
        PROVE  d \in Subscribers(ch)' <=> d \in clients' /\ ch \in channels'[d]
    <3>1. CASE d = c
      BY <1>0, <2>2, <2>3, <2>4, <2>6, <3>1
    <3>2. CASE d # c
      BY <1>0, <2>2, <2>3, <2>4, <3>2
    <3>. QED
      BY <3>1, <3>2
  <2>. QED
    BY <2>3, <2>5, <2>7, <2>8 DEF RegistryConsistent
<1>2. ASSUME NEW c \in Clients, Reject(c) \/ Leave(c) \/ RejectedEnds(c) PROVE RegistryConsistent'
  BY <1>2 DEF Reject, Leave, RejectedEnds, RegistryConsistent, Subscribers, TypeOK
<1>3. ASSUME NEW c \in Clients, Vanish(c) \/ Pong(c) PROVE RegistryConsistent'
  BY <1>3 DEF Vanish, Pong, RegistryConsistent, Subscribers
<1>4. ASSUME NEW c \in Clients, Disconnect(c) PROVE RegistryConsistent'
  <2>1. /\ LeaveChannels(c, channels[c]) /\ clients' = clients \ {c}
        /\ channels' = [channels EXCEPT ![c] = {}]
    BY <1>4 DEF Disconnect, Forget
  <2>2. /\ \A ch \in DOMAIN subscriptions' : subscriptions'[ch] # {}
        /\ \A ch \in Channels : ch \in channels[c] => Subscribers(ch)' = Subscribers(ch) \ {c}
        /\ \A ch \in Channels : ch \notin channels[c] => Subscribers(ch)' = Subscribers(ch)
    BY <1>0, <2>1, LeaveEffect
  <2>3. channels'[c] = {} /\ \A d \in Clients \ {c} : channels'[d] = channels[d]
    BY <2>1 DEF TypeOK
  <2>4. clients' = {d \in Clients : socket'[d] \in {"open", "ending", "terminated"}}
    BY <1>0, <1>4, <2>1 DEF Disconnect, TypeOK
  <2>5. \A d \in Clients : \A ch \in channels'[d] : canAccessChannel(d, ch)
    BY <1>0, <2>3
  <2>6. ASSUME NEW d \in Clients, NEW ch \in Channels
        PROVE  d \in Subscribers(ch)' <=> d \in clients' /\ ch \in channels'[d]
    <3>1. CASE d = c
      BY <1>0, <2>1, <2>2, <2>3, <3>1
    <3>2. CASE d # c
      BY <1>0, <2>1, <2>2, <2>3, <3>2
    <3>. QED
      BY <3>1, <3>2
  <2>. QED
    BY <2>2, <2>4, <2>5, <2>6 DEF RegistryConsistent
<1>5. ASSUME NEW c \in Clients, NEW x \in Channels, Subscribe(c, {x}) PROVE RegistryConsistent'
  <2>1. SubscribeToChannels(c, {x}) /\ UNCHANGED <<clients, socket>>
    BY <1>5 DEF Subscribe
  <2>2. c \in clients
    BY <1>0, <1>5 DEF Subscribe, Request
  <2>3. /\ \A ch \in DOMAIN subscriptions' : subscriptions'[ch] # {}
        /\ \A ch \in Channels : ch \in {x} /\ canAccessChannel(c, ch)
             => Subscribers(ch)' = Subscribers(ch) \cup {c}
        /\ \A ch \in Channels : ~(ch \in {x} /\ canAccessChannel(c, ch))
             => Subscribers(ch)' = Subscribers(ch)
        /\ channels' = [channels EXCEPT ![c] = @ \cup {ch \in {x} : canAccessChannel(c, ch)}]
    BY <1>0, <2>1, SubscribeEffect
  <2>4. /\ channels'[c] = channels[c] \cup {ch \in {x} : canAccessChannel(c, ch)}
        /\ \A d \in Clients \ {c} : channels'[d] = channels[d]
    BY <2>3 DEF TypeOK
  <2>5. \A d \in Clients : \A ch \in channels'[d] : canAccessChannel(d, ch)
    BY <1>0, <2>4
  <2>6. ASSUME NEW d \in Clients, NEW ch \in Channels
        PROVE  d \in Subscribers(ch)' <=> d \in clients' /\ ch \in channels'[d]
    <3>1. CASE d = c
      BY <1>0, <2>1, <2>2, <2>3, <2>4, <3>1
    <3>2. CASE d # c
      BY <1>0, <2>1, <2>3, <2>4, <3>2
    <3>. QED
      BY <3>1, <3>2
  <2>. QED
    BY <1>0, <2>1, <2>3, <2>5, <2>6 DEF RegistryConsistent
<1>6. ASSUME NEW c \in Clients, NEW x \in Channels, Unsubscribe(c, {x}) PROVE RegistryConsistent'
  <2>1. /\ LeaveChannels(c, {x}) /\ UNCHANGED <<clients, socket>>
        /\ channels' = [channels EXCEPT ![c] = @ \ ({x} \cap DOMAIN subscriptions)]
    BY <1>6 DEF Unsubscribe
  <2>2. /\ \A ch \in DOMAIN subscriptions' : subscriptions'[ch] # {}
        /\ \A ch \in Channels : ch \in {x} => Subscribers(ch)' = Subscribers(ch) \ {c}
        /\ \A ch \in Channels : ch \notin {x} => Subscribers(ch)' = Subscribers(ch)
    BY <1>0, <2>1, LeaveEffect
  <2>3. c \in clients
    BY <1>0, <1>6 DEF Unsubscribe, Request
  <2>4. /\ channels'[c] = channels[c] \ ({x} \cap DOMAIN subscriptions)
        /\ \A d \in Clients \ {c} : channels'[d] = channels[d]
    BY <2>1 DEF TypeOK
  <2>5. x \in channels[c] => x \in DOMAIN subscriptions
    BY <1>0, <2>3 DEF Subscribers
  <2>6. \A d \in Clients : \A ch \in channels'[d] : canAccessChannel(d, ch)
    BY <1>0, <2>4
  <2>7. ASSUME NEW d \in Clients, NEW ch \in Channels
        PROVE  d \in Subscribers(ch)' <=> d \in clients' /\ ch \in channels'[d]
    <3>1. CASE d = c
      BY <1>0, <2>1, <2>2, <2>4, <2>5, <3>1
    <3>2. CASE d # c
      BY <1>0, <2>1, <2>2, <2>4, <3>2
    <3>. QED
      BY <3>1, <3>2
  <2>. QED
    BY <1>0, <2>1, <2>2, <2>6, <2>7 DEF RegistryConsistent
<1>7. ASSUME Heartbeat PROVE RegistryConsistent'
  <2>1. UNCHANGED registry
    BY <1>7 DEF Heartbeat
  <2>2. clients' = {d \in Clients : socket'[d] \in {"open", "ending", "terminated"}}
    <3>1. CASE UNCHANGED socket
      BY <1>0, <2>1, <3>1
    <3>2. ASSUME NEW c \in clients, socket' = [socket EXCEPT ![c] = "terminated"]
          PROVE  clients' = {d \in Clients : socket'[d] \in {"open", "ending", "terminated"}}
      BY <1>0, <2>1, <3>2 DEF TypeOK
    <3>. QED
      BY <1>7, <3>1, <3>2 DEF Heartbeat
  <2>. QED
    BY <1>0, <2>1, <2>2 DEF RegistryConsistent, Subscribers
<1>8. ASSUME NEW m \in Messages, Handle(m) PROVE RegistryConsistent'
  BY <1>8 DEF Handle, Dispatch, RegistryConsistent, Subscribers
<1>9. ASSUME Signal \/ Exit PROVE RegistryConsistent'
  BY <1>9 DEF Signal, Exit, RegistryConsistent, Subscribers
<1>10. ASSUME ServerClosed PROVE RegistryConsistent'
  BY <1>10 DEF ServerClosed, RegistryConsistent, Subscribers
<1>11. CASE UNCHANGED vars
  BY <1>11 DEF vars, RegistryConsistent, Subscribers
<1>. QED
  BY <1>1, <1>2, <1>3, <1>4, <1>5, <1>6, <1>7, <1>8, <1>9, <1>10, <1>11 DEF Next, ClientStep

(* Who is not registered has no channels, and the map keeps its order. *)
LEMMA StepOrder ==
  ASSUME TypeOK, RegistryConsistent, Unregistered, Ordered, [Next]_vars
  PROVE  Unregistered' /\ Ordered'
<1>. USE DEF registry, pulse
<1>1. ASSUME NEW c \in Clients, Connect(c) PROVE Unregistered' /\ Ordered'
  <2>1. /\ clients' = clients \cup {c} /\ ahead' = [ahead EXCEPT ![c] = clients]
        /\ SubscribeToChannels(c, getDefaultChannels(c))
    BY <1>1 DEF Connect
  <2>2. \A d \in Clients \ {c} : channels'[d] = channels[d]
    BY <2>1 DEF SubscribeToChannels, TypeOK
  <2>3. c \notin clients
    BY <1>1 DEF Connect, RegistryConsistent
  <2>4. IsFiniteSet(clients')
    BY <2>1, FS_AddElement DEF Ordered
  <2>5. ahead'[c] = clients /\ \A d \in Clients \ {c} : ahead'[d] = ahead[d]
    BY <2>1 DEF TypeOK
  <2>6. \A d \in Clients : ahead'[d] \subseteq clients' \ {d}
    BY <2>1, <2>3, <2>5 DEF Ordered
  <2>7. ASSUME NEW a \in clients', NEW b \in clients', a # b
        PROVE  a \in ahead'[b] <=> b \notin ahead'[a]
    <3>1. clients \subseteq Clients
      BY DEF TypeOK
    <3>2. CASE a = c
      BY <2>1, <2>3, <2>5, <2>7, <3>1, <3>2 DEF Ordered
    <3>3. CASE b = c
      BY <2>1, <2>3, <2>5, <2>7, <3>1, <3>3 DEF Ordered
    <3>4. CASE a # c /\ b # c
      BY <2>1, <2>5, <2>7, <3>1, <3>4 DEF Ordered
    <3>. QED
      BY <3>2, <3>3, <3>4
  <2>8. Unregistered'
    BY <2>1, <2>2 DEF Unregistered
  <2>. QED
    BY <2>4, <2>6, <2>7, <2>8 DEF Ordered
<1>2. ASSUME NEW c \in Clients, Disconnect(c) PROVE Unregistered' /\ Ordered'
  <2>1. /\ clients' = clients \ {c} /\ channels' = [channels EXCEPT ![c] = {}]
        /\ ahead' = [d \in Clients |-> IF d = c THEN {} ELSE ahead[d] \ {c}]
    BY <1>2 DEF Disconnect, Forget
  <2>2. Unregistered'
    BY <2>1 DEF Unregistered, TypeOK
  <2>3. IsFiniteSet(clients')
    BY <2>1, FS_RemoveElement DEF Ordered
  <2>4. \A d \in Clients : ahead'[d] \subseteq clients' \ {d}
    BY <2>1 DEF Ordered
  <2>5. \A a, b \in clients' : a # b => (a \in ahead'[b] <=> b \notin ahead'[a])
    BY <2>1 DEF Ordered, TypeOK
  <2>. QED
    BY <2>2, <2>3, <2>4, <2>5 DEF Ordered
<1>3. ASSUME NEW c \in Clients, NEW x \in Channels, Subscribe(c, {x}) \/ Unsubscribe(c, {x})
      PROVE  Unregistered' /\ Ordered'
  <2>1. c \in clients
    BY <1>3 DEF Subscribe, Unsubscribe, Request, RegistryConsistent
  <2>2. UNCHANGED <<clients, ahead>>
    BY <1>3 DEF Subscribe, Unsubscribe
  <2>3. \A d \in Clients \ {c} : channels'[d] = channels[d]
    BY <1>3 DEF Subscribe, Unsubscribe, SubscribeToChannels, TypeOK
  <2>4. Unregistered'
    BY <2>1, <2>2, <2>3 DEF Unregistered
  <2>. QED
    BY <2>2, <2>4 DEF Ordered
<1>4. ASSUME ServerClosed PROVE Unregistered' /\ Ordered'
  <2>1. clients = {}
    BY <1>4 DEF ServerClosed, RegistryConsistent
  <2>. QED
    BY <1>4, <2>1, FS_EmptySet DEF ServerClosed, Unregistered, Ordered
<1>5. ASSUME UNCHANGED registry PROVE Unregistered' /\ Ordered'
  BY <1>5 DEF Unregistered, Ordered
<1>. QED
  BY <1>1, <1>2, <1>3, <1>4, <1>5
     DEF Next, ClientStep, Reject, Vanish, Leave, RejectedEnds, Pong, Heartbeat, Handle, Dispatch,
         Signal, Exit, vars

(* A client marked as not alive has a ping to answer: every step. *)
LEMMA StepPinged ==
  ASSUME TypeOK, DeadArePinged, [Next]_vars
  PROVE  DeadArePinged'
<1>. USE DEF registry, pulse
<1>1. ASSUME NEW cs, Ping(cs) PROVE DeadArePinged'
  <2>. SUFFICES ASSUME NEW c \in Clients, ~isAlive'[c] PROVE c \in pinged'
    BY DEF DeadArePinged
  <2>1. isAlive'[c] <=> isAlive[c] /\ c \notin cs
    BY <1>1 DEF Ping
  <2>2. pinged' = pinged \cup cs
    BY <1>1 DEF Ping
  <2>. QED
    BY <2>1, <2>2 DEF DeadArePinged
<1>2. ASSUME NEW c \in Clients, isAlive' = [isAlive EXCEPT ![c] = TRUE], pinged' = pinged \ {c}
      PROVE  DeadArePinged'
  BY <1>2 DEF DeadArePinged, TypeOK
<1>3. ASSUME UNCHANGED <<isAlive, pinged>> PROVE DeadArePinged'
  BY <1>3 DEF DeadArePinged
<1>. QED
  BY <1>1, <1>2, <1>3
     DEF Next, ClientStep, Connect, Reject, Vanish, Leave, Disconnect, Forget, RejectedEnds,
         Subscribe, Unsubscribe, Pong, Heartbeat, Handle, Dispatch, Signal, ServerClosed, Exit, vars

(* No client loses a default channel, and so no message that concerns it. *)
LEMMA StepDefaults ==
  ASSUME RInv, DefaultsKept, NothingMissed, [Next]_vars
  PROVE  DefaultsKept' /\ NothingMissed'
<1>. USE DEF registry, pulse
<1>1. ASSUME NEW c \in Clients, Connect(c) PROVE DefaultsKept' /\ NothingMissed'
  <2>1. /\ clients' = clients \cup {c} /\ UNCHANGED <<unsubscribed, missed>>
        /\ SubscribeToChannels(c, getDefaultChannels(c))
    BY <1>1 DEF Connect
  <2>2. \A d \in Clients \ {c} : channels'[d] = channels[d]
    BY <2>1 DEF SubscribeToChannels, RInv, TypeOK
  <2>3. getDefaultChannels(c) \subseteq channels'[c]
    BY <2>1, DefaultChannels DEF SubscribeToChannels, RInv, TypeOK
  <2>4. clients \subseteq Clients
    BY DEF RInv, TypeOK
  <2>5. \A d \in clients' \ unsubscribed' : getDefaultChannels(d) \subseteq channels'[d]
    BY <2>1, <2>2, <2>3, <2>4 DEF DefaultsKept
  <2>6. DefaultsKept'
    BY <2>5 DEF DefaultsKept, getDefaultChannels
  <2>. QED
    BY <2>1, <2>6 DEF NothingMissed
<1>2. ASSUME NEW c \in Clients, Disconnect(c) PROVE DefaultsKept' /\ NothingMissed'
  <2>1. /\ clients' = clients \ {c} /\ UNCHANGED <<unsubscribed, missed>>
        /\ channels' = [channels EXCEPT ![c] = {}]
    BY <1>2 DEF Disconnect, Forget
  <2>. QED
    BY <2>1 DEF DefaultsKept, NothingMissed, RInv, TypeOK
<1>3. ASSUME NEW c \in Clients, NEW x \in Channels, Subscribe(c, {x})
      PROVE  DefaultsKept' /\ NothingMissed'
  <2>1. \A d \in Clients : channels[d] \subseteq channels'[d]
    BY <1>3 DEF Subscribe, SubscribeToChannels, RInv, TypeOK
  <2>2. UNCHANGED <<clients, unsubscribed, missed>>
    BY <1>3 DEF Subscribe
  <2>. QED
    BY <2>1, <2>2 DEF DefaultsKept, NothingMissed, RInv, TypeOK
<1>4. ASSUME NEW c \in Clients, NEW x \in Channels, Unsubscribe(c, {x})
      PROVE  DefaultsKept' /\ NothingMissed'
  <2>1. \A d \in Clients \ {c} : channels'[d] = channels[d]
    BY <1>4 DEF Unsubscribe, RInv, TypeOK
  <2>2. unsubscribed' = unsubscribed \cup {c} /\ UNCHANGED <<clients, missed>>
    BY <1>4 DEF Unsubscribe
  <2>. QED
    BY <2>1, <2>2 DEF DefaultsKept, NothingMissed, RInv, TypeOK
<1>5. ASSUME NEW m \in Messages, Handle(m) PROVE DefaultsKept' /\ NothingMissed'
  <2>1. UNCHANGED <<clients, channels, unsubscribed>>
    BY <1>5 DEF Handle, Dispatch
  <2>2. DefaultsKept'
    BY <2>1 DEF DefaultsKept
  <2>3. ASSUME NEW d \in clients \ unsubscribed, socket[d] = "open", Concerns(d, m),
               m.kind \in {"alert", "status", "tariff"}
        PROVE  d \in Reached(m)
    <3>1. d \in Clients /\ getDefaultChannels(d) \subseteq channels[d]
      BY DEF DefaultsKept, RInv, TypeOK
    <3>2. \A ch \in Channels : ch \in channels[d] => d \in Subscribers(ch)
      BY <3>1 DEF RInv, RegistryConsistent
    <3>3. getDefaultChannels(d) \subseteq Channels
      BY <3>1, DefaultChannels
    <3>4. \E ch \in Targets(m) : ch \in getDefaultChannels(d)
      <4>1. Role[d] \in {"user", "operator", "admin"}
        BY <3>1, TokenAssumption DEF Roles
      <4>2. CASE m.kind = "tariff"
        <5>1. <<"tariffs">> \in Targets(m)
          BY <4>2 DEF Targets, Named
        <5>2. <<"tariffs">> \in getDefaultChannels(d)
          BY DEF getDefaultChannels, StaffChannels, Named
        <5>. QED
          BY <5>1, <5>2
      <4>3. CASE m.kind \in {"alert", "status"} /\ Role[d] # "user"
        <5>1. <<"alerts">> \in Targets(m)
          BY <4>3 DEF Targets, Named
        <5>2. <<"alerts">> \in getDefaultChannels(d)
          BY <4>1, <4>3 DEF getDefaultChannels, StaffChannels, Named
        <5>. QED
          BY <5>1, <5>2
      <4>4. CASE m.kind = "alert" /\ OwnRegions[d] \cap m.regions # {}
        <5>1. PICK r \in OwnRegions[d] : r \in m.regions
          BY <4>4
        <5>2. <<"region", r>> \in Targets(m)
          BY <4>4, <5>1 DEF Targets, ByRegion
        <5>3. <<"region", r>> \in getDefaultChannels(d)
          BY <5>1 DEF getDefaultChannels, ByRegion
        <5>. QED
          BY <5>2, <5>3
      <4>5. CASE m.kind = "alert" /\ OwnMeters[d] \cap m.meters # {}
        <5>1. PICK r \in OwnMeters[d] : r \in m.meters
          BY <4>5
        <5>2. <<"meter", r>> \in Targets(m)
          BY <4>5, <5>1 DEF Targets, ByMeter
        <5>3. <<"meter", r>> \in getDefaultChannels(d)
          BY <5>1 DEF getDefaultChannels, ByMeter
        <5>. QED
          BY <5>2, <5>3
      <4>6. m.kind = "alert" => \/ Role[d] # "user"
                                \/ OwnRegions[d] \cap m.regions # {}
                                \/ OwnMeters[d] \cap m.meters # {}
        BY <2>3 DEF Concerns
      <4>7. m.kind = "status" => Role[d] # "user"
        BY <2>3 DEF Concerns
      <4>. QED
        BY <2>3, <4>2, <4>3, <4>4, <4>5, <4>6, <4>7
    <3>5. \E ch \in Targets(m) : d \in Subscribers(ch)
      BY <3>1, <3>2, <3>3, <3>4
    <3>. QED
      BY <2>3, <3>1, <3>5 DEF Reached
  <2>4. missed' = missed \cup
          {<<c, m>> : c \in {d \in clients \ (unsubscribed \cup Reached(m)) :
                               socket[d] = "open" /\ Concerns(d, m)}}
    BY <1>5 DEF Handle, Dispatch
  <2>5. ASSUME NEW y \in missed', y \notin missed
        PROVE  y[2].kind \notin {"alert", "status", "tariff"}
    <3>1. PICK c \in clients \ (unsubscribed \cup Reached(m)) :
            y = <<c, m>> /\ socket[c] = "open" /\ Concerns(c, m)
      BY <2>4, <2>5
    <3>2. m.kind \notin {"alert", "status", "tariff"}
      BY <2>3, <3>1
    <3>. QED
      BY <3>1, <3>2
  <2>6. NothingMissed'
    BY <2>5 DEF NothingMissed
  <2>. QED
    BY <2>2, <2>6
<1>6. ASSUME ServerClosed PROVE DefaultsKept' /\ NothingMissed'
  BY <1>6 DEF ServerClosed, DefaultsKept, NothingMissed
<1>7. ASSUME UNCHANGED <<clients, channels, unsubscribed, missed>>
      PROVE  DefaultsKept' /\ NothingMissed'
  BY <1>7 DEF DefaultsKept, NothingMissed
<1>. QED
  BY <1>1, <1>2, <1>3, <1>4, <1>5, <1>6, <1>7
     DEF Next, ClientStep, Reject, Vanish, Leave, RejectedEnds, Pong, Heartbeat, Signal, Exit, vars

(* The clients before another one are finitely many. *)
LEMMA BeforeFinite ==
  ASSUME RInv, NEW c \in Clients
  PROVE  /\ IsFiniteSet(Before(c)) /\ Cardinality(Before(c)) \in Nat
         /\ Before(c) \subseteq clients \ {c}
<1>1. Before(c) \subseteq clients \ {c} /\ IsFiniteSet(clients)
  BY DEF Before, RInv, Ordered
<1>2. Before(c) \subseteq clients
  BY <1>1
<1>3. IsFiniteSet(Before(c))
  BY <1>1, <1>2, FS_Subset
<1>. QED
  BY <1>1, <1>3, FS_CardinalityType

(* A client keeps its patience when no one comes before it. *)
LEMMA PatienceKept ==
  ASSUME RInv, NEW c \in Clients, Before(c)' \subseteq Before(c), isAlive'[c] => isAlive[c]
  PROVE  Patience(c)' \in Nat /\ Patience(c) \in Nat /\ Patience(c)' <= Patience(c)
<1>1. IsFiniteSet(Before(c)) /\ Cardinality(Before(c)) \in Nat
  BY BeforeFinite
<1>2. IsFiniteSet(Before(c)') /\ Cardinality(Before(c)') <= Cardinality(Before(c))
  BY <1>1, FS_Subset
<1>3. Cardinality(Before(c)') \in Nat
  BY <1>2, FS_CardinalityType
<1>4. Cardinality(Before(c))' = Cardinality(Before(c)')
  OBVIOUS
<1>. QED
  BY <1>1, <1>2, <1>3, <1>4 DEF Patience

(* A vanished client is patient: every step. *)
LEMMA StepPatience ==
  ASSUME RInv, Patient, [Next]_vars
  PROVE  Patient'
<1>. USE NotificationBoundsAssumption DEF registry, pulse
<1>0. /\ clients \subseteq Clients /\ gone \subseteq Clients
      /\ rounds \in [Clients -> Nat] /\ isAlive \in [Clients -> BOOLEAN]
      /\ socket \in [Clients -> {"new", "rejected", "open", "ending", "terminated", "closed"}]
      /\ ahead \in [Clients -> SUBSET Clients]
      /\ clients = {c \in Clients : socket[c] \in {"open", "ending", "terminated"}}
      /\ \A c \in Clients : ahead[c] \subseteq clients \ {c}
      /\ \A c, d \in clients : c # d => (c \in ahead[d] <=> d \notin ahead[c])
  BY DEF RInv, TypeOK, RegistryConsistent, Ordered
<1>a. ASSUME UNCHANGED <<rounds, gone>>,
             \A c \in Clients : socket'[c] = "new" => socket[c] = "new",
             \A c \in gone : socket'[c] = "open" =>
               /\ socket[c] = "open"
               /\ Before(c)' \subseteq Before(c)
               /\ isAlive'[c] => isAlive[c]
      PROVE  Patient'
  <2>1. ASSUME NEW c \in gone, socket'[c] = "open"
        PROVE  rounds'[c] + Patience(c)' <= MaxConnections
    <3>1. socket[c] = "open" /\ Before(c)' \subseteq Before(c) /\ (isAlive'[c] => isAlive[c])
      BY <1>a, <2>1
    <3>2. rounds[c] + Patience(c) <= MaxConnections /\ rounds[c] \in Nat
      BY <1>0, <3>1 DEF Patient
    <3>3. Patience(c)' \in Nat /\ Patience(c) \in Nat /\ Patience(c)' <= Patience(c)
      BY <1>0, <3>1, PatienceKept
    <3>. QED
      BY <1>a, <3>2, <3>3
  <2>2. \A c \in gone : socket'[c] # "new"
    BY <1>0, <1>a DEF Patient
  <2>. QED
    BY <1>a, <2>1, <2>2 DEF Patient
<1>1. ASSUME NEW c \in Clients, Connect(c) PROVE Patient'
  <2>1. /\ socket[c] = "new" /\ socket' = [socket EXCEPT ![c] = "open"]
        /\ ahead' = [ahead EXCEPT ![c] = clients] /\ UNCHANGED <<isAlive, rounds, gone>>
    BY <1>1 DEF Connect
  <2>2. c \notin gone
    BY <2>1 DEF Patient
  <2>3. \A d \in gone : socket'[d] = socket[d] /\ ahead'[d] = ahead[d]
    BY <1>0, <2>1, <2>2
  <2>4. \A d \in gone : Before(d)' \subseteq Before(d)
    BY <1>0, <2>1, <2>3 DEF Before
  <2>5. \A d \in Clients : socket'[d] = "new" => socket[d] = "new"
    BY <1>0, <2>1
  <2>. QED
    BY <1>a, <2>1, <2>3, <2>4, <2>5
<1>2. ASSUME NEW c \in Clients, Reject(c) \/ Leave(c) \/ RejectedEnds(c) PROVE Patient'
  <2>1. /\ socket[c] \in {"new", "open", "rejected"} /\ UNCHANGED <<ahead, isAlive, rounds, gone>>
        /\ \E s \in {"rejected", "ending", "closed"} : socket' = [socket EXCEPT ![c] = s]
    BY <1>2 DEF Reject, Leave, RejectedEnds
  <2>2. \A d \in Clients : /\ socket'[d] = "new" => socket[d] = "new"
                           /\ socket'[d] = "open" => socket[d] = "open"
                           /\ socket[d] = "terminated" => socket'[d] = "terminated"
    BY <1>0, <2>1
  <2>3. \A d \in Clients : Before(d)' \subseteq Before(d)
    BY <1>0, <2>1, <2>2 DEF Before
  <2>. QED
    BY <1>0, <1>a, <2>1, <2>2, <2>3
<1>3. ASSUME NEW c \in Clients, Vanish(c) PROVE Patient'
  <2>1. /\ socket[c] = "open" /\ c \notin gone /\ gone' = gone \cup {c}
        /\ UNCHANGED <<socket, ahead, isAlive, rounds>>
    BY <1>3 DEF Vanish
  <2>2. \A d \in Clients : Patience(d)' = Patience(d)
    BY <2>1 DEF Patience, Before
  <2>3. rounds[c] + Patience(c) <= MaxConnections
    <3>1. Before(c) \subseteq clients \ {c} /\ Cardinality(Before(c)) \in Nat
      BY BeforeFinite
    <3>2. IsFiniteSet(clients) /\ Cardinality(clients) <= MaxConnections
      BY DEF RInv, TypeOK, Ordered
    <3>3. c \in clients
      BY <1>0, <2>1
    <3>4. Cardinality(clients \ {c}) = Cardinality(clients) - 1 /\ IsFiniteSet(clients \ {c})
      BY <3>2, <3>3, FS_RemoveElement
    <3>5. Cardinality(Before(c)) <= Cardinality(clients \ {c})
      BY <3>1, <3>4, FS_Subset
    <3>6. Cardinality(clients) \in Nat
      BY <3>2, FS_CardinalityType
    <3>7. rounds[c] = 0
      BY <2>1 DEF Patient
    <3>. QED
      BY <3>1, <3>2, <3>4, <3>5, <3>6, <3>7 DEF Patience
  <2>4. \A d \in gone' : socket'[d] = "open" => rounds'[d] + Patience(d)' <= MaxConnections
    BY <1>0, <2>1, <2>2, <2>3 DEF Patient
  <2>5. /\ \A d \in Clients \ gone' : rounds'[d] = 0
        /\ \A d \in gone' : socket'[d] # "new"
    BY <2>1 DEF Patient
  <2>. QED
    BY <2>4, <2>5 DEF Patient
<1>4. ASSUME NEW c \in Clients, Disconnect(c) PROVE Patient'
  <2>1. /\ socket' = [socket EXCEPT ![c] = "closed"]
        /\ ahead' = [d \in Clients |-> IF d = c THEN {} ELSE ahead[d] \ {c}]
        /\ isAlive' = [isAlive EXCEPT ![c] = TRUE] /\ rounds' = [rounds EXCEPT ![c] = 0]
        /\ UNCHANGED gone
    BY <1>4 DEF Disconnect, Forget
  <2>2. ASSUME NEW d \in gone, socket'[d] = "open"
        PROVE  rounds'[d] + Patience(d)' <= MaxConnections
    <3>1. d # c /\ d \in Clients
      BY <1>0, <2>1, <2>2
    <3>2. socket[d] = "open" /\ isAlive'[d] = isAlive[d] /\ rounds'[d] = rounds[d]
      BY <1>0, <2>1, <2>2, <3>1
    <3>3. Before(d)' \subseteq Before(d)
      BY <1>0, <2>1, <3>1 DEF Before
    <3>4. Patience(d)' \in Nat /\ Patience(d) \in Nat /\ Patience(d)' <= Patience(d)
      BY <3>1, <3>2, <3>3, PatienceKept
    <3>5. rounds[d] + Patience(d) <= MaxConnections /\ rounds[d] \in Nat
      BY <1>0, <3>1, <3>2 DEF Patient
    <3>. QED
      BY <3>2, <3>4, <3>5
  <2>3. /\ \A d \in Clients \ gone' : rounds'[d] = 0
        /\ \A d \in gone' : socket'[d] # "new"
    BY <1>0, <2>1 DEF Patient
  <2>. QED
    BY <2>1, <2>2, <2>3 DEF Patient
<1>5. ASSUME NEW c \in Clients, Pong(c) PROVE Patient'
  <2>1. /\ c \notin gone /\ isAlive' = [isAlive EXCEPT ![c] = TRUE]
        /\ UNCHANGED <<socket, ahead, rounds, gone>>
    BY <1>5 DEF Pong
  <2>2. \A d \in gone : Before(d)' \subseteq Before(d) /\ isAlive'[d] = isAlive[d]
    BY <1>0, <2>1 DEF Before
  <2>. QED
    BY <1>a, <2>1, <2>2
<1>6. ASSUME Heartbeat PROVE Patient'
  <2>0. /\ HeartbeatDue /\ UNCHANGED <<clients, ahead, gone>>
        /\ \A c \in clients : socket[c] # "terminated"
    BY <1>6 DEF Heartbeat, HeartbeatDue
  <2>1. ASSUME NEW cs, Ping(cs)
        PROVE  /\ \A c \in Clients : isAlive'[c] <=> isAlive[c] /\ c \notin cs
               /\ \A c \in Clients \ gone : rounds'[c] = rounds[c]
               /\ \A c \in gone : rounds'[c] \in Nat /\ rounds'[c] <= rounds[c] + 1
    <3>1. \A c \in Clients : isAlive'[c] <=> isAlive[c] /\ c \notin cs
      BY <2>1 DEF Ping
    <3>2. \A c \in Clients :
            rounds'[c] = rounds[c] + (IF c \in clients \cap gone /\ socket[c] = "open" THEN 1 ELSE 0)
      BY <2>1 DEF Ping, Outlive
    <3>. QED
      BY <1>0, <3>1, <3>2
  <2>2. CASE (\A c \in clients : isAlive[c]) /\ Ping(clients) /\ UNCHANGED socket
    <3>1. ASSUME NEW c \in gone, socket[c] = "open"
          PROVE  rounds'[c] + Patience(c)' <= MaxConnections
      <4>1. c \in clients /\ c \in Clients
        BY <1>0, <3>1
      <4>2. isAlive[c] /\ ~isAlive'[c]
        BY <2>1, <2>2, <4>1
      <4>3. Before(c)' = Before(c)
        BY <2>0, <2>2 DEF Before
      <4>4. Cardinality(Before(c)) \in Nat
        BY <4>1, BeforeFinite
      <4>5. Patience(c) = Cardinality(Before(c)) + 1 /\ Patience(c)' = Cardinality(Before(c))
        <5>1. Patience(c) = Cardinality(Before(c)) + 1
          BY <4>2 DEF Patience
        <5>2. Patience(c)' = Cardinality(Before(c)) + (IF isAlive'[c] THEN 1 ELSE 0)
          BY <4>3 DEF Patience
        <5>. QED
          BY <4>2, <4>4, <5>1, <5>2
      <4>6. rounds[c] + Patience(c) <= MaxConnections /\ rounds[c] \in Nat
        BY <1>0, <3>1 DEF Patient
      <4>7. rounds'[c] \in Nat /\ rounds'[c] <= rounds[c] + 1
        BY <2>1, <2>2
      <4>. QED
        BY <4>4, <4>5, <4>6, <4>7
    <3>2. \A c \in Clients \ gone : rounds'[c] = 0
      BY <2>1, <2>2 DEF Patient
    <3>. QED
      BY <2>0, <2>2, <3>1, <3>2 DEF Patient
  <2>3. ASSUME NEW d \in clients, FirstDead(d), Ping(ahead[d]),
               socket' = [socket EXCEPT ![d] = "terminated"]
        PROVE  Patient'
    <3>1. ASSUME NEW c \in gone, socket'[c] = "open"
          PROVE  rounds'[c] + Patience(c)' <= MaxConnections
      <4>1. c \in Clients /\ c # d /\ socket[c] = "open" /\ c \in clients
        BY <1>0, <2>3, <3>1
      <4>2. \A e \in Clients \ {d} : socket'[e] = socket[e]
        BY <1>0, <2>3
      <4>3. socket'[d] = "terminated" /\ socket[d] # "terminated"
        BY <1>0, <2>0, <2>3
      <4>4. Before(c)' = Before(c) \ {d}
        BY <1>0, <2>0, <4>1, <4>2, <4>3 DEF Before
      <4>5. isAlive'[c] => isAlive[c]
        BY <2>1, <2>3, <4>1
      <4>6. IsFiniteSet(Before(c)) /\ Cardinality(Before(c)) \in Nat
        BY <4>1, BeforeFinite
      <4>7. Patience(c)' + 1 <= Patience(c) /\ Patience(c)' \in Nat /\ Patience(c) \in Nat
        <5>1. CASE d \in ahead[c]
          <6>1. d \in Before(c)
            BY <4>3, <5>1 DEF Before
          <6>2. Cardinality(Before(c) \ {d}) = Cardinality(Before(c)) - 1
                  /\ IsFiniteSet(Before(c) \ {d})
            BY <4>6, <6>1, FS_RemoveElement
          <6>3. Cardinality(Before(c) \ {d}) \in Nat
            BY <6>2, FS_CardinalityType
          <6>4. Patience(c)' = Cardinality(Before(c) \ {d}) + (IF isAlive'[c] THEN 1 ELSE 0)
            BY <4>4 DEF Patience
          <6>. QED
            BY <4>5, <4>6, <6>2, <6>3, <6>4 DEF Patience
        <5>2. CASE d \notin ahead[c]
          <6>1. c \in ahead[d]
            BY <1>0, <4>1, <5>2
          <6>2. isAlive[c] /\ ~isAlive'[c]
            BY <2>1, <2>3, <4>1, <6>1 DEF FirstDead
          <6>3. Before(c)' = Before(c)
            BY <4>4, <5>2 DEF Before
          <6>4. Patience(c) = Cardinality(Before(c)) + 1 /\ Patience(c)' = Cardinality(Before(c))
            <7>1. Patience(c) = Cardinality(Before(c)) + 1
              BY <6>2 DEF Patience
            <7>2. Patience(c)' = Cardinality(Before(c)) + (IF isAlive'[c] THEN 1 ELSE 0)
              BY <6>3 DEF Patience
            <7>. QED
              BY <6>2, <4>6, <7>1, <7>2
          <6>. QED
            BY <4>6, <6>4
        <5>. QED
          BY <5>1, <5>2
      <4>8. rounds[c] + Patience(c) <= MaxConnections /\ rounds[c] \in Nat
        BY <1>0, <4>1 DEF Patient
      <4>9. rounds'[c] \in Nat /\ rounds'[c] <= rounds[c] + 1
        BY <2>1, <2>3
      <4>. QED
        BY <4>7, <4>8, <4>9
    <3>2. \A c \in Clients \ gone : rounds'[c] = 0
      BY <2>1, <2>3 DEF Patient
    <3>3. \A c \in gone : socket'[c] # "new"
      BY <1>0, <2>3 DEF Patient
    <3>. QED
      BY <2>0, <3>1, <3>2, <3>3 DEF Patient
  <2>. QED
    BY <1>6, <2>2, <2>3 DEF Heartbeat
<1>7. ASSUME ServerClosed PROVE Patient'
  BY <1>0, <1>7 DEF ServerClosed, Patient
<1>8. ASSUME UNCHANGED <<socket, ahead, isAlive, rounds, gone>> PROVE Patient'
  BY <1>8 DEF Patient, Patience, Before
<1>. QED
  BY <1>1, <1>2, <1>3, <1>4, <1>5, <1>6, <1>7, <1>8
     DEF Next, ClientStep, Subscribe, Unsubscribe, Handle, Dispatch, Signal, Exit, vars

-----------------------------------------------------------------------------
(* The inductive invariant holds in every behaviour. *)
THEOREM NotificationInvariant == Spec => []IInv
<1>1. IInv /\ [Next]_vars => IInv'
  BY StepType, StepRegistry, StepOrder, StepPinged, StepDefaults, StepPatience DEF IInv, RInv
<1>. QED
  BY <1>1, InitInvariant, PTL DEF Spec

(* The state of the service has its types, and there is room for every      *)
(* client it holds: the limit on connections is never passed.               *)
THEOREM NotificationTypes == Spec => []TypeOK
<1>1. IInv => TypeOK
  BY DEF IInv, RInv
<1>. QED
  BY <1>1, NotificationInvariant, PTL

(* The map of clients, the channels of each client and the clients of each  *)
(* channel always agree.                                                    *)
THEOREM RegistryStaysConsistent == Spec => []RegistryConsistent
<1>1. IInv => RegistryConsistent
  BY DEF IInv, RInv
<1>. QED
  BY <1>1, NotificationInvariant, PTL

(* An open client that never unsubscribed gets every alert, status change   *)
(* and tariff that concerns it.                                             *)
THEOREM NothingIsMissed == Spec => []NothingMissed
<1>1. IInv => NothingMissed
  BY DEF IInv
<1>. QED
  BY <1>1, NotificationInvariant, PTL

(* A vanished client outlives at most as many heartbeats as there is room   *)
(* for clients.                                                             *)
THEOREM DeadEndSoon == Spec => []DeadEndInTime
<1>1. IInv => DeadEndInTime
  <2>. SUFFICES ASSUME IInv, NEW c \in gone, socket[c] = "open"
                PROVE  rounds[c] <= MaxConnections
    BY DEF DeadEndInTime
  <2>1. c \in Clients /\ rounds[c] \in Nat
    BY DEF IInv, RInv, TypeOK
  <2>2. Cardinality(Before(c)) \in Nat
    BY <2>1, BeforeFinite DEF IInv
  <2>3. rounds[c] + Patience(c) <= MaxConnections
    BY DEF IInv, Patient
  <2>. QED
    BY <2>1, <2>2, <2>3, NotificationBoundsAssumption DEF Patience
<1>. QED
  BY <1>1, NotificationInvariant, PTL

(* The heartbeat ends no client that is there and answers in time. *)
THEOREM PromptStay == Spec => PromptClientsStay
<1>1. IInv /\ [Next]_vars => [PromptStays]_vars
  <2>. SUFFICES ASSUME IInv, Next, NEW c \in Prompt \ gone, socket[c] = "open"
                PROVE  socket'[c] # "terminated"
    BY DEF PromptStays
  <2>1. /\ socket \in [Clients -> {"new", "rejected", "open", "ending", "terminated", "closed"}]
        /\ c \in Clients /\ c \in clients
    BY TokenAssumption DEF IInv, RInv, TypeOK, RegistryConsistent
  <2>2. CASE Heartbeat
    <3>1. c \notin pinged
      BY <2>1, <2>2 DEF Heartbeat, HeartbeatDue
    <3>2. isAlive[c]
      BY <2>1, <3>1 DEF IInv, DeadArePinged
    <3>3. ASSUME NEW d \in clients, FirstDead(d), socket' = [socket EXCEPT ![d] = "terminated"]
          PROVE  socket'[c] # "terminated"
      BY <2>1, <3>2, <3>3 DEF FirstDead
    <3>. QED
      BY <2>2, <3>3 DEF Heartbeat
  <2>3. ASSUME NEW d \in Clients, NEW s \in {"open", "rejected", "ending", "closed"},
               socket' = [socket EXCEPT ![d] = s]
        PROVE  socket'[c] # "terminated"
    BY <2>1, <2>3
  <2>4. CASE UNCHANGED socket
    BY <2>4
  <2>. QED
    BY <2>2, <2>3, <2>4
       DEF Next, ClientStep, Connect, Reject, Vanish, Leave, Disconnect, RejectedEnds, Pong,
           Subscribe, Unsubscribe, Handle, Dispatch, Signal, ServerClosed, Exit, vars
<1>. QED
  BY <1>1, NotificationInvariant, PTL DEF Spec, PromptClientsStay

(* The heartbeat ends the dead in time, and them only. *)
THEOREM HeartbeatsEndTheDead == Spec => HeartbeatEndsTheDead
BY DeadEndSoon, PromptStay, PTL DEF HeartbeatEndsTheDead, PromptClientsStay

=============================================================================
