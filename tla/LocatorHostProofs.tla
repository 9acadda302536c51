-------------------------- MODULE LocatorHostProofs --------------------------
(***************************************************************************)
(* Proofs about LocatorHost, for every set of tags and synchronisations,   *)
(* every configuration and every number of faults, configurations and      *)
(* outages.                                                                *)
(***************************************************************************)
EXTENDS LocatorHost, HostLemmas

-----------------------------------------------------------------------------
(* Queues.                                                                 *)

LEMMA JoinedQueue ==
  ASSUME NEW S, NEW s \in Seq(S), NEW t \in Seq(S)
  PROVE  /\ s \o t \in Seq(S)
         /\ \A x : In(x, s \o t) <=> In(x, s) \/ In(x, t)
<1>1. /\ s \o t \in Seq(S)
      /\ Len(s \o t) = Len(s) + Len(t)
      /\ \A i \in 1 .. Len(s) + Len(t) : (s \o t)[i] =
           IF i <= Len(s) THEN s[i] ELSE t[i - Len(s)]
  BY ConcatProperties
<1>2. /\ Len(s) \in Nat /\ DOMAIN s = 1 .. Len(s)
      /\ Len(t) \in Nat /\ DOMAIN t = 1 .. Len(t)
      /\ DOMAIN (s \o t) = 1 .. Len(s) + Len(t)
  BY <1>1, LenProperties
<1>3. ASSUME NEW x, In(x, t) PROVE In(x, s \o t)
  <2>1. PICK i \in 1 .. Len(t) : t[i] = x
    BY <1>2, <1>3 DEF In
  <2>2. Len(s) + i \in 1 .. Len(s) + Len(t) /\ (s \o t)[Len(s) + i] = x
    BY <1>1, <1>2, <2>1
  <2>3. QED
    BY <1>2, <2>2 DEF In
<1>4. ASSUME NEW x, In(x, s) PROVE In(x, s \o t)
  <2>1. PICK i \in 1 .. Len(s) : s[i] = x
    BY <1>2, <1>4 DEF In
  <2>2. i \in 1 .. Len(s) + Len(t) /\ (s \o t)[i] = x
    BY <1>1, <1>2, <2>1
  <2>3. QED
    BY <1>2, <2>2 DEF In
<1>5. ASSUME NEW x, In(x, s \o t) PROVE In(x, s) \/ In(x, t)
  <2>1. PICK i \in 1 .. Len(s) + Len(t) : (s \o t)[i] = x
    BY <1>2, <1>5 DEF In
  <2>2. CASE i <= Len(s)
    BY <1>1, <1>2, <2>1, <2>2 DEF In
  <2>3. CASE ~(i <= Len(s))
    <3>1. i - Len(s) \in 1 .. Len(t) /\ t[i - Len(s)] = x
      BY <1>1, <1>2, <2>1, <2>3
    <3>2. QED
      BY <1>2, <3>1 DEF In
  <2>4. QED
    BY <2>2, <2>3
<1>6. QED
  BY <1>1, <1>3, <1>4, <1>5

-----------------------------------------------------------------------------
(* The subscriptions.                                                      *)

LEMMA AddedTopics ==
  ASSUME NEW list \in Seq(Topic)
  PROVE  /\ AddTopics(list) \in Seq(Topic)
         /\ Range(AddTopics(list)) = Range(list)
<1>1. Len(list) \in Nat /\ list \in [1 .. Len(list) -> Topic] /\ DOMAIN list = 1 .. Len(list)
  BY LenProperties
<1> DEFINE n == Len(list)
           new == [i \in 1 .. n |-> list[(n - i) + 1]]
<1>2. AddTopics(list) = new
  BY DEF AddTopics, Reverse
<1>3. \A i \in 1 .. n : (n - i) + 1 \in 1 .. n /\ (n - ((n - i) + 1)) + 1 = i
  BY <1>1
<1>4. new \in [1 .. n -> Topic] /\ DOMAIN new = 1 .. n
  BY <1>1, <1>3
<1>5. new \in Seq(Topic)
  BY <1>1, <1>4
<1>6. Range(new) \subseteq Range(list)
  BY <1>1, <1>3, <1>4 DEF Range
<1>7. ASSUME NEW i \in 1 .. n PROVE list[i] \in Range(new)
  <2>1. (n - i) + 1 \in 1 .. n /\ new[(n - i) + 1] = list[i]
    BY <1>1, <1>3
  <2> HIDE DEF new
  <2>2. QED
    BY <1>4, <2>1 DEF Range
<1>8. Range(list) \subseteq Range(new)
  BY <1>1, <1>7 DEF Range
<1>9. QED
  BY <1>2, <1>5, <1>6, <1>8

(* A SUBSCRIBE for every topic of the list, and nothing else.              *)
LEMMA SubscriptionsType ==
  ASSUME NEW list \in Seq(Topic)
  PROVE  /\ Subscriptions(list) \in Seq(ToBroker)
         /\ \A x : In(x, Subscriptions(list)) <=> \E t \in Range(list) : x = Subscribe(t)
<1>1. Len(list) \in Nat /\ list \in [1 .. Len(list) -> Topic] /\ DOMAIN list = 1 .. Len(list)
  BY LenProperties
<1>2. /\ Subscriptions(list) \in [1 .. Len(list) -> ToBroker]
      /\ DOMAIN Subscriptions(list) = 1 .. Len(list)
      /\ \A i \in 1 .. Len(list) : Subscriptions(list)[i] = Subscribe(list[i])
  BY <1>1 DEF Subscriptions, ToBroker
<1>3. Subscriptions(list) \in Seq(ToBroker)
  BY <1>1, <1>2
<1>4. Range(list) = {list[i] : i \in 1 .. Len(list)}
  BY <1>1 DEF Range
<1>5. \A x : In(x, Subscriptions(list)) <=> \E i \in 1 .. Len(list) : x = Subscribe(list[i])
  BY <1>2 DEF In
<1>6. QED
  BY <1>3, <1>4, <1>5

(* What the packets of the two directions are told apart by.               *)
LEMMA PacketsDiffer ==
  /\ \A t : Subscribe(t) # Connect /\ Subscribe(t).type = "subscribe" /\ Subscribe(t).topic = t
  /\ Connect.type = "connect"
  /\ Connect \in ToBroker /\ Connack \in ToClient
  /\ \A c : ConfigMessage(c) # Connack /\ ConfigMessage(c).type = "config" /\ ConfigMessage(c).config = c
  /\ Connack.type = "connack"
  /\ \A c \in Config : ConfigMessage(c) \in ToClient
  /\ \A p \in ToClient : p = Connack \/ p.config \in Config
  /\ \A p \in ToBroker : p = Connect \/ (p.topic \in Topic /\ p = Subscribe(p.topic))
<1>1. \A t : Subscribe(t) # Connect /\ Subscribe(t).type = "subscribe" /\ Subscribe(t).topic = t
  <2>1. \A t : Subscribe(t).type = "subscribe" /\ Subscribe(t).topic = t
    BY DEF Subscribe
  <2>2. Connect.type = "connect"
    BY DEF Connect
  <2>3. QED
    BY <2>1, <2>2
<1>2. Connect.type = "connect" /\ Connack.type = "connack"
  BY DEF Connect, Connack
<1>3. Connect \in ToBroker /\ Connack \in ToClient
  BY DEF ToBroker, ToClient
<1>4. \A c : ConfigMessage(c).type = "config" /\ ConfigMessage(c).config = c
  BY DEF ConfigMessage
<1>5. \A c : ConfigMessage(c) # Connack
  BY <1>2, <1>4
<1>6. \A c \in Config : ConfigMessage(c) \in ToClient
  BY DEF ToClient
<1>7. \A p \in ToClient : p = Connack \/ p.config \in Config
  BY <1>4 DEF ToClient
<1>8. \A p \in ToBroker : p = Connect \/ (p.topic \in Topic /\ p = Subscribe(p.topic))
  BY <1>1 DEF ToBroker
<1>9. QED
  BY <1>1, <1>2, <1>3, <1>4, <1>5, <1>6, <1>7, <1>8

(* The CONNECT of this connection, or its answer, is still to be dealt     *)
(* with.                                                                   *)
UnderWay == In(Connect, toBroker) \/ In(Connack, toClient)

LEMMA UnderWayIsIn == UnderWay <=> ConnectUnderWay
  BY DEF UnderWay, ConnectUnderWay, In

(* Nothing is subscribed to but what is on the list of topics, and an open *)
(* connection whose CONNECT has been answered and dealt with has every     *)
(* topic of the list either subscribed to or on its way to the broker.     *)
NothingElse ==
  /\ session \subseteq Range(topics)
  /\ \A t : In(Subscribe(t), toBroker) => t \in Range(topics)

NothingMissing ==
  client = "open" /\ ~UnderWay =>
    \A t \in Range(topics) : t \in session \/ In(Subscribe(t), toBroker)

(* What holds of the client and the broker in every state.                 *)
MqttInv ==
  /\ MqttTypeOK
  /\ NothingElse
  /\ NothingMissing
  /\ client = "none" => session = {}

LEMMA EmptyQueue == \A x : ~In(x, <<>>)
  BY DEF In

LEMMA OneInQueue ==
  ASSUME NEW S, NEW e \in S
  PROVE  <<e>> \in Seq(S) /\ \A x : In(x, <<e>>) <=> x = e
<1>1. <<e>> \in Seq(S) /\ DOMAIN <<e>> = {1} /\ <<e>>[1] = e
  OBVIOUS
<1>2. QED
  BY <1>1 DEF In

(* The invariant holds at the start and every step of the broker and of    *)
(* mqtt.c keeps it.                                                        *)
LEMMA MqttInitially == MqttInit => MqttInv
<1> SUFFICES ASSUME MqttInit PROVE MqttInv
  OBVIOUS
<1>1. MqttTypeOK
  BY MqttAssumption, EmptySeq DEF MqttInit, MqttTypeOK, ClientState
<1>2. NothingElse /\ NothingMissing /\ (client = "none" => session = {})
  BY EmptyQueue DEF MqttInit, NothingElse, NothingMissing
<1>3. QED
  BY <1>1, <1>2 DEF MqttInv

LEMMA BrokerTakesKeeps ==
  ASSUME MqttInv, BrokerTakes
  PROVE  MqttInv'
<1>1. /\ toBroker \in Seq(ToBroker) /\ toBroker # <<>> /\ toBroker' = Tail(toBroker)
      /\ toClient \in Seq(ToClient) /\ session \in SUBSET Topic
      /\ client = "open" /\ UNCHANGED <<client, topics, broker, configs, outages>>
  BY DEF MqttInv, MqttTypeOK, BrokerTakes, clientVars
<1>2. /\ Tail(toBroker) \in Seq(ToBroker) /\ Head(toBroker) \in ToBroker
      /\ \A x : In(x, toBroker) <=> x = Head(toBroker) \/ In(x, Tail(toBroker))
  BY <1>1, TakenQueue
<1>3. CASE /\ Head(toBroker) = Connect
           /\ session' = {}
           /\ toClient' = Append(toClient, Connack)
  <2>1. toClient' \in Seq(ToClient) /\ In(Connack, toClient')
    BY <1>1, <1>3, AppendedQueue, PacketsDiffer
  <2>2. MqttTypeOK'
    BY <1>1, <1>2, <1>3, <2>1 DEF MqttInv, MqttTypeOK
  <2>3. NothingElse' /\ NothingMissing'
    BY <1>1, <1>2, <1>3, <2>1 DEF MqttInv, NothingElse, NothingMissing, UnderWay
  <2>4. QED
    BY <1>1, <2>2, <2>3 DEF MqttInv
<1>4. CASE /\ Head(toBroker).type = "subscribe"
           /\ session' = session \cup {Head(toBroker).topic}
           /\ UNCHANGED toClient
  <2>1. PICK t \in Topic : Head(toBroker) = Subscribe(t) /\ Head(toBroker).topic = t
    BY <1>2, <1>4, PacketsDiffer
  <2>2. MqttTypeOK'
    BY <1>1, <1>2, <1>4, <2>1 DEF MqttInv, MqttTypeOK
  <2>3. NothingElse'
    BY <1>1, <1>2, <1>4, <2>1 DEF MqttInv, NothingElse
  <2>4. UnderWay' <=> UnderWay
    BY <1>1, <1>2, <1>4, <2>1, PacketsDiffer DEF UnderWay
  <2>5. \A u : Subscribe(u) = Subscribe(t) => u = t
    BY PacketsDiffer
  <2>6. NothingMissing'
    BY <1>1, <1>2, <1>4, <2>1, <2>4, <2>5 DEF MqttInv, NothingMissing
  <2>7. QED
    BY <1>1, <2>2, <2>3, <2>6 DEF MqttInv
<1>5. QED
  BY <1>3, <1>4 DEF BrokerTakes

LEMMA PublishConfigKeeps ==
  ASSUME MqttInv, NEW config \in Config, PublishConfig(config)
  PROVE  MqttInv'
<1>1. /\ toClient \in Seq(ToClient) /\ configs \in 0 .. MaxConfigs /\ MaxConfigs \in Nat
      /\ configs < MaxConfigs /\ configs' = configs + 1
      /\ UNCHANGED <<client, topics, session, toBroker, broker, outages>>
  BY MqttAssumption DEF MqttInv, MqttTypeOK, PublishConfig, clientVars
<1>2. /\ toClient' \in Seq(ToClient)
      /\ In(Connack, toClient') <=> In(Connack, toClient)
  BY <1>1, AppendedQueue, PacketsDiffer DEF PublishConfig
<1>3. configs' \in 0 .. MaxConfigs
  BY <1>1
<1>4. MqttTypeOK'
  BY <1>1, <1>2, <1>3 DEF MqttInv, MqttTypeOK
<1>5. NothingElse' /\ NothingMissing'
  BY <1>1, <1>2 DEF MqttInv, NothingElse, NothingMissing, UnderWay
<1>6. QED
  BY <1>1, <1>4, <1>5 DEF MqttInv

LEMMA ConnectionBreaksKeeps ==
  ASSUME MqttInv, NEW stays \in BOOLEAN, ConnectionBreaks(stays)
  PROVE  MqttInv'
<1>1. /\ toClient \in Seq(ToClient) /\ outages \in 0 .. MaxOutages /\ MaxOutages \in Nat
      /\ outages < MaxOutages /\ outages' = outages + 1
      /\ client' = "lost" /\ broker' = stays /\ session' = {} /\ toBroker' = <<>>
      /\ UNCHANGED <<topics, configs>>
  BY MqttAssumption DEF MqttInv, MqttTypeOK, ConnectionBreaks
<1>2. PICK k \in 0 .. Len(toClient) : toClient' = SubSeq(toClient, 1, k)
  BY DEF ConnectionBreaks
<1>3. toClient' \in Seq(ToClient)
  <2>1. Len(toClient) \in Nat /\ \A i \in 1 .. k : toClient[i] \in ToClient
    BY <1>1, LenProperties, ElementOfSeq
  <2>2. QED
    BY <1>2, <2>1, SubSeqProperties
<1>4. outages' \in 0 .. MaxOutages
  BY <1>1
<1>5. MqttTypeOK'
  BY <1>1, <1>3, <1>4 DEF MqttInv, MqttTypeOK, ClientState
<1>6. NothingElse' /\ NothingMissing'
  BY <1>1, EmptyQueue DEF NothingElse, NothingMissing
<1>7. QED
  BY <1>1, <1>5, <1>6 DEF MqttInv

LEMMA BrokerKeeps ==
  ASSUME MqttInv, BrokerNext
  PROVE  MqttInv'
<1>1. CASE BrokerTakes
  BY <1>1, BrokerTakesKeeps
<1>2. CASE \E config \in Config : PublishConfig(config)
  BY <1>2, PublishConfigKeeps
<1>3. CASE \E stays \in BOOLEAN : ConnectionBreaks(stays)
  BY <1>3, ConnectionBreaksKeeps
<1>4. CASE BrokerReturns
  <2>1. broker' = TRUE /\ UNCHANGED <<client, topics, session, toBroker, toClient, configs, outages>>
    BY <1>4 DEF BrokerReturns, clientVars
  <2>2. QED
    BY <2>1 DEF MqttInv, MqttTypeOK, NothingElse, NothingMissing, UnderWay
<1>5. QED
  BY <1>1, <1>2, <1>3, <1>4 DEF BrokerNext

LEMMA InitAndSubscribeKeeps ==
  ASSUME MqttInv, NEW list \in Seq(Topic), client = "none", InitAndSubscribe(list)
  PROVE  MqttInv'
<1>1. /\ client' = "open" /\ topics' = AddTopics(list) /\ session = {}
      /\ toBroker' = <<Connect>> \o Subscriptions(list)
      /\ UNCHANGED <<session, toClient, broker, configs, outages>>
  BY DEF InitAndSubscribe, MqttInv
<1>2. topics' \in Seq(Topic) /\ Range(topics') = Range(list)
  BY <1>1, AddedTopics
<1>3. /\ <<Connect>> \in Seq(ToBroker)
      /\ \A x : In(x, <<Connect>>) <=> x = Connect
  BY OneInQueue, PacketsDiffer
<1>4. /\ Subscriptions(list) \in Seq(ToBroker)
      /\ \A x : In(x, Subscriptions(list)) <=> \E t \in Range(list) : x = Subscribe(t)
  BY SubscriptionsType
<1>5. /\ toBroker' \in Seq(ToBroker)
      /\ \A x : In(x, toBroker') <=> x = Connect \/ \E t \in Range(list) : x = Subscribe(t)
  BY <1>1, <1>3, <1>4, JoinedQueue
<1>6. MqttTypeOK'
  BY <1>1, <1>2, <1>5 DEF MqttInv, MqttTypeOK, ClientState
<1>7. NothingElse'
  BY <1>1, <1>2, <1>5, PacketsDiffer DEF NothingElse
<1>8. NothingMissing'
  BY <1>5 DEF NothingMissing, UnderWay
<1>9. QED
  BY <1>1, <1>6, <1>7, <1>8 DEF MqttInv

(* A packet leaves the queue to the client.                                *)
LEMMA ReadFromClient ==
  ASSUME MqttInv, toClient # <<>>, toClient' = Tail(toClient)
  PROVE  /\ toClient' \in Seq(ToClient) /\ Head(toClient) \in ToClient
         /\ Head(toClient) # Connack => (In(Connack, toClient') <=> In(Connack, toClient))
<1>1. toClient \in Seq(ToClient)
  BY DEF MqttInv, MqttTypeOK
<1>2. QED
  BY <1>1, TakenQueue

LEMMA OnConnectKeeps ==
  ASSUME MqttInv, OnConnect
  PROVE  MqttInv'
<1>1. /\ toClient # <<>> /\ toClient' = Tail(toClient)
      /\ client \in {"open", "lost"}
      /\ toBroker' = IF client = "open" THEN toBroker \o Subscriptions(topics) ELSE toBroker
      /\ toBroker \in Seq(ToBroker) /\ topics \in Seq(Topic)
      /\ UNCHANGED <<client, topics, session, broker, configs, outages>>
  BY DEF OnConnect, clientVars, brokerVars, MqttInv, MqttTypeOK
<1>2. toClient' \in Seq(ToClient)
  BY <1>1, ReadFromClient
<1>3. /\ Subscriptions(topics) \in Seq(ToBroker)
      /\ \A x : In(x, Subscriptions(topics)) <=> \E t \in Range(topics) : x = Subscribe(t)
  BY <1>1, SubscriptionsType
<1>4. CASE client = "open"
  <2>1. /\ toBroker' \in Seq(ToBroker)
        /\ \A x : In(x, toBroker') <=> In(x, toBroker) \/ \E t \in Range(topics) : x = Subscribe(t)
    BY <1>1, <1>3, <1>4, JoinedQueue
  <2>2. MqttTypeOK'
    BY <1>1, <1>2, <2>1 DEF MqttInv, MqttTypeOK
  <2>3. NothingElse'
    BY <1>1, <2>1, PacketsDiffer DEF MqttInv, NothingElse
  <2>4. NothingMissing'
    BY <1>1, <2>1 DEF NothingMissing
  <2>5. QED
    BY <1>1, <2>2, <2>3, <2>4 DEF MqttInv
<1>5. CASE client = "lost"
  <2>1. toBroker' = toBroker /\ client' = "lost"
    BY <1>1, <1>5
  <2>2. MqttTypeOK'
    BY <1>1, <1>2, <2>1 DEF MqttInv, MqttTypeOK
  <2>3. NothingElse' /\ NothingMissing'
    BY <1>1, <2>1 DEF MqttInv, NothingElse, NothingMissing
  <2>4. QED
    BY <1>1, <2>2, <2>3 DEF MqttInv
<1>6. QED
  BY <1>1, <1>4, <1>5

LEMMA OnDisconnectKeeps ==
  ASSUME MqttInv, OnDisconnect
  PROVE  MqttInv'
<1>1. /\ toClient' = <<>> /\ UNCHANGED <<topics, session, broker, configs, outages>>
      /\ \/ client' = "open" /\ toBroker' = <<Connect>>
         \/ client' = "closed" /\ toBroker' = <<>>
  BY DEF OnDisconnect, brokerVars
<1>2. /\ <<Connect>> \in Seq(ToBroker) /\ <<>> \in Seq(ToBroker) /\ <<>> \in Seq(ToClient)
      /\ \A x : In(x, <<Connect>>) <=> x = Connect
  BY OneInQueue, EmptySeq, PacketsDiffer
<1>3. MqttTypeOK'
  BY <1>1, <1>2 DEF MqttInv, MqttTypeOK, ClientState
<1>4. NothingElse'
  BY <1>1, <1>2, EmptyQueue, PacketsDiffer DEF MqttInv, NothingElse
<1>5. NothingMissing'
  BY <1>1, <1>2 DEF NothingMissing, UnderWay
<1>6. QED
  BY <1>1, <1>3, <1>4, <1>5 DEF MqttInv

LEMMA TakeMessageKeeps ==
  ASSUME MqttInv, TakeMessage
  PROVE  MqttInv' /\ Head(toClient).config \in Config
<1>1. /\ toClient # <<>> /\ toClient' = Tail(toClient) /\ Head(toClient).type = "config"
      /\ UNCHANGED <<client, topics, session, toBroker, broker, configs, outages>>
  BY DEF TakeMessage, clientVars, brokerVars
<1>2. /\ toClient' \in Seq(ToClient)
      /\ Head(toClient) \in ToClient /\ Head(toClient) # Connack
      /\ In(Connack, toClient') <=> In(Connack, toClient)
  BY <1>1, ReadFromClient, PacketsDiffer
<1>3. Head(toClient).config \in Config
  BY <1>2, PacketsDiffer
<1>4. MqttTypeOK'
  BY <1>1, <1>2 DEF MqttInv, MqttTypeOK
<1>5. NothingElse' /\ NothingMissing'
  BY <1>1, <1>2 DEF MqttInv, NothingElse, NothingMissing, UnderWay
<1>6. QED
  BY <1>1, <1>3, <1>4, <1>5 DEF MqttInv

LEMMA MqttStutters ==
  ASSUME MqttInv, UNCHANGED mqttVars
  PROVE  MqttInv'
BY DEF MqttInv, MqttTypeOK, NothingElse, NothingMissing, UnderWay, mqttVars

(* What TLC checks follows.                                                *)
LEMMA MqttInvSettles == MqttInv => SubscriptionsSettle
<1> SUFFICES ASSUME MqttInv, client = "open", toBroker = <<>>, ~ConnectUnderWay
             PROVE  session = Range(topics)
  BY DEF SubscriptionsSettle
<1>1. \A t \in Range(topics) : t \in session
  BY UnderWayIsIn, EmptyQueue DEF MqttInv, NothingMissing
<1>2. QED
  BY <1>1 DEF MqttInv, NothingElse

-----------------------------------------------------------------------------
(* The co-processor and the database.                                      *)

AllowedBy(list) == {t \in Tag : AllowlistFind(list, t) # "NOT_FOUND"}

(* What is entered, synchronised and reported is of a set T of tags.       *)
Records(T) == {FreeSync} \cup [state : {"pending", "open"}, peer : T, cte : BOOLEAN]

MessagesOf(T) ==
  {Boot} \cup {ScanReportOf(t) : t \in Tag}
    \cup [type : SyncEventType, handle : Sync, tag : T]

OnlyOf(T) ==
  /\ sync \in [Sync -> Records(T)]
  /\ evq \in Seq(MessagesOf(T))
  /\ db \in Seq(Entry(Sync, T))

FlagsType ==
  /\ <<scanning, alive, booted, restarted>> \in BOOLEAN \X BOOLEAN \X BOOLEAN \X BOOLEAN
  /\ faults \in 0 .. MaxFaults
  /\ allowlist \in Seq(Tag)

(* Nothing but boot events before the first of them is handled.            *)
BeforeBoot ==
  ~booted => /\ ~scanning
             /\ sync = [s \in Sync |-> FreeSync]
             /\ evq \in Seq({Boot})
             /\ db = <<>>

(* The lists that matter, whatever the events under way: not only the      *)
(* entries, but every synchronisation and every event that could become an *)
(* entry is of a tag of the allowlist in force.                            *)
CteInv ==
  /\ FlagsType
  /\ OnlyOf(AllowedBy(allowlist))
  /\ BeforeBoot

(* The parts of FlagsType, one by one.                                     *)
LEMMA FlagsFields ==
  FlagsType <=> /\ scanning \in BOOLEAN /\ alive \in BOOLEAN
                /\ booted \in BOOLEAN /\ restarted \in BOOLEAN
                /\ faults \in 0 .. MaxFaults
                /\ allowlist \in Seq(Tag)
  BY DEF FlagsType

(* What the events of each type hold.                                      *)
LEMMA MessageFields ==
  ASSUME NEW T
  PROVE  /\ \A m \in MessagesOf(T) : m.type = "boot" => m = Boot
         /\ \A m \in MessagesOf(T) : m.type = "scan_report" => m.tag \in Tag
         /\ \A m \in MessagesOf(T) : m.type \in SyncEventType => m.handle \in Sync /\ m.tag \in T
         /\ Boot \in MessagesOf(T) /\ Boot.type = "boot"
         /\ \A t \in Tag : ScanReportOf(t) \in MessagesOf(T)
         /\ \A type \in SyncEventType, s \in Sync, t \in T : Event(type, s, t) \in MessagesOf(T)
<1>1. Boot.type = "boot" /\ \A t : ScanReportOf(t).type = "scan_report" /\ ScanReportOf(t).tag = t
  BY DEF Boot, ScanReportOf
<1>2. "boot" \notin SyncEventType /\ "scan_report" \notin SyncEventType
  BY DEF SyncEventType
<1>3. \A m \in MessagesOf(T) :
        \/ m = Boot
        \/ \E t \in Tag : m = ScanReportOf(t)
        \/ m \in [type : SyncEventType, handle : Sync, tag : T]
  BY DEF MessagesOf
<1>4. \A m \in [type : SyncEventType, handle : Sync, tag : T] :
        m.type \in SyncEventType /\ m.handle \in Sync /\ m.tag \in T
  OBVIOUS
<1>5. \A m \in MessagesOf(T) : m.type = "boot" => m = Boot
  BY <1>1, <1>2, <1>3, <1>4
<1>6. \A m \in MessagesOf(T) : m.type = "scan_report" => m.tag \in Tag
  BY <1>1, <1>2, <1>3, <1>4
<1>7. \A m \in MessagesOf(T) : m.type \in SyncEventType => m.handle \in Sync /\ m.tag \in T
  BY <1>1, <1>2, <1>3, <1>4
<1>8. Boot \in MessagesOf(T) /\ \A t \in Tag : ScanReportOf(t) \in MessagesOf(T)
  BY DEF MessagesOf
<1>9. \A type \in SyncEventType, s \in Sync, t \in T : Event(type, s, t) \in MessagesOf(T)
  BY DEF MessagesOf, Event
<1>10. QED
  BY <1>1, <1>5, <1>6, <1>7, <1>8, <1>9

(* What a synchronisation may become.                                      *)
LEMMA RecordFields ==
  ASSUME NEW T, NEW r \in Records(T)
  PROVE  /\ r.state # "free" => r.peer \in T
         /\ r.cte => r.peer \in T
         /\ FreeSync \in Records(T)
         /\ r.state = "pending" => [r EXCEPT !.state = "open"] \in Records(T)
         /\ r.state = "open" => [r EXCEPT !.cte = TRUE] \in Records(T)
         /\ \A t \in T : NewSync(t) \in Records(T)
<1>1. FreeSync.state = "free" /\ FreeSync.cte = FALSE
  BY DEF FreeSync
<1>2. FreeSync \in Records(T) /\ \A t \in T : NewSync(t) \in Records(T)
  BY DEF Records, NewSync
<1>3. r = FreeSync \/ r \in [state : {"pending", "open"}, peer : T, cte : BOOLEAN]
  BY DEF Records
<1>4. CASE r = FreeSync
  BY <1>1, <1>2, <1>4
<1>5. CASE r \in [state : {"pending", "open"}, peer : T, cte : BOOLEAN]
  BY <1>2, <1>5 DEF Records
<1>6. QED
  BY <1>3, <1>4, <1>5

(* A queue of boot events is one of events.                                *)
LEMMA BootsAreMessages ==
  ASSUME NEW T, NEW q \in Seq({Boot})
  PROVE  q \in Seq(MessagesOf(T))
<1>1. {Boot} \subseteq MessagesOf(T)
  BY MessageFields
<1>2. QED
  BY <1>1, SeqMonotonic

-----------------------------------------------------------------------------
(* The steps of the co-processor.                                          *)

(* An event is added to what is under way, or taken from it.               *)
LEMMA EmittedType ==
  ASSUME NEW T, NEW q \in Seq(MessagesOf(T)), NEW e \in MessagesOf(T)
  PROVE  Append(q, e) \in Seq(MessagesOf(T))
  BY AppendProperties

(* After a reset, and before the first boot, nothing is of any tag.        *)
LEMMA NothingIsOfAny ==
  ASSUME NEW T,
         sync' = [s \in Sync |-> FreeSync], evq' \in Seq({Boot}), db' = <<>>
  PROVE  /\ sync' \in [Sync -> Records(T)]
         /\ evq' \in Seq(MessagesOf(T))
         /\ db' \in Seq(Entry(Sync, T))
<1>1. sync' \in [Sync -> Records(T)]
  BY DEF Records
<1>2. evq' \in Seq(MessagesOf(T))
  BY BootsAreMessages
<1>3. QED
  BY <1>1, <1>2, EmptySeq

LEMMA CteInitially == NcpInit /\ CteInit /\ booted = FALSE => CteInv
<1> SUFFICES ASSUME NcpInit, CteInit, booted = FALSE PROVE CteInv
  OBVIOUS
<1>1. FlagsType
  <2>1. 0 \in 0 .. MaxFaults
    BY BoundsAssumption
  <2>2. QED
    BY <2>1, EmptySeq, FlagsFields DEF NcpInit, CteInit
<1>2. evq \in Seq({Boot}) /\ sync = [s \in Sync |-> FreeSync] /\ db = <<>> /\ ~scanning
  BY DEF NcpInit, CteInit
<1>3. OnlyOf(AllowedBy(allowlist))
  <2>1. sync \in [Sync -> Records(AllowedBy(allowlist))]
    BY <1>2 DEF Records
  <2>2. QED
    BY <1>2, <2>1, BootsAreMessages, EmptySeq DEF OnlyOf
<1>4. QED
  BY <1>1, <1>2, <1>3 DEF CteInv, BeforeBoot

LEMMA NcpKeeps ==
  ASSUME CteInv, NcpNext, UNCHANGED <<cteVars, booted>>
  PROVE  CteInv'
<1> DEFINE T == AllowedBy(allowlist)
<1>1. /\ sync \in [Sync -> Records(T)] /\ evq \in Seq(MessagesOf(T)) /\ db \in Seq(Entry(Sync, T))
      /\ T' = T /\ UNCHANGED <<alive, allowlist, db, booted>>
  BY DEF CteInv, OnlyOf, cteVars
<1>2. T \subseteq Tag
  BY DEF AllowedBy
<1> HIDE DEF T
<1>3. ASSUME NEW t \in Tag, Advertise(t) PROVE CteInv'
  <2>1. UNCHANGED <<scanning, sync, faults, restarted>> /\ evq' = Append(evq, ScanReportOf(t)) /\ scanning
    BY <1>3 DEF Advertise, Emit
  <2>2. evq' \in Seq(MessagesOf(T))
    BY <1>1, <2>1, EmittedType, MessageFields
  <2>3. FlagsType' /\ OnlyOf(T)'
    BY <1>1, <2>1, <2>2 DEF CteInv, FlagsType, OnlyOf
  <2>4. BeforeBoot'
    BY <1>1, <2>1 DEF CteInv, BeforeBoot
  <2>5. QED
    BY <1>1, <2>3, <2>4 DEF CteInv, T
<1>4. ASSUME NEW s \in Sync, sync[s] # FreeSync PROVE booted
  BY <1>4 DEF CteInv, BeforeBoot
<1>5. FreeSync.state = "free" /\ FreeSync.cte = FALSE
  BY DEF FreeSync
<1>6. ASSUME NEW s \in Sync, Establish(s) PROVE CteInv'
  <2>1. /\ sync[s].state = "pending" /\ sync' = [sync EXCEPT ![s].state = "open"]
        /\ evq' = Append(evq, Event("opened", s, sync[s].peer))
        /\ UNCHANGED <<scanning, faults, restarted>>
    BY <1>6 DEF Establish, Emit
  <2>2. sync[s] \in Records(T)
    BY <1>1
  <2>3. sync[s].peer \in T /\ [sync[s] EXCEPT !.state = "open"] \in Records(T)
    BY <2>1, <2>2, RecordFields
  <2>4. sync' \in [Sync -> Records(T)]
    BY <1>1, <2>1, <2>3
  <2>5. evq' \in Seq(MessagesOf(T))
    BY <1>1, <2>1, <2>3, EmittedType, MessageFields DEF SyncEventType
  <2>6. FlagsType' /\ OnlyOf(T)'
    BY <1>1, <2>1, <2>4, <2>5 DEF CteInv, FlagsType, OnlyOf
  <2>7. BeforeBoot'
    BY <1>1, <1>4, <1>5, <2>1 DEF BeforeBoot
  <2>8. QED
    BY <1>1, <2>6, <2>7 DEF CteInv, T
<1>7. ASSUME NEW s \in Sync, LoseSync(s) PROVE CteInv'
  <2>1. /\ sync[s].state # "free" /\ faults < MaxFaults /\ faults' = faults + 1
        /\ sync' = [sync EXCEPT ![s] = FreeSync]
        /\ evq' = Append(evq, Event("closed", s, sync[s].peer))
        /\ UNCHANGED <<scanning, restarted>>
    BY <1>7 DEF LoseSync, Emit
  <2>2. sync[s] \in Records(T)
    BY <1>1
  <2>3. sync[s].peer \in T /\ FreeSync \in Records(T)
    BY <2>1, <2>2, RecordFields
  <2>4. sync' \in [Sync -> Records(T)]
    BY <1>1, <2>1, <2>3
  <2>5. evq' \in Seq(MessagesOf(T))
    BY <1>1, <2>1, <2>3, EmittedType, MessageFields DEF SyncEventType
  <2>6. faults' \in 0 .. MaxFaults
    BY <2>1, BoundsAssumption DEF CteInv, FlagsType
  <2>7. FlagsType' /\ OnlyOf(T)'
    BY <1>1, <2>1, <2>4, <2>5, <2>6 DEF CteInv, FlagsType, OnlyOf
  <2>8. BeforeBoot'
    BY <1>1, <1>4, <1>5, <2>1 DEF BeforeBoot
  <2>9. QED
    BY <1>1, <2>7, <2>8 DEF CteInv, T
<1>8. ASSUME NEW s \in Sync, SampleCte(s) PROVE CteInv'
  <2>1. /\ sync[s].cte /\ evq' = Append(evq, Event("iq_report", s, sync[s].peer))
        /\ UNCHANGED <<scanning, sync, faults, restarted>>
    BY <1>8 DEF SampleCte, Emit
  <2>2. sync[s].peer \in T
    BY <1>1, <2>1, RecordFields
  <2>3. evq' \in Seq(MessagesOf(T))
    BY <1>1, <2>1, <2>2, EmittedType, MessageFields DEF SyncEventType
  <2>4. FlagsType' /\ OnlyOf(T)'
    BY <1>1, <2>1, <2>3 DEF CteInv, FlagsType, OnlyOf
  <2>5. BeforeBoot'
    BY <1>1, <1>4, <1>5, <2>1 DEF BeforeBoot
  <2>6. QED
    BY <1>1, <2>4, <2>5 DEF CteInv, T
<1>9. CASE Restart
  <2>1. /\ faults < MaxFaults /\ faults' = faults + 1 /\ restarted' = TRUE /\ scanning' = FALSE
        /\ sync' = [s \in Sync |-> FreeSync] /\ evq' = Append(evq, Boot)
    BY <1>9 DEF Restart, Emit
  <2>2. sync' \in [Sync -> Records(T)]
    BY <2>1 DEF Records
  <2>3. evq' \in Seq(MessagesOf(T))
    BY <1>1, <2>1, EmittedType, MessageFields
  <2>4. faults' \in 0 .. MaxFaults
    BY <2>1, BoundsAssumption DEF CteInv, FlagsType
  <2>5. FlagsType' /\ OnlyOf(T)'
    BY <1>1, <2>1, <2>2, <2>3, <2>4 DEF CteInv, FlagsType, OnlyOf
  <2>6. ~booted => evq' \in Seq({Boot})
    BY <2>1, AppendProperties DEF CteInv, BeforeBoot
  <2>7. BeforeBoot'
    BY <1>1, <2>1, <2>6 DEF CteInv, BeforeBoot
  <2>8. QED
    BY <1>1, <2>5, <2>7 DEF CteInv, T
<1>10. QED
  BY <1>3, <1>6, <1>7, <1>8, <1>9 DEF NcpNext

LEMMA BootsInSeq == <<Boot>> \in Seq({Boot}) /\ <<Boot, Boot>> \in Seq({Boot})
<1> DEFINE S == {Boot}
<1>1. Boot \in S
  OBVIOUS
<1> HIDE DEF S
<1>2. <<Boot>> \in Seq(S) /\ <<Boot, Boot>> \in Seq(S)
  BY <1>1
<1>3. QED
  BY <1>2 DEF S

LEMMA ResetKeeps ==
  ASSUME CteInv, Reset, db' = <<>>, allowlist' \in Seq(Tag), UNCHANGED <<alive, booted>>
  PROVE  CteInv'
<1>1. /\ scanning' = FALSE /\ restarted' = FALSE /\ faults' = faults
      /\ sync' = [s \in Sync |-> FreeSync]
      /\ evq' = <<Boot>> \/ evq' = <<Boot, Boot>>
  BY DEF Reset
<1>2. evq' \in Seq({Boot})
  BY <1>1, BootsInSeq
<1>3. OnlyOf(AllowedBy(allowlist))'
  BY <1>1, <1>2, NothingIsOfAny DEF OnlyOf
<1>4. FlagsType'
  BY <1>1 DEF CteInv, FlagsType
<1>5. BeforeBoot'
  BY <1>1, <1>2 DEF BeforeBoot
<1>6. QED
  BY <1>3, <1>4, <1>5 DEF CteInv

-----------------------------------------------------------------------------
(* The steps of the host.                                                  *)

(* The oldest event, and what remains when it has been taken.              *)
LEMMA Received ==
  ASSUME CteInv, NEW type, Receive(type)
  PROVE  /\ evq # <<>> /\ evq' = Tail(evq) /\ Head(evq).type = type
         /\ UNCHANGED <<faults, restarted>>
         /\ Head(evq) \in MessagesOf(AllowedBy(allowlist))
         /\ evq' \in Seq(MessagesOf(AllowedBy(allowlist)))
         /\ ~booted => evq' \in Seq({Boot})
         /\ type # "boot" => booted
<1>1. /\ evq # <<>> /\ evq' = Tail(evq) /\ Head(evq).type = type
      /\ UNCHANGED <<faults, restarted>>
      /\ evq \in Seq(MessagesOf(AllowedBy(allowlist)))
      /\ ~booted => evq \in Seq({Boot})
  BY DEF Receive, CteInv, OnlyOf, BeforeBoot
<1>2. /\ Head(evq) \in MessagesOf(AllowedBy(allowlist))
      /\ evq' \in Seq(MessagesOf(AllowedBy(allowlist)))
  BY <1>1, TakenQueue
<1>3. ~booted => evq' \in Seq({Boot}) /\ Head(evq) \in {Boot}
  BY <1>1, TakenQueue
<1>4. type # "boot" => booted
  BY <1>1, <1>3, MessageFields
<1>5. QED
  BY <1>1, <1>2, <1>3, <1>4

LEMMA FirstBootKeeps ==
  ASSUME CteInv, FirstBoot
  PROVE  CteInv'
<1>1. /\ evq' \in Seq({Boot}) /\ UNCHANGED <<faults, restarted>>
      /\ ~booted /\ booted' = TRUE /\ UNCHANGED <<sync, db>>
  BY Received DEF FirstBoot
<1>2. /\ scanning' \in BOOLEAN /\ alive' \in BOOLEAN /\ allowlist' \in Seq(Tag)
  <2>1. CASE /\ allowlist' \in Config \cup {<<>>}
             /\ StartScanner
    BY <2>1, ConfigAssumption, EmptySeq, FlagsFields DEF StartScanner, Return, CteInv
  <2>2. CASE /\ Return(FALSE)
             /\ UNCHANGED <<scanning, allowlist, mqttVars>>
    BY <2>2, FlagsFields DEF Return, CteInv
  <2>3. QED
    BY <2>1, <2>2 DEF FirstBoot
<1>3. FlagsType'
  BY <1>1, <1>2 DEF CteInv, FlagsType
<1>4. sync' = [s \in Sync |-> FreeSync] /\ db' = <<>>
  BY <1>1 DEF CteInv, BeforeBoot
<1>5. OnlyOf(AllowedBy(allowlist))'
  BY <1>1, <1>4, NothingIsOfAny DEF OnlyOf
<1>6. QED
  BY <1>1, <1>3, <1>5 DEF CteInv, BeforeBoot

LEMMA LaterBootKeeps ==
  ASSUME CteInv, LaterBoot
  PROVE  CteInv'
<1>1. /\ evq' \in Seq(MessagesOf(AllowedBy(allowlist))) /\ UNCHANGED <<faults, restarted>>
      /\ booted /\ UNCHANGED <<sync, allowlist, db, booted>>
      /\ StartScanner
  BY Received DEF LaterBoot
<1>2. FlagsType'
  BY <1>1, FlagsFields DEF CteInv, FlagsType, StartScanner, Return
<1>3. OnlyOf(AllowedBy(allowlist))'
  BY <1>1 DEF CteInv, OnlyOf
<1>4. QED
  BY <1>1, <1>2, <1>3 DEF CteInv, BeforeBoot

LEMMA ScanReportKeeps ==
  ASSUME CteInv, ScanReport, UNCHANGED booted
  PROVE  CteInv'
<1> DEFINE T == AllowedBy(allowlist)
           tag == Head(evq).tag
<1>1. /\ evq' \in Seq(MessagesOf(T)) /\ UNCHANGED <<faults, restarted, alive, allowlist, db, booted>>
      /\ booted /\ Head(evq) \in MessagesOf(T) /\ Head(evq).type = "scan_report"
      /\ IF Interesting(tag) THEN SyncOpen(tag) ELSE UNCHANGED <<scanning, sync>>
  BY Received DEF ScanReport, cteVars
<1>2. tag \in Tag
  BY <1>1, MessageFields
<1>3. Interesting(tag) => tag \in T
  BY <1>2 DEF Interesting, AllowedBy
<1>4. sync \in [Sync -> Records(T)] /\ db \in Seq(Entry(Sync, T)) /\ scanning \in BOOLEAN
  BY FlagsFields DEF CteInv, OnlyOf
<1> HIDE DEF T, tag
<1>5. tag \in T => \A s \in Sync : [sync EXCEPT ![s] = NewSync(tag)] \in [Sync -> Records(T)]
  BY <1>4, RecordFields
<1>6. scanning' \in BOOLEAN /\ sync' \in [Sync -> Records(T)]
  <2>1. CASE Interesting(tag)
    BY <1>1, <1>3, <1>4, <1>5, <2>1 DEF SyncOpen
  <2>2. CASE ~Interesting(tag)
    BY <1>1, <1>4, <2>2
  <2>3. QED
    BY <2>1, <2>2
<1>7. FlagsType'
  BY <1>1, <1>6, FlagsFields DEF CteInv, FlagsType
<1>8. OnlyOf(AllowedBy(allowlist))'
  BY <1>1, <1>4, <1>6 DEF OnlyOf, T
<1>9. QED
  BY <1>1, <1>7, <1>8 DEF CteInv, BeforeBoot

LEMMA SyncOpenedKeeps ==
  ASSUME CteInv, SyncOpened, UNCHANGED booted
  PROVE  CteInv'
<1> DEFINE T == AllowedBy(allowlist)
           s == Head(evq).handle
           tag == Head(evq).tag
           ok == sync[s].state = "open"
<1>1. /\ evq' \in Seq(MessagesOf(T)) /\ UNCHANGED <<faults, restarted, allowlist, booted>>
      /\ booted /\ Head(evq) \in MessagesOf(T) /\ Head(evq).type = "opened"
      /\ db' = AddTag(db, s, tag)
      /\ alive' = ok
      /\ sync' = IF ok THEN [sync EXCEPT ![s].cte = TRUE] ELSE sync
      /\ scanning' \in BOOLEAN
  BY Received DEF SyncOpened, Return
<1>2. s \in Sync /\ tag \in T
  BY <1>1, MessageFields DEF SyncEventType
<1>3. sync \in [Sync -> Records(T)] /\ db \in Seq(Entry(Sync, T))
  BY DEF CteInv, OnlyOf
<1>4. ok \in BOOLEAN
  OBVIOUS
<1> HIDE DEF T, s, tag
<1>5. db' \in Seq(Entry(Sync, T))
  BY <1>1, <1>2, <1>3, AddedTag
<1>6. sync' \in [Sync -> Records(T)]
  <2>1. ok => [sync[s] EXCEPT !.cte = TRUE] \in Records(T)
    BY <1>2, <1>3, RecordFields
  <2>2. QED
    BY <1>1, <1>2, <1>3, <2>1
<1>7. FlagsType'
  BY <1>1, <1>4, FlagsFields DEF CteInv, FlagsType
<1>8. OnlyOf(AllowedBy(allowlist))'
  BY <1>1, <1>5, <1>6 DEF OnlyOf, T
<1>9. QED
  BY <1>1, <1>7, <1>8 DEF CteInv, BeforeBoot

LEMMA SyncClosedKeeps ==
  ASSUME CteInv, SyncClosed, UNCHANGED booted
  PROVE  CteInv'
<1>1. /\ evq' \in Seq(MessagesOf(AllowedBy(allowlist))) /\ booted
      /\ UNCHANGED <<faults, restarted, sync, alive, allowlist, booted>>
      /\ db' = RemoveTag(db, Head(evq).handle) /\ scanning' = TRUE
  BY Received DEF SyncClosed
<1>2. db' \in Seq(Entry(Sync, AllowedBy(allowlist)))
  BY <1>1, RemovedTag DEF CteInv, OnlyOf
<1>3. FlagsType'
  BY <1>1, FlagsFields DEF CteInv, FlagsType
<1>4. OnlyOf(AllowedBy(allowlist))'
  BY <1>1, <1>2 DEF CteInv, OnlyOf
<1>5. QED
  BY <1>1, <1>3, <1>4 DEF CteInv, BeforeBoot

LEMMA IqReportKeeps ==
  ASSUME CteInv, NEW published \in PublishResults, IqReport(published), UNCHANGED booted
  PROVE  CteInv'
<1>1. /\ evq' \in Seq(MessagesOf(AllowedBy(allowlist))) /\ booted
      /\ UNCHANGED <<faults, restarted, scanning, sync, allowlist, db, booted>>
  BY Received DEF IqReport
<1>2. alive' \in BOOLEAN
  BY FlagsFields DEF IqReport, Return, PublishResults, CteInv
<1>3. FlagsType'
  BY <1>1, <1>2, FlagsFields DEF CteInv, FlagsType
<1>4. OnlyOf(AllowedBy(allowlist))'
  BY <1>1 DEF CteInv, OnlyOf
<1>5. QED
  BY <1>1, <1>3, <1>4 DEF CteInv, BeforeBoot


-----------------------------------------------------------------------------
(* The two together.                                                       *)

HostInv ==
  /\ CteInv
  /\ MqttInv
  /\ ~booted => client = "none"

(* The initial states satisfy it, and every step keeps it.                 *)
LEMMA HostInitially == Init => HostInv
<1> SUFFICES ASSUME Init PROVE HostInv
  OBVIOUS
<1>1. NcpInit /\ CteInit /\ MqttInit /\ booted = FALSE
  BY DEF Init
<1>2. client = "none"
  BY <1>1 DEF MqttInit
<1>3. QED
  BY <1>1, <1>2, CteInitially, MqttInitially DEF HostInv

LEMMA CteStutters ==
  ASSUME CteInv, UNCHANGED <<ncpVars, cteVars, booted>>
  PROVE  CteInv'
BY DEF CteInv, FlagsType, OnlyOf, BeforeBoot, ncpVars, cteVars

LEMMA FirstBootKeepsAll ==
  ASSUME HostInv, FirstBoot
  PROVE  HostInv'
<1>1. CteInv' /\ booted' = TRUE
  BY FirstBootKeeps DEF HostInv, FirstBoot
<1>2. CASE InitAndSubscribe(<<"correction", "config">>)
  <2>1. client = "none"
    BY DEF HostInv, FirstBoot
  <2>2. <<"correction", "config">> \in Seq(Topic)
    BY DEF Topic
  <2>3. MqttInv'
    BY <1>2, <2>1, <2>2, InitAndSubscribeKeeps DEF HostInv
  <2>4. QED
    BY <1>1, <2>3 DEF HostInv
<1>3. CASE UNCHANGED mqttVars
  BY <1>1, <1>3, MqttStutters DEF HostInv
<1>4. QED
  BY <1>2, <1>3 DEF FirstBoot

LEMMA HandleEventKeeps ==
  ASSUME HostInv, HandleEvent
  PROVE  HostInv'
<1>1. CteInv /\ MqttInv
  BY DEF HostInv
<1>2. CASE FirstBoot
  BY <1>2, FirstBootKeepsAll
<1>3. CASE ~FirstBoot
  <2>1. UNCHANGED <<mqttVars, booted>>
    BY <1>3 DEF HandleEvent, LaterBoot
  <2>2. CteInv'
    BY <1>1, <1>3, <2>1, LaterBootKeeps, ScanReportKeeps, SyncOpenedKeeps,
       SyncClosedKeeps, IqReportKeeps DEF HandleEvent
  <2>3. MqttInv'
    BY <1>1, <2>1, MqttStutters
  <2>4. QED
    BY <2>1, <2>2, <2>3 DEF HostInv, mqttVars
<1>4. QED
  BY <1>2, <1>3

LEMMA MqttStepKeeps ==
  ASSUME HostInv, MqttStep
  PROVE  HostInv'
<1>1. CteInv /\ MqttInv /\ (~booted => client = "none") /\ UNCHANGED booted
  BY DEF HostInv, MqttStep, OnConfigMessage
<1>2. CASE OnConfigMessage
  <2>1. /\ TakeMessage /\ Reset /\ db' = <<>> /\ UNCHANGED <<alive, booted>>
        /\ allowlist' = Head(toClient).config
        /\ client' = client
    BY <1>2 DEF OnConfigMessage, TakeMessage, clientVars
  <2>2. MqttInv' /\ allowlist' \in Seq(Tag)
    BY <1>1, <2>1, TakeMessageKeeps, ConfigAssumption
  <2>3. CteInv'
    BY <1>1, <2>1, <2>2, ResetKeeps
  <2>4. QED
    BY <1>1, <2>1, <2>2, <2>3 DEF HostInv
<1>3. CASE (OnConnect \/ OnDisconnect) /\ UNCHANGED <<ncpVars, cteVars, booted>>
  <2>1. MqttInv'
    BY <1>1, <1>3, OnConnectKeeps, OnDisconnectKeeps
  <2>2. CteInv'
    BY <1>1, <1>3, CteStutters
  <2>3. client # "none"
    BY <1>3 DEF OnConnect, OnDisconnect
  <2>4. QED
    BY <1>1, <2>1, <2>2, <2>3 DEF HostInv
<1>4. QED
  BY <1>2, <1>3 DEF MqttStep

LEMMA BrokerNextKeeps ==
  ASSUME HostInv, BrokerNext, UNCHANGED <<ncpVars, cteVars, booted>>
  PROVE  HostInv'
<1>1. CteInv' /\ MqttInv'
  BY CteStutters, BrokerKeeps DEF HostInv
<1>2. client' = client \/ client = "open"
  BY DEF BrokerNext, BrokerTakes, PublishConfig, ConnectionBreaks, BrokerReturns, clientVars
<1>3. QED
  BY <1>1, <1>2 DEF HostInv

LEMMA HostKeeps ==
  ASSUME HostInv, [Next]_vars
  PROVE  HostInv'
<1>1. CASE HandleEvent
  BY <1>1, HandleEventKeeps
<1>2. CASE MqttStep
  BY <1>2, MqttStepKeeps
<1>3. CASE alive /\ NcpNext /\ UNCHANGED <<cteVars, mqttVars, booted>>
  <2>1. CteInv' /\ MqttInv'
    BY <1>3, NcpKeeps, MqttStutters DEF HostInv
  <2>2. QED
    BY <1>3, <2>1 DEF HostInv, mqttVars
<1>4. CASE alive /\ BrokerNext /\ UNCHANGED <<ncpVars, cteVars, booted>>
  BY <1>4, BrokerNextKeeps
<1>5. CASE UNCHANGED vars
  <2>1. UNCHANGED <<ncpVars, cteVars, booted>> /\ UNCHANGED mqttVars
    BY <1>5 DEF vars
  <2>2. CteInv' /\ MqttInv'
    BY <2>1, CteStutters, MqttStutters DEF HostInv
  <2>3. QED
    BY <2>1, <2>2 DEF HostInv, mqttVars
<1>6. QED
  BY <1>1, <1>2, <1>3, <1>4, <1>5 DEF Next

LEMMA HostInvHolds == Spec => []HostInv
<1>1. HostInv /\ [Next]_vars => HostInv'
  BY HostKeeps
<1>2. QED
  BY <1>1, HostInitially, PTL DEF Spec

(* What is of the tags of a set is of some tag.                            *)
LEMMA WiderTypes ==
  ASSUME NEW T, T \subseteq Tag
  PROVE  /\ Records(T) \subseteq SyncRecord
         /\ MessagesOf(T) \subseteq Message
         /\ Entry(Sync, T) \subseteq Entry(Sync, Tag)
<1>1. FreeSync \in SyncRecord
  BY DEF FreeSync, SyncRecord
<1>2. [state : {"pending", "open"}, peer : T, cte : BOOLEAN] \subseteq SyncRecord
  BY DEF SyncRecord
<1>3. [type : SyncEventType, handle : Sync, tag : T] \subseteq [type : SyncEventType, handle : Sync, tag : Tag]
  OBVIOUS
<1>4. Entry(Sync, T) \subseteq Entry(Sync, Tag)
  BY DEF Entry
<1>5. MessagesOf(T) \subseteq Message
  BY <1>3, Zenon DEF MessagesOf, Message
<1>6. QED
  BY <1>1, <1>2, <1>4, <1>5 DEF Records

(* What TLC checks follows.                                                *)
LEMMA HostInvTypes == HostInv => TypeOK
<1> DEFINE T == AllowedBy(allowlist)
<1> SUFFICES ASSUME HostInv PROVE TypeOK
  OBVIOUS
<1>1. /\ FlagsType /\ MqttTypeOK
      /\ sync \in [Sync -> Records(T)] /\ evq \in Seq(MessagesOf(T)) /\ db \in Seq(Entry(Sync, T))
  BY DEF HostInv, CteInv, OnlyOf, MqttInv
<1>2. T \subseteq Tag
  BY DEF AllowedBy
<1> HIDE DEF T
<1>3. /\ Records(T) \subseteq SyncRecord /\ MessagesOf(T) \subseteq Message
      /\ Entry(Sync, T) \subseteq Entry(Sync, Tag)
  BY <1>2, WiderTypes
<1>4. sync \in [Sync -> SyncRecord]
  BY <1>1, <1>3
<1>5. evq \in Seq(Message)
  BY <1>1, <1>3, SeqMonotonic
<1>6. db \in Seq(Entry(Sync, Tag))
  BY <1>1, <1>3, SeqMonotonic
<1>7. QED
  BY <1>1, <1>4, <1>5, <1>6, FlagsFields DEF TypeOK, NcpTypeOK, CteTypeOK

LEMMA HostInvAllows == HostInv => OnlyAllowedTags
<1> DEFINE T == AllowedBy(allowlist)
<1> SUFFICES ASSUME HostInv, NEW i \in DOMAIN db
             PROVE  AllowlistFind(allowlist, db[i].address) # "NOT_FOUND"
  BY DEF OnlyAllowedTags
<1>1. db \in Seq(Entry(Sync, T))
  BY DEF HostInv, CteInv, OnlyOf
<1> HIDE DEF T
<1>2. db[i] \in Entry(Sync, T)
  BY <1>1, ElementOfSeq, LenProperties
<1>3. db[i].address \in T
  BY <1>2 DEF Entry
<1>4. QED
  BY <1>3 DEF T, AllowedBy

-----------------------------------------------------------------------------
(* The database and the synchronisations.                                  *)

(* No tag has two synchronisations, and samples are taken on open ones.    *)
SyncsInv(l) ==
  /\ \A s \in Sync : l[s].cte => l[s].state = "open"
  /\ \A r, s \in Sync : r # s /\ l[r].peer # NoTag => l[r].peer # l[s].peer

(* The tag each synchronisation is with, as the co-processor sees it.      *)
ViewOf(l) == [s \in Sync |-> IF l[s].state = "open" THEN l[s].peer ELSE NoTag]

(* The database, the events under way and the synchronisations agree.      *)
Agreed == Agree(Sync, Tag, NoTag, db, evq, ViewOf(sync))

FollowInv == SyncsInv(sync) /\ (~restarted => Agreed)

LEMMA HostFacts ==
  ASSUME HostInv
  PROVE  /\ sync \in [Sync -> SyncRecord] /\ evq \in Seq(MessagesOf(Tag))
         /\ db \in Seq(Entry(Sync, Tag)) /\ allowlist \in Seq(Tag)
         /\ scanning \in BOOLEAN /\ alive \in BOOLEAN /\ restarted \in BOOLEAN
         /\ \A s \in Sync : /\ sync[s].state = "free" <=> sync[s].peer = NoTag
                            /\ sync[s].peer \in Tag \cup {NoTag}
<1> DEFINE T == AllowedBy(allowlist)
<1>1. TypeOK
  BY HostInvTypes
<1>2. MessagesOf(Tag) = Message
  BY DEF MessagesOf, Message
<1>3. sync \in [Sync -> Records(T)] /\ T \subseteq Tag
  BY DEF HostInv, CteInv, OnlyOf, AllowedBy
<1> HIDE DEF T
<1>4. ASSUME NEW r \in Records(T)
      PROVE  (r.state = "free" <=> r.peer = NoTag) /\ r.peer \in Tag \cup {NoTag}
  <2>1. CASE r = FreeSync
    BY <2>1 DEF FreeSync
  <2>2. CASE r \in [state : {"pending", "open"}, peer : T, cte : BOOLEAN]
    BY <1>3, <2>2, NoTagAssumption
  <2>3. QED
    BY <2>1, <2>2 DEF Records
<1>5. QED
  BY <1>1, <1>2, <1>3, <1>4 DEF TypeOK, NcpTypeOK, CteTypeOK

LEMMA HandlesOfChanges ==
  ASSUME NEW q \in Seq(MessagesOf(Tag))
  PROVE  \A i \in DOMAIN q : q[i].type \in {"opened", "closed"} => q[i].handle \in Sync
<1>1. \A i \in DOMAIN q : q[i] \in MessagesOf(Tag)
  BY ElementOfSeq, LenProperties
<1>2. QED
  BY <1>1, MessageFields DEF SyncEventType

LEMMA EventFields ==
  ASSUME NEW type, NEW s, NEW t
  PROVE  /\ Event(type, s, t).type = type
         /\ Event(type, s, t).handle = s
         /\ Event(type, s, t).tag = t
  BY DEF Event

LEMMA ViewType ==
  ASSUME HostInv
  PROVE  ViewOf(sync) \in ViewsOf(Sync, Tag, NoTag)
  BY HostFacts DEF ViewOf, ViewsOf

(* After a reset, and before the first boot.                               *)
LEMMA NothingAgrees ==
  ASSUME NEW l, NEW q, l = [s \in Sync |-> FreeSync], q \in Seq({Boot})
  PROVE  SyncsInv(l) /\ Agree(Sync, Tag, NoTag, <<>>, q, ViewOf(l))
<1> DEFINE v == [s \in Sync |-> NoTag]
           V == ViewsOf(Sync, Tag, NoTag)
<1>1. \A s \in Sync : l[s] = FreeSync
  OBVIOUS
<1>2. FreeSync.state = "free" /\ FreeSync.cte = FALSE /\ FreeSync.peer = NoTag
  BY DEF FreeSync
<1>3. SyncsInv(l)
  BY <1>1, <1>2 DEF SyncsInv
<1>4. ViewOf(l) = v /\ v \in V
  BY <1>1, <1>2 DEF ViewOf, ViewsOf
<1>5. \A i \in DOMAIN q : q[i].type \in {"boot", "scan_report"}
  <2>1. \A i \in DOMAIN q : q[i] \in {Boot}
    BY ElementOfSeq, LenProperties
  <2>2. QED
    BY <2>1 DEF Boot
<1>6. Shows(<<>>, v, NoTag) /\ Distinct(v, NoTag)
  BY ShowsNothing
<1> HIDE DEF v, V
<1>7. Follows(V, NoTag, v, q, v)
  BY <1>4, <1>5, FollowsNothing
<1>8. QED
  BY <1>3, <1>4, <1>6, <1>7 DEF Agree, V

(* An event is emitted that fits what the co-processor has done.           *)
LEMMA EmittedAgrees ==
  ASSUME HostInv, FollowInv, NEW e \in MessagesOf(Tag), evq' = Append(evq, e),
         UNCHANGED <<db, restarted>>,
         Fits(ViewOf(sync), e, NoTag), ViewOf(sync') = After(ViewOf(sync), e, NoTag),
         ViewOf(sync') \in ViewsOf(Sync, Tag, NoTag)
  PROVE  ~restarted' => Agreed'
<1> SUFFICES ASSUME ~restarted' PROVE Agreed'
  OBVIOUS
<1>1. Agree(Sync, Tag, NoTag, db, evq, ViewOf(sync)) /\ evq \in Seq(MessagesOf(Tag))
  BY HostFacts DEF FollowInv, Agreed
<1>2. Agree(Sync, Tag, NoTag, db, Append(evq, e), After(ViewOf(sync), e, NoTag))
  BY <1>1, AgreeEmitted
<1>3. Agree(Sync, Tag, NoTag, db', evq', ViewOf(sync'))
  BY <1>2
<1>4. QED
  BY <1>3 DEF Agreed

LEMMA NcpAgrees ==
  ASSUME HostInv, FollowInv, NcpNext, UNCHANGED cteVars
  PROVE  FollowInv'
<1> DEFINE u == ViewOf(sync)
           V == ViewsOf(Sync, Tag, NoTag)
<1>1. /\ sync \in [Sync -> SyncRecord] /\ evq \in Seq(MessagesOf(Tag))
      /\ UNCHANGED <<alive, allowlist, db>>
      /\ \A s \in Sync : /\ sync[s].state = "free" <=> sync[s].peer = NoTag
                         /\ sync[s].peer \in Tag \cup {NoTag}
      /\ u \in V /\ SyncsInv(sync)
  BY HostFacts, ViewType DEF cteVars, FollowInv
<1>2. ASSUME NEW t \in Tag, Advertise(t) PROVE FollowInv'
  <2>1. /\ UNCHANGED <<sync, restarted>> /\ evq' = Append(evq, ScanReportOf(t))
        /\ ScanReportOf(t) \in MessagesOf(Tag) /\ ScanReportOf(t).type = "scan_report"
    BY <1>2, MessageFields DEF Advertise, Emit, ScanReportOf
  <2>2. Fits(u, ScanReportOf(t), NoTag) /\ After(u, ScanReportOf(t), NoTag) = u
    BY <2>1 DEF Fits, Tells, After
  <2> HIDE DEF u, V
  <2>3. ~restarted' => Agreed'
    BY <1>1, <2>1, <2>2, EmittedAgrees DEF u, V
  <2>4. QED
    BY <1>1, <2>1, <2>3 DEF FollowInv
<1>3. ASSUME NEW s \in Sync, Establish(s) PROVE FollowInv'
  <2> DEFINE t == sync[s].peer
             e == Event("opened", s, t)
  <2>1. /\ sync[s].state = "pending" /\ sync' = [sync EXCEPT ![s].state = "open"]
        /\ evq' = Append(evq, e) /\ restarted' = restarted /\ t \in Tag
    BY <1>1, <1>3 DEF Establish, Emit
  <2>2. /\ e \in MessagesOf(Tag) /\ e.type = "opened" /\ e.handle = s /\ e.tag = t
    BY <2>1, MessageFields, EventFields DEF SyncEventType
  <2> HIDE DEF e
  <2>3. /\ sync'[s].state = "open" /\ sync'[s].peer = t
        /\ \A r \in Sync : r # s => sync'[r] = sync[r]
    BY <1>1, <2>1 DEF SyncRecord
  <2>4. SyncsInv(sync')
    BY <1>1, <2>3 DEF SyncsInv
  <2>5. \A r \in Sync : u[r] = IF sync[r].state = "open" THEN sync[r].peer ELSE NoTag
    BY DEF ViewOf
  <2>6. t # NoTag /\ \A r \in Sync : r # s => sync[r].peer # t
    BY <1>1, <2>1, NoTagAssumption DEF SyncsInv
  <2>7. Fits(u, e, NoTag)
    <3>1. u[s] = NoTag /\ \A r \in Sync : u[r] # t
      BY <2>1, <2>5, <2>6
    <3>2. DOMAIN u = Sync
      BY DEF ViewOf
    <3>3. QED
      BY <2>2, <3>1, <3>2 DEF Fits, Tells
  <2>8. ViewOf(sync') = After(u, e, NoTag)
    <3>1. After(u, e, NoTag) = [r \in Sync |-> IF r = s THEN t ELSE u[r]]
      BY <2>2 DEF After, ViewOf
    <3>2. \A r \in Sync : ViewOf(sync')[r] = IF r = s THEN t ELSE u[r]
      BY <2>3 DEF ViewOf
    <3>3. QED
      BY <3>1, <3>2 DEF ViewOf
  <2>9. ViewOf(sync') \in V
    BY <1>1, <2>1, <2>3 DEF ViewOf, ViewsOf
  <2> HIDE DEF u, V, t
  <2>10. ~restarted' => Agreed'
    BY <1>1, <2>1, <2>2, <2>7, <2>8, <2>9, EmittedAgrees DEF u, V
  <2>11. QED
    BY <2>4, <2>10 DEF FollowInv
<1>4. ASSUME NEW s \in Sync, LoseSync(s) PROVE FollowInv'
  <2> DEFINE t == sync[s].peer
             e == Event("closed", s, t)
  <2>1. /\ sync[s].state # "free" /\ sync' = [sync EXCEPT ![s] = FreeSync]
        /\ evq' = Append(evq, e) /\ restarted' = restarted /\ t \in Tag
    BY <1>1, <1>4 DEF LoseSync, Emit
  <2>2. /\ e \in MessagesOf(Tag) /\ e.type = "closed" /\ e.handle = s /\ e.tag = t
    BY <2>1, MessageFields, EventFields DEF SyncEventType
  <2> HIDE DEF e
  <2>3. /\ sync'[s].state = "free" /\ sync'[s].peer = NoTag /\ sync'[s].cte = FALSE
        /\ \A r \in Sync : r # s => sync'[r] = sync[r]
    BY <1>1, <2>1 DEF FreeSync
  <2>4. SyncsInv(sync')
    BY <1>1, <2>3 DEF SyncsInv
  <2>5. Fits(u, e, NoTag)
    <3>1. u[s] \in {NoTag, t}
      BY DEF ViewOf
    <3>2. QED
      BY <2>2, <3>1 DEF Fits, Tells
  <2>6. ViewOf(sync') = After(u, e, NoTag)
    <3>1. After(u, e, NoTag) = [r \in Sync |-> IF r = s THEN NoTag ELSE u[r]]
      BY <2>2 DEF After, ViewOf
    <3>2. \A r \in Sync : ViewOf(sync')[r] = IF r = s THEN NoTag ELSE u[r]
      BY <2>3 DEF ViewOf
    <3>3. QED
      BY <3>1, <3>2 DEF ViewOf
  <2>7. ViewOf(sync') \in V
    BY <1>1, <2>3 DEF ViewOf, ViewsOf
  <2> HIDE DEF u, V, t
  <2>8. ~restarted' => Agreed'
    BY <1>1, <2>1, <2>2, <2>5, <2>6, <2>7, EmittedAgrees DEF u, V
  <2>9. QED
    BY <2>4, <2>8 DEF FollowInv
<1>5. ASSUME NEW s \in Sync, SampleCte(s) PROVE FollowInv'
  <2> DEFINE t == sync[s].peer
             e == Event("iq_report", s, t)
  <2>1. /\ sync[s].cte /\ UNCHANGED <<sync, restarted>> /\ evq' = Append(evq, e)
    BY <1>5 DEF SampleCte, Emit
  <2>2. sync[s].state = "open" /\ t \in Tag
    BY <1>1, <2>1 DEF SyncsInv
  <2>3. /\ e \in MessagesOf(Tag) /\ e.type = "iq_report" /\ e.handle = s /\ e.tag = t
    BY <2>2, MessageFields, EventFields DEF SyncEventType
  <2> HIDE DEF e
  <2>4. Fits(u, e, NoTag) /\ After(u, e, NoTag) = u
    <3>1. u[s] = t
      BY <2>2 DEF ViewOf
    <3>2. QED
      BY <2>3, <3>1 DEF Fits, Tells, After
  <2> HIDE DEF u, V, t
  <2>5. ~restarted' => Agreed'
    BY <1>1, <2>1, <2>3, <2>4, EmittedAgrees DEF u, V
  <2>6. QED
    BY <1>1, <2>1, <2>5 DEF FollowInv
<1>6. CASE Restart
  <2>1. restarted' = TRUE /\ sync' = [s \in Sync |-> FreeSync]
    BY <1>6 DEF Restart
  <2>2. SyncsInv(sync')
    BY <2>1, NothingAgrees, EmptySeq
  <2>3. QED
    BY <2>1, <2>2 DEF FollowInv
<1>7. QED
  BY <1>2, <1>3, <1>4, <1>5, <1>6 DEF NcpNext

(* An event is handled that opens and closes nothing.                      *)
LEMMA TakenAgrees ==
  ASSUME HostInv, FollowInv, evq # <<>>, evq' = Tail(evq),
         Head(evq).type \notin {"opened", "closed"},
         UNCHANGED <<db, restarted>>, ViewOf(sync') = ViewOf(sync)
  PROVE  ~restarted' => Agreed'
<1> SUFFICES ASSUME ~restarted' PROVE Agreed'
  OBVIOUS
<1>1. Agree(Sync, Tag, NoTag, db, evq, ViewOf(sync)) /\ evq \in Seq(MessagesOf(Tag))
  BY HostFacts DEF FollowInv, Agreed
<1>2. PICK v \in ViewsOf(Sync, Tag, NoTag) :
        /\ Shows(db, v, NoTag) /\ Distinct(v, NoTag)
        /\ Follows(ViewsOf(Sync, Tag, NoTag), NoTag, After(v, Head(evq), NoTag), Tail(evq), ViewOf(sync))
  BY <1>1, AgreeTaken
<1>3. After(v, Head(evq), NoTag) = v
  BY DEF After
<1>4. Agree(Sync, Tag, NoTag, db', evq', ViewOf(sync'))
  BY <1>2, <1>3 DEF Agree
<1>5. QED
  BY <1>4 DEF Agreed

(* The oldest event, with the parts of it that are used.                   *)
LEMMA TakenEvent ==
  ASSUME HostInv, NEW type, Receive(type)
  PROVE  /\ alive /\ evq # <<>> /\ evq' = Tail(evq) /\ Head(evq).type = type
         /\ UNCHANGED <<faults, restarted>>
         /\ type = "scan_report" => Head(evq).tag \in Tag
         /\ type \in SyncEventType => Head(evq).handle \in Sync /\ Head(evq).tag \in Tag
<1>1. /\ alive /\ evq # <<>> /\ evq' = Tail(evq) /\ Head(evq).type = type
      /\ UNCHANGED <<faults, restarted>>
  BY DEF Receive
<1>2. Head(evq) \in MessagesOf(Tag)
  BY <1>1, HostFacts, TakenQueue
<1>3. QED
  BY <1>1, <1>2, MessageFields

LEMMA QuietAgrees ==
  ASSUME HostInv, FollowInv, NEW type, type \notin {"opened", "closed"}, Receive(type),
         UNCHANGED <<sync, db>>
  PROVE  FollowInv'
<1>1. ~restarted' => Agreed'
  BY TakenEvent, TakenAgrees
<1>2. QED
  BY <1>1 DEF FollowInv

(* What a report of a tag does to the synchronisations.                    *)
LEMMA ScanReportChanges ==
  ASSUME HostInv, ScanReport
  PROVE  \/ sync' = sync /\ (scanning' = scanning \/ AtSyncLimit)
         \/ /\ scanning' = scanning
            /\ \E s \in Sync :
                 /\ sync[s].state = "free" /\ ~Attempted(Head(evq).tag)
                 /\ sync' = [sync EXCEPT ![s] = NewSync(Head(evq).tag)]
  BY DEF ScanReport, SyncOpen

LEMMA ScanReportAgrees ==
  ASSUME HostInv, FollowInv, ScanReport
  PROVE  FollowInv'
<1>1. /\ Receive("scan_report") /\ UNCHANGED db
  BY DEF ScanReport, cteVars
<1>2. CASE sync' = sync
  BY <1>1, <1>2, QuietAgrees
<1>3. ASSUME NEW s \in Sync, sync[s].state = "free", NEW t, t = Head(evq).tag, ~Attempted(t),
             sync' = [sync EXCEPT ![s] = NewSync(t)]
      PROVE  FollowInv'
  <2>1. sync \in [Sync -> SyncRecord] /\ SyncsInv(sync) /\ t \in Tag
    BY <1>1, <1>3, HostFacts, TakenEvent DEF FollowInv
  <2>2. /\ sync'[s].state = "pending" /\ sync'[s].peer = t /\ sync'[s].cte = FALSE
        /\ \A r \in Sync : r # s => sync'[r] = sync[r]
    BY <1>3, <2>1 DEF NewSync
  <2>3. \A r \in Sync : sync[r].peer # t
    BY <1>3 DEF Attempted
  <2>4. SyncsInv(sync')
    BY <2>1, <2>2, <2>3 DEF SyncsInv
  <2>5. ViewOf(sync') = ViewOf(sync)
    BY <1>3, <2>2 DEF ViewOf
  <2>6. ~restarted' => Agreed'
    BY <1>1, <2>5, TakenEvent, TakenAgrees
  <2>7. QED
    BY <2>4, <2>6 DEF FollowInv
<1>4. QED
  BY <1>2, <1>3, ScanReportChanges

(* The synchronisations after an opened event: the same ones.              *)
LEMMA SyncOpenedChanges ==
  ASSUME HostInv, SyncOpened
  PROVE  /\ \A s \in Sync : sync'[s].state = sync[s].state /\ sync'[s].peer = sync[s].peer
         /\ \A s \in Sync : sync'[s].cte => sync[s].cte \/ sync[s].state = "open"
<1>1. sync \in [Sync -> SyncRecord] /\ Head(evq).handle \in Sync
  BY HostFacts, TakenEvent DEF SyncOpened, SyncEventType
<1>2. CASE sync' = sync
  BY <1>2
<1>3. CASE /\ sync' = [sync EXCEPT ![Head(evq).handle].cte = TRUE]
           /\ sync[Head(evq).handle].state = "open"
  <2>1. \A s \in Sync : /\ s # Head(evq).handle => sync'[s] = sync[s]
                        /\ s = Head(evq).handle => sync'[s] = [sync[s] EXCEPT !.cte = TRUE]
    BY <1>1, <1>3
  <2>2. ASSUME NEW r \in SyncRecord
        PROVE  [r EXCEPT !.cte = TRUE].state = r.state /\ [r EXCEPT !.cte = TRUE].peer = r.peer
    BY DEF SyncRecord
  <2>3. QED
    BY <1>1, <1>3, <2>1, <2>2
<1>4. QED
  BY <1>2, <1>3 DEF SyncOpened

LEMMA SyncOpenedAgrees ==
  ASSUME HostInv, FollowInv, SyncOpened
  PROVE  FollowInv'
<1>1. PICK e : e = Head(evq)
  OBVIOUS
<1>2. /\ evq # <<>> /\ evq' = Tail(evq) /\ e.type = "opened" /\ restarted' = restarted
      /\ e.handle \in Sync /\ e.tag \in Tag
      /\ db' = AddTag(db, e.handle, e.tag)
  BY <1>1, TakenEvent DEF SyncOpened, SyncEventType
<1>3. SyncsInv(sync') /\ ViewOf(sync') = ViewOf(sync)
  BY SyncOpenedChanges DEF SyncsInv, ViewOf, FollowInv
<1>4. ASSUME ~restarted' PROVE Agreed'
  <2>1. /\ Agree(Sync, Tag, NoTag, db, evq, ViewOf(sync)) /\ evq \in Seq(MessagesOf(Tag))
        /\ db \in Seq(Entry(Sync, Tag))
    BY <1>2, <1>4, HostFacts DEF FollowInv, Agreed
  <2>2. PICK v \in ViewsOf(Sync, Tag, NoTag) :
          /\ Shows(db, v, NoTag) /\ Distinct(v, NoTag) /\ Fits(v, e, NoTag)
          /\ Follows(ViewsOf(Sync, Tag, NoTag), NoTag, After(v, e, NoTag), Tail(evq), ViewOf(sync))
    BY <1>1, <1>2, <2>1, AgreeTaken
  <2>3. /\ After(v, e, NoTag) \in ViewsOf(Sync, Tag, NoTag)
        /\ Shows(db', After(v, e, NoTag), NoTag)
        /\ Distinct(After(v, e, NoTag), NoTag)
    BY <1>2, <2>1, <2>2, ShowsOpened, NoTagAssumption
  <2>4. Agree(Sync, Tag, NoTag, db', evq', ViewOf(sync'))
    BY <1>2, <1>3, <2>2, <2>3 DEF Agree
  <2>5. QED
    BY <2>4 DEF Agreed
<1>5. QED
  BY <1>3, <1>4 DEF FollowInv

LEMMA SyncClosedAgrees ==
  ASSUME HostInv, FollowInv, SyncClosed
  PROVE  FollowInv'
<1>1. PICK e : e = Head(evq)
  OBVIOUS
<1>2. /\ evq # <<>> /\ evq' = Tail(evq) /\ e.type = "closed" /\ restarted' = restarted
      /\ e.handle \in Sync /\ sync' = sync
      /\ db' = RemoveTag(db, e.handle)
  BY <1>1, TakenEvent DEF SyncClosed, SyncEventType
<1>3. ASSUME ~restarted' PROVE Agreed'
  <2>1. /\ Agree(Sync, Tag, NoTag, db, evq, ViewOf(sync)) /\ evq \in Seq(MessagesOf(Tag))
        /\ db \in Seq(Entry(Sync, Tag))
    BY <1>2, <1>3, HostFacts DEF FollowInv, Agreed
  <2>2. PICK v \in ViewsOf(Sync, Tag, NoTag) :
          /\ Shows(db, v, NoTag) /\ Distinct(v, NoTag)
          /\ Follows(ViewsOf(Sync, Tag, NoTag), NoTag, After(v, e, NoTag), Tail(evq), ViewOf(sync))
    BY <1>1, <1>2, <2>1, AgreeTaken
  <2>3. /\ After(v, e, NoTag) \in ViewsOf(Sync, Tag, NoTag)
        /\ Shows(db', After(v, e, NoTag), NoTag)
        /\ Distinct(After(v, e, NoTag), NoTag)
    BY <1>2, <2>1, <2>2, ShowsClosed
  <2>4. Agree(Sync, Tag, NoTag, db', evq', ViewOf(sync'))
    BY <1>2, <2>2, <2>3 DEF Agree
  <2>5. QED
    BY <2>4 DEF Agreed
<1>4. QED
  BY <1>2, <1>3 DEF FollowInv

LEMMA ResetAgrees ==
  ASSUME Reset, db' = <<>>
  PROVE  FollowInv'
<1>1. sync' = [s \in Sync |-> FreeSync] /\ evq' \in Seq({Boot}) /\ db' = <<>>
  BY BootsInSeq DEF Reset
<1>2. SyncsInv(sync') /\ Agree(Sync, Tag, NoTag, <<>>, evq', ViewOf(sync'))
  BY <1>1, NothingAgrees
<1>3. QED
  BY <1>1, <1>2 DEF FollowInv, Agreed

LEMMA FollowInitially == Init => FollowInv
<1> SUFFICES ASSUME Init PROVE FollowInv
  OBVIOUS
<1>1. sync = [s \in Sync |-> FreeSync] /\ evq \in Seq({Boot}) /\ db = <<>>
  BY BootsInSeq DEF Init, NcpInit, CteInit
<1>2. SyncsInv(sync) /\ Agree(Sync, Tag, NoTag, <<>>, evq, ViewOf(sync))
  BY <1>1, NothingAgrees
<1>3. QED
  BY <1>1, <1>2 DEF FollowInv, Agreed

LEMMA SameFollows ==
  ASSUME FollowInv, UNCHANGED <<sync, evq, db, restarted>>
  PROVE  FollowInv'
  BY DEF FollowInv, Agreed

LEMMA FollowKeeps ==
  ASSUME HostInv, FollowInv, [Next]_vars
  PROVE  FollowInv'
<1>1. CASE HandleEvent
  <2>1. CASE FirstBoot \/ LaterBoot
    <3>1. Receive("boot") /\ UNCHANGED <<sync, db>>
      BY <2>1 DEF FirstBoot, LaterBoot
    <3>2. QED
      BY <3>1, QuietAgrees
  <2>2. ASSUME NEW published \in PublishResults, IqReport(published) PROVE FollowInv'
    <3>1. Receive("iq_report") /\ UNCHANGED <<sync, db>>
      BY <2>2 DEF IqReport
    <3>2. QED
      BY <3>1, QuietAgrees
  <2>3. QED
    BY <1>1, <2>1, <2>2, ScanReportAgrees, SyncOpenedAgrees, SyncClosedAgrees DEF HandleEvent
<1>2. CASE MqttStep
  <2>1. CASE OnConfigMessage
    BY <2>1, ResetAgrees DEF OnConfigMessage
  <2>2. CASE UNCHANGED <<ncpVars, cteVars, booted>>
    BY <2>2, SameFollows DEF ncpVars, cteVars
  <2>3. QED
    BY <1>2, <2>1, <2>2 DEF MqttStep
<1>3. CASE NcpNext /\ UNCHANGED <<cteVars, mqttVars, booted>>
  BY <1>3, NcpAgrees
<1>4. CASE UNCHANGED <<ncpVars, cteVars, booted>>
  BY <1>4, SameFollows DEF ncpVars, cteVars
<1>5. QED
  BY <1>1, <1>2, <1>3, <1>4 DEF Next, vars

-----------------------------------------------------------------------------
(* The scanner.                                                            *)

OneOfEach(d) == \A i, j \in DOMAIN d : i # j => d[i].address # d[j].address

AllPresent(d, a) == \A k \in DOMAIN a : \E i \in DOMAIN d : d[i].address = a[k]

AllowedOnly(d, a) == \A i \in DOMAIN d : \E k \in DOMAIN a : a[k] = d[i].address

(* Entries of different tags of the allowlist, as many as it is long, are  *)
(* entries of all of them.                                                 *)
LEMMA AllFound ==
  ASSUME NEW d, NEW a, NEW n \in Nat, DOMAIN d = 1 .. n, DOMAIN a = 1 .. n,
         AllowedOnly(d, a), OneOfEach(d)
  PROVE  AllPresent(d, a)
<1> DEFINE f == [i \in 1 .. n |-> CHOOSE k \in 1 .. n : a[k] = d[i].address]
<1>1. n \in Nat /\ DOMAIN d = 1 .. n /\ DOMAIN a = 1 .. n
  OBVIOUS
<1>2. ASSUME NEW i \in 1 .. n PROVE f[i] \in 1 .. n /\ a[f[i]] = d[i].address
  <2>1. \E k \in 1 .. n : a[k] = d[i].address
    BY <1>1 DEF AllowedOnly
  <2>2. f[i] = CHOOSE k \in 1 .. n : a[k] = d[i].address
    OBVIOUS
  <2> HIDE DEF f
  <2>3. QED
    BY <2>1, <2>2
<1>3. f \in [1 .. n -> 1 .. n]
  BY <1>2
<1> HIDE DEF f
<1>4. ASSUME NEW i \in 1 .. n, NEW j \in 1 .. n, f[i] = f[j] PROVE i = j
  <2>1. d[i].address = d[j].address
    BY <1>2, <1>4
  <2>2. i \in DOMAIN d /\ j \in DOMAIN d
    BY <1>1
  <2>3. QED
    BY <2>1, <2>2 DEF OneOfEach
<1>5. f \in Injection(1 .. n, 1 .. n)
  BY <1>3, <1>4 DEF Injection, IsInjective
<1>6. f \in Surjection(1 .. n, 1 .. n)
  BY <1>1, <1>5, FS_Injection, FS_Interval
<1>7. \A k \in 1 .. n : \E i \in 1 .. n : f[i] = k
  BY <1>6 DEF Surjection
<1>8. ASSUME NEW k \in DOMAIN a PROVE \E i \in DOMAIN d : d[i].address = a[k]
  <2>1. PICK i \in 1 .. n : f[i] = k
    BY <1>1, <1>7
  <2>2. d[i].address = a[k]
    BY <1>2, <2>1
  <2>3. QED
    BY <1>1, <2>2
<1>9. QED
  BY <1>8 DEF AllPresent

(* An event under way that will start the scanner again.                   *)
WillStart(q) == In(Boot, q) \/ \E s \in Sync : About(q, {"closed"}, s)

(* Why a scanner may be off: StopsOnlyWhenDone, of the events under way,   *)
(* the synchronisations and the allowlist.                                 *)
Done(q, l, a) ==
  \/ WillStart(q)
  \/ \A s \in Sync : l[s].state # "free"
  \/ a # <<>> /\ \A i \in DOMAIN a : \E s \in Sync : l[s].state = "open" /\ l[s].peer = a[i]

LEMMA CountedIsIn ==
  ASSUME NEW S, NEW q \in Seq(S), NEW m
  PROVE  Cardinality({i \in DOMAIN q : q[i] = m}) > 0 <=> In(m, q)
<1> DEFINE I == {i \in DOMAIN q : q[i] = m}
<1>1. DOMAIN q = 1 .. Len(q) /\ Len(q) \in Nat
  BY LenProperties
<1>2. IsFiniteSet(1 .. Len(q)) /\ I \in SUBSET (1 .. Len(q))
  BY <1>1, FS_Interval
<1>3. In(m, q) <=> I # {}
  BY DEF In
<1> HIDE DEF I
<1>4. IsFiniteSet(I)
  BY <1>2, FS_Subset
<1>5. Cardinality(I) \in Nat /\ (Cardinality(I) = 0 <=> I = {})
  BY <1>4, FS_CardinalityType, FS_EmptySet
<1>6. Cardinality(I) > 0 <=> In(m, q)
  BY <1>3, <1>5
<1>7. QED
  BY <1>6 DEF I

LEMMA DoneNow ==
  ASSUME HostInv
  PROVE  StopsOnlyWhenDone <=> (alive /\ ~scanning => Done(evq, sync, allowlist))
<1>1. BootPending <=> In(Boot, evq)
  BY HostFacts, CountedIsIn DEF BootPending, Waiting
<1>2. ClosedPending <=> \E s \in Sync : About(evq, {"closed"}, s)
  BY DEF ClosedPending, Pending, About
<1>3. QED
  BY <1>1, <1>2 DEF StopsOnlyWhenDone, Done, WillStart, AtSyncLimit, Synced

(* The same of the next state.                                             *)
LEMMA DoneNext ==
  ASSUME HostInv'
  PROVE  StopsOnlyWhenDone' <=> (alive' /\ ~scanning' => Done(evq', sync', allowlist'))
<1>1. HostInv' => TypeOK'
  BY HostInvTypes, PTL
<1>2. evq' \in Seq(Message)
  BY <1>1 DEF TypeOK, NcpTypeOK
<1>3. BootPending' <=> In(Boot, evq')
  BY <1>2, CountedIsIn DEF BootPending, Waiting
<1>4. ClosedPending' <=> \E s \in Sync : About(evq', {"closed"}, s)
  BY DEF ClosedPending, Pending, About
<1>5. QED
  BY <1>3, <1>4 DEF StopsOnlyWhenDone, Done, WillStart, AtSyncLimit, Synced

LEMMA StartsAdded ==
  ASSUME NEW q \in Seq(MessagesOf(Tag)), NEW e \in MessagesOf(Tag)
  PROVE  /\ WillStart(q) => WillStart(Append(q, e))
         /\ e.type = "closed" => WillStart(Append(q, e))
<1>1. \A s : About(Append(q, e), {"closed"}, s) <=>
               About(q, {"closed"}, s) \/ (e.type \in {"closed"} /\ e.handle = s)
  BY AboutAppended
<1>2. In(Boot, q) => In(Boot, Append(q, e))
  BY AppendedQueue
<1>3. e.type = "closed" => e.handle \in Sync
  BY MessageFields DEF SyncEventType
<1>4. QED
  BY <1>1, <1>2, <1>3 DEF WillStart

LEMMA StartsTaken ==
  ASSUME NEW q \in Seq(MessagesOf(Tag)), q # <<>>, Head(q).type \notin {"boot", "closed"},
         WillStart(q)
  PROVE  WillStart(Tail(q))
<1>1. \A s : About(q, {"closed"}, s) <=>
               (Head(q).type \in {"closed"} /\ Head(q).handle = s) \/ About(Tail(q), {"closed"}, s)
  BY AboutTaken
<1>2. In(Boot, q) => In(Boot, Tail(q))
  BY TakenQueue, MessageFields
<1>3. QED
  BY <1>1, <1>2 DEF WillStart

(* When as many tags are known as are allowed, all of them are: those      *)
(* whose synchronisation is gone have a closed event under way.            *)
LEMMA AllFoundIsDone ==
  ASSUME NEW a \in Seq(Tag), NEW d \in Seq(Entry(Sync, AllowedBy(a))), Len(a) > 0, Len(d) = Len(a),
         NEW q \in Seq(MessagesOf(Tag)), NEW l, Agree(Sync, Tag, NoTag, d, q, ViewOf(l))
  PROVE  Done(q, l, a)
<1> DEFINE T == AllowedBy(a)
           V == ViewsOf(Sync, Tag, NoTag)
<1>1. a # <<>>
  BY EmptySeq
<1>2. \A t \in T : \E k \in DOMAIN a : a[k] = t
  BY <1>1 DEF AllowedBy, AllowlistFind, Contains
<1>3. \A i \in DOMAIN d : d[i].address \in T /\ d[i].handle \in Sync
  <2> HIDE DEF T
  <2>1. \A i \in DOMAIN d : d[i] \in Entry(Sync, T)
    BY ElementOfSeq, LenProperties DEF T
  <2>2. QED
    BY <2>1 DEF Entry
<1>4. PICK v \in V : /\ Shows(d, v, NoTag) /\ Distinct(v, NoTag)
                     /\ Follows(V, NoTag, v, q, ViewOf(l))
  BY DEF Agree
<1>5. OneOfEach(d)
  BY <1>4, ShowsOneAddressEach DEF OneOfEach
<1>6. AllowedOnly(d, a)
  BY <1>2, <1>3 DEF AllowedOnly
<1> HIDE DEF T, V
<1>7. DOMAIN d = 1 .. Len(a) /\ DOMAIN a = 1 .. Len(a) /\ Len(a) \in Nat
  BY LenProperties
<1>8. AllPresent(d, a)
  BY <1>5, <1>6, <1>7, AllFound
<1>9. ASSUME ~WillStart(q), NEW k \in DOMAIN a
      PROVE  \E s \in Sync : l[s].state = "open" /\ l[s].peer = a[k]
  <2>1. PICK i \in DOMAIN d : d[i].address = a[k]
    BY <1>8 DEF AllPresent
  <2>2. PICK s \in Sync : s = d[i].handle
    BY <1>3
  <2>3. v[s] = a[k] /\ v[s] # NoTag
    BY <1>4, <2>1, <2>2 DEF Shows
  <2>4. ~About(q, {"closed"}, s)
    BY <1>9 DEF WillStart
  <2>5. ViewOf(l)[s] = v[s]
    BY <1>4, <2>3, <2>4, NoChange, HandlesOfChanges DEF V
  <2>6. QED
    BY <2>3, <2>5 DEF ViewOf
<1>10. QED
  BY <1>1, <1>9 DEF Done

(* The scanner keeps running, or off with a reason.                        *)
LEMMA NcpScanner ==
  ASSUME HostInv, HostInv', FollowInv, ScannerNeverStranded, NcpNext, UNCHANGED cteVars
  PROVE  ScannerNeverStranded'
<1> SUFFICES ASSUME ~restarted', alive', ~scanning' PROVE Done(evq', sync', allowlist')
  BY DoneNext DEF ScannerNeverStranded
<1>1. /\ sync \in [Sync -> SyncRecord] /\ evq \in Seq(MessagesOf(Tag))
      /\ UNCHANGED <<alive, allowlist, db>>
      /\ \A s \in Sync : /\ sync[s].state = "free" <=> sync[s].peer = NoTag
                         /\ sync[s].peer \in Tag \cup {NoTag}
  BY HostFacts DEF cteVars
<1>2. ASSUME ~restarted, scanning' = scanning
      PROVE  Done(evq, sync, allowlist)
  BY <1>1, <1>2, DoneNow DEF ScannerNeverStranded
<1>3. ASSUME NEW e \in MessagesOf(Tag), evq' = Append(evq, e), restarted' = restarted,
             scanning' = scanning, sync' = sync
      PROVE  Done(evq', sync', allowlist')
  <2>1. Done(evq, sync, allowlist) /\ (WillStart(evq) => WillStart(evq'))
    BY <1>1, <1>2, <1>3, StartsAdded
  <2>2. QED
    BY <1>1, <1>3, <2>1 DEF Done
<1>4. ASSUME NEW t \in Tag, Advertise(t) PROVE Done(evq', sync', allowlist')
  BY <1>3, <1>4, MessageFields DEF Advertise, Emit
<1>5. ASSUME NEW s \in Sync, Establish(s) PROVE Done(evq', sync', allowlist')
  <2> DEFINE e == Event("opened", s, sync[s].peer)
  <2>1. /\ sync[s].state = "pending" /\ sync' = [sync EXCEPT ![s].state = "open"]
        /\ evq' = Append(evq, e) /\ UNCHANGED <<scanning, restarted>>
    BY <1>5 DEF Establish, Emit
  <2>2. e \in MessagesOf(Tag)
    BY <1>1, <2>1, MessageFields DEF SyncEventType
  <2>3. /\ sync'[s].state = "open" /\ \A r \in Sync : r # s => sync'[r] = sync[r]
    BY <1>1, <2>1 DEF SyncRecord
  <2> HIDE DEF e
  <2>4. Done(evq, sync, allowlist) /\ (WillStart(evq) => WillStart(evq'))
    BY <1>1, <1>2, <2>1, <2>2, StartsAdded
  <2>5. QED
    BY <1>1, <2>1, <2>3, <2>4 DEF Done
<1>6. ASSUME NEW s \in Sync, LoseSync(s) PROVE Done(evq', sync', allowlist')
  <2> DEFINE e == Event("closed", s, sync[s].peer)
  <2>1. sync[s].state # "free" /\ evq' = Append(evq, e)
    BY <1>6 DEF LoseSync, Emit
  <2>2. e \in MessagesOf(Tag) /\ e.type = "closed"
    BY <1>1, <2>1, MessageFields, EventFields DEF SyncEventType
  <2> HIDE DEF e
  <2>3. WillStart(evq')
    BY <1>1, <2>1, <2>2, StartsAdded
  <2>4. QED
    BY <2>3 DEF Done
<1>7. ASSUME NEW s \in Sync, SampleCte(s) PROVE Done(evq', sync', allowlist')
  <2> DEFINE e == Event("iq_report", s, sync[s].peer)
  <2>1. sync[s].cte /\ evq' = Append(evq, e) /\ UNCHANGED <<scanning, sync, restarted>>
    BY <1>7 DEF SampleCte, Emit
  <2>2. e \in MessagesOf(Tag)
    BY <1>1, <1>7, <2>1, MessageFields DEF SyncEventType, FollowInv, SyncsInv
  <2>3. QED
    BY <1>3, <2>1, <2>2
<1>8. CASE Restart
  BY <1>8 DEF Restart
<1>9. QED
  BY <1>4, <1>5, <1>6, <1>7, <1>8 DEF NcpNext

LEMMA HandlerScanner ==
  ASSUME HostInv, HostInv', FollowInv, FollowInv', ScannerNeverStranded, HandleEvent
  PROVE  ScannerNeverStranded'
<1> SUFFICES ASSUME ~restarted', alive', ~scanning' PROVE Done(evq', sync', allowlist')
  BY DoneNext DEF ScannerNeverStranded
<1>1. evq \in Seq(MessagesOf(Tag))
  BY HostFacts
<1>2. ASSUME NEW type, Receive(type), type \notin {"boot", "closed"}, ~scanning, allowlist' = allowlist
      PROVE  /\ Done(evq, sync, allowlist) /\ (WillStart(evq) => WillStart(evq'))
  <2>1. alive /\ ~restarted /\ evq # <<>> /\ evq' = Tail(evq) /\ Head(evq).type = type
    BY <1>2, TakenEvent
  <2>2. Done(evq, sync, allowlist)
    BY <1>2, <2>1, DoneNow DEF ScannerNeverStranded
  <2>3. QED
    BY <1>1, <1>2, <2>1, <2>2, StartsTaken
<1>3. CASE FirstBoot \/ LaterBoot \/ SyncClosed
  BY <1>3 DEF FirstBoot, LaterBoot, SyncClosed, StartScanner, Return
<1>4. CASE ScanReport
  <2>1. Receive("scan_report") /\ allowlist' = allowlist
    BY <1>4 DEF ScanReport, cteVars
  <2>2. CASE sync' = sync /\ AtSyncLimit
    BY <2>2 DEF Done, AtSyncLimit
  <2>3. CASE sync' = sync /\ scanning' = scanning
    <3>1. Done(evq, sync, allowlist) /\ (WillStart(evq) => WillStart(evq'))
      BY <1>2, <2>1, <2>3
    <3>2. QED
      BY <2>1, <2>3, <3>1 DEF Done
  <2>4. ASSUME scanning' = scanning, NEW s \in Sync, sync[s].state = "free",
               sync' = [sync EXCEPT ![s] = NewSync(Head(evq).tag)]
        PROVE  Done(evq', sync', allowlist')
    <3>1. Done(evq, sync, allowlist) /\ (WillStart(evq) => WillStart(evq'))
      BY <1>2, <2>1, <2>4
    <3>2. \A r \in Sync : sync[r].state = "open" => sync'[r] = sync[r]
      BY <2>4, HostFacts
    <3>3. QED
      BY <2>1, <2>4, <3>1, <3>2 DEF Done
  <2>5. QED
    BY <1>4, <2>2, <2>3, <2>4, ScanReportChanges
<1>5. CASE SyncOpened
  <2>1. /\ Receive("opened") /\ allowlist' = allowlist
        /\ scanning => AllAllowedFound(db')
    BY <1>5 DEF SyncOpened
  <2>2. CASE ~scanning
    <3>1. Done(evq, sync, allowlist) /\ (WillStart(evq) => WillStart(evq'))
      BY <1>2, <2>1, <2>2
    <3>2. \A s \in Sync : sync'[s].state = sync[s].state /\ sync'[s].peer = sync[s].peer
      BY <1>5, SyncOpenedChanges
    <3>3. QED
      BY <2>1, <3>1, <3>2 DEF Done
  <2>3. CASE scanning
    <3>1. Len(allowlist) > 0 /\ Len(db') = Len(allowlist)
      BY <2>1, <2>3 DEF AllAllowedFound, AllowlistSize, NumberOfTags
    <3>2. db' \in Seq(Entry(Sync, AllowedBy(allowlist))) /\ allowlist \in Seq(Tag)
      BY <2>1, HostFacts DEF HostInv, CteInv, OnlyOf, AllowedBy
    <3>3. Agree(Sync, Tag, NoTag, db', evq', ViewOf(sync'))
      BY DEF FollowInv, Agreed
    <3>4. evq' \in Seq(MessagesOf(Tag))
      BY <1>1, <2>1, TakenEvent, TakenQueue
    <3>5. Done(evq', sync', allowlist)
      BY <3>1, <3>2, <3>3, <3>4, AllFoundIsDone
    <3>6. QED
      BY <2>1, <3>5
  <2>4. QED
    BY <2>2, <2>3
<1>6. ASSUME NEW published \in PublishResults, IqReport(published)
      PROVE  Done(evq', sync', allowlist')
  <2>1. Receive("iq_report") /\ UNCHANGED <<scanning, sync, allowlist>>
    BY <1>6 DEF IqReport
  <2>2. Done(evq, sync, allowlist) /\ (WillStart(evq) => WillStart(evq'))
    BY <1>2, <2>1
  <2>3. QED
    BY <2>1, <2>2 DEF Done
<1>7. QED
  BY <1>3, <1>4, <1>5, <1>6 DEF HandleEvent

LEMMA ScannerKeeps ==
  ASSUME HostInv, HostInv', FollowInv, FollowInv', ScannerNeverStranded, [Next]_vars
  PROVE  ScannerNeverStranded'
<1>1. ASSUME UNCHANGED <<ncpVars, cteVars, booted>> PROVE ScannerNeverStranded'
  <2>1. UNCHANGED <<scanning, sync, evq, restarted, alive, allowlist>>
    BY <1>1 DEF ncpVars, cteVars
  <2>2. ~restarted' /\ alive' /\ ~scanning' => Done(evq', sync', allowlist')
    BY <2>1, DoneNow DEF ScannerNeverStranded
  <2>3. QED
    BY <2>2, DoneNext DEF ScannerNeverStranded
<1>2. CASE OnConfigMessage
  <2>1. evq' = <<Boot>> \/ evq' = <<Boot, Boot>>
    BY <1>2 DEF OnConfigMessage, Reset
  <2>2. In(Boot, evq')
    BY <2>1, 1 \in DOMAIN evq', evq'[1] = Boot DEF In
  <2>3. Done(evq', sync', allowlist')
    BY <2>2 DEF Done, WillStart
  <2>4. QED
    BY <2>3, DoneNext DEF ScannerNeverStranded
<1>3. QED
  BY <1>1, <1>2, NcpScanner, HandlerScanner DEF Next, MqttStep, vars

(* What holds of the host as a whole.                                      *)
WholeInv == HostInv /\ FollowInv /\ ScannerNeverStranded

LEMMA ScannerInitially == Init => ScannerNeverStranded
<1> SUFFICES ASSUME Init PROVE ScannerNeverStranded
  OBVIOUS
<1>1. evq = <<Boot>> /\ HostInv
  BY HostInitially DEF Init, NcpInit
<1>2. In(Boot, evq)
  BY <1>1, 1 \in DOMAIN evq, evq[1] = Boot DEF In
<1>3. QED
  BY <1>1, <1>2, DoneNow DEF ScannerNeverStranded, Done, WillStart

LEMMA WholeInvHolds == Spec => []WholeInv
<1>1. Init => WholeInv
  BY HostInitially, FollowInitially, ScannerInitially DEF WholeInv
<1>2. WholeInv /\ [Next]_vars => WholeInv'
  BY HostKeeps, FollowKeeps, ScannerKeeps DEF WholeInv
<1>3. QED
  BY <1>1, <1>2, PTL DEF Spec

-----------------------------------------------------------------------------
(* What follows.                                                           *)

(* The variables of the host, of the co-processor and of the broker always *)
(* have their types: no event, no entry and no packet is ever of another   *)
(* kind, however the faults, the resets and the outages interleave.        *)
THEOREM TypeCorrect == Spec => []TypeOK
  BY HostInvHolds, HostInvTypes, PTL

(* The database never holds a tag that the allowlist in force excludes     *)
(* (OnlyAllowedTags): parse_config and ncp_reset together leave nothing    *)
(* behind from which an entry of the time before could still be made.      *)
THEOREM AllowedAlways == Spec => []OnlyAllowedTags
  BY HostInvHolds, HostInvAllows, PTL

(* Whenever the connection is open and quiet, the broker has exactly the   *)
(* subscriptions of head_topic (SubscriptionsSettle): mqtt_on_connect      *)
(* renews all of them after every loss of the connection.                  *)
THEOREM SubscriptionsAlways == Spec => []SubscriptionsSettle
<1>1. HostInv => SubscriptionsSettle
  BY MqttInvSettles DEF HostInv
<1>2. QED
  BY <1>1, HostInvHolds, PTL

(* Unless the co-processor has restarted by itself, the database follows   *)
(* the synchronisations (DbFollowsSyncs): once the events under way are    *)
(* handled it has an entry for each one that is open, and no other.        *)
THEOREM DbIsFaithful == Spec => []DbFollowsSyncs
<1>1. WholeInv => DbFollowsSyncs
  <2> SUFFICES ASSUME WholeInv, ~restarted, NEW s \in Sync
               PROVE  Settled(s) = IF sync[s].state = "open" THEN sync[s].peer ELSE NoTag
    BY DEF DbFollowsSyncs
  <2>1. /\ db \in Seq(Entry(Sync, Tag)) /\ evq \in Seq(MessagesOf(Tag))
        /\ Agree(Sync, Tag, NoTag, db, evq, ViewOf(sync))
    BY HostFacts DEF WholeInv, FollowInv, Agreed
  <2>2. SettledIn(db, evq, s, NoTag) = ViewOf(sync)[s]
    BY <2>1, AgreeSettles, HandlesOfChanges
  <2>3. Settled(s) = SettledIn(db, evq, s, NoTag)
    BY DEF Settled, SettledIn, Pending
  <2>4. QED
    BY <2>2, <2>3 DEF ViewOf
<1>2. QED
  BY <1>1, WholeInvHolds, PTL

(* Unless the co-processor has restarted by itself, a scanner that is off, *)
(* and that no event under way will start, has nothing left to find        *)
(* (ScannerNeverStranded): the handler counts entries, and the count is    *)
(* that of the allowlist only when every allowed tag is among them.        *)
THEOREM ScannerComesBack == Spec => []ScannerNeverStranded
<1>1. WholeInv => ScannerNeverStranded
  BY DEF WholeInv
<1>2. QED
  BY <1>1, WholeInvHolds, PTL

-----------------------------------------------------------------------------
(* When the program does not end.                                          *)

(* No synchronisation was lost, the co-processor did not restart by        *)
(* itself, no connection to the broker was lost, and there was one         *)
(* configuration at most.                                                  *)
Quiet == faults = 0 /\ outages = 0 /\ configs <= 1

ConfigIn(q) == \E i \in DOMAIN q : q[i].type = "config"

OneConfig(q) == \A i, j \in DOMAIN q : q[i].type = "config" /\ q[j].type = "config" => i = j

(* A boot event is the only event under way, of a co-processor that has    *)
(* done nothing yet; after the first one it is that of the reset which the *)
(* one configuration asked for.                                            *)
BootComesAlone ==
  In(Boot, evq) =>
    /\ evq = <<Boot>>
    /\ ~scanning
    /\ \A s \in Sync : sync[s] = FreeSync
    /\ client = "open" => configs # 0 /\ ~ConfigIn(toClient)

(* A synchronisation whose opened event is under way is still there.       *)
OpenedIsOpen ==
  \A e : In(e, evq) /\ e.type = "opened" => sync[e.handle].state = "open"

CalmBroker ==
  /\ client \in {"none", "open"}
  /\ booted <=> client = "open"
  /\ client = "none" => In(Boot, evq) /\ toClient = <<>>
  /\ OneConfig(toClient)
  /\ configs = 0 => ~ConfigIn(toClient)

Calm == BootComesAlone /\ OpenedIsOpen /\ CalmBroker

(* The program runs calmly, or ended when it found no broker.              *)
QuietInv == Quiet => IF alive THEN Calm ELSE client = "none"

LEMMA QuietBefore ==
  ASSUME HostInv, Next, Quiet'
  PROVE  /\ Quiet
         /\ ~\E stays \in BOOLEAN : ConnectionBreaks(stays)
         /\ ~Restart /\ \A s \in Sync : ~LoseSync(s)
<1>1. faults \in Nat /\ outages \in Nat /\ configs \in Nat
  BY HostInvTypes, BoundsAssumption, MqttAssumption DEF TypeOK, NcpTypeOK, MqttTypeOK
<1>2. CASE HandleEvent
  <2>1. UNCHANGED faults
    BY <1>2 DEF HandleEvent, FirstBoot, LaterBoot, ScanReport, SyncOpened, SyncClosed,
                IqReport, Receive
  <2>2. UNCHANGED <<outages, configs>>
    BY <1>2 DEF HandleEvent, FirstBoot, LaterBoot, InitAndSubscribe, mqttVars
  <2>3. QED
    BY <1>1, <2>1, <2>2 DEF Quiet, ConnectionBreaks, Restart, LoseSync
<1>3. CASE MqttStep
  <2>1. UNCHANGED faults
    BY <1>3 DEF MqttStep, OnConfigMessage, Reset, ncpVars
  <2>2. UNCHANGED <<outages, configs>>
    BY <1>3 DEF MqttStep, OnConfigMessage, TakeMessage, OnConnect, OnDisconnect, brokerVars
  <2>3. QED
    BY <1>1, <2>1, <2>2 DEF Quiet, ConnectionBreaks, Restart, LoseSync
<1>4. CASE NcpNext /\ UNCHANGED mqttVars
  <2>1. faults' = faults \/ faults' = faults + 1
    BY <1>4 DEF NcpNext, Advertise, Establish, LoseSync, SampleCte, Restart
  <2>2. QED
    BY <1>1, <1>4, <2>1 DEF Quiet, ConnectionBreaks, Restart, LoseSync, mqttVars
<1>5. CASE BrokerNext /\ UNCHANGED ncpVars
  <2>1. /\ outages' = outages \/ outages' = outages + 1
        /\ configs' = configs \/ configs' = configs + 1
    BY <1>5 DEF BrokerNext, BrokerTakes, PublishConfig, ConnectionBreaks, BrokerReturns
  <2>2. QED
    BY <1>1, <1>5, <2>1 DEF Quiet, ConnectionBreaks, Restart, LoseSync, ncpVars
<1>6. QED
  BY <1>2, <1>3, <1>4, <1>5 DEF Next

(* What an event that is taken leaves, and what it tells.                  *)
LEMMA CalmTaken ==
  ASSUME HostInv, Calm, NEW type, Receive(type)
  PROVE  /\ evq' = Tail(evq) /\ Head(evq).type = type /\ alive
         /\ \A e : In(e, evq) <=> e = Head(evq) \/ In(e, evq')
         /\ ~In(Boot, evq')
         /\ In(Boot, evq) <=> type = "boot"
         /\ type = "boot" => /\ \A e : ~In(e, evq')
                             /\ ~scanning
                             /\ client = "open" => configs # 0 /\ ~ConfigIn(toClient)
         /\ type # "boot" => client = "open" /\ booted
<1>1. /\ evq # <<>> /\ evq' = Tail(evq) /\ Head(evq).type = type /\ alive
  BY TakenEvent
<1>2. /\ Head(evq) \in MessagesOf(Tag)
      /\ \A e : In(e, evq) <=> e = Head(evq) \/ In(e, evq')
  BY <1>1, HostFacts, TakenQueue
<1>3. ASSUME In(Boot, evq)
      PROVE  /\ \A e : ~In(e, evq')
             /\ type = "boot" /\ ~scanning
             /\ client = "open" => configs # 0 /\ ~ConfigIn(toClient)
  <2>1. /\ evq = <<Boot>> /\ ~scanning
        /\ client = "open" => configs # 0 /\ ~ConfigIn(toClient)
    BY <1>3 DEF Calm, BootComesAlone
  <2>2. Head(<<Boot>>) = Boot /\ Tail(<<Boot>>) = <<>>
    OBVIOUS
  <2>3. evq' = <<>> /\ Head(evq) = Boot
    BY <1>1, <2>1, <2>2
  <2>4. type = "boot"
    BY <1>1, <2>3, MessageFields
  <2>5. QED
    BY <2>1, <2>3, <2>4, EmptyQueue
<1>4. ASSUME type = "boot" PROVE In(Boot, evq)
  BY <1>1, <1>2, <1>4, MessageFields
<1>5. ~In(Boot, evq')
  BY <1>2, <1>3
<1>6. type # "boot" => client = "open" /\ booted
  BY <1>3 DEF Calm, CalmBroker
<1>7. QED
  BY <1>1, <1>2, <1>3, <1>4, <1>5, <1>6

(* A boot event is taken: the scanner was off.                             *)
LEMMA BootCalm ==
  ASSUME HostInv, Calm, Quiet, FirstBoot \/ LaterBoot
  PROVE  IF alive' THEN Calm' ELSE client' = "none"
<1>1. /\ Receive("boot") /\ sync' = sync
      /\ \A e : ~In(e, evq')
      /\ ~scanning
  BY CalmTaken DEF FirstBoot, LaterBoot
<1>2. BootComesAlone' /\ OpenedIsOpen'
  BY <1>1 DEF BootComesAlone, OpenedIsOpen
<1>3. CASE FirstBoot /\ InitAndSubscribe(<<"correction", "config">>) /\ StartScanner
  <2>1. client' = "open" /\ toClient' = <<>> /\ booted' /\ alive'
    BY <1>1, <1>3 DEF FirstBoot, InitAndSubscribe, StartScanner, Return, Calm, CalmBroker
  <2>2. OneConfig(<<>>) /\ ~ConfigIn(<<>>)
    BY DEF OneConfig, ConfigIn
  <2>3. CalmBroker'
    BY <2>1, <2>2 DEF CalmBroker
  <2>4. QED
    BY <1>2, <2>1, <2>3 DEF Calm
<1>4. CASE FirstBoot /\ Return(FALSE) /\ UNCHANGED mqttVars
  BY <1>4 DEF FirstBoot, Return, mqttVars, Calm, CalmBroker
<1>5. CASE LaterBoot
  <2>1. alive' /\ UNCHANGED <<client, toClient, configs, booted>> /\ booted
    BY <1>1, <1>5 DEF LaterBoot, StartScanner, Return, mqttVars
  <2>2. CalmBroker'
    BY <2>1 DEF Calm, CalmBroker
  <2>3. QED
    BY <1>2, <2>1, <2>2 DEF Calm
<1>6. QED
  BY <1>3, <1>4, <1>5 DEF FirstBoot

(* An event that is no boot event is taken, and the synchronisations it    *)
(* opens stay open.                                                        *)
LEMMA HandledCalm ==
  ASSUME HostInv, Calm, NEW type, type # "boot", Receive(type),
         UNCHANGED <<mqttVars, booted>>,
         \A s \in Sync : sync[s].state = "open" => sync'[s].state = "open"
  PROVE  Calm'
<1>1. /\ \A e : In(e, evq) <=> e = Head(evq) \/ In(e, evq')
      /\ ~In(Boot, evq')
      /\ client = "open"
      /\ UNCHANGED <<client, toClient, configs, booted>>
  BY CalmTaken DEF mqttVars
<1>2. ASSUME NEW e, In(e, evq), e.type = "opened" PROVE e.handle \in Sync
  <2>1. evq \in Seq(MessagesOf(Tag))
    BY HostFacts
  <2>2. e \in MessagesOf(Tag)
    BY <1>2, <2>1, ElementOfSeq, LenProperties DEF In
  <2>3. QED
    BY <1>2, <2>2, MessageFields DEF SyncEventType
<1>3. OpenedIsOpen'
  BY <1>1, <1>2 DEF Calm, OpenedIsOpen
<1>4. BootComesAlone'
  BY <1>1 DEF BootComesAlone
<1>5. CalmBroker'
  BY <1>1 DEF Calm, CalmBroker
<1>6. QED
  BY <1>3, <1>4, <1>5 DEF Calm

LEMMA HandleEventCalm ==
  ASSUME HostInv, Calm, Quiet, HandleEvent
  PROVE  IF alive' THEN Calm' ELSE client' = "none"
<1>1. CASE FirstBoot \/ LaterBoot
  BY <1>1, BootCalm
<1>2. CASE ScanReport /\ UNCHANGED <<mqttVars, booted>>
  <2>1. Receive("scan_report") /\ alive' = alive /\ alive
    BY <1>2 DEF ScanReport, cteVars, Receive
  <2>2. sync \in [Sync -> SyncRecord]
    BY HostFacts
  <2>3. \A s \in Sync : sync[s].state = "open" => sync'[s].state = "open"
    <3>1. CASE sync' = sync
      BY <3>1
    <3>2. ASSUME NEW s \in Sync, sync[s].state = "free",
                 sync' = [sync EXCEPT ![s] = NewSync(Head(evq).tag)]
          PROVE  \A r \in Sync : sync[r].state = "open" => sync'[r].state = "open"
      BY <2>2, <3>2
    <3>3. QED
      BY <1>2, <3>1, <3>2, ScanReportChanges
  <2>4. Calm'
    BY <1>2, <2>1, <2>3, HandledCalm
  <2>5. QED
    BY <2>1, <2>4
<1>3. CASE SyncOpened /\ UNCHANGED <<mqttVars, booted>>
  <2>1. Receive("opened")
    BY <1>3 DEF SyncOpened
  <2>2. In(Head(evq), evq) /\ Head(evq).type = "opened"
    BY <2>1, CalmTaken
  <2>3. sync[Head(evq).handle].state = "open"
    BY <2>2 DEF Calm, OpenedIsOpen
  <2>4. alive'
    BY <1>3, <2>3 DEF SyncOpened, Return
  <2>5. \A s \in Sync : sync[s].state = "open" => sync'[s].state = "open"
    BY <1>3, SyncOpenedChanges
  <2>6. Calm'
    BY <1>3, <2>1, <2>5, HandledCalm
  <2>7. QED
    BY <2>4, <2>6
<1>4. CASE SyncClosed /\ UNCHANGED <<mqttVars, booted>>
  <2>1. Receive("closed") /\ alive' = alive /\ alive /\ sync' = sync
    BY <1>4 DEF SyncClosed, Receive
  <2>2. Calm'
    BY <1>4, <2>1, HandledCalm
  <2>3. QED
    BY <2>1, <2>2
<1>5. ASSUME NEW published \in PublishResults, IqReport(published), UNCHANGED <<mqttVars, booted>>
      PROVE  IF alive' THEN Calm' ELSE client' = "none"
  <2>1. Receive("iq_report") /\ alive /\ sync' = sync
    BY <1>5 DEF IqReport, Receive
  <2>2. client = "open"
    BY <2>1, CalmTaken
  <2>3. published = TRUE
    BY <1>5, <2>2 DEF PublishResults
  <2>4. alive' = TRUE
    BY <1>5, <2>1, <2>3, HostFacts DEF IqReport, Return
  <2>5. Calm'
    BY <1>5, <2>1, HandledCalm
  <2>6. QED
    BY <2>4, <2>5
<1>6. QED
  BY <1>1, <1>2, <1>3, <1>4, <1>5 DEF HandleEvent

(* The co-processor sends an event that is no boot event.                  *)
LEMMA EmittedCalm ==
  ASSUME HostInv, Calm, NEW e \in MessagesOf(Tag), evq' = Append(evq, e), e # Boot,
         UNCHANGED <<cteVars, mqttVars, booted>>,
         ~In(Boot, evq),
         \A s \in Sync : sync[s].state = "open" => sync'[s].state = "open",
         e.type = "opened" => sync'[e.handle].state = "open"
  PROVE  Calm'
<1>1. evq \in Seq(MessagesOf(Tag)) /\ UNCHANGED <<client, toClient, configs, booted>>
  BY HostFacts DEF mqttVars
<1>2. \A x : In(x, evq') <=> In(x, evq) \/ x = e
  BY <1>1, AppendedQueue
<1>3. ASSUME NEW x, In(x, evq), x.type = "opened" PROVE x.handle \in Sync
  <2>1. x \in MessagesOf(Tag)
    BY <1>1, <1>3, ElementOfSeq, LenProperties DEF In
  <2>2. QED
    BY <1>3, <2>1, MessageFields DEF SyncEventType
<1>4. OpenedIsOpen'
  BY <1>2, <1>3 DEF Calm, OpenedIsOpen
<1>5. BootComesAlone'
  BY <1>2 DEF BootComesAlone
<1>6. CalmBroker'
  BY <1>1 DEF Calm, CalmBroker
<1>7. QED
  BY <1>4, <1>5, <1>6 DEF Calm

LEMMA NcpCalm ==
  ASSUME HostInv, SyncsInv(sync), Calm, NcpNext, UNCHANGED <<cteVars, mqttVars, booted>>,
         ~Restart, \A s \in Sync : ~LoseSync(s)
  PROVE  Calm'
<1>1. sync \in [Sync -> SyncRecord]
  BY HostFacts
<1>2. FreeSync.state = "free" /\ FreeSync.cte = FALSE
  BY DEF FreeSync
<1>3. \A s \in Sync : sync[s].peer \in Tag \cup {NoTag} /\ (sync[s].state # "free" => sync[s].peer \in Tag)
  BY HostFacts
<1>4. ASSUME NEW t \in Tag, Advertise(t) PROVE Calm'
  <2>1. scanning /\ evq' = Append(evq, ScanReportOf(t)) /\ sync' = sync
    BY <1>4 DEF Advertise, Emit
  <2>2. ScanReportOf(t).type = "scan_report"
    BY DEF ScanReportOf
  <2>3. ScanReportOf(t) \in MessagesOf(Tag) /\ ScanReportOf(t) # Boot
    BY <2>2, MessageFields
  <2>4. ~In(Boot, evq)
    BY <2>1 DEF Calm, BootComesAlone
  <2>5. QED
    BY <2>1, <2>2, <2>3, <2>4, EmittedCalm
<1>5. ASSUME NEW s \in Sync, Establish(s) PROVE Calm'
  <2> DEFINE e == Event("opened", s, sync[s].peer)
  <2>1. /\ sync[s].state = "pending" /\ evq' = Append(evq, e)
        /\ sync' = [sync EXCEPT ![s].state = "open"]
    BY <1>5 DEF Establish, Emit
  <2>2. sync[s].peer \in Tag
    BY <1>3, <2>1
  <2>3. e.type = "opened" /\ e.handle = s /\ e \in MessagesOf(Tag)
    BY <2>2, EventFields, MessageFields DEF SyncEventType
  <2>4. e # Boot
    BY <2>3, MessageFields
  <2> HIDE DEF e
  <2>5. sync'[s].state = "open" /\ \A r \in Sync : r # s => sync'[r] = sync[r]
    BY <1>1, <2>1 DEF SyncRecord
  <2>6. ~In(Boot, evq)
    BY <1>2, <2>1 DEF Calm, BootComesAlone
  <2>7. \A r \in Sync : sync[r].state = "open" => sync'[r].state = "open"
    BY <2>5
  <2>8. QED
    BY <2>1, <2>3, <2>4, <2>5, <2>6, <2>7, EmittedCalm
<1>6. ASSUME NEW s \in Sync, SampleCte(s) PROVE Calm'
  <2> DEFINE e == Event("iq_report", s, sync[s].peer)
  <2>1. sync[s].cte /\ evq' = Append(evq, e) /\ sync' = sync
    BY <1>6 DEF SampleCte, Emit
  <2>2. sync[s].peer \in Tag
    BY <1>3, <2>1 DEF SyncsInv
  <2>3. e.type = "iq_report" /\ e \in MessagesOf(Tag)
    BY <2>2, EventFields, MessageFields DEF SyncEventType
  <2>4. e # Boot
    BY <2>3, MessageFields
  <2> HIDE DEF e
  <2>5. ~In(Boot, evq)
    BY <1>2, <2>1 DEF Calm, BootComesAlone
  <2>6. QED
    BY <2>1, <2>3, <2>4, <2>5, EmittedCalm
<1>7. QED
  BY <1>4, <1>5, <1>6 DEF NcpNext

-----------------------------------------------------------------------------
(* The packets from the broker.                                            *)

LEMMA ReadCalm ==
  ASSUME HostInv, OneConfig(toClient), toClient # <<>>, toClient' = Tail(toClient)
  PROVE  /\ OneConfig(toClient')
         /\ ~ConfigIn(toClient) => ~ConfigIn(toClient')
         /\ Head(toClient).type = "config" => ConfigIn(toClient) /\ ~ConfigIn(toClient')
<1>1. PICK q \in Seq(ToClient) : q = toClient
  BY DEF HostInv, MqttInv, MqttTypeOK
<1>2. /\ Len(q) \in Nat \ {0} /\ DOMAIN q = 1 .. Len(q)
      /\ DOMAIN Tail(q) = 1 .. Len(q) - 1
      /\ \A i \in 1 .. Len(q) - 1 : Tail(q)[i] = q[i + 1]
      /\ Head(q) = q[1]
  BY <1>1, TailPositions
<1>3. \A i, j \in 1 .. Len(q) : q[i].type = "config" /\ q[j].type = "config" => i = j
  BY <1>1, <1>2 DEF OneConfig
<1>4. OneConfig(Tail(q))
  BY <1>2, <1>3 DEF OneConfig
<1>5. ~ConfigIn(q) => ~ConfigIn(Tail(q))
  BY <1>2 DEF ConfigIn
<1>6. Head(q).type = "config" => ConfigIn(q) /\ ~ConfigIn(Tail(q))
  BY <1>2, <1>3 DEF ConfigIn
<1>7. QED
  BY <1>1, <1>4, <1>5, <1>6

LEMMA SentCalm ==
  ASSUME NEW q \in Seq(ToClient), NEW p \in ToClient, OneConfig(q),
         p.type = "config" => ~ConfigIn(q)
  PROVE  /\ OneConfig(Append(q, p))
         /\ p.type # "config" /\ ~ConfigIn(q) => ~ConfigIn(Append(q, p))
<1>1. /\ Len(q) \in Nat /\ DOMAIN q = 1 .. Len(q)
      /\ DOMAIN Append(q, p) = 1 .. Len(q) + 1
      /\ \A i \in 1 .. Len(q) : Append(q, p)[i] = q[i]
      /\ Append(q, p)[Len(q) + 1] = p
  BY AppendPositions
<1>2. \A i \in 1 .. Len(q) + 1 : i \in 1 .. Len(q) \/ i = Len(q) + 1
  BY <1>1
<1>3. OneConfig(Append(q, p))
  BY <1>1, <1>2 DEF OneConfig, ConfigIn
<1>4. p.type # "config" /\ ~ConfigIn(q) => ~ConfigIn(Append(q, p))
  BY <1>1, <1>2 DEF ConfigIn
<1>5. QED
  BY <1>3, <1>4

(* ncp_reset drops every event but the boot event it makes the host wait   *)
(* for: the configuration was the one there may be, and no boot event was  *)
(* under way when it came.                                                 *)
LEMMA ConfigMessageCalm ==
  ASSUME HostInv, Calm, OnConfigMessage
  PROVE  Calm'
<1>1. /\ toClient # <<>> /\ toClient' = Tail(toClient) /\ Head(toClient).type = "config"
      /\ UNCHANGED <<client, configs, booted>> /\ client \in {"open", "lost"}
  BY DEF OnConfigMessage, TakeMessage, clientVars, brokerVars
<1>2. client = "open" /\ booted
  BY <1>1 DEF Calm, CalmBroker
<1>3. OneConfig(toClient') /\ ~ConfigIn(toClient') /\ ConfigIn(toClient)
  BY <1>1, ReadCalm DEF Calm, CalmBroker
<1>4. ~In(Boot, evq) /\ configs # 0
  BY <1>2, <1>3 DEF Calm, CalmBroker, BootComesAlone
<1>5. ~BootPending
  BY <1>4, HostFacts, CountedIsIn DEF BootPending, Waiting
<1>6. evq' = <<Boot>> /\ sync' = [s \in Sync |-> FreeSync] /\ scanning' = FALSE
  BY <1>5 DEF OnConfigMessage, Reset
<1>7. \A e : In(e, evq') => e = Boot
  <2>1. Boot \in MessagesOf(Tag)
    BY MessageFields
  <2>2. QED
    BY <1>6, <2>1, OneInQueue
<1>8. BootComesAlone'
  BY <1>1, <1>3, <1>4, <1>6 DEF BootComesAlone
<1>9. OpenedIsOpen'
  BY <1>7, MessageFields DEF OpenedIsOpen
<1>10. CalmBroker'
  BY <1>1, <1>2, <1>3, <1>4 DEF CalmBroker
<1>11. QED
  BY <1>8, <1>9, <1>10 DEF Calm

(* A step of mqtt.c or of the broker that leaves the events alone.         *)
LEMMA BrokerCalm ==
  ASSUME Calm, client = "open", UNCHANGED <<client, booted, ncpVars>>,
         configs' # 0 \/ configs' = configs,
         configs' = 0 => ~ConfigIn(toClient'),
         OneConfig(toClient'),
         In(Boot, evq) => ~ConfigIn(toClient')
  PROVE  Calm'
<1>1. UNCHANGED <<scanning, sync, evq>>
  BY DEF ncpVars
<1>2. BootComesAlone'
  BY <1>1 DEF Calm, BootComesAlone
<1>3. OpenedIsOpen'
  BY <1>1 DEF Calm, OpenedIsOpen
<1>4. CalmBroker'
  BY <1>1 DEF Calm, CalmBroker
<1>5. QED
  BY <1>2, <1>3, <1>4 DEF Calm

LEMMA MqttStepCalm ==
  ASSUME HostInv, Calm, MqttStep
  PROVE  Calm' /\ alive'
<1>1. CASE OnConfigMessage
  BY <1>1, ConfigMessageCalm DEF MqttStep, OnConfigMessage
<1>2. CASE OnConnect /\ UNCHANGED <<ncpVars, cteVars, booted>>
  <2>1. /\ toClient # <<>> /\ toClient' = Tail(toClient)
        /\ UNCHANGED <<client, configs>> /\ client \in {"open", "lost"}
    BY <1>2 DEF OnConnect, clientVars, brokerVars
  <2>2. client = "open" /\ OneConfig(toClient) /\ (configs = 0 => ~ConfigIn(toClient))
    BY <2>1 DEF Calm, CalmBroker
  <2>3. OneConfig(toClient') /\ (~ConfigIn(toClient) => ~ConfigIn(toClient'))
    BY <2>1, <2>2, ReadCalm
  <2>4. In(Boot, evq) => ~ConfigIn(toClient)
    BY <2>2 DEF Calm, BootComesAlone
  <2>5. Calm'
    BY <1>2, <2>1, <2>2, <2>3, <2>4, BrokerCalm
  <2>6. QED
    BY <1>2, <2>5 DEF MqttStep, cteVars
<1>3. CASE OnDisconnect
  BY <1>3 DEF OnDisconnect, Calm, CalmBroker
<1>4. QED
  BY <1>1, <1>2, <1>3 DEF MqttStep

LEMMA BrokerNextCalm ==
  ASSUME HostInv, Calm, Quiet', BrokerNext, UNCHANGED <<ncpVars, cteVars, booted>>,
         ~\E stays \in BOOLEAN : ConnectionBreaks(stays)
  PROVE  Calm'
<1>1. /\ toClient \in Seq(ToClient) /\ configs \in Nat
      /\ OneConfig(toClient) /\ (configs = 0 => ~ConfigIn(toClient))
      /\ client = "none" => session = {}
  BY MqttAssumption DEF HostInv, MqttInv, MqttTypeOK, Calm, CalmBroker
<1>2. client = "open" /\ In(Boot, evq) => configs # 0 /\ ~ConfigIn(toClient)
  BY DEF Calm, BootComesAlone
<1>3. CASE BrokerTakes
  <2>1. client = "open" /\ UNCHANGED <<client, configs>>
        /\ (toClient' = toClient \/ toClient' = Append(toClient, Connack))
    BY <1>3 DEF BrokerTakes, clientVars
  <2>2. Connack \in ToClient /\ Connack.type # "config"
    BY PacketsDiffer
  <2>3. OneConfig(toClient') /\ (~ConfigIn(toClient) => ~ConfigIn(toClient'))
    BY <1>1, <2>1, <2>2, SentCalm
  <2>4. QED
    BY <1>1, <1>2, <2>1, <2>3, BrokerCalm
<1>4. ASSUME NEW config \in Config, PublishConfig(config) PROVE Calm'
  <2>1. /\ configs' = configs + 1 /\ UNCHANGED <<client, session>>
        /\ toClient' = IF "config" \in session
                       THEN Append(toClient, ConfigMessage(config)) ELSE toClient
    BY <1>4 DEF PublishConfig, clientVars
  <2>2. configs = 0 /\ configs' = 1
    BY <1>1, <2>1 DEF Quiet
  <2>3. CASE client = "open"
    <3>1. ConfigMessage(config) \in ToClient
      BY PacketsDiffer
    <3>2. OneConfig(toClient') /\ ~In(Boot, evq)
      BY <1>1, <1>2, <2>1, <2>2, <2>3, <3>1, SentCalm
    <3>3. QED
      BY <2>1, <2>2, <2>3, <3>2, BrokerCalm
  <2>4. CASE client = "none"
    <3>1. toClient' = toClient /\ UNCHANGED <<scanning, sync, evq, client, booted>>
      BY <1>1, <2>1, <2>4 DEF ncpVars
    <3>2. BootComesAlone' /\ OpenedIsOpen' /\ CalmBroker'
      BY <2>2, <2>4, <3>1 DEF Calm, BootComesAlone, OpenedIsOpen, CalmBroker
    <3>3. QED
      BY <3>2 DEF Calm
  <2>5. QED
    BY <2>3, <2>4 DEF Calm, CalmBroker
<1>5. CASE BrokerReturns
  <2>1. UNCHANGED <<scanning, sync, evq, client, toClient, configs, booted>>
    BY <1>5 DEF BrokerReturns, clientVars, ncpVars
  <2>2. QED
    BY <2>1 DEF Calm, BootComesAlone, OpenedIsOpen, CalmBroker
<1>6. QED
  BY <1>3, <1>4, <1>5 DEF BrokerNext

LEMMA QuietInitially == Init => QuietInv
<1> SUFFICES ASSUME Init PROVE Calm /\ alive
  BY DEF QuietInv
<1>1. /\ evq = <<Boot>> /\ ~scanning /\ sync = [s \in Sync |-> FreeSync] /\ alive
      /\ client = "none" /\ toClient = <<>> /\ ~booted /\ configs = 0
  BY DEF Init, NcpInit, CteInit, MqttInit
<1>2. In(Boot, evq) /\ \A e : In(e, evq) => e = Boot
  BY <1>1, MessageFields, OneInQueue
<1>3. BootComesAlone /\ OpenedIsOpen
  BY <1>1, <1>2, MessageFields DEF BootComesAlone, OpenedIsOpen
<1>4. OneConfig(<<>>) /\ ~ConfigIn(<<>>)
  BY DEF OneConfig, ConfigIn
<1>5. QED
  BY <1>1, <1>2, <1>3, <1>4 DEF Calm, CalmBroker

LEMMA QuietKeeps ==
  ASSUME WholeInv, QuietInv, [Next]_vars
  PROVE  QuietInv'
<1>1. HostInv /\ SyncsInv(sync)
  BY DEF WholeInv, FollowInv
<1>2. CASE UNCHANGED vars
  BY <1>2 DEF vars, ncpVars, cteVars, mqttVars, QuietInv, Quiet, Calm, BootComesAlone,
              OpenedIsOpen, CalmBroker
<1>3. CASE Next
  <2> SUFFICES ASSUME Quiet' PROVE IF alive' THEN Calm' ELSE client' = "none"
    BY DEF QuietInv
  <2>1. /\ Quiet /\ ~Restart /\ \A s \in Sync : ~LoseSync(s)
        /\ ~\E stays \in BOOLEAN : ConnectionBreaks(stays)
    BY <1>1, <1>3, QuietBefore
  <2>2. alive
    BY <1>3 DEF Next, HandleEvent, FirstBoot, LaterBoot, ScanReport, SyncOpened, SyncClosed,
                IqReport, Receive, MqttStep
  <2>3. Calm
    BY <2>1, <2>2 DEF QuietInv
  <2>4. CASE HandleEvent
    BY <1>1, <2>1, <2>3, <2>4, HandleEventCalm
  <2>5. CASE MqttStep
    BY <1>1, <2>3, <2>5, MqttStepCalm
  <2>6. CASE NcpNext /\ UNCHANGED <<cteVars, mqttVars, booted>>
    BY <1>1, <2>1, <2>2, <2>3, <2>6, NcpCalm DEF cteVars
  <2>7. CASE BrokerNext /\ UNCHANGED <<ncpVars, cteVars, booted>>
    BY <1>1, <2>1, <2>2, <2>3, <2>7, BrokerNextCalm DEF cteVars
  <2>8. QED
    BY <1>3, <2>4, <2>5, <2>6, <2>7 DEF Next
<1>4. QED
  BY <1>2, <1>3

(* As long as no synchronisation is lost, the co-processor and the         *)
(* connection to the broker stay up and there is one configuration at      *)
(* most, no assertion of app.c or sl_bt_on_event fails: the program can    *)
(* end only because there is no broker at its first boot.  (Each of the    *)
(* conditions is needed.)                                                  *)
THEOREM QuietHostGoesOn == Spec => [](Quiet /\ client # "none" => alive)
<1>1. Init => QuietInv
  BY QuietInitially
<1>2. WholeInv /\ QuietInv /\ [Next]_vars => QuietInv'
  BY QuietKeeps
<1>3. QuietInv => (Quiet /\ client # "none" => alive)
  BY DEF QuietInv
<1>4. QED
  BY <1>1, <1>2, <1>3, WholeInvHolds, PTL DEF Spec

=============================================================================
