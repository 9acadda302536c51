-------------------------------- MODULE Mqtt --------------------------------
(***************************************************************************)
(* The MQTT client of the locator, mqtt.c, and the broker it talks to.     *)
(*                                                                         *)
(* The client is driven by mqtt_step alone, which the main loop calls:     *)
(* mosquitto_loop reads what has arrived and calls the callbacks of        *)
(* mqtt.c.  The session is a clean one: the broker forgets the             *)
(* subscriptions of a connection that is lost, and mqtt.c keeps a list of  *)
(* topics to subscribe to again.                                           *)
(*                                                                         *)
(* mosquitto and the broker are external.  Messages of one connection      *)
(* arrive in order; when the connection is lost, what is under way is lost *)
(* too, but the client may still read what has arrived.                    *)
(***************************************************************************)
EXTENDS Naturals, Sequences, SequencesExt, Functions

CONSTANTS
  Config,            (* the configurations that may be published            *)
  MaxConfigs,        (* bound: configurations published, in a run           *)
  MaxOutages         (* bound: connections lost, in a run                   *)

ASSUME MqttAssumption == MaxConfigs \in Nat /\ MaxOutages \in Nat

VARIABLES
  client,            (* the connection, as mosquitto sees it                *)
  topics,            (* head_topic                                          *)
  session,           (* the subscriptions the broker knows of               *)
  toBroker,          (* packets sent to the broker and not yet processed    *)
  toClient,          (* packets sent to the client and not yet read         *)
  broker,            (* the broker accepts connections                      *)
  configs, outages   (* how often the two have happened                     *)

clientVars == <<client, topics>>
brokerVars == <<session, broker, configs, outages>>
mqttVars == <<client, topics, session, toBroker, toClient, broker, configs, outages>>

Topic == {"correction", "config"}

(* "none" before mqtt_init; "lost" while the client has not noticed that   *)
(* the connection is gone; "closed" once it has no socket any more.        *)
ClientState == {"none", "open", "lost", "closed"}

Connect == [type |-> "connect"]
Subscribe(topic) == [type |-> "subscribe", topic |-> topic]
Connack == [type |-> "connack"]
ConfigMessage(config) == [type |-> "config", config |-> config]

ToBroker == {Connect} \cup {Subscribe(topic) : topic \in Topic}
ToClient == {Connack} \cup {ConfigMessage(config) : config \in Config}

MqttInit ==
  /\ client = "none"
  /\ topics = <<>>
  /\ session = {}
  /\ toBroker = <<>>
  /\ toClient = <<>>
  /\ broker \in BOOLEAN
  /\ configs = 0
  /\ outages = 0

-----------------------------------------------------------------------------
(* The broker and the network.                                             *)

(* The broker takes a packet: a CONNECT opens a session without any        *)
(* subscription.                                                           *)
BrokerTakes ==
  /\ client = "open"
  /\ toBroker # <<>>
  /\ toBroker' = Tail(toBroker)
  /\ \/ /\ Head(toBroker) = Connect
        /\ session' = {}
        /\ toClient' = Append(toClient, Connack)
     \/ /\ Head(toBroker).type = "subscribe"
        /\ session' = session \cup {Head(toBroker).topic}
        /\ UNCHANGED toClient
  /\ UNCHANGED <<clientVars, broker, configs, outages>>

(* Somebody publishes a configuration for this locator.                    *)
PublishConfig(config) ==
  /\ broker
  /\ configs < MaxConfigs
  /\ configs' = configs + 1
  /\ toClient' = IF "config" \in session
                 THEN Append(toClient, ConfigMessage(config)) ELSE toClient
  /\ UNCHANGED <<clientVars, session, toBroker, broker, outages>>

(* The connection breaks: the broker ends, or closes it (as after a        *)
(* CONNECT that it refuses), or the network does.                          *)
ConnectionBreaks(brokerStays) ==
  /\ client = "open"
  /\ outages < MaxOutages
  /\ outages' = outages + 1
  /\ client' = "lost"
  /\ broker' = brokerStays
  /\ session' = {}
  /\ toBroker' = <<>>
  /\ \E k \in 0..Len(toClient) : toClient' = SubSeq(toClient, 1, k)
  /\ UNCHANGED <<topics, configs>>

BrokerReturns ==
  /\ ~broker
  /\ broker' = TRUE
  /\ UNCHANGED <<clientVars, session, toBroker, toClient, configs, outages>>

BrokerNext ==
  \/ BrokerTakes
  \/ \E config \in Config : PublishConfig(config)
  \/ \E stays \in BOOLEAN : ConnectionBreaks(stays)
  \/ BrokerReturns

-----------------------------------------------------------------------------
(* mqtt.c.                                                                 *)

Subscriptions(list) == [i \in 1..Len(list) |-> Subscribe(list[i])]

(* mqtt_add_topic for the topics of list, first to last: each is put in    *)
(* front of those before it.                                               *)
AddTopics(list) == Reverse(list)

(* mqtt_init, when the broker accepts the connection, followed by calls of *)
(* mqtt_subscribe for the topics of the list, first to last.               *)
InitAndSubscribe(list) ==
  /\ client' = "open"
  /\ topics' = AddTopics(list)
  /\ toBroker' = <<Connect>> \o Subscriptions(list)
  /\ UNCHANGED <<session, toClient, broker, configs, outages>>

(* mqtt_publish: MOSQ_ERR_NO_CONN once the client has closed its socket    *)
(* (unless so many messages wait that this one only joins them); while it  *)
(* does not know that the connection is lost, either way.                  *)
PublishResults == IF client = "open" THEN {TRUE} ELSE BOOLEAN

(* Mutant: only the topic added last is subscribed to.                     *)
OnConnectNewestTopic ==
  /\ client = "open"
  /\ toClient # <<>>
  /\ Head(toClient) = Connack
  /\ toClient' = Tail(toClient)
  /\ toBroker' = Append(toBroker, Subscribe(Head(topics)))
  /\ UNCHANGED <<clientVars, brokerVars>>

(* mqtt_on_connect: every topic of the list is subscribed to (again).      *)
OnConnect ==
  /\ client \in {"open", "lost"}
  /\ toClient # <<>>
  /\ Head(toClient) = Connack
  /\ toClient' = Tail(toClient)
  /\ toBroker' = IF client = "open" THEN toBroker \o Subscriptions(topics) ELSE toBroker
  /\ UNCHANGED <<clientVars, brokerVars>>

(* mqtt_on_disconnect: one attempt to connect again.  If it fails the      *)
(* socket stays closed, and mosquitto_loop returns MOSQ_ERR_NO_CONN.       *)
OnDisconnect ==
  /\ client = "lost"
  /\ IF broker
     THEN client' = "open" /\ toBroker' = <<Connect>>
     ELSE client' = "closed" /\ toBroker' = <<>>
  /\ toClient' = <<>>
  /\ UNCHANGED <<topics, brokerVars>>

(* mqtt_on_message takes a configuration from the connection.              *)
TakeMessage ==
  /\ client \in {"open", "lost"}
  /\ toClient # <<>>
  /\ Head(toClient).type = "config"
  /\ toClient' = Tail(toClient)
  /\ UNCHANGED <<clientVars, toBroker, brokerVars>>

MqttTypeOK ==
  /\ client \in ClientState
  /\ topics \in Seq(Topic)
  /\ session \in SUBSET Topic
  /\ toBroker \in Seq(ToBroker)
  /\ toClient \in Seq(ToClient)
  /\ broker \in BOOLEAN
  /\ configs \in 0..MaxConfigs
  /\ outages \in 0..MaxOutages

=============================================================================
