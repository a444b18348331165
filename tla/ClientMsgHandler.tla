-------------------------- MODULE ClientMsgHandler --------------------------
(***************************************************************************)
(* The gateway's handler of one MQTT-SN client (core/ClientMsgHandler.java *)
(* with its inner classes ClientState and GatewayState).  The dispatcher   *)
(* thread runs one handler method at a time, so a method is one action.    *)
(* Messages of the client (Mqtts...), of the broker (Mqtt...) and control  *)
(* messages arrive in any order: the client, the broker, the network and   *)
(* the timer thread are the environment.                                   *)
(*                                                                         *)
(* Payloads, client ids, QoS of deliveries and message lengths are         *)
(* abstracted; a name is a model value, an id a number.  msgId and topicId *)
(* of the source are unbounded ints; MaxMsgId and MaxTopicId bound them.   *)
(***************************************************************************)
EXTENDS TopicMappingTable

CONSTANTS
    Names,           \* topic names of more than two characters, no wildcard
    ShortNames,      \* topic names of exactly two characters
    Wildcards,       \* topic filters that contain '#' or '+'
    MsgIds,          \* message ids the client chooses for its requests
    QoS,             \* qualities of service the client publishes with
    MaxRetries,      \* GWParameters.getMaxRetries()
    HandlerTimeout,  \* getHandlerTimeout(), in units of getWaitingTime()
    MaxMsgId,        \* bound on the handler's msgId counter
    MaxTopicId,      \* bound on the handler's topicId counter
    EchoingClient    \* TRUE: a REGACK echoes the topic id of its REGISTER

ASSUME HandlerAssumption ==
    /\ QoS \subseteq {-1, 0, 1, 2}
    /\ MaxRetries \in Nat
    /\ HandlerTimeout \in Nat /\ HandlerTimeout > MaxRetries
    /\ MaxMsgId \in Nat /\ MaxTopicId \in Nat
    /\ EchoingClient \in BOOLEAN

ClientWaits == {"WillTopic", "WillMsg", "Regack"}   \* retried under a timer
BrokerWaits == {"Suback", "Unsuback", "Puback"}     \* no timer

VARIABLES
    client,          \* ClientState.state
    waiting,         \* the GatewayState flags waitingX that are true
    tries,           \* the GatewayState counters triesSendingX
    timers,          \* tasks of this client registered with TimerService
    quiet,           \* whole waiting periods since the last MQTT(S) message
    mqttsConnect, mqttsWillTopic, mqttsSubscribe, mqttsUnsubscribe,
    mqttsRegister, mqttPublish, mqttsPublish,       \* stored messages
    msgId, topicId,  \* the next ids the gateway issues
    topicIdMappingTable,
    brokerInterface, \* "open" when its streams are not null
    exited,          \* System.exit was called
    out,             \* messages the last handler sent
    told             \* history: (id, name) pairs sent to the client

(* The operators named Bug... are not part of the model: each is a plausible *)
(* mistake in the definition that follows it, and a property below notices.  *)

session == <<client, waiting, tries, timers, brokerInterface>>
stored == <<mqttsConnect, mqttsWillTopic, mqttsSubscribe, mqttsUnsubscribe,
            mqttsRegister, mqttPublish, mqttsPublish>>
topics == <<topicId, topicIdMappingTable, told>>
vars == <<session, quiet, stored, msgId, topics, exited, out>>

NoMsg == [type |-> "null"]
AllNames == Names \cup ShortNames \cup Wildcards \cup
            {PredefTopicIdTable[i] : i \in DOMAIN PredefTopicIdTable}
TopicNames == AllNames \ Wildcards
TopicIds == 1 .. MaxTopicId

TopicRequest(type) ==
    [type : {type}, idType : {"TOPIC_NAME"}, topic : AllNames, msgId : MsgIds]
    \cup [type : {type}, idType : {"SHORT"}, topic : ShortNames, msgId : MsgIds]
    \cup [type : {type}, idType : {"PREDEFINED"}, topic : TopicIds, msgId : MsgIds]
SubscribeMsg == TopicRequest("SUBSCRIBE")
UnsubscribeMsg == TopicRequest("UNSUBSCRIBE")
PublishMsg ==
    [type : {"PUBLISH"}, idType : {"NORMAL", "PREDEFINED"}, topic : TopicIds,
     qos : QoS, msgId : MsgIds]
    \cup [type : {"PUBLISH"}, idType : {"SHORT"}, topic : ShortNames,
          qos : QoS, msgId : MsgIds]
RegisterMsg ==
    [type : {"REGISTER"}, topicId : Nat, topicName : TopicNames, msgId : Nat]
MqttPublishMsg == [type : {"PUBLISH"}, topicName : TopicNames]

ToClient(type) == [to |-> "client", type |-> type]
ToBroker(type) == [to |-> "broker", type |-> type]
ToGateway(type) == [to |-> "gateway", type |-> type]

NoTries == [w \in ClientWaits |-> 0]

TypeOK ==
    /\ client \in {"NOT_CONNECTED", "CONNECTED", "DISCONNECTED"}
    /\ waiting \subseteq ClientWaits \cup BrokerWaits
    /\ tries \in [ClientWaits -> Nat]
    /\ timers \in [ClientWaits -> Nat]
    /\ quiet \in 0 .. HandlerTimeout
    /\ mqttsConnect \in {NoMsg, [type |-> "CONNECT"]}
    /\ mqttsWillTopic \in {NoMsg, [type |-> "WILLTOPIC"]}
    /\ mqttsSubscribe \in {NoMsg} \cup SubscribeMsg
    /\ mqttsUnsubscribe \in {NoMsg} \cup UnsubscribeMsg
    /\ mqttsRegister \in {NoMsg} \cup RegisterMsg
    /\ mqttPublish \in {NoMsg} \cup MqttPublishMsg
    /\ mqttsPublish \in {NoMsg} \cup PublishMsg
    /\ msgId \in Nat /\ topicId \in Nat
    /\ DOMAIN topicIdMappingTable \subseteq Nat
    /\ \A i \in DOMAIN topicIdMappingTable : topicIdMappingTable[i] \in AllNames
    /\ brokerInterface \in {"open", "closed"}
    /\ exited \in BOOLEAN
    /\ told \subseteq Nat \X AllNames
-----------------------------------------------------------------------------
(* initialize() of a new handler; its timeout field, 0, lies in the past. *)
Init ==
    /\ client = "NOT_CONNECTED" /\ waiting = {} /\ tries = NoTries
    /\ timers = NoTries /\ quiet = HandlerTimeout
    /\ mqttsConnect = NoMsg /\ mqttsWillTopic = NoMsg
    /\ mqttsSubscribe = NoMsg /\ mqttsUnsubscribe = NoMsg
    /\ mqttsRegister = NoMsg /\ mqttPublish = NoMsg /\ mqttsPublish = NoMsg
    /\ msgId = 1 /\ topicId = PredfTopicIdSize + 1
    /\ topicIdMappingTable = initialize /\ told = {}
    /\ brokerInterface = "closed" /\ exited = FALSE /\ out = {}

ForgetMessages ==
    /\ mqttsConnect' = NoMsg /\ mqttsWillTopic' = NoMsg
    /\ mqttsSubscribe' = NoMsg /\ mqttsUnsubscribe' = NoMsg
    /\ mqttsRegister' = NoMsg /\ mqttPublish' = NoMsg /\ mqttsPublish' = NoMsg

Bug_reset == waiting' = {} /\ tries' = NoTries /\ UNCHANGED stored
(* GatewayState.reset *)
reset == waiting' = {} /\ tries' = NoTries /\ ForgetMessages

(* The topic table, and the broker's DISCONNECT if any, survive. *)
sendClientDisconnect(before) ==
    /\ out' = before \cup {ToClient("DISCONNECT")}
    /\ client' = "DISCONNECTED"
    /\ timers' = NoTries
    /\ reset
    /\ brokerInterface' = "closed"
    /\ UNCHANGED <<msgId, topics, exited>>

(* A send to the broker that threw: sendMsg has closed the streams and the *)
(* handler, which is connected, runs connectionLost().                     *)
sendFailed == client = "CONNECTED" /\ sendClientDisconnect({})

(* First lines of most handlers of client messages. *)
refuseUnconnected == client # "CONNECTED" /\ sendClientDisconnect({})

unregister(w) == [timers EXCEPT ![w] = IF @ = 0 THEN 0 ELSE @ - 1]

Nothing == out' = {} /\ UNCHANGED <<session, stored, msgId, topics, exited>>
Reply(m) == out' = {m} /\ UNCHANGED <<session, stored, msgId, topics, exited>>

(* Entering and leaving a wait: the flag, the counter and the timer task. *)
Bug_startWait_noTimer(w) ==
    /\ waiting' = waiting \cup {w}
    /\ tries' = [tries EXCEPT ![w] = @ + 1]
    /\ UNCHANGED timers
startWait(w) ==
    /\ waiting' = waiting \cup {w}
    /\ tries' = [tries EXCEPT ![w] = @ + 1]
    /\ timers' = [timers EXCEPT ![w] = @ + 1]
Bug_endWait(w) ==
    /\ waiting' = waiting \ {w}
    /\ tries' = [tries EXCEPT ![w] = 0]
    /\ UNCHANGED timers
endWait(w) ==
    /\ waiting' = waiting \ {w}
    /\ tries' = [tries EXCEPT ![w] = 0]
    /\ timers' = unregister(w)

getNewMsgId == msgId <= MaxMsgId /\ msgId' = msgId + 1
Bug_getNewTopicId == topicId <= MaxTopicId /\ UNCHANGED topicId
getNewTopicId == topicId <= MaxTopicId /\ topicId' = topicId + 1
-----------------------------------------------------------------------------
(* Connection of the client, with or without a will. *)

(* brokerInterface.initialize() and sendMsg(CONNECT): either may throw, and *)
(* both close the streams again before they do.                             *)
connectBroker ==
    /\ brokerInterface' = "open" /\ client' = "CONNECTED"
    /\ out' = {ToBroker("CONNECT")}
Bug_connectFailed == brokerInterface' = "open" /\ out' = {} /\ UNCHANGED client
connectFailed == brokerInterface' = "closed" /\ out' = {} /\ UNCHANGED client

handleMqttsConnect(will) ==
    \/ client = "CONNECTED" /\ Reply(ToClient("CONNACK"))
    \/ /\ client # "CONNECTED"
       /\ waiting \cap {"WillTopic", "WillMsg"} # {}
       /\ Nothing
    \/ /\ client # "CONNECTED"
       /\ waiting \cap {"WillTopic", "WillMsg"} = {}
       /\ UNCHANGED <<msgId, topics, exited>>
       /\ \/ /\ ~will /\ (connectBroker \/ connectFailed)
             /\ UNCHANGED <<waiting, tries, timers, stored>>
          \/ /\ will /\ startWait("WillTopic")
             /\ mqttsConnect' = [type |-> "CONNECT"]
             /\ out' = {ToClient("WILLTOPICREQ")}
             /\ UNCHANGED <<client, brokerInterface, mqttsWillTopic,
                    mqttsSubscribe, mqttsUnsubscribe, mqttsRegister,
                    mqttPublish, mqttsPublish>>

handleMqttsWillTopic ==
    \/ "WillTopic" \notin waiting /\ Nothing
    \/ /\ "WillTopic" \in waiting
       /\ waiting' = (waiting \ {"WillTopic"}) \cup {"WillMsg"}
       /\ tries' = [tries EXCEPT !["WillTopic"] = 0, !["WillMsg"] = @ + 1]
       /\ timers' = [unregister("WillTopic") EXCEPT !["WillMsg"] = @ + 1]
       /\ mqttsWillTopic' = [type |-> "WILLTOPIC"]
       /\ out' = {ToClient("WILLMSGREQ")}
       /\ UNCHANGED <<client, brokerInterface, mqttsConnect, mqttsSubscribe,
              mqttsUnsubscribe, mqttsRegister, mqttPublish, mqttsPublish,
              msgId, topics, exited>>

handleMqttsWillMsg ==
    \/ "WillMsg" \notin waiting /\ Nothing
    \/ /\ "WillMsg" \in waiting
       /\ endWait("WillMsg")
       /\ UNCHANGED <<mqttsSubscribe, mqttsUnsubscribe, mqttsRegister,
              mqttPublish, mqttsPublish, msgId, topics, exited>>
       /\ \/ /\ NoMsg \in {mqttsConnect, mqttsWillTopic}  \* debugging checks
             /\ mqttsConnect' = NoMsg /\ mqttsWillTopic' = NoMsg
             /\ out' = {} /\ UNCHANGED <<client, brokerInterface>>
          \/ /\ NoMsg \notin {mqttsConnect, mqttsWillTopic}
             /\ connectBroker
             /\ mqttsConnect' = NoMsg /\ mqttsWillTopic' = NoMsg
          \/ /\ NoMsg \notin {mqttsConnect, mqttsWillTopic}
             /\ connectFailed
             /\ UNCHANGED <<mqttsConnect, mqttsWillTopic>>

Bug_handleMqttsDisconnect ==
    \/ client # "CONNECTED" /\ Nothing
    \/ client = "CONNECTED" /\ Reply(ToBroker("DISCONNECT"))
handleMqttsDisconnect ==
    \/ client # "CONNECTED" /\ Nothing
    \/ /\ client = "CONNECTED"
       /\ \E sent \in SUBSET {ToBroker("DISCONNECT")} : sendClientDisconnect(sent)

handleMqttConnack(accepted) ==
    \/ client # "CONNECTED" /\ Nothing
    \/ client = "CONNECTED" /\ ~accepted /\ sendClientDisconnect({})
    \/ client = "CONNECTED" /\ accepted /\ Reply(ToClient("CONNACK"))

connectionLost ==
    \/ client # "CONNECTED" /\ Nothing
    \/ client = "CONNECTED" /\ sendClientDisconnect({})
-----------------------------------------------------------------------------
(* Requests of the client. *)

handleMqttsRegister(name, id) ==
    \/ refuseUnconnected
    \/ /\ client = "CONNECTED"
       /\ \E known \in getTopicId(topicIdMappingTable, name) :
             LET topic == IF known = 0 THEN topicId ELSE known
             IN  /\ IF known = 0
                    THEN /\ getNewTopicId
                         /\ topicIdMappingTable' =
                               assignTopicId(topicIdMappingTable, topic, name)
                    ELSE UNCHANGED <<topicId, topicIdMappingTable>>
                 /\ out' = {[to |-> "client", type |-> "REGACK",
                             topicId |-> topic, msgId |-> id]}
                 /\ told' = told \cup {<<topic, name>>}
       /\ UNCHANGED <<session, stored, msgId, exited>>

Bug_answersRegister(ackMsgId) == TRUE
answersRegister(ackMsgId) == ackMsgId = mqttsRegister.msgId

(* Any REGACK with the message id of the stored REGISTER is taken: neither *)
(* its return code nor its topic id is looked at.                          *)
handleMqttsRegack(id, ackMsgId) ==
    \/ refuseUnconnected
    \/ client = "CONNECTED" /\ "Regack" \notin waiting /\ Nothing
    \/ /\ client = "CONNECTED" /\ "Regack" \in waiting
       /\ NoMsg \in {mqttsRegister, mqttPublish}          \* debugging checks
       /\ endWait("Regack")
       /\ mqttsRegister' = NoMsg /\ mqttPublish' = NoMsg /\ out' = {}
       /\ UNCHANGED <<client, brokerInterface, mqttsConnect, mqttsWillTopic,
              mqttsSubscribe, mqttsUnsubscribe, mqttsPublish, msgId, topics, exited>>
    \/ /\ client = "CONNECTED" /\ "Regack" \in waiting
       /\ NoMsg \notin {mqttsRegister, mqttPublish}
       /\ ~answersRegister(ackMsgId)
       /\ Nothing
    \/ /\ client = "CONNECTED" /\ "Regack" \in waiting
       /\ NoMsg \notin {mqttsRegister, mqttPublish}
       /\ answersRegister(ackMsgId)
       /\ topicIdMappingTable' =
             assignTopicId(topicIdMappingTable, id, mqttPublish.topicName)
       /\ out' = {[to |-> "client", type |-> "PUBLISH", idType |-> "NORMAL",
                   topicId |-> id, topicName |-> mqttPublish.topicName]}
       /\ endWait("Regack")
       /\ mqttsRegister' = NoMsg /\ mqttPublish' = NoMsg
       /\ UNCHANGED <<client, brokerInterface, mqttsConnect, mqttsWillTopic,
              mqttsSubscribe, mqttsUnsubscribe, mqttsPublish, msgId, topicId,
              told, exited>>

(* The names a topic reference of a client message stands for: none when the *)
(* id is out of its range or unknown.                                        *)
namesOf(m) ==
    CASE m.idType \in {"SHORT", "TOPIC_NAME"} -> {m.topic}
      [] m.idType = "NORMAL" /\ m.topic <= PredfTopicIdSize -> {}
      [] m.idType = "PREDEFINED" /\ m.topic > PredfTopicIdSize -> {}
      [] OTHER -> getTopicName(topicIdMappingTable, m.topic)

invalidTopicId(ack, m) ==
    [to |-> "client", type |-> ack, code |-> "INVALID_TOPIC_ID", msgId |-> m.msgId]
request(type, name, m) ==
    [to |-> "broker", type |-> type, topicName |-> name, msgId |-> m.msgId]

handleMqttsPublish(m) ==
    \/ m.qos = -1 /\ Reply(ToGateway("PUBLISH"))
    \/ m.qos # -1 /\ refuseUnconnected
    \/ /\ m.qos # -1 /\ client = "CONNECTED"
       /\ \/ "Puback" \in waiting /\ m.qos = 1 /\ Nothing
          \/ /\ ~("Puback" \in waiting /\ m.qos = 1)
             /\ namesOf(m) = {}
             /\ Reply(invalidTopicId("PUBACK", m))
          \/ /\ ~("Puback" \in waiting /\ m.qos = 1)
             /\ brokerInterface = "open"
             /\ \E name \in namesOf(m) : out' = {request("PUBLISH", name, m)}
             /\ waiting' = IF m.qos = 1 THEN waiting \cup {"Puback"} ELSE waiting
             /\ mqttsPublish' = IF m.qos = 1 THEN m ELSE mqttsPublish
             /\ UNCHANGED <<client, tries, timers, brokerInterface, mqttsConnect,
                    mqttsWillTopic, mqttsSubscribe, mqttsUnsubscribe,
                    mqttsRegister, mqttPublish, msgId, topics, exited>>
          \/ /\ ~("Puback" \in waiting /\ m.qos = 1)
             /\ namesOf(m) # {} /\ sendFailed

handleMqttsSubscribe(m) ==
    \/ refuseUnconnected
    \/ client = "CONNECTED" /\ "Suback" \in waiting /\ Nothing
    \/ /\ client = "CONNECTED" /\ "Suback" \notin waiting
       /\ \/ namesOf(m) = {} /\ Reply(invalidTopicId("SUBACK", m))
          \/ /\ brokerInterface = "open"
             /\ \E name \in namesOf(m) : out' = {request("SUBSCRIBE", name, m)}
             /\ mqttsSubscribe' = m
             /\ waiting' = waiting \cup {"Suback"}
             /\ UNCHANGED <<client, tries, timers, brokerInterface, mqttsConnect,
                    mqttsWillTopic, mqttsUnsubscribe, mqttsRegister,
                    mqttPublish, mqttsPublish, msgId, topics, exited>>
          \/ namesOf(m) # {} /\ sendFailed

handleMqttsUnsubscribe(m) ==
    \/ refuseUnconnected
    \/ client = "CONNECTED" /\ "Unsuback" \in waiting /\ Nothing
    \/ /\ client = "CONNECTED" /\ "Unsuback" \notin waiting
       /\ \/ namesOf(m) = {} /\ Nothing
          \/ /\ brokerInterface = "open"
             /\ \E name \in namesOf(m) : out' = {request("UNSUBSCRIBE", name, m)}
             /\ mqttsUnsubscribe' = m
             /\ waiting' = waiting \cup {"Unsuback"}
             /\ UNCHANGED <<client, tries, timers, brokerInterface, mqttsConnect,
                    mqttsWillTopic, mqttsSubscribe, mqttsRegister,
                    mqttPublish, mqttsPublish, msgId, topics, exited>>
          \/ namesOf(m) # {} /\ sendFailed
-----------------------------------------------------------------------------
(* Messages that are passed on with their message id. *)

forwardToBroker(type) ==
    \/ refuseUnconnected
    \/ client = "CONNECTED" /\ brokerInterface = "open" /\ Reply(ToBroker(type))
    \/ sendFailed
forwardToClient(type) ==
    \/ client # "CONNECTED" /\ Nothing
    \/ client = "CONNECTED" /\ Reply(ToClient(type))

handleMqttsPuback(accepted, id) ==
    \/ refuseUnconnected
    \/ /\ client = "CONNECTED" /\ ~accepted     \* "Rejected: Invalid topic ID"
       /\ topicIdMappingTable' = removeTopicId(topicIdMappingTable, id)
       /\ out' = {}
       /\ UNCHANGED <<session, stored, msgId, topicId, told, exited>>
    \/ accepted /\ client = "CONNECTED" /\ forwardToBroker("PUBACK")

handleMqttsPubComp == forwardToBroker("PUBCOMP")
handleMqttsPubRec == forwardToBroker("PUBREC")
handleMqttsPubRel == forwardToBroker("PUBREL")
handleMqttsPingReq == forwardToBroker("PINGREQ")
handleMqttsPingResp == forwardToBroker("PINGRESP")
handleMqttPubRec == forwardToClient("PUBREC")
handleMqttPubRel == forwardToClient("PUBREL")
handleMqttPubComp == forwardToClient("PUBCOMP")
handleMqttPingReq == forwardToClient("PINGREQ")
handleMqttPingResp == forwardToClient("PINGRESP")

handleMqttsSearchGW == Reply(ToGateway("SEARCHGW"))

(* WILLTOPICUPD, WILLMSGUPD, unknown types and types a client or a broker  *)
(* never sends.                                                            *)
handleOther == Nothing
-----------------------------------------------------------------------------
(* Deliveries and answers of the broker. *)

handleMqttPublish(m, fits) ==
    \/ (client # "CONNECTED" \/ ~fits) /\ Nothing
    \/ /\ client = "CONNECTED" /\ fits
       /\ \E id \in getTopicId(topicIdMappingTable, m.topicName) \ {0} :
             Reply([to |-> "client", type |-> "PUBLISH",
                    idType |-> IF id > PredfTopicIdSize THEN "NORMAL" ELSE "PREDEFINED",
                    topicId |-> id, topicName |-> m.topicName])
    \/ /\ client = "CONNECTED" /\ fits
       /\ idsOf(topicIdMappingTable, m.topicName) = {}
       /\ m.topicName \in ShortNames \/ "Regack" \in waiting
       /\ Nothing
    \/ /\ client = "CONNECTED" /\ fits
       /\ idsOf(topicIdMappingTable, m.topicName) = {}
       /\ m.topicName \notin ShortNames /\ "Regack" \notin waiting
       /\ getNewTopicId /\ getNewMsgId
       /\ mqttPublish' = m
       /\ mqttsRegister' = [type |-> "REGISTER", topicId |-> topicId,
                            topicName |-> m.topicName, msgId |-> msgId]
       /\ out' = {[to |-> "client", type |-> "REGISTER", topicId |-> topicId,
                   msgId |-> msgId]}
       /\ told' = told \cup {<<topicId, m.topicName>>}
       /\ startWait("Regack")
       /\ UNCHANGED <<client, brokerInterface, mqttsConnect, mqttsWillTopic,
              mqttsSubscribe, mqttsUnsubscribe, mqttsPublish,
              topicIdMappingTable, exited>>

(* The guards handleMqttPuback, -Suback and -Unsuback begin with. *)
unexpected(w, request_, id) ==
    \/ client # "CONNECTED" \/ w \notin waiting
    \/ request_ # NoMsg /\ request_.msgId # id
Bug_answers(w, request_, id) ==
    client = "CONNECTED" /\ w \in waiting /\ request_ # NoMsg
answers(w, request_, id) ==
    client = "CONNECTED" /\ w \in waiting /\ request_ # NoMsg /\ request_.msgId = id
Bug_answered(w) == UNCHANGED <<client, waiting, tries, timers, brokerInterface>>
answered(w) ==
    waiting' = waiting \ {w} /\ UNCHANGED <<client, tries, timers, brokerInterface>>
requestMissing(w, request_) ==                          \* debugging checks
    /\ client = "CONNECTED" /\ w \in waiting /\ request_ = NoMsg
    /\ answered(w) /\ out' = {} /\ UNCHANGED <<stored, msgId, topics, exited>>

handleMqttPuback(id) ==
    \/ unexpected("Puback", mqttsPublish, id) /\ Nothing
    \/ requestMissing("Puback", mqttsPublish)
    \/ /\ answers("Puback", mqttsPublish, id) /\ answered("Puback")
       /\ mqttsPublish' = NoMsg
       /\ out' = {[to |-> "client", type |-> "PUBACK", code |-> "ACCEPTED",
                   msgId |-> id]}
       /\ UNCHANGED <<mqttsConnect, mqttsWillTopic, mqttsSubscribe,
              mqttsUnsubscribe, mqttsRegister, mqttPublish, msgId, topics, exited>>

handleMqttSuback(id) ==
    \/ unexpected("Suback", mqttsSubscribe, id) /\ Nothing
    \/ requestMissing("Suback", mqttsSubscribe)
    \/ /\ answers("Suback", mqttsSubscribe, id) /\ answered("Suback")
       /\ mqttsSubscribe' = NoMsg
       /\ out' = {[to |-> "client", type |-> "SUBACK", code |-> "ACCEPTED",
                   msgId |-> id]}
       /\ UNCHANGED <<mqttsConnect, mqttsWillTopic, mqttsUnsubscribe,
              mqttsRegister, mqttPublish, mqttsPublish, msgId, exited>>
       /\ LET name == mqttsSubscribe.topic IN
          \/ /\ mqttsSubscribe.idType # "TOPIC_NAME" \/ name \in Wildcards
             /\ UNCHANGED topics                    \* answered with id 0x0000
          \/ /\ mqttsSubscribe.idType = "TOPIC_NAME" /\ name \notin Wildcards
             /\ \E id0 \in getTopicId(topicIdMappingTable, name) :
                  /\ id0 # 0
                  /\ told' = told \cup {<<id0, name>>}
                  /\ UNCHANGED <<topicId, topicIdMappingTable>>
          \/ /\ mqttsSubscribe.idType = "TOPIC_NAME" /\ name \notin Wildcards
             /\ idsOf(topicIdMappingTable, name) = {}
             /\ getNewTopicId
             /\ topicIdMappingTable' =
                   assignTopicId(topicIdMappingTable, topicId, name)
             /\ told' = told \cup {<<topicId, name>>}

handleMqttUnsuback(id) ==
    \/ unexpected("Unsuback", mqttsUnsubscribe, id) /\ Nothing
    \/ requestMissing("Unsuback", mqttsUnsubscribe)
    \/ /\ answers("Unsuback", mqttsUnsubscribe, id) /\ answered("Unsuback")
       /\ IF mqttsUnsubscribe.idType = "TOPIC_NAME"
          THEN topicIdMappingTable' \in
                 removeTopicName(topicIdMappingTable, mqttsUnsubscribe.topic)
          ELSE UNCHANGED topicIdMappingTable
       /\ mqttsUnsubscribe' = NoMsg
       /\ out' = {[to |-> "client", type |-> "UNSUBACK", msgId |-> id]}
       /\ UNCHANGED <<mqttsConnect, mqttsWillTopic, mqttsSubscribe, mqttsRegister,
              mqttPublish, mqttsPublish, msgId, topicId, told, exited>>
-----------------------------------------------------------------------------
(* Control messages.  A timeout of a wait that is over is dropped; one of a *)
(* wait in progress comes from the task registered for it, one period later. *)

Later == quiet' = IF quiet = HandlerTimeout THEN quiet ELSE quiet + 1

Bug_exhausted(w) == tries[w] > MaxRetries + 1
exhausted(w) == tries[w] > MaxRetries

Bug_timeoutOf(w, resend, again, giveUp) ==
    /\ w \in waiting /\ timers[w] > 0
    /\ Later
    /\ UNCHANGED <<client, brokerInterface, mqttsSubscribe, mqttsUnsubscribe,
           mqttsPublish, topics, exited>>
    /\ \/ exhausted(w) /\ endWait(w) /\ giveUp /\ out' = {}
       \/ /\ ~exhausted(w) /\ again /\ out' = {resend}
          /\ UNCHANGED <<waiting, tries, timers>>
timeoutOf(w, resend, again, giveUp) ==
    /\ w \in waiting /\ timers[w] > 0
    /\ Later
    /\ UNCHANGED <<client, brokerInterface, mqttsSubscribe, mqttsUnsubscribe,
           mqttsPublish, topics, exited>>
    /\ \/ exhausted(w) /\ endWait(w) /\ giveUp /\ out' = {}
       \/ /\ ~exhausted(w)
          /\ again /\ out' = {resend}
          /\ tries' = [tries EXCEPT ![w] = @ + 1]
          /\ UNCHANGED <<waiting, timers>>

handleWaitingWillTopicTimeout ==
    timeoutOf("WillTopic", ToClient("WILLTOPICREQ"),
        UNCHANGED <<mqttsConnect, mqttsWillTopic, mqttsRegister, mqttPublish, msgId>>,
        /\ mqttsConnect' = NoMsg
        /\ UNCHANGED <<mqttsWillTopic, mqttsRegister, mqttPublish, msgId>>)

handleWaitingWillMsgTimeout ==
    timeoutOf("WillMsg", ToClient("WILLMSGREQ"),
        UNCHANGED <<mqttsConnect, mqttsWillTopic, mqttsRegister, mqttPublish, msgId>>,
        /\ mqttsConnect' = NoMsg /\ mqttsWillTopic' = NoMsg
        /\ UNCHANGED <<mqttsRegister, mqttPublish, msgId>>)

handleWaitingRegackTimeout ==
    timeoutOf("Regack",
        [to |-> "client", type |-> "REGISTER", topicId |-> mqttsRegister.topicId,
         msgId |-> msgId],
        /\ msgId' = msgId + 1
        /\ mqttsRegister' = [mqttsRegister EXCEPT !.msgId = msgId]
        /\ UNCHANGED <<mqttsConnect, mqttsWillTopic, mqttPublish>>,
        /\ mqttsRegister' = NoMsg /\ mqttPublish' = NoMsg
        /\ UNCHANGED <<mqttsConnect, mqttsWillTopic, msgId>>)

staleTimeout(w) == w \notin waiting /\ UNCHANGED quiet /\ Nothing

(* The handler leaves the dispatcher's table; the next message for the      *)
(* address makes a new one.  Tasks of the TimerService are left alone.      *)
handleCheckInactivity ==
    /\ quiet >= HandlerTimeout
    /\ client' = "NOT_CONNECTED" /\ reset /\ brokerInterface' = "closed"
    /\ msgId' = 1 /\ topicId' = PredfTopicIdSize + 1
    /\ topicIdMappingTable' = initialize /\ told' = {} /\ out' = {}
    /\ UNCHANGED <<timers, quiet, exited>>

(* The dispatcher calls System.exit after every handler had SHUT_DOWN. *)
shutDown ==
    /\ exited' = TRUE
    /\ \/ client # "CONNECTED" /\ out' = {} /\ UNCHANGED brokerInterface
       \/ client = "CONNECTED" /\ out' = {} /\ brokerInterface' = "closed"
       \/ /\ client = "CONNECTED" /\ brokerInterface = "open"
          /\ out' = {ToBroker("DISCONNECT")} /\ UNCHANGED brokerInterface
    /\ UNCHANGED <<client, waiting, tries, timers, quiet, stored, msgId, topics>>

(* Time passes while no task of the client is registered. *)
silence ==
    /\ timers = NoTries /\ quiet' = HandlerTimeout
    /\ Nothing
-----------------------------------------------------------------------------
(* A REGACK with the message id of the outstanding REGISTER. *)
Echoes(id, ackMsgId) ==
    mqttsRegister # NoMsg /\ ackMsgId = mqttsRegister.msgId
        => id = mqttsRegister.topicId

(* handleMqttsMessage and handleMqttMessage set the timeout before they *)
(* look at the type.                                                    *)
handleMqttsMessage ==
    /\ quiet' = 0
    /\ \/ \E will \in BOOLEAN : handleMqttsConnect(will)
       \/ handleMqttsWillTopic
       \/ handleMqttsWillMsg
       \/ handleMqttsDisconnect
       \/ \E name \in TopicNames, id \in MsgIds : handleMqttsRegister(name, id)
       \/ \E id \in TopicIds, ackMsgId \in 1 .. MaxMsgId :
             /\ EchoingClient => Echoes(id, ackMsgId)
             /\ handleMqttsRegack(id, ackMsgId)
       \/ \E m \in PublishMsg : handleMqttsPublish(m)
       \/ \E accepted \in BOOLEAN, id \in TopicIds : handleMqttsPuback(accepted, id)
       \/ \E m \in SubscribeMsg : handleMqttsSubscribe(m)
       \/ \E m \in UnsubscribeMsg : handleMqttsUnsubscribe(m)
       \/ handleMqttsPubComp
       \/ handleMqttsPubRec
       \/ handleMqttsPubRel
       \/ handleMqttsPingReq
       \/ handleMqttsPingResp
       \/ handleMqttsSearchGW
       \/ handleOther

handleMqttMessage ==
    /\ quiet' = 0
    /\ \/ \E accepted \in BOOLEAN : handleMqttConnack(accepted)
       \/ \E m \in MqttPublishMsg, fits \in BOOLEAN : handleMqttPublish(m, fits)
       \/ \E id \in MsgIds : handleMqttPuback(id)
       \/ \E id \in MsgIds : handleMqttSuback(id)
       \/ \E id \in MsgIds : handleMqttUnsuback(id)
       \/ handleMqttPubRec
       \/ handleMqttPubRel
       \/ handleMqttPubComp
       \/ handleMqttPingReq
       \/ handleMqttPingResp

handleControlMessage ==
    \/ connectionLost /\ UNCHANGED quiet
    \/ handleWaitingWillTopicTimeout
    \/ handleWaitingWillMsgTimeout
    \/ handleWaitingRegackTimeout
    \/ \E w \in ClientWaits : staleTimeout(w)
    \/ handleCheckInactivity
    \/ shutDown

Next ==
    /\ ~exited
    /\ handleMqttsMessage \/ handleMqttMessage \/ handleControlMessage \/ silence

(* The timer task of a wait fires once a period for as long as it is        *)
(* registered, and control messages go to the head of the dispatcher's      *)
(* queue: a timeout of a wait in progress is handled sooner or later.       *)
TimersRun ==
    /\ WF_vars(~exited /\ handleWaitingWillTopicTimeout)
    /\ WF_vars(~exited /\ handleWaitingWillMsgTimeout)
    /\ WF_vars(~exited /\ handleWaitingRegackTimeout)

Spec == Init /\ [][Next]_vars
FairSpec == Spec /\ TimersRun
-----------------------------------------------------------------------------
(* Every flag has the messages its answer will need, and every message a   *)
(* request stores has its flag: the null checks of the handlers that the   *)
(* source calls debugging checks (ClientMsgHandler.java:449, 560, 1503,    *)
(* 1658, 1766) never fire and no request is remembered once it is over.    *)
StoredMatchesWaiting ==
    /\ "WillTopic" \in waiting => mqttsConnect # NoMsg
    /\ "WillMsg" \in waiting => NoMsg \notin {mqttsConnect, mqttsWillTopic}
    /\ "Regack" \in waiting <=> mqttsRegister # NoMsg
    /\ "Regack" \in waiting <=> mqttPublish # NoMsg
    /\ "Suback" \in waiting <=> mqttsSubscribe # NoMsg
    /\ "Unsuback" \in waiting <=> mqttsUnsubscribe # NoMsg
    /\ "Puback" \in waiting <=> mqttsPublish # NoMsg

(* Exactly the waits in progress have a task with the timer service, one   *)
(* each, and have sent between 1 and MaxRetries + 1 requests; no task      *)
(* outlives its wait or is registered twice, whatever ends the wait        *)
(* (answer, last timeout, disconnect, lost broker, removed handler).       *)
TimersMatchWaiting ==
    \A w \in ClientWaits :
        /\ timers[w] = IF w \in waiting THEN 1 ELSE 0
        /\ IF w \in waiting THEN tries[w] \in 1 .. MaxRetries + 1
                             ELSE tries[w] = 0

(* A wait for the client lasts fewer periods than it has sent requests.    *)
(* With HandlerTimeout > MaxRetries this keeps a handler that waits from   *)
(* being removed for inactivity, which would leave its timer task behind.  *)
WaitsAreRecent == \A w \in ClientWaits : w \in waiting => quiet < tries[w]

(* The TCP connection to the broker is open exactly while the client is    *)
(* connected, no will dialogue runs on a connected client, and everything  *)
(* else the gateway waits for belongs to a connected client.               *)
SessionConsistent ==
    /\ ~exited => (brokerInterface = "open" <=> client = "CONNECTED")
    /\ client = "CONNECTED" => waiting \cap {"WillTopic", "WillMsg"} = {}
    /\ client # "CONNECTED" => waiting \subseteq {"WillTopic", "WillMsg"}
    /\ ~({"WillTopic", "WillMsg"} \subseteq waiting)

(* With a client that echoes topic ids: a delivery to the client carries an *)
(* id that was told to the client for that very name, or a predefined one,  *)
(* however registrations of either side, subscriptions, unsubscriptions and *)
(* reconnections interleave.                                                *)
DeliveriesResolvable ==
    \A m \in out : m.to = "client" /\ m.type = "PUBLISH" =>
        \/ <<m.topicId, m.topicName>> \in told
        \/ /\ m.topicId \in DOMAIN PredefTopicIdTable
           /\ m.topicName = PredefTopicIdTable[m.topicId]

(* In the life of a handler no id is told to the client for two names: ids  *)
(* are taken when a REGISTER is sent but assigned only by its REGACK, while *)
(* REGACKs and SUBACKs of the gateway take and assign others.               *)
TopicIdsUnambiguous == \A p, q \in told : p[1] = q[1] => p[2] = q[2]

(* Every acceptance sent to the client answers a request that was pending,  *)
(* with its message id, and is sent once: the request is over with it.      *)
AnswersAreDue ==
    [][\A m \in out' :
         /\ m.type = "SUBACK" /\ m.code = "ACCEPTED" =>
              mqttsSubscribe.msgId = m.msgId /\ "Suback" \in waiting \ waiting'
         /\ m.to = "client" /\ m.type = "PUBACK" /\ m.code = "ACCEPTED" =>
              mqttsPublish.msgId = m.msgId /\ "Puback" \in waiting \ waiting'
         /\ m.type = "UNSUBACK" =>
              mqttsUnsubscribe.msgId = m.msgId /\ "Unsuback" \in waiting \ waiting'
      ]_vars

(* A request that is waited for is never replaced by a later one before it  *)
(* is answered or the session ends; a retried REGISTER keeps its topic id.  *)
PendingKept ==
    [][/\ "Suback" \in waiting \cap waiting' => mqttsSubscribe' = mqttsSubscribe
       /\ "Unsuback" \in waiting \cap waiting' => mqttsUnsubscribe' = mqttsUnsubscribe
       /\ "Puback" \in waiting \cap waiting' => mqttsPublish' = mqttsPublish
       /\ "Regack" \in waiting \cap waiting' =>
            mqttPublish' = mqttPublish /\ mqttsRegister'.topicId = mqttsRegister.topicId
      ]_vars

(* On the TCP connection to the broker CONNECT is the first packet and is   *)
(* sent once, and DISCONNECT is the last one.                               *)
BrokerStream ==
    [][\A m \in {m \in out' : m.to = "broker"} :
         /\ m.type = "CONNECT" <=> brokerInterface = "closed"
         /\ m.type = "DISCONNECT" => brokerInterface' = "closed" \/ exited'
      ]_vars

(* Under the timer's fairness every dialogue with the client ends: it is    *)
(* answered, given up after its last retry, or ended with the session.      *)
WaitsEnd ==
    \A w \in ClientWaits : w \in waiting ~> (w \notin waiting \/ exited)

(* The handler implements ClientSession: with its retry bound and, under    *)
(* the timer's fairness, with its promise to retry or give up.              *)
phase ==
    IF client = "CONNECTED" THEN "active"
    ELSE IF "WillTopic" \in waiting THEN "willTopic"
    ELSE IF "WillMsg" \in waiting THEN "willMsg" ELSE "idle"
Session == INSTANCE ClientSession WITH
    MaxSends <- MaxRetries + 1,
    pending <- waiting \ {"WillTopic", "WillMsg"},
    sends <- tries["WillTopic"] + tries["WillMsg"] + tries["Regack"],
    up <- ~exited
ImplementsFairSession == Session!FairSpec
-----------------------------------------------------------------------------
(* A statement of the source that the handler does not keep. *)

(* "remove the associated topicId from the mapping table"                   *)
(* (ClientMsgHandler.java:782): a name may have two ids, and one is left.   *)
UnsubscribedNameUnmapped ==
    [][\A m \in out' : m.type = "UNSUBACK" /\ mqttsUnsubscribe.idType = "TOPIC_NAME"
         => \A i \in idsOf(topicIdMappingTable', mqttsUnsubscribe.topic) :
              i <= PredfTopicIdSize]_vars
=============================================================================
