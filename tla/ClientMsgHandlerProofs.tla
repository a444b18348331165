----------------------- MODULE ClientMsgHandlerProofs -----------------------
(***************************************************************************)
(* ClientMsgHandler for every set of names and ids, every retry count and  *)
(* every handler timeout, in four parts: its safety invariants; what topic *)
(* ids mean; what a step may never do; and that it implements              *)
(* ClientSession.                                                          *)
(***************************************************************************)
EXTENDS ClientMsgHandler, TLAPS

(* The safety invariants of the runs are inductive together: the timer tasks *)
(* match the waits only if a waiting handler is not removed, which needs     *)
(* WaitsAreRecent, which in turn needs the retry count to be right.          *)
IInv ==
    /\ TypeOK
    /\ StoredMatchesWaiting
    /\ TimersMatchWaiting
    /\ SessionConsistent
    /\ WaitsAreRecent

USE DEF ClientWaits, BrokerWaits

(* The null message is none of the requests a handler stores. *)
LEMMA RequestsNotNull ==
    /\ \A m \in SubscribeMsg : m # NoMsg
    /\ \A m \in UnsubscribeMsg : m # NoMsg
    /\ \A m \in PublishMsg : m # NoMsg
    /\ \A m \in MqttPublishMsg : m # NoMsg
<1>1. \A m \in SubscribeMsg : m # NoMsg
  BY DEF SubscribeMsg, TopicRequest, NoMsg
<1>2. \A m \in UnsubscribeMsg : m # NoMsg
  BY DEF UnsubscribeMsg, TopicRequest, NoMsg
<1>3. \A m \in PublishMsg : m # NoMsg
  BY DEF PublishMsg, NoMsg
<1>4. \A m \in MqttPublishMsg : m # NoMsg
  BY DEF MqttPublishMsg, NoMsg
<1> QED
  BY <1>1, <1>2, <1>3, <1>4

LEMMA InitIInv == Init => IInv
<1> SUFFICES ASSUME Init PROVE IInv
  OBVIOUS
<1> USE PredefinedAssumption, HandlerAssumption
<1>1. TypeOK
  <2>1. /\ DOMAIN topicIdMappingTable \subseteq Nat
        /\ \A i \in DOMAIN topicIdMappingTable : topicIdMappingTable[i] \in AllNames
    BY DEF Init, initialize, AllNames
  <2>2. HandlerTimeout \in 0 .. HandlerTimeout /\ PredfTopicIdSize + 1 \in Nat
    OBVIOUS
  <2> QED
    BY <2>1, <2>2 DEF Init, TypeOK, NoTries
<1>2. StoredMatchesWaiting
  BY DEF Init, StoredMatchesWaiting
<1>3. TimersMatchWaiting
  BY DEF Init, TimersMatchWaiting, NoTries
<1>4. SessionConsistent /\ WaitsAreRecent
  BY DEF Init, SessionConsistent, WaitsAreRecent
<1> QED
  BY <1>1, <1>2, <1>3, <1>4 DEF IInv

(* A handler that drops its message, or only answers it. *)
LEMMA NothingIInv ==
    ASSUME IInv, quiet' \in 0 .. HandlerTimeout, quiet' <= quiet,
           UNCHANGED <<session, stored, msgId, topics, exited>>
    PROVE  IInv'
<1> USE DEF session, stored, topics
<1>1. TypeOK'
  BY DEF IInv, TypeOK
<1>2. StoredMatchesWaiting'
  BY DEF IInv, StoredMatchesWaiting
<1>3. TimersMatchWaiting'
  BY DEF IInv, TimersMatchWaiting
<1>4. SessionConsistent'
  BY DEF IInv, SessionConsistent
<1>5. WaitsAreRecent'
  BY DEF IInv, WaitsAreRecent, TypeOK
<1> QED
  BY <1>1, <1>2, <1>3, <1>4, <1>5 DEF IInv

LEMMA DisconnectIInv ==
    ASSUME IInv, quiet' \in 0 .. HandlerTimeout,
           NEW S, sendClientDisconnect(S)
    PROVE  IInv'
<1> USE DEF sendClientDisconnect, reset, ForgetMessages, topics
<1>1. TypeOK'
  BY DEF IInv, TypeOK, NoTries
<1>2. StoredMatchesWaiting'
  BY DEF StoredMatchesWaiting
<1>3. TimersMatchWaiting'
  BY DEF TimersMatchWaiting, NoTries
<1>4. SessionConsistent' /\ WaitsAreRecent'
  BY DEF SessionConsistent, WaitsAreRecent
<1> QED
  BY <1>1, <1>2, <1>3, <1>4 DEF IInv

LEMMA ReplyIInv ==
    ASSUME IInv, quiet' = 0, NEW m, Reply(m) PROVE IInv'
  BY NothingIInv, HandlerAssumption DEF Reply, IInv, TypeOK

LEMMA DropIInv == ASSUME IInv, quiet' = 0, Nothing PROVE IInv'
  BY NothingIInv, HandlerAssumption DEF Nothing, IInv, TypeOK

LEMMA ConnectIInv ==
    ASSUME IInv, quiet' = 0, NEW will \in BOOLEAN, handleMqttsConnect(will)
    PROVE  IInv'
<1> USE DEF topics, stored
<1>1. CASE client = "CONNECTED" /\ Reply(ToClient("CONNACK"))
  BY <1>1, ReplyIInv
<1>2. CASE Nothing
  BY <1>2, DropIInv
<1>3. CASE /\ client # "CONNECTED"
           /\ waiting \cap {"WillTopic", "WillMsg"} = {}
           /\ UNCHANGED <<msgId, topics, exited>>
           /\ connectBroker \/ connectFailed
           /\ UNCHANGED <<waiting, tries, timers, stored>>
  <2> USE <1>3 DEF connectBroker, connectFailed
  <2>1. TypeOK'
    BY HandlerAssumption DEF IInv, TypeOK
  <2>2. StoredMatchesWaiting' /\ TimersMatchWaiting'
    BY DEF IInv, StoredMatchesWaiting, TimersMatchWaiting
  <2>3. SessionConsistent'
    BY DEF IInv, SessionConsistent
  <2>4. WaitsAreRecent'
    BY HandlerAssumption DEF IInv, WaitsAreRecent, TypeOK, TimersMatchWaiting
  <2> QED
    BY <2>1, <2>2, <2>3, <2>4 DEF IInv
<1>4. CASE /\ client # "CONNECTED"
           /\ waiting \cap {"WillTopic", "WillMsg"} = {}
           /\ UNCHANGED <<msgId, topics, exited>>
           /\ startWait("WillTopic")
           /\ mqttsConnect' = [type |-> "CONNECT"]
           /\ UNCHANGED <<client, brokerInterface, mqttsWillTopic,
                 mqttsSubscribe, mqttsUnsubscribe, mqttsRegister,
                 mqttPublish, mqttsPublish>>
  <2> USE <1>4 DEF startWait
  <2>1. TypeOK'
    BY HandlerAssumption DEF IInv, TypeOK
  <2>2. StoredMatchesWaiting'
    BY DEF IInv, StoredMatchesWaiting, NoMsg
  <2>3. TimersMatchWaiting'
    BY HandlerAssumption DEF IInv, TypeOK, TimersMatchWaiting
  <2>4. SessionConsistent'
    BY DEF IInv, SessionConsistent
  <2>5. WaitsAreRecent'
    BY HandlerAssumption DEF IInv, WaitsAreRecent, TypeOK, TimersMatchWaiting
  <2> QED
    BY <2>1, <2>2, <2>3, <2>4, <2>5 DEF IInv
<1> QED
  BY <1>1, <1>2, <1>3, <1>4 DEF handleMqttsConnect

LEMMA WillTopicIInv ==
    ASSUME IInv, quiet' = 0, handleMqttsWillTopic PROVE IInv'
<1>1. CASE Nothing
  BY <1>1, DropIInv
<1>2. CASE ~Nothing
  <2>1. /\ "WillTopic" \in waiting
        /\ waiting' = (waiting \ {"WillTopic"}) \cup {"WillMsg"}
        /\ tries' = [tries EXCEPT !["WillTopic"] = 0, !["WillMsg"] = @ + 1]
        /\ timers' = [unregister("WillTopic") EXCEPT !["WillMsg"] = @ + 1]
        /\ mqttsWillTopic' = [type |-> "WILLTOPIC"]
        /\ UNCHANGED <<client, brokerInterface, mqttsConnect, mqttsSubscribe,
              mqttsUnsubscribe, mqttsRegister, mqttPublish, mqttsPublish,
              msgId, topics, exited>>
    BY <1>2 DEF handleMqttsWillTopic
  <2> USE <2>1 DEF unregister, topics
  <2>2. tries' \in [ClientWaits -> Nat] /\ timers' \in [ClientWaits -> Nat]
    BY DEF IInv, TypeOK
  <2>3. TypeOK'
    BY <2>2, HandlerAssumption DEF IInv, TypeOK
  <2>4. StoredMatchesWaiting'
    BY DEF IInv, StoredMatchesWaiting, NoMsg
  <2>5. TimersMatchWaiting'
    BY HandlerAssumption DEF IInv, TypeOK, TimersMatchWaiting, SessionConsistent
  <2>6. SessionConsistent'
    BY DEF IInv, SessionConsistent
  <2>7. WaitsAreRecent'
    BY HandlerAssumption DEF IInv, TypeOK, TimersMatchWaiting, WaitsAreRecent
  <2> QED
    BY <2>3, <2>4, <2>5, <2>6, <2>7 DEF IInv
<1> QED
  BY <1>1, <1>2

LEMMA WillMsgIInv ==
    ASSUME IInv, quiet' = 0, handleMqttsWillMsg PROVE IInv'
<1>1. CASE Nothing
  BY <1>1, DropIInv
<1>2. CASE ~Nothing
  <2>1. "WillMsg" \in waiting /\ NoMsg \notin {mqttsConnect, mqttsWillTopic}
    BY <1>2 DEF handleMqttsWillMsg, IInv, StoredMatchesWaiting
  <2>2. /\ endWait("WillMsg")
        /\ UNCHANGED <<mqttsSubscribe, mqttsUnsubscribe, mqttsRegister,
              mqttPublish, mqttsPublish, msgId, topics, exited>>
    BY <1>2 DEF handleMqttsWillMsg
  <2>3. \/ connectBroker /\ mqttsConnect' = NoMsg /\ mqttsWillTopic' = NoMsg
        \/ connectFailed /\ UNCHANGED <<mqttsConnect, mqttsWillTopic>>
    BY <1>2, <2>1 DEF handleMqttsWillMsg
  <2> USE <2>2 DEF endWait, unregister, topics, connectBroker, connectFailed
  <2>4. tries' \in [ClientWaits -> Nat] /\ timers' \in [ClientWaits -> Nat]
    BY DEF IInv, TypeOK
  <2>5. TypeOK'
    BY <2>3, <2>4, HandlerAssumption DEF IInv, TypeOK
  <2>6. StoredMatchesWaiting'
    BY <2>1, <2>3 DEF IInv, StoredMatchesWaiting, SessionConsistent
  <2>7. TimersMatchWaiting'
    BY HandlerAssumption DEF IInv, TypeOK, TimersMatchWaiting
  <2>8. SessionConsistent'
    BY <2>1, <2>3 DEF IInv, SessionConsistent
  <2>9. WaitsAreRecent'
    BY HandlerAssumption DEF IInv, TypeOK, TimersMatchWaiting, WaitsAreRecent
  <2> QED
    BY <2>5, <2>6, <2>7, <2>8, <2>9 DEF IInv
<1> QED
  BY <1>1, <1>2

(* The topic table stays a table of ids and names. *)
LEMMA AssignTyped ==
    ASSUME TypeOK, NEW id \in Nat, NEW name \in AllNames,
           topicIdMappingTable' = assignTopicId(topicIdMappingTable, id, name)
    PROVE  /\ DOMAIN topicIdMappingTable' \subseteq Nat
           /\ \A i \in DOMAIN topicIdMappingTable' :
                 topicIdMappingTable'[i] \in AllNames
  BY DEF TypeOK, assignTopicId

LEMMA RemoveTyped ==
    ASSUME TypeOK, NEW id,
           topicIdMappingTable' = removeTopicId(topicIdMappingTable, id)
    PROVE  /\ DOMAIN topicIdMappingTable' \subseteq Nat
           /\ \A i \in DOMAIN topicIdMappingTable' :
                 topicIdMappingTable'[i] \in AllNames
  BY DEF TypeOK, removeTopicId, Restrict

(* A step that changes only the topic table, the ids and the history. *)
LEMMA TopicsIInv ==
    ASSUME IInv, quiet' = 0, UNCHANGED <<session, stored, exited>>,
           msgId' \in Nat, topicId' \in Nat, told' \subseteq Nat \X AllNames,
           DOMAIN topicIdMappingTable' \subseteq Nat,
           \A i \in DOMAIN topicIdMappingTable' :
              topicIdMappingTable'[i] \in AllNames
    PROVE  IInv'
<1> USE DEF session, stored
<1>1. TypeOK'
  BY HandlerAssumption DEF IInv, TypeOK
<1>2. StoredMatchesWaiting' /\ TimersMatchWaiting' /\ SessionConsistent'
  BY DEF IInv, StoredMatchesWaiting, TimersMatchWaiting, SessionConsistent
<1>3. WaitsAreRecent'
  BY HandlerAssumption DEF IInv, TypeOK, TimersMatchWaiting, WaitsAreRecent
<1> QED
  BY <1>1, <1>2, <1>3 DEF IInv

LEMMA RegisterIInv ==
    ASSUME IInv, quiet' = 0, NEW name \in TopicNames, NEW id \in MsgIds,
           handleMqttsRegister(name, id)
    PROVE  IInv'
<1>1. CASE refuseUnconnected
  BY <1>1, DisconnectIInv, HandlerAssumption DEF refuseUnconnected
<1>2. CASE ~refuseUnconnected
  <2>1. PICK known \in getTopicId(topicIdMappingTable, name) :
          LET topic == IF known = 0 THEN topicId ELSE known
          IN  /\ IF known = 0
                 THEN /\ getNewTopicId
                      /\ topicIdMappingTable' =
                            assignTopicId(topicIdMappingTable, topic, name)
                 ELSE UNCHANGED <<topicId, topicIdMappingTable>>
              /\ told' = told \cup {<<topic, name>>}
    BY <1>2 DEF handleMqttsRegister
  <2>2. UNCHANGED <<session, stored, msgId, exited>>
    BY <1>2 DEF handleMqttsRegister
  <2>3. TypeOK /\ name \in AllNames /\ topicId \in Nat /\ msgId' \in Nat
    BY <2>2 DEF IInv, TypeOK, TopicNames
  <2>4. known \in Nat
    BY <2>3 DEF getTopicId, idsOf, TypeOK
  <2>5. told' \subseteq Nat \X AllNames
    BY <2>1, <2>3, <2>4 DEF TypeOK
  <2>6. CASE known = 0
    BY <2>1, <2>2, <2>3, <2>5, <2>6, AssignTyped, TopicsIInv DEF getNewTopicId
  <2>7. CASE known # 0
    BY <2>1, <2>2, <2>3, <2>5, <2>7, TopicsIInv DEF TypeOK
  <2> QED
    BY <2>6, <2>7
<1> QED
  BY <1>1, <1>2

LEMMA RegackIInv ==
    ASSUME IInv, quiet' = 0, NEW id \in TopicIds, NEW ackMsgId,
           handleMqttsRegack(id, ackMsgId)
    PROVE  IInv'
<1>1. CASE refuseUnconnected
  BY <1>1, DisconnectIInv, HandlerAssumption DEF refuseUnconnected
<1>2. CASE Nothing
  BY <1>2, DropIInv
<1>3. CASE /\ ~refuseUnconnected /\ ~Nothing
  <2>1. /\ "Regack" \in waiting /\ client = "CONNECTED"
        /\ NoMsg \notin {mqttsRegister, mqttPublish}
    BY <1>3 DEF handleMqttsRegack, IInv, StoredMatchesWaiting
  <2>2. /\ topicIdMappingTable' =
             assignTopicId(topicIdMappingTable, id, mqttPublish.topicName)
        /\ endWait("Regack")
        /\ mqttsRegister' = NoMsg /\ mqttPublish' = NoMsg
        /\ UNCHANGED <<client, brokerInterface, mqttsConnect, mqttsWillTopic,
              mqttsSubscribe, mqttsUnsubscribe, mqttsPublish, msgId, topicId,
              told, exited>>
    BY <1>3, <2>1 DEF handleMqttsRegack
  <2>3. mqttPublish.topicName \in AllNames /\ id \in Nat /\ TypeOK
    BY <2>1 DEF IInv, TypeOK, MqttPublishMsg, TopicNames, TopicIds
  <2>4. /\ DOMAIN topicIdMappingTable' \subseteq Nat
        /\ \A i \in DOMAIN topicIdMappingTable' : topicIdMappingTable'[i] \in AllNames
    BY <2>2, <2>3, AssignTyped
  <2> USE <2>2 DEF endWait, unregister
  <2>5. TypeOK'
    BY <2>3, <2>4, HandlerAssumption DEF TypeOK
  <2>6. StoredMatchesWaiting'
    BY DEF IInv, StoredMatchesWaiting
  <2>7. TimersMatchWaiting'
    BY HandlerAssumption DEF IInv, TypeOK, TimersMatchWaiting
  <2>8. SessionConsistent'
    BY DEF IInv, SessionConsistent
  <2>9. WaitsAreRecent'
    BY HandlerAssumption DEF IInv, TypeOK, TimersMatchWaiting, WaitsAreRecent
  <2> QED
    BY <2>5, <2>6, <2>7, <2>8, <2>9 DEF IInv
<1> QED
  BY <1>1, <1>2, <1>3

(* A request of the client becomes pending with its message stored. *)
LEMMA PendingIInv ==
    ASSUME IInv, quiet' = 0, client = "CONNECTED",
           UNCHANGED <<client, tries, timers, brokerInterface, mqttsConnect,
              mqttsWillTopic, mqttsRegister, mqttPublish, msgId, topics, exited>>,
           \/ /\ waiting' = waiting \cup {"Suback"}
              /\ mqttsSubscribe' \in SubscribeMsg
              /\ UNCHANGED <<mqttsUnsubscribe, mqttsPublish>>
           \/ /\ waiting' = waiting \cup {"Unsuback"}
              /\ mqttsUnsubscribe' \in UnsubscribeMsg
              /\ UNCHANGED <<mqttsSubscribe, mqttsPublish>>
           \/ /\ waiting' = waiting \cup {"Puback"}
              /\ mqttsPublish' \in PublishMsg
              /\ UNCHANGED <<mqttsSubscribe, mqttsUnsubscribe>>
    PROVE  IInv'
<1>1. TypeOK' /\ StoredMatchesWaiting'
  <2> USE DEF topics
  <2>1. CASE /\ waiting' = waiting \cup {"Suback"}
             /\ mqttsSubscribe' \in SubscribeMsg
             /\ UNCHANGED <<mqttsUnsubscribe, mqttsPublish>>
    <3>1. mqttsSubscribe' # NoMsg
      BY <2>1, RequestsNotNull
    <3>2. TypeOK'
      BY <2>1, HandlerAssumption DEF IInv, TypeOK
    <3> QED
      BY <2>1, <3>1, <3>2 DEF IInv, StoredMatchesWaiting
  <2>2. CASE /\ waiting' = waiting \cup {"Unsuback"}
             /\ mqttsUnsubscribe' \in UnsubscribeMsg
             /\ UNCHANGED <<mqttsSubscribe, mqttsPublish>>
    <3>1. mqttsUnsubscribe' # NoMsg
      BY <2>2, RequestsNotNull
    <3>2. TypeOK'
      BY <2>2, HandlerAssumption DEF IInv, TypeOK
    <3> QED
      BY <2>2, <3>1, <3>2 DEF IInv, StoredMatchesWaiting
  <2>3. CASE /\ waiting' = waiting \cup {"Puback"}
             /\ mqttsPublish' \in PublishMsg
             /\ UNCHANGED <<mqttsSubscribe, mqttsUnsubscribe>>
    <3>1. mqttsPublish' # NoMsg
      BY <2>3, RequestsNotNull
    <3>2. TypeOK'
      BY <2>3, HandlerAssumption DEF IInv, TypeOK
    <3> QED
      BY <2>3, <3>1, <3>2 DEF IInv, StoredMatchesWaiting
  <2> QED
    BY <2>1, <2>2, <2>3
<1>2. TimersMatchWaiting'
  BY DEF IInv, TimersMatchWaiting
<1>3. SessionConsistent'
  BY DEF IInv, SessionConsistent
<1>4. WaitsAreRecent'
  BY HandlerAssumption DEF IInv, TypeOK, TimersMatchWaiting, WaitsAreRecent
<1> QED
  BY <1>1, <1>2, <1>3, <1>4 DEF IInv

LEMMA RefusedIInv ==
    ASSUME IInv, quiet' = 0, refuseUnconnected \/ sendFailed PROVE IInv'
  BY DisconnectIInv, HandlerAssumption DEF refuseUnconnected, sendFailed

LEMMA PublishIInv ==
    ASSUME IInv, quiet' = 0, NEW m \in PublishMsg, handleMqttsPublish(m)
    PROVE  IInv'
<1>1. CASE \E r : Reply(r)
  BY <1>1, ReplyIInv
<1>2. CASE Nothing
  BY <1>2, DropIInv
<1>3. CASE refuseUnconnected \/ sendFailed
  BY <1>3, RefusedIInv
<1>4. CASE /\ client = "CONNECTED"
           /\ waiting' = IF m.qos = 1 THEN waiting \cup {"Puback"} ELSE waiting
           /\ mqttsPublish' = IF m.qos = 1 THEN m ELSE mqttsPublish
           /\ UNCHANGED <<client, tries, timers, brokerInterface, mqttsConnect,
                 mqttsWillTopic, mqttsSubscribe, mqttsUnsubscribe,
                 mqttsRegister, mqttPublish, msgId, topics, exited>>
  <2>1. CASE m.qos = 1
    BY <1>4, <2>1, PendingIInv
  <2>2. CASE m.qos # 1
    <3>1. UNCHANGED <<session, stored, msgId, topics, exited>>
      BY <1>4, <2>2 DEF session, stored
    <3> QED
      BY <3>1, NothingIInv, HandlerAssumption DEF IInv, TypeOK
  <2> QED
    BY <2>1, <2>2
<1> QED
  BY <1>1, <1>2, <1>3, <1>4 DEF handleMqttsPublish

LEMMA SubscribeIInv ==
    ASSUME IInv, quiet' = 0, NEW m \in SubscribeMsg, handleMqttsSubscribe(m)
    PROVE  IInv'
<1>1. CASE \E r : Reply(r)
  BY <1>1, ReplyIInv
<1>2. CASE Nothing
  BY <1>2, DropIInv
<1>3. CASE refuseUnconnected \/ sendFailed
  BY <1>3, RefusedIInv
<1>4. CASE /\ client = "CONNECTED"
           /\ mqttsSubscribe' = m
           /\ waiting' = waiting \cup {"Suback"}
           /\ UNCHANGED <<client, tries, timers, brokerInterface, mqttsConnect,
                 mqttsWillTopic, mqttsUnsubscribe, mqttsRegister,
                 mqttPublish, mqttsPublish, msgId, topics, exited>>
  BY <1>4, PendingIInv
<1> QED
  BY <1>1, <1>2, <1>3, <1>4 DEF handleMqttsSubscribe

LEMMA UnsubscribeIInv ==
    ASSUME IInv, quiet' = 0, NEW m \in UnsubscribeMsg, handleMqttsUnsubscribe(m)
    PROVE  IInv'
<1>1. CASE Nothing
  BY <1>1, DropIInv
<1>2. CASE refuseUnconnected \/ sendFailed
  BY <1>2, RefusedIInv
<1>3. CASE /\ client = "CONNECTED"
           /\ mqttsUnsubscribe' = m
           /\ waiting' = waiting \cup {"Unsuback"}
           /\ UNCHANGED <<client, tries, timers, brokerInterface, mqttsConnect,
                 mqttsWillTopic, mqttsSubscribe, mqttsRegister,
                 mqttPublish, mqttsPublish, msgId, topics, exited>>
  BY <1>3, PendingIInv
<1> QED
  BY <1>1, <1>2, <1>3 DEF handleMqttsUnsubscribe

LEMMA ForwardIInv ==
    ASSUME IInv, quiet' = 0, NEW t, forwardToBroker(t) \/ forwardToClient(t)
    PROVE  IInv'
  BY ReplyIInv, DropIInv, RefusedIInv DEF forwardToBroker, forwardToClient

LEMMA PubackIInv ==
    ASSUME IInv, quiet' = 0, NEW accepted, NEW id, handleMqttsPuback(accepted, id)
    PROVE  IInv'
<1>1. CASE refuseUnconnected \/ forwardToBroker("PUBACK")
  BY <1>1, RefusedIInv, ForwardIInv
<1>2. CASE /\ topicIdMappingTable' = removeTopicId(topicIdMappingTable, id)
           /\ UNCHANGED <<session, stored, msgId, topicId, told, exited>>
  <2>1. TypeOK
    BY DEF IInv
  <2> QED
    BY <1>2, <2>1, RemoveTyped, TopicsIInv DEF TypeOK
<1> QED
  BY <1>1, <1>2 DEF handleMqttsPuback

(* A delivery under a name the client does not know yet: the REGISTER. *)
LEMMA BrokerPublishIInv ==
    ASSUME IInv, quiet' = 0, NEW m \in MqttPublishMsg, NEW fits,
           handleMqttPublish(m, fits)
    PROVE  IInv'
<1>1. CASE \E r : Reply(r)
  BY <1>1, ReplyIInv
<1>2. CASE Nothing
  BY <1>2, DropIInv
<1>3. CASE ~Nothing /\ ~(\E r : Reply(r))
  <2>1. /\ client = "CONNECTED" /\ "Regack" \notin waiting
        /\ topicId' = topicId + 1 /\ msgId' = msgId + 1
        /\ mqttPublish' = m
        /\ mqttsRegister' = [type |-> "REGISTER", topicId |-> topicId,
                             topicName |-> m.topicName, msgId |-> msgId]
        /\ told' = told \cup {<<topicId, m.topicName>>}
        /\ startWait("Regack")
        /\ UNCHANGED <<client, brokerInterface, mqttsConnect, mqttsWillTopic,
               mqttsSubscribe, mqttsUnsubscribe, mqttsPublish,
               topicIdMappingTable, exited>>
    BY <1>3 DEF handleMqttPublish, getNewTopicId, getNewMsgId
  <2>2. m.topicName \in TopicNames /\ m.topicName \in AllNames
    BY DEF MqttPublishMsg, TopicNames
  <2>3. TypeOK
    BY DEF IInv
  <2>4. /\ mqttsRegister' \in RegisterMsg /\ mqttsRegister' # NoMsg
        /\ told' \subseteq Nat \X AllNames /\ topicId' \in Nat /\ msgId' \in Nat
    BY <2>1, <2>2, <2>3 DEF TypeOK, RegisterMsg, NoMsg
  <2>5. mqttPublish' \in MqttPublishMsg /\ mqttPublish' # NoMsg
    BY <2>1, RequestsNotNull
  <2>6. /\ UNCHANGED <<client, brokerInterface, mqttsConnect, mqttsWillTopic,
               mqttsSubscribe, mqttsUnsubscribe, mqttsPublish,
               topicIdMappingTable, exited>>
        /\ client = "CONNECTED" /\ "Regack" \notin waiting
        /\ waiting' = waiting \cup {"Regack"}
        /\ tries' = [tries EXCEPT !["Regack"] = @ + 1]
        /\ timers' = [timers EXCEPT !["Regack"] = @ + 1]
    BY <2>1 DEF startWait
  <2>7. tries' \in [ClientWaits -> Nat] /\ timers' \in [ClientWaits -> Nat]
    BY <2>3, <2>6 DEF TypeOK
  <2>8. TypeOK'
    BY <2>3, <2>4, <2>5, <2>6, <2>7, HandlerAssumption DEF TypeOK
  <2>9. StoredMatchesWaiting'
    BY <2>4, <2>5, <2>6 DEF IInv, StoredMatchesWaiting
  <2>10. TimersMatchWaiting'
    BY <2>6, HandlerAssumption DEF IInv, TypeOK, TimersMatchWaiting
  <2>11. SessionConsistent'
    BY <2>6 DEF IInv, SessionConsistent
  <2>12. WaitsAreRecent'
    BY <2>6, HandlerAssumption DEF IInv, TypeOK, TimersMatchWaiting, WaitsAreRecent
  <2> QED
    BY <2>8, <2>9, <2>10, <2>11, <2>12 DEF IInv
<1> QED
  BY <1>1, <1>2, <1>3

(* The answer to a request of the client: request and flag go together. *)
LEMMA AnsweredIInv ==
    ASSUME IInv, quiet' = 0, NEW w \in BrokerWaits, answered(w),
           mqttsSubscribe' = IF w = "Suback" THEN NoMsg ELSE mqttsSubscribe,
           mqttsUnsubscribe' = IF w = "Unsuback" THEN NoMsg ELSE mqttsUnsubscribe,
           mqttsPublish' = IF w = "Puback" THEN NoMsg ELSE mqttsPublish,
           UNCHANGED <<mqttsConnect, mqttsWillTopic, mqttsRegister, mqttPublish,
              msgId, exited>>,
           topicId' \in Nat, told' \subseteq Nat \X AllNames,
           DOMAIN topicIdMappingTable' \subseteq Nat,
           \A i \in DOMAIN topicIdMappingTable' :
              topicIdMappingTable'[i] \in AllNames
    PROVE  IInv'
<1> USE DEF answered
<1>1. TypeOK'
  <2>1. /\ mqttsSubscribe' \in {NoMsg} \cup SubscribeMsg
        /\ mqttsUnsubscribe' \in {NoMsg} \cup UnsubscribeMsg
        /\ mqttsPublish' \in {NoMsg} \cup PublishMsg
    BY DEF IInv, TypeOK
  <2> QED
    BY <2>1, HandlerAssumption DEF IInv, TypeOK
<1>2. StoredMatchesWaiting'
  BY DEF IInv, StoredMatchesWaiting
<1>3. TimersMatchWaiting'
  BY DEF IInv, TimersMatchWaiting
<1>4. SessionConsistent'
  BY DEF IInv, SessionConsistent
<1>5. WaitsAreRecent'
  BY HandlerAssumption DEF IInv, TypeOK, TimersMatchWaiting, WaitsAreRecent
<1> QED
  BY <1>1, <1>2, <1>3, <1>4, <1>5 DEF IInv

LEMMA BrokerPubackIInv ==
    ASSUME IInv, quiet' = 0, NEW id, handleMqttPuback(id) PROVE IInv'
<1>1. CASE Nothing
  BY <1>1, DropIInv
<1>2. CASE /\ answered("Puback") /\ mqttsPublish' = NoMsg
           /\ UNCHANGED <<mqttsConnect, mqttsWillTopic, mqttsSubscribe,
                 mqttsUnsubscribe, mqttsRegister, mqttPublish, msgId, topics, exited>>
  <2>1. /\ topicId' \in Nat /\ told' \subseteq Nat \X AllNames
        /\ DOMAIN topicIdMappingTable' \subseteq Nat
        /\ \A i \in DOMAIN topicIdMappingTable' :
              topicIdMappingTable'[i] \in AllNames
    BY <1>2 DEF topics, IInv, TypeOK
  <2> QED
    BY <1>2, <2>1, AnsweredIInv
<1>3. ~requestMissing("Puback", mqttsPublish)
  BY DEF requestMissing, IInv, StoredMatchesWaiting
<1> QED
  BY <1>1, <1>2, <1>3 DEF handleMqttPuback

LEMMA SubackIInv ==
    ASSUME IInv, quiet' = 0, NEW id, handleMqttSuback(id) PROVE IInv'
<1>1. CASE Nothing
  BY <1>1, DropIInv
<1>2. ~requestMissing("Suback", mqttsSubscribe)
  BY DEF requestMissing, IInv, StoredMatchesWaiting
<1>3. CASE ~Nothing
  <2>1. /\ answers("Suback", mqttsSubscribe, id) /\ answered("Suback")
        /\ mqttsSubscribe' = NoMsg
        /\ UNCHANGED <<mqttsConnect, mqttsWillTopic, mqttsUnsubscribe,
               mqttsRegister, mqttPublish, mqttsPublish, msgId, exited>>
    BY <1>2, <1>3 DEF handleMqttSuback
  <2>2. \/ UNCHANGED topics
        \/ /\ mqttsSubscribe.idType = "TOPIC_NAME"
           /\ \E id0 \in getTopicId(topicIdMappingTable, mqttsSubscribe.topic) :
                 told' = told \cup {<<id0, mqttsSubscribe.topic>>}
           /\ UNCHANGED <<topicId, topicIdMappingTable>>
        \/ /\ mqttsSubscribe.idType = "TOPIC_NAME"
           /\ topicId' = topicId + 1
           /\ topicIdMappingTable' = assignTopicId(topicIdMappingTable,
                                         topicId, mqttsSubscribe.topic)
           /\ told' = told \cup {<<topicId, mqttsSubscribe.topic>>}
    BY <1>2, <1>3 DEF handleMqttSuback, getNewTopicId
  <2>3. TypeOK
    BY DEF IInv
  <2>4. mqttsSubscribe.idType = "TOPIC_NAME" => mqttsSubscribe.topic \in AllNames
    BY <2>1, <2>3 DEF TypeOK, answers, SubscribeMsg, TopicRequest
  <2>5. \A id0 \in getTopicId(topicIdMappingTable, mqttsSubscribe.topic) : id0 \in Nat
    BY <2>3 DEF TypeOK, getTopicId, idsOf
  <2>6. topicId' \in Nat /\ told' \subseteq Nat \X AllNames
    BY <2>2, <2>3, <2>4, <2>5 DEF TypeOK, topics
  <2>7. /\ DOMAIN topicIdMappingTable' \subseteq Nat
        /\ \A i \in DOMAIN topicIdMappingTable' :
              topicIdMappingTable'[i] \in AllNames
    <3>1. CASE UNCHANGED topicIdMappingTable
      BY <2>3, <3>1 DEF TypeOK
    <3>2. CASE /\ mqttsSubscribe.topic \in AllNames
               /\ topicIdMappingTable' = assignTopicId(topicIdMappingTable,
                                             topicId, mqttsSubscribe.topic)
      <4>1. topicId \in Nat
        BY <2>3 DEF TypeOK
      <4> QED
        BY <2>3, <3>2, <4>1, AssignTyped
    <3> QED
      BY <2>2, <2>4, <3>1, <3>2 DEF topics
  <2> QED
    BY <2>1, <2>6, <2>7, AnsweredIInv
<1> QED
  BY <1>1, <1>3

LEMMA UnsubackIInv ==
    ASSUME IInv, quiet' = 0, NEW id, handleMqttUnsuback(id) PROVE IInv'
<1>1. CASE Nothing
  BY <1>1, DropIInv
<1>2. ~requestMissing("Unsuback", mqttsUnsubscribe)
  BY DEF requestMissing, IInv, StoredMatchesWaiting
<1>3. CASE ~Nothing
  <2>1. /\ answered("Unsuback") /\ mqttsUnsubscribe' = NoMsg
        /\ UNCHANGED <<mqttsConnect, mqttsWillTopic, mqttsSubscribe, mqttsRegister,
               mqttPublish, mqttsPublish, msgId, topicId, told, exited>>
        /\ \/ UNCHANGED topicIdMappingTable
           \/ topicIdMappingTable' \in
                 removeTopicName(topicIdMappingTable, mqttsUnsubscribe.topic)
    BY <1>2, <1>3 DEF handleMqttUnsuback
  <2>2. TypeOK
    BY DEF IInv
  <2>3. \/ UNCHANGED topicIdMappingTable
        \/ \E i : topicIdMappingTable' = removeTopicId(topicIdMappingTable, i)
    BY <2>1 DEF removeTopicName
  <2>4. /\ DOMAIN topicIdMappingTable' \subseteq Nat
        /\ \A i \in DOMAIN topicIdMappingTable' :
              topicIdMappingTable'[i] \in AllNames
    BY <2>2, <2>3, RemoveTyped DEF TypeOK
  <2>5. topicId' \in Nat /\ told' \subseteq Nat \X AllNames
    BY <2>1, <2>2 DEF TypeOK
  <2> QED
    BY <2>1, <2>4, <2>5, AnsweredIInv
<1> QED
  BY <1>1, <1>3

(* A client waits for at most one answer of the gateway's own requests. *)
LEMMA OneWait ==
    ASSUME IInv, NEW v \in ClientWaits, NEW w \in ClientWaits,
           v \in waiting, w \in waiting
    PROVE  v = w
  BY DEF IInv, SessionConsistent

LEMMA TimeoutIInv ==
    ASSUME IInv, NEW w \in ClientWaits, w \in waiting, Later,
           UNCHANGED <<client, brokerInterface, mqttsSubscribe, mqttsUnsubscribe,
              mqttsPublish, topics, exited>>,
           TypeOK', StoredMatchesWaiting',
           \/ endWait(w)
           \/ /\ ~exhausted(w) /\ tries' = [tries EXCEPT ![w] = @ + 1]
              /\ UNCHANGED <<waiting, timers>>
    PROVE  IInv'
<1>1. TypeOK /\ tries[w] \in Nat /\ quiet \in Nat /\ quiet < tries[w]
  BY HandlerAssumption DEF IInv, TypeOK, WaitsAreRecent
<1>2. quiet' \in Nat /\ quiet' <= quiet + 1
  BY <1>1, HandlerAssumption DEF Later
<1>3. CASE endWait(w)
  <2> USE <1>3 DEF endWait, unregister
  <2>1. TimersMatchWaiting'
    BY HandlerAssumption DEF IInv, TypeOK, TimersMatchWaiting
  <2>2. SessionConsistent'
    BY DEF IInv, SessionConsistent
  <2>3. WaitsAreRecent'
    <3>1. \A v \in ClientWaits : v \notin waiting'
      BY OneWait
    <3> QED
      BY <3>1 DEF WaitsAreRecent
  <2> QED
    BY <2>1, <2>2, <2>3 DEF IInv
<1>4. CASE /\ ~exhausted(w) /\ tries' = [tries EXCEPT ![w] = @ + 1]
           /\ UNCHANGED <<waiting, timers>>
  <2>1. tries'[w] = tries[w] + 1 /\ tries[w] <= MaxRetries
    BY <1>1, <1>4, HandlerAssumption DEF exhausted, TypeOK
  <2>2. TimersMatchWaiting'
    BY <1>1, <1>4, <2>1, HandlerAssumption DEF IInv, TypeOK, TimersMatchWaiting
  <2>3. SessionConsistent'
    BY <1>4 DEF IInv, SessionConsistent
  <2>4. WaitsAreRecent'
    <3>1. \A v \in ClientWaits : v \in waiting' => v = w
      BY <1>4, OneWait
    <3> QED
      BY <1>1, <1>2, <2>1, <3>1 DEF WaitsAreRecent
  <2> QED
    BY <2>2, <2>3, <2>4 DEF IInv
<1> QED
  BY <1>3, <1>4

LEMMA WillTopicTimeoutIInv ==
    ASSUME IInv, handleWaitingWillTopicTimeout PROVE IInv'
<1>1. /\ "WillTopic" \in waiting /\ Later
      /\ UNCHANGED <<client, brokerInterface, mqttsSubscribe, mqttsUnsubscribe,
            mqttsPublish, topics, exited>>
      /\ UNCHANGED <<mqttsWillTopic, mqttsRegister, mqttPublish, msgId>>
      /\ \/ endWait("WillTopic") /\ mqttsConnect' = NoMsg
         \/ /\ ~exhausted("WillTopic") /\ UNCHANGED <<mqttsConnect, waiting, timers>>
            /\ tries' = [tries EXCEPT !["WillTopic"] = @ + 1]
  BY DEF handleWaitingWillTopicTimeout, timeoutOf
<1>2. tries' \in [ClientWaits -> Nat] /\ timers' \in [ClientWaits -> Nat]
  BY <1>1 DEF IInv, TypeOK, endWait, unregister
<1>3. quiet' \in 0 .. HandlerTimeout
  BY <1>1, HandlerAssumption DEF IInv, TypeOK, Later
<1>4. TypeOK'
  BY <1>1, <1>2, <1>3, ZenonT(30) DEF IInv, TypeOK, topics, endWait
<1>5. StoredMatchesWaiting'
  BY <1>1 DEF IInv, StoredMatchesWaiting, SessionConsistent, endWait
<1> QED
  BY <1>1, <1>4, <1>5, TimeoutIInv

LEMMA WillMsgTimeoutIInv ==
    ASSUME IInv, handleWaitingWillMsgTimeout PROVE IInv'
<1>1. /\ "WillMsg" \in waiting /\ Later
      /\ UNCHANGED <<client, brokerInterface, mqttsSubscribe, mqttsUnsubscribe,
            mqttsPublish, topics, exited>>
      /\ UNCHANGED <<mqttsRegister, mqttPublish, msgId>>
      /\ \/ /\ endWait("WillMsg")
            /\ mqttsConnect' = NoMsg /\ mqttsWillTopic' = NoMsg
         \/ /\ ~exhausted("WillMsg")
            /\ UNCHANGED <<mqttsConnect, mqttsWillTopic, waiting, timers>>
            /\ tries' = [tries EXCEPT !["WillMsg"] = @ + 1]
  BY DEF handleWaitingWillMsgTimeout, timeoutOf
<1>2. tries' \in [ClientWaits -> Nat] /\ timers' \in [ClientWaits -> Nat]
  BY <1>1 DEF IInv, TypeOK, endWait, unregister
<1>3. quiet' \in 0 .. HandlerTimeout
  BY <1>1, HandlerAssumption DEF IInv, TypeOK, Later
<1>4. TypeOK'
  BY <1>1, <1>2, <1>3, ZenonT(30) DEF IInv, TypeOK, topics, endWait
<1>5. StoredMatchesWaiting'
  BY <1>1 DEF IInv, StoredMatchesWaiting, SessionConsistent, endWait
<1> QED
  BY <1>1, <1>4, <1>5, TimeoutIInv

LEMMA RegackTimeoutIInv ==
    ASSUME IInv, handleWaitingRegackTimeout PROVE IInv'
<1>1. /\ "Regack" \in waiting /\ Later
      /\ UNCHANGED <<client, brokerInterface, mqttsSubscribe, mqttsUnsubscribe,
            mqttsPublish, topics, exited>>
      /\ UNCHANGED <<mqttsConnect, mqttsWillTopic>>
      /\ \/ /\ endWait("Regack") /\ UNCHANGED msgId
            /\ mqttsRegister' = NoMsg /\ mqttPublish' = NoMsg
         \/ /\ ~exhausted("Regack")
            /\ msgId' = msgId + 1
            /\ mqttsRegister' = [mqttsRegister EXCEPT !.msgId = msgId]
            /\ UNCHANGED <<mqttPublish, waiting, timers>>
            /\ tries' = [tries EXCEPT !["Regack"] = @ + 1]
  BY DEF handleWaitingRegackTimeout, timeoutOf
<1>2. tries' \in [ClientWaits -> Nat] /\ timers' \in [ClientWaits -> Nat]
  BY <1>1 DEF IInv, TypeOK, endWait, unregister
<1>3. quiet' \in 0 .. HandlerTimeout
  BY <1>1, HandlerAssumption DEF IInv, TypeOK, Later
<1>4. /\ mqttsRegister \in RegisterMsg /\ mqttsRegister # NoMsg
      /\ msgId \in Nat
  BY <1>1 DEF IInv, TypeOK, StoredMatchesWaiting
<1>5. [mqttsRegister EXCEPT !.msgId = msgId] \in RegisterMsg
  BY <1>4 DEF RegisterMsg
<1>6. [mqttsRegister EXCEPT !.msgId = msgId] # NoMsg
  BY <1>5 DEF RegisterMsg, NoMsg
<1>7. /\ mqttsRegister' \in {NoMsg} \cup RegisterMsg /\ msgId' \in Nat
      /\ mqttPublish' \in {NoMsg} \cup MqttPublishMsg
  BY <1>1, <1>4, <1>5 DEF IInv, TypeOK
<1>8. TypeOK'
  BY <1>1, <1>2, <1>3, <1>7 DEF IInv, TypeOK, topics, endWait
<1>9. StoredMatchesWaiting'
  BY <1>1, <1>6 DEF IInv, StoredMatchesWaiting, endWait
<1> QED
  BY <1>1, <1>8, <1>9, TimeoutIInv

(* A handler that is removed waits for nothing its timer would still hold. *)
LEMMA InactivityIInv ==
    ASSUME IInv, handleCheckInactivity PROVE IInv'
<1> USE PredefinedAssumption, HandlerAssumption
    DEF handleCheckInactivity, reset, ForgetMessages
<1>1. ASSUME NEW w \in ClientWaits PROVE w \notin waiting
  BY DEF IInv, TypeOK, WaitsAreRecent, TimersMatchWaiting
<1>2. timers = NoTries
  BY <1>1 DEF IInv, TypeOK, TimersMatchWaiting, NoTries
<1>3. /\ DOMAIN topicIdMappingTable' \subseteq Nat
      /\ \A i \in DOMAIN topicIdMappingTable' : topicIdMappingTable'[i] \in AllNames
  BY DEF initialize, AllNames
<1>4. TypeOK'
  BY <1>3 DEF IInv, TypeOK, NoTries
<1>5. StoredMatchesWaiting'
  BY DEF StoredMatchesWaiting
<1>6. TimersMatchWaiting'
  BY <1>2 DEF TimersMatchWaiting, NoTries
<1>7. SessionConsistent' /\ WaitsAreRecent'
  BY DEF SessionConsistent, WaitsAreRecent
<1> QED
  BY <1>4, <1>5, <1>6, <1>7 DEF IInv

LEMMA ShutDownIInv == ASSUME IInv, shutDown PROVE IInv'
<1> USE DEF shutDown, stored, topics
<1>1. TypeOK'
  BY DEF IInv, TypeOK
<1>2. StoredMatchesWaiting' /\ TimersMatchWaiting'
  BY DEF IInv, StoredMatchesWaiting, TimersMatchWaiting
<1>3. SessionConsistent' /\ WaitsAreRecent'
  BY DEF IInv, SessionConsistent, WaitsAreRecent
<1> QED
  BY <1>1, <1>2, <1>3 DEF IInv

LEMMA SilenceIInv == ASSUME IInv, silence PROVE IInv'
<1> USE DEF silence, Nothing, session, stored, topics
<1>1. \A w \in ClientWaits : w \notin waiting
  BY DEF IInv, TimersMatchWaiting, NoTries
<1>2. quiet' \in 0 .. HandlerTimeout
  BY HandlerAssumption
<1>3. TypeOK'
  BY <1>2 DEF IInv, TypeOK
<1>4. StoredMatchesWaiting' /\ TimersMatchWaiting'
  BY DEF IInv, StoredMatchesWaiting, TimersMatchWaiting
<1>5. SessionConsistent' /\ WaitsAreRecent'
  BY <1>1 DEF IInv, SessionConsistent, WaitsAreRecent
<1> QED
  BY <1>3, <1>4, <1>5 DEF IInv

LEMMA ControlIInv == ASSUME IInv, handleControlMessage PROVE IInv'
<1>1. quiet \in 0 .. HandlerTimeout /\ quiet <= quiet
  BY HandlerAssumption DEF IInv, TypeOK
<1>2. CASE connectionLost /\ UNCHANGED quiet
  BY <1>1, <1>2, NothingIInv, DisconnectIInv DEF connectionLost, Nothing
<1>3. CASE \E w \in ClientWaits : staleTimeout(w)
  BY <1>1, <1>3, NothingIInv DEF staleTimeout, Nothing
<1> QED
  BY <1>2, <1>3, WillTopicTimeoutIInv, WillMsgTimeoutIInv, RegackTimeoutIInv,
     InactivityIInv, ShutDownIInv DEF handleControlMessage

LEMMA ClientIInv == ASSUME IInv, handleMqttsMessage PROVE IInv'
<1>1. quiet' = 0 /\ quiet' \in 0 .. HandlerTimeout
  BY HandlerAssumption DEF handleMqttsMessage
<1>2. CASE handleMqttsDisconnect
  BY <1>1, <1>2, DropIInv, DisconnectIInv DEF handleMqttsDisconnect
<1>3. CASE \/ handleMqttsPubComp \/ handleMqttsPubRec \/ handleMqttsPubRel
           \/ handleMqttsPingReq \/ handleMqttsPingResp
  BY <1>1, <1>3, ForwardIInv DEF handleMqttsPubComp, handleMqttsPubRec,
     handleMqttsPubRel, handleMqttsPingReq, handleMqttsPingResp
<1>4. CASE handleMqttsSearchGW \/ handleOther
  BY <1>1, <1>4, ReplyIInv, DropIInv DEF handleMqttsSearchGW, handleOther
<1> QED
  BY <1>1, <1>2, <1>3, <1>4, ConnectIInv, WillTopicIInv, WillMsgIInv, RegisterIInv,
     RegackIInv, PublishIInv, PubackIInv, SubscribeIInv, UnsubscribeIInv
     DEF handleMqttsMessage

LEMMA BrokerIInv == ASSUME IInv, handleMqttMessage PROVE IInv'
<1>1. quiet' = 0 /\ quiet' \in 0 .. HandlerTimeout
  BY HandlerAssumption DEF handleMqttMessage
<1>2. CASE \E accepted \in BOOLEAN : handleMqttConnack(accepted)
  BY <1>1, <1>2, DropIInv, ReplyIInv, DisconnectIInv DEF handleMqttConnack
<1>3. CASE \/ handleMqttPubRec \/ handleMqttPubRel \/ handleMqttPubComp
           \/ handleMqttPingReq \/ handleMqttPingResp
  BY <1>1, <1>3, ForwardIInv DEF handleMqttPubRec, handleMqttPubRel,
     handleMqttPubComp, handleMqttPingReq, handleMqttPingResp
<1> QED
  BY <1>1, <1>2, <1>3, BrokerPublishIInv, BrokerPubackIInv, SubackIInv, UnsubackIInv
     DEF handleMqttMessage

LEMMA NextIInv == IInv /\ [Next]_vars => IInv'
<1> SUFFICES ASSUME IInv, [Next]_vars PROVE IInv'
  OBVIOUS
<1>1. CASE UNCHANGED vars
  <2>1. quiet' \in 0 .. HandlerTimeout /\ quiet' <= quiet
    BY <1>1, HandlerAssumption DEF vars, IInv, TypeOK
  <2> QED
    BY <1>1, <2>1, NothingIInv DEF vars
<1>2. CASE Next
  BY <1>2, ClientIInv, BrokerIInv, ControlIInv, SilenceIInv DEF Next
<1> QED
  BY <1>1, <1>2
-----------------------------------------------------------------------------
(* Every reachable state of the handler satisfies the inductive invariant. *)
THEOREM Invariance == Spec => []IInv
  BY InitIInv, NextIInv, PTL DEF Spec

(* The handler's variables keep their types. *)
THEOREM TypeCorrect == Spec => []TypeOK
<1>1. IInv => TypeOK
  BY DEF IInv
<1> QED
  BY <1>1, Invariance, PTL

(* The stored messages and the waiting flags agree, so the source's null    *)
(* checks never fire, for any number of names, ids and retries.             *)
THEOREM StoredMessages == Spec => []StoredMatchesWaiting
<1>1. IInv => StoredMatchesWaiting
  BY DEF IInv
<1> QED
  BY <1>1, Invariance, PTL

(* Waits and timer tasks come and go together, retries stay bounded.        *)
THEOREM TimersAndWaits == Spec => []TimersMatchWaiting
<1>1. IInv => TimersMatchWaiting
  BY DEF IInv
<1> QED
  BY <1>1, Invariance, PTL

(* Session state, broker connection and pending requests agree.             *)
THEOREM SessionAndConnection == Spec => []SessionConsistent
<1>1. IInv => SessionConsistent
  BY DEF IInv
<1> QED
  BY <1>1, Invariance, PTL

(* A wait is never older than its sends, so no waiting handler is removed.  *)
THEOREM WaitsRecent == Spec => []WaitsAreRecent
<1>1. IInv => WaitsAreRecent
  BY DEF IInv
<1> QED
  BY <1>1, Invariance, PTL

-----------------------------------------------------------------------------
(***************************************************************************)
(* What the topic ids of ClientMsgHandler mean, for every set of names and *)
(* ids and every interleaving of registrations, subscriptions, deliveries, *)
(* retries and reconnections: no id is told to a client for two names, and *)
(* with a client whose REGACK echoes the topic id every delivery can be    *)
(* resolved by the client.                                                 *)
(***************************************************************************)

(* The client can resolve the id to the name: it was told so, or it is a   *)
(* predefined id.                                                          *)
Resolved(i, name) ==
    \/ <<i, name>> \in told
    \/ i \in DOMAIN PredefTopicIdTable /\ name = PredefTopicIdTable[i]

(* The counter is ahead of every id, so that a fresh id is in no pair; the *)
(* table and the outstanding REGISTER hold only what the client was told.  *)
Issued ==
    /\ topicId > PredfTopicIdSize
    /\ \A p \in told : p[1] < topicId
    /\ \A p \in told : p[1] \in DOMAIN PredefTopicIdTable => p[2] = PredefTopicIdTable[p[1]]
TableTold ==
    \A i \in DOMAIN topicIdMappingTable : Resolved(i, topicIdMappingTable[i])
RegisterTold ==
    mqttPublish # NoMsg => <<mqttsRegister.topicId, mqttPublish.topicName>> \in told

Ids == Issued /\ TableTold /\ RegisterTold /\ TopicIdsUnambiguous

LEMMA InitIds == Init => Ids /\ DeliveriesResolvable
  BY PredefinedAssumption DEF Init, initialize, Ids, Issued, TableTold, Resolved, RegisterTold,
     TopicIdsUnambiguous, DeliveriesResolvable

NoDelivery == \A m \in out' : ~(m.to = "client" /\ m.type = "PUBLISH")

(* The registration in progress, if there still is one, is the same one.   *)
SameRegister ==
    \/ mqttPublish' = NoMsg
    \/ mqttPublish' = mqttPublish /\ mqttsRegister'.topicId = mqttsRegister.topicId

LEMMA SilentResolvable == ASSUME NoDelivery PROVE DeliveriesResolvable'
  BY DEF NoDelivery, DeliveriesResolvable

(* A step that leaves table, counter and history alone.                    *)
LEMMA SameIds == ASSUME Ids, UNCHANGED topics, SameRegister PROVE Ids'
<1> USE DEF topics, Ids
<1>1. Issued' /\ TopicIdsUnambiguous'
  BY DEF Issued, TopicIdsUnambiguous
<1>2. TableTold'
  BY DEF TableTold, Resolved
<1>3. RegisterTold'
  BY DEF RegisterTold, SameRegister
<1> QED
  BY <1>1, <1>2, <1>3

(* A step that takes entries out of the table.                             *)
LEMMA RemovalIds ==
    ASSUME Ids, UNCHANGED <<topicId, told>>, SameRegister,
           NEW i, topicIdMappingTable' = removeTopicId(topicIdMappingTable, i)
    PROVE  Ids'
<1> USE DEF Ids
<1>1. Issued' /\ TopicIdsUnambiguous'
  BY DEF Issued, TopicIdsUnambiguous
<1>2. TableTold'
  BY DEF TableTold, Resolved, removeTopicId, Restrict
<1>3. RegisterTold'
  BY DEF RegisterTold, SameRegister
<1> QED
  BY <1>1, <1>2, <1>3

(* A fresh id is told to the client; it may enter the table at once.       *)
LEMMA FreshIds ==
    ASSUME IInv, Ids, NEW name, topicId' = topicId + 1, told' = told \cup {<<topicId, name>>},
           \/ UNCHANGED topicIdMappingTable
           \/ topicIdMappingTable' = assignTopicId(topicIdMappingTable, topicId, name),
           \/ SameRegister
           \/ mqttsRegister'.topicId = topicId /\ mqttPublish'.topicName = name
    PROVE  Ids'
<1>1. topicId \in Nat /\ told \subseteq Nat \X AllNames
  BY DEF IInv, TypeOK
<1>2. \A p \in told : p[1] \in Nat /\ p[1] < topicId
  BY <1>1 DEF Ids, Issued
<1>3. topicId \notin DOMAIN PredefTopicIdTable
  BY <1>1, PredefinedAssumption DEF Ids, Issued
<1>4. Issued'
  BY <1>1, <1>2, <1>3, PredefinedAssumption DEF Ids, Issued
<1>5. TopicIdsUnambiguous'
  BY <1>1, <1>2 DEF Ids, TopicIdsUnambiguous
<1>6. TableTold'
  BY DEF Ids, TableTold, Resolved, assignTopicId
<1>7. RegisterTold'
  BY DEF Ids, RegisterTold, SameRegister
<1> QED
  BY <1>4, <1>5, <1>6, <1>7 DEF Ids

(* A name the table holds is told with its id.                             *)
LEMMA KnownIds ==
    ASSUME IInv, Ids, SameRegister, UNCHANGED <<topicId, topicIdMappingTable>>,
           NEW name, NEW i \in idsOf(topicIdMappingTable, name), told' = told \cup {<<i, name>>}
    PROVE  Ids'
<1>1. topicId \in Nat /\ told \subseteq Nat \X AllNames
  BY DEF IInv, TypeOK
<1>2. i \in DOMAIN topicIdMappingTable /\ name = topicIdMappingTable[i] /\ Resolved(i, name)
  BY DEF idsOf, Ids, TableTold
<1>3. i < topicId /\ (i \in DOMAIN PredefTopicIdTable => name = PredefTopicIdTable[i])
  BY <1>1, <1>2, PredefinedAssumption DEF Ids, Issued, Resolved
<1>4. Issued'
  BY <1>3 DEF Ids, Issued
<1>5. \A p \in told : p[1] = i => p[2] = name
  BY <1>2 DEF Ids, Issued, Resolved, TopicIdsUnambiguous
<1>6. TopicIdsUnambiguous'
  BY <1>5 DEF Ids, TopicIdsUnambiguous
<1>7. TableTold' /\ RegisterTold'
  BY DEF Ids, TableTold, Resolved, RegisterTold, SameRegister
<1> QED
  BY <1>4, <1>6, <1>7 DEF Ids
-----------------------------------------------------------------------------
(* The handlers that leave the topics alone.  Quiet: and deliver nothing.   *)

Quiet == UNCHANGED topics /\ SameRegister /\ NoDelivery

LEMMA QuietKeeps == ASSUME Ids, Quiet PROVE Ids' /\ DeliveriesResolvable'
  BY SameIds, SilentResolvable DEF Quiet

LEMMA NothingQuiet == ASSUME Nothing PROVE Quiet
  BY DEF Nothing, Quiet, SameRegister, NoDelivery, topics, stored

LEMMA ReplyQuiet ==
    ASSUME NEW m, Reply(m), ~(m.to = "client" /\ m.type = "PUBLISH") PROVE Quiet
  BY DEF Reply, Quiet, SameRegister, NoDelivery, topics, stored

LEMMA DisconnectQuiet ==
    ASSUME NEW S \in SUBSET {ToBroker("DISCONNECT")}, sendClientDisconnect(S) PROVE Quiet
  BY DEF sendClientDisconnect, reset, ForgetMessages, Quiet, SameRegister, NoDelivery, topics,
     ToBroker, ToClient

LEMMA RefusedQuiet == ASSUME refuseUnconnected \/ sendFailed PROVE Quiet
  BY DisconnectQuiet DEF refuseUnconnected, sendFailed

LEMMA DialogueQuiet ==
    ASSUME \/ \E will \in BOOLEAN : handleMqttsConnect(will)
           \/ handleMqttsWillTopic \/ handleMqttsWillMsg
    PROVE  Quiet
<1> USE DEF SameRegister, NoDelivery, topics, stored, ToClient, ToBroker, connectBroker, connectFailed
<1>1. ASSUME NEW will \in BOOLEAN, handleMqttsConnect(will) PROVE Quiet
  <2>1. CASE Reply(ToClient("CONNACK")) \/ Nothing
    BY <2>1, ReplyQuiet, NothingQuiet
  <2> QED
    BY <1>1, <2>1 DEF handleMqttsConnect, Quiet
<1>2. CASE handleMqttsWillTopic
  BY <1>2, NothingQuiet DEF handleMqttsWillTopic, Quiet
<1>3. CASE handleMqttsWillMsg
  BY <1>3, NothingQuiet DEF handleMqttsWillMsg, Quiet
<1> QED
  BY <1>1, <1>2, <1>3

LEMMA RequestQuiet ==
    ASSUME \/ \E m \in PublishMsg : handleMqttsPublish(m)
           \/ \E m \in SubscribeMsg : handleMqttsSubscribe(m)
           \/ \E m \in UnsubscribeMsg : handleMqttsUnsubscribe(m)
    PROVE  Quiet
<1> USE DEF SameRegister, NoDelivery, topics, request
<1>1. ASSUME NEW m \in PublishMsg, handleMqttsPublish(m) PROVE Quiet
  <2>1. CASE Nothing \/ refuseUnconnected \/ sendFailed
    BY <2>1, NothingQuiet, RefusedQuiet
  <2>2. CASE Reply(ToGateway("PUBLISH")) \/ Reply(invalidTopicId("PUBACK", m))
    BY <2>2, ReplyQuiet DEF ToGateway, invalidTopicId
  <2> QED
    BY <1>1, <2>1, <2>2 DEF handleMqttsPublish, Quiet
<1>2. ASSUME NEW m \in SubscribeMsg, handleMqttsSubscribe(m) PROVE Quiet
  <2>1. CASE Nothing \/ refuseUnconnected \/ sendFailed
    BY <2>1, NothingQuiet, RefusedQuiet
  <2>2. CASE Reply(invalidTopicId("SUBACK", m))
    BY <2>2, ReplyQuiet DEF invalidTopicId
  <2> QED
    BY <1>2, <2>1, <2>2 DEF handleMqttsSubscribe, Quiet
<1>3. ASSUME NEW m \in UnsubscribeMsg, handleMqttsUnsubscribe(m) PROVE Quiet
  <2>1. CASE Nothing \/ refuseUnconnected \/ sendFailed
    BY <2>1, NothingQuiet, RefusedQuiet
  <2> QED
    BY <1>3, <2>1 DEF handleMqttsUnsubscribe, Quiet
<1> QED
  BY <1>1, <1>2, <1>3

LEMMA ForwardQuiet ==
    ASSUME NEW type, type # "PUBLISH", forwardToBroker(type) \/ forwardToClient(type) PROVE Quiet
  BY NothingQuiet, ReplyQuiet, RefusedQuiet DEF forwardToBroker, forwardToClient, ToBroker, ToClient

LEMMA TimeoutQuiet ==
    ASSUME IInv,
           \/ handleWaitingWillTopicTimeout \/ handleWaitingWillMsgTimeout
           \/ handleWaitingRegackTimeout
    PROVE  Quiet
<1> USE DEF SameRegister, NoDelivery, topics, timeoutOf, ToClient, Quiet
<1>1. CASE handleWaitingWillTopicTimeout
  BY <1>1 DEF handleWaitingWillTopicTimeout
<1>2. CASE handleWaitingWillMsgTimeout
  BY <1>2 DEF handleWaitingWillMsgTimeout
<1>3. CASE handleWaitingRegackTimeout
  <2>1. mqttsRegister \in RegisterMsg
    BY <1>3 DEF handleWaitingRegackTimeout, IInv, TypeOK, StoredMatchesWaiting
  <2>2. [mqttsRegister EXCEPT !.msgId = msgId].topicId = mqttsRegister.topicId
    BY <2>1 DEF RegisterMsg
  <2>3. UNCHANGED topics
    BY <1>3 DEF handleWaitingRegackTimeout
  <2>4. NoDelivery
    BY <1>3 DEF handleWaitingRegackTimeout
  <2>5. SameRegister
    BY <1>3, <2>2 DEF handleWaitingRegackTimeout
  <2> QED
    BY <2>3, <2>4, <2>5
<1> QED
  BY <1>1, <1>2, <1>3
-----------------------------------------------------------------------------
(* The handlers that register, forget or use topic ids.                    *)

LEMMA RegisterIds ==
    ASSUME IInv, Ids, NEW name \in TopicNames, NEW id \in MsgIds, handleMqttsRegister(name, id)
    PROVE  Ids' /\ DeliveriesResolvable'
<1>1. CASE refuseUnconnected
  BY <1>1, RefusedQuiet, QuietKeeps
<1>2. CASE ~refuseUnconnected
  <2>1. PICK known \in getTopicId(topicIdMappingTable, name) :
          LET topic == IF known = 0 THEN topicId ELSE known
          IN  /\ IF known = 0
                 THEN /\ getNewTopicId
                      /\ topicIdMappingTable' =
                            assignTopicId(topicIdMappingTable, topic, name)
                 ELSE UNCHANGED <<topicId, topicIdMappingTable>>
              /\ out' = {[to |-> "client", type |-> "REGACK",
                          topicId |-> topic, msgId |-> id]}
              /\ told' = told \cup {<<topic, name>>}
    BY <1>2 DEF handleMqttsRegister
  <2>2. SameRegister /\ NoDelivery
    BY <1>2, <2>1 DEF handleMqttsRegister, SameRegister, stored, NoDelivery
  <2>3. CASE known = 0
    BY <2>1, <2>2, <2>3, FreshIds, SilentResolvable DEF getNewTopicId
  <2>4. CASE known # 0
    <3>1. known \in idsOf(topicIdMappingTable, name)
      BY <2>1, <2>4 DEF getTopicId
    <3> QED
      BY <2>1, <2>2, <2>4, <3>1, KnownIds, SilentResolvable
  <2> QED
    BY <2>3, <2>4
<1> QED
  BY <1>1, <1>2

(* The REGACK of an echoing client assigns the id the REGISTER told it.     *)
LEMMA RegackIds ==
    ASSUME IInv, Ids, NEW id \in TopicIds, NEW ackMsgId, Echoes(id, ackMsgId),
           handleMqttsRegack(id, ackMsgId)
    PROVE  Ids' /\ DeliveriesResolvable'
<1>1. CASE refuseUnconnected \/ Nothing
  BY <1>1, RefusedQuiet, NothingQuiet, QuietKeeps
<1>2. CASE ~refuseUnconnected /\ ~Nothing
  <2>1. "Regack" \in waiting /\ NoMsg \notin {mqttsRegister, mqttPublish}
    BY <1>2 DEF handleMqttsRegack, IInv, StoredMatchesWaiting
  <2>2. /\ answersRegister(ackMsgId)
        /\ topicIdMappingTable' =
              assignTopicId(topicIdMappingTable, id, mqttPublish.topicName)
        /\ out' = {[to |-> "client", type |-> "PUBLISH", idType |-> "NORMAL",
                    topicId |-> id, topicName |-> mqttPublish.topicName]}
        /\ mqttPublish' = NoMsg /\ UNCHANGED <<topicId, told>>
    BY <1>2, <2>1 DEF handleMqttsRegack
  <2>3. <<id, mqttPublish.topicName>> \in told
    BY <2>1, <2>2 DEF Echoes, answersRegister, Ids, RegisterTold
  <2>4. Issued' /\ TopicIdsUnambiguous' /\ RegisterTold'
    BY <2>2 DEF Ids, Issued, TopicIdsUnambiguous, RegisterTold
  <2>5. TableTold'
    BY <2>2, <2>3 DEF Ids, TableTold, Resolved, assignTopicId
  <2>6. DeliveriesResolvable'
    BY <2>2, <2>3 DEF DeliveriesResolvable
  <2> QED
    BY <2>4, <2>5, <2>6 DEF Ids
<1> QED
  BY <1>1, <1>2

LEMMA PubackIds ==
    ASSUME IInv, Ids, NEW accepted, NEW id, handleMqttsPuback(accepted, id)
    PROVE  Ids' /\ DeliveriesResolvable'
<1>1. CASE refuseUnconnected \/ forwardToBroker("PUBACK")
  BY <1>1, RefusedQuiet, ForwardQuiet, QuietKeeps
<1>2. CASE /\ topicIdMappingTable' = removeTopicId(topicIdMappingTable, id)
           /\ out' = {}
           /\ UNCHANGED <<session, stored, msgId, topicId, told, exited>>
  <2>1. SameRegister /\ NoDelivery
    BY <1>2 DEF SameRegister, stored, NoDelivery
  <2> QED
    BY <1>2, <2>1, RemovalIds, SilentResolvable
<1> QED
  BY <1>1, <1>2 DEF handleMqttsPuback

(* A delivery goes out under an id of the table, or begins a registration. *)
LEMMA BrokerPublishIds ==
    ASSUME IInv, Ids, NEW m \in MqttPublishMsg, NEW fits, handleMqttPublish(m, fits)
    PROVE  Ids' /\ DeliveriesResolvable'
<1>1. CASE Nothing
  BY <1>1, NothingQuiet, QuietKeeps
<1>2. ASSUME NEW id \in getTopicId(topicIdMappingTable, m.topicName) \ {0},
             Reply([to |-> "client", type |-> "PUBLISH",
                    idType |-> IF id > PredfTopicIdSize THEN "NORMAL" ELSE "PREDEFINED",
                    topicId |-> id, topicName |-> m.topicName])
      PROVE  Ids' /\ DeliveriesResolvable'
  <2>1. UNCHANGED topics /\ SameRegister
    BY <1>2 DEF Reply, SameRegister, stored
  <2>2. Resolved(id, m.topicName)
    BY DEF getTopicId, idsOf, Ids, TableTold
  <2>3. DeliveriesResolvable'
    BY <1>2, <2>1, <2>2 DEF Reply, topics, Resolved, DeliveriesResolvable
  <2> QED
    BY <2>1, <2>3, SameIds
<1>3. CASE /\ getNewTopicId
           /\ mqttPublish' = m
           /\ mqttsRegister' = [type |-> "REGISTER", topicId |-> topicId,
                                topicName |-> m.topicName, msgId |-> msgId]
           /\ out' = {[to |-> "client", type |-> "REGISTER", topicId |-> topicId,
                       msgId |-> msgId]}
           /\ told' = told \cup {<<topicId, m.topicName>>}
           /\ UNCHANGED topicIdMappingTable
  <2>1. NoDelivery
    BY <1>3 DEF NoDelivery
  <2>2. mqttsRegister'.topicId = topicId /\ mqttPublish'.topicName = m.topicName
    BY <1>3
  <2> QED
    BY <1>3, <2>1, <2>2, FreshIds, SilentResolvable DEF getNewTopicId
<1> QED
  BY <1>1, <1>2, <1>3 DEF handleMqttPublish

LEMMA BrokerAckIds ==
    ASSUME IInv, Ids, NEW id,
           handleMqttPuback(id) \/ handleMqttSuback(id) \/ handleMqttUnsuback(id)
    PROVE  Ids' /\ DeliveriesResolvable'
<1>1. CASE Nothing
  BY <1>1, NothingQuiet, QuietKeeps
<1>2. /\ ~requestMissing("Puback", mqttsPublish)
      /\ ~requestMissing("Suback", mqttsSubscribe)
      /\ ~requestMissing("Unsuback", mqttsUnsubscribe)
  BY DEF requestMissing, IInv, StoredMatchesWaiting
<1>3. CASE ~Nothing
  <2>1. SameRegister /\ NoDelivery
    BY <1>2, <1>3 DEF handleMqttPuback, handleMqttSuback, handleMqttUnsuback, SameRegister, NoDelivery
  <2>2. CASE handleMqttPuback(id)
    <3>1. UNCHANGED topics
      BY <1>2, <1>3, <2>2 DEF handleMqttPuback
    <3> QED
      BY <2>1, <3>1, SameIds, SilentResolvable
  <2>3. CASE handleMqttSuback(id)
    <3> DEFINE name == mqttsSubscribe.topic
    <3>1. \/ UNCHANGED topics
          \/ /\ \E i \in getTopicId(topicIdMappingTable, name) \ {0} :
                   told' = told \cup {<<i, name>>}
             /\ UNCHANGED <<topicId, topicIdMappingTable>>
          \/ /\ topicId' = topicId + 1 /\ told' = told \cup {<<topicId, name>>}
             /\ topicIdMappingTable' = assignTopicId(topicIdMappingTable, topicId, name)
      BY <1>2, <1>3, <2>3 DEF handleMqttSuback, getNewTopicId
    <3>2. \A i \in getTopicId(topicIdMappingTable, name) \ {0} :
             i \in idsOf(topicIdMappingTable, name)
      BY DEF getTopicId
    <3>3. Ids'
      BY <2>1, <3>1, <3>2, SameIds, KnownIds, FreshIds
    <3> QED
      BY <2>1, <3>3, SilentResolvable
  <2>4. CASE handleMqttUnsuback(id)
    <3>1. /\ UNCHANGED <<topicId, told>>
          /\ \/ UNCHANGED topicIdMappingTable
             \/ topicIdMappingTable' \in
                   removeTopicName(topicIdMappingTable, mqttsUnsubscribe.topic)
      BY <1>2, <1>3, <2>4 DEF handleMqttUnsuback
    <3>2. \/ UNCHANGED topics
          \/ \E i : topicIdMappingTable' = removeTopicId(topicIdMappingTable, i)
      BY <3>1 DEF removeTopicName, topics
    <3>3. Ids'
      BY <2>1, <3>1, <3>2, SameIds, RemovalIds
    <3> QED
      BY <2>1, <3>3, SilentResolvable
  <2> QED
    BY <2>2, <2>3, <2>4
<1> QED
  BY <1>1, <1>3

(* A new handler for the address starts with nothing told.                 *)
LEMMA InactivityIds ==
    ASSUME handleCheckInactivity PROVE Ids' /\ DeliveriesResolvable'
  BY PredefinedAssumption DEF handleCheckInactivity, reset, ForgetMessages, initialize, Ids, Issued,
     TableTold, Resolved, RegisterTold, TopicIdsUnambiguous, DeliveriesResolvable
-----------------------------------------------------------------------------
LEMMA ClientIds ==
    ASSUME EchoingClient, IInv, Ids, handleMqttsMessage PROVE Ids' /\ DeliveriesResolvable'
<1>1. CASE handleMqttsDisconnect
  BY <1>1, NothingQuiet, DisconnectQuiet, QuietKeeps DEF handleMqttsDisconnect
<1>2. CASE \/ handleMqttsPubComp \/ handleMqttsPubRec \/ handleMqttsPubRel
           \/ handleMqttsPingReq \/ handleMqttsPingResp
  BY <1>2, ForwardQuiet, QuietKeeps DEF handleMqttsPubComp, handleMqttsPubRec,
     handleMqttsPubRel, handleMqttsPingReq, handleMqttsPingResp
<1>3. CASE handleMqttsSearchGW \/ handleOther
  BY <1>3, ReplyQuiet, NothingQuiet, QuietKeeps DEF handleMqttsSearchGW, handleOther, ToGateway
<1>4. CASE \E id \in TopicIds, ackMsgId \in 1 .. MaxMsgId :
             /\ EchoingClient => Echoes(id, ackMsgId)
             /\ handleMqttsRegack(id, ackMsgId)
  BY <1>4, RegackIds
<1> QED
  BY <1>1, <1>2, <1>3, <1>4, DialogueQuiet, RequestQuiet, QuietKeeps, RegisterIds, PubackIds
     DEF handleMqttsMessage

LEMMA BrokerIds == ASSUME IInv, Ids, handleMqttMessage PROVE Ids' /\ DeliveriesResolvable'
<1>1. CASE \E accepted \in BOOLEAN : handleMqttConnack(accepted)
  BY <1>1, NothingQuiet, ReplyQuiet, DisconnectQuiet, QuietKeeps DEF handleMqttConnack, ToClient
<1>2. CASE \/ handleMqttPubRec \/ handleMqttPubRel \/ handleMqttPubComp
           \/ handleMqttPingReq \/ handleMqttPingResp
  BY <1>2, ForwardQuiet, QuietKeeps DEF handleMqttPubRec, handleMqttPubRel,
     handleMqttPubComp, handleMqttPingReq, handleMqttPingResp
<1> QED
  BY <1>1, <1>2, BrokerPublishIds, BrokerAckIds DEF handleMqttMessage

LEMMA ControlIds == ASSUME IInv, Ids, handleControlMessage PROVE Ids' /\ DeliveriesResolvable'
<1>1. CASE connectionLost \/ \E w \in ClientWaits : staleTimeout(w)
  BY <1>1, NothingQuiet, DisconnectQuiet, QuietKeeps DEF connectionLost, staleTimeout
<1>2. CASE shutDown
  BY <1>2, QuietKeeps DEF shutDown, Quiet, SameRegister, NoDelivery, stored, ToBroker
<1> QED
  BY <1>1, <1>2, TimeoutQuiet, QuietKeeps, InactivityIds DEF handleControlMessage

LEMMA NextIds ==
    ASSUME EchoingClient PROVE IInv /\ Ids /\ DeliveriesResolvable /\ [Next]_vars
                                  => Ids' /\ DeliveriesResolvable'
<1> SUFFICES ASSUME IInv, Ids, DeliveriesResolvable, [Next]_vars PROVE Ids' /\ DeliveriesResolvable'
  OBVIOUS
<1>1. CASE UNCHANGED vars
  <2>1. DeliveriesResolvable' /\ UNCHANGED topics /\ SameRegister
    BY <1>1 DEF vars, stored, topics, SameRegister, DeliveriesResolvable
  <2> QED
    BY <2>1, SameIds
<1>2. CASE silence
  BY <1>2, NothingQuiet, QuietKeeps DEF silence
<1> QED
  BY <1>1, <1>2, ClientIds, BrokerIds, ControlIds DEF Next

THEOREM TopicIdsInvariance ==
    ASSUME EchoingClient PROVE Spec => [](Ids /\ DeliveriesResolvable)
  BY InitIds, NextIds, Invariance, PTL DEF Spec

(* Whatever the order of the two sides' registrations, subscriptions and    *)
(* unsubscriptions, rejections, retries and reconnections, a client that    *)
(* echoes topic ids can resolve every delivery it gets.                     *)
THEOREM DeliveriesAreResolvable ==
    ASSUME EchoingClient PROVE Spec => []DeliveriesResolvable
  BY TopicIdsInvariance, PTL

(* No id of a handler is told to its client for two names.                  *)
THEOREM IdsAreUnambiguous ==
    ASSUME EchoingClient PROVE Spec => []TopicIdsUnambiguous
<1>1. Ids => TopicIdsUnambiguous
  BY DEF Ids
<1> QED
  BY <1>1, TopicIdsInvariance, PTL

-----------------------------------------------------------------------------
(***************************************************************************)
(* What a step of ClientMsgHandler may never do, for every set of names    *)
(* and ids, every retry count and every handler timeout: replace a request *)
(* that is waited for, accept a request nobody waits for, or write to the  *)
(* broker outside of a connection that CONNECT began.                      *)
(***************************************************************************)

(* The step formulas of PendingKept, BrokerStream and AnswersAreDue.        *)
KeepsPending ==
    /\ "Suback" \in waiting \cap waiting' => mqttsSubscribe' = mqttsSubscribe
    /\ "Unsuback" \in waiting \cap waiting' => mqttsUnsubscribe' = mqttsUnsubscribe
    /\ "Puback" \in waiting \cap waiting' => mqttsPublish' = mqttsPublish
    /\ "Regack" \in waiting \cap waiting' =>
         mqttPublish' = mqttPublish /\ mqttsRegister'.topicId = mqttsRegister.topicId
KeepsStream ==
    \A m \in {m \in out' : m.to = "broker"} :
      /\ m.type = "CONNECT" <=> brokerInterface = "closed"
      /\ m.type = "DISCONNECT" => brokerInterface' = "closed" \/ exited'
AnswersDue ==
    \A m \in out' :
      /\ m.type = "SUBACK" /\ m.code = "ACCEPTED" =>
           mqttsSubscribe.msgId = m.msgId /\ "Suback" \in waiting \ waiting'
      /\ m.to = "client" /\ m.type = "PUBACK" /\ m.code = "ACCEPTED" =>
           mqttsPublish.msgId = m.msgId /\ "Puback" \in waiting \ waiting'
      /\ m.type = "UNSUBACK" =>
           mqttsUnsubscribe.msgId = m.msgId /\ "Unsuback" \in waiting \ waiting'

Good == KeepsPending /\ KeepsStream /\ AnswersDue

Running == IInv /\ ~exited

(* The stream is open exactly for a connected client.                      *)
LEMMA OpenIfConnected ==
    ASSUME Running
    PROVE  brokerInterface \in {"open", "closed"} /\ (brokerInterface = "open" <=> client = "CONNECTED")
  BY DEF Running, IInv, TypeOK, SessionConsistent

(* Messages that say nothing about a request or the stream.                *)
Plain(m) ==
    \/ m.to = "client" /\ m.type \notin {"SUBACK", "PUBACK", "UNSUBACK"}
    \/ m.to = "gateway" /\ m.type \notin {"SUBACK", "UNSUBACK"}
    \/ /\ m.to = "broker" /\ brokerInterface = "open"
       /\ m.type \notin {"CONNECT", "DISCONNECT", "SUBACK", "UNSUBACK"}

LEMMA PlainGood == ASSUME \A m \in out' : Plain(m) PROVE KeepsStream /\ AnswersDue
  BY DEF Plain, KeepsStream, AnswersDue

LEMMA NothingGood == ASSUME Nothing PROVE Good
  BY PlainGood DEF Nothing, stored, Good, KeepsPending

LEMMA ReplyGood == ASSUME NEW m, Reply(m), Plain(m) PROVE Good
  BY PlainGood DEF Reply, stored, Good, KeepsPending

LEMMA RejectGood ==
    ASSUME NEW ack, NEW m, ack \in {"PUBACK", "SUBACK"}, Reply(invalidTopicId(ack, m)) PROVE Good
  BY DEF Reply, invalidTopicId, stored, Good, KeepsPending, KeepsStream, AnswersDue

LEMMA DisconnectGood ==
    ASSUME Running, NEW S \in SUBSET {ToBroker("DISCONNECT")}, sendClientDisconnect(S),
           S = {} \/ client = "CONNECTED"
    PROVE  Good
<1>1. KeepsPending
  BY DEF sendClientDisconnect, reset, KeepsPending
<1>2. KeepsStream /\ AnswersDue
  BY OpenIfConnected DEF sendClientDisconnect, KeepsStream, AnswersDue, ToClient, ToBroker
<1> QED
  BY <1>1, <1>2 DEF Good

LEMMA RefusedGood == ASSUME Running, refuseUnconnected \/ sendFailed PROVE Good
  BY DisconnectGood DEF refuseUnconnected, sendFailed

LEMMA ForwardGood ==
    ASSUME Running, NEW type, forwardToBroker(type) \/ forwardToClient(type),
           type \in {"PUBCOMP", "PUBREC", "PUBREL", "PINGREQ", "PINGRESP"}
              \/ (type = "PUBACK" /\ forwardToBroker(type))
    PROVE  Good
<1>1. CASE Nothing \/ refuseUnconnected \/ sendFailed
  BY <1>1, NothingGood, RefusedGood
<1>2. CASE brokerInterface = "open" /\ Reply(ToBroker(type))
  BY <1>2, ReplyGood DEF Plain, ToBroker
<1>3. CASE type # "PUBACK" /\ Reply(ToClient(type))
  BY <1>3, ReplyGood DEF Plain, ToClient
<1> QED
  BY <1>1, <1>2, <1>3 DEF forwardToBroker, forwardToClient

(* CONNECT is written to a stream that has just been opened.               *)
LEMMA ConnectGood ==
    ASSUME Running, client # "CONNECTED", connectBroker \/ connectFailed
    PROVE  KeepsStream /\ AnswersDue
  BY OpenIfConnected DEF connectBroker, connectFailed, KeepsStream, AnswersDue, ToBroker

LEMMA DialogueGood ==
    ASSUME Running,
           \/ \E will \in BOOLEAN : handleMqttsConnect(will)
           \/ handleMqttsWillTopic \/ handleMqttsWillMsg
    PROVE  Good
<1>1. ASSUME NEW will \in BOOLEAN, handleMqttsConnect(will) PROVE Good
  <2>1. CASE Reply(ToClient("CONNACK")) \/ Nothing
    BY <2>1, ReplyGood, NothingGood DEF Plain, ToClient
  <2>2. CASE client # "CONNECTED" /\ (connectBroker \/ connectFailed) /\ UNCHANGED <<waiting, stored>>
    BY <2>2, ConnectGood DEF Good, KeepsPending, stored
  <2>3. CASE /\ out' = {ToClient("WILLTOPICREQ")}
             /\ UNCHANGED <<mqttsSubscribe, mqttsUnsubscribe, mqttsRegister,
                   mqttPublish, mqttsPublish>>
    BY <2>3, PlainGood DEF Good, KeepsPending, Plain, ToClient
  <2> QED
    BY <1>1, <2>1, <2>2, <2>3 DEF handleMqttsConnect
<1>2. CASE handleMqttsWillTopic
  <2>1. CASE /\ out' = {ToClient("WILLMSGREQ")}
             /\ UNCHANGED <<mqttsSubscribe, mqttsUnsubscribe, mqttsRegister,
                   mqttPublish, mqttsPublish>>
    BY <2>1, PlainGood DEF Good, KeepsPending, Plain, ToClient
  <2> QED
    BY <1>2, <2>1, NothingGood DEF handleMqttsWillTopic
<1>3. CASE handleMqttsWillMsg
  <2>1. CASE Nothing
    BY <2>1, NothingGood
  <2>2. CASE ~Nothing
    <3>1. /\ "WillMsg" \in waiting /\ NoMsg \notin {mqttsConnect, mqttsWillTopic}
      BY <1>3, <2>2 DEF handleMqttsWillMsg, Running, IInv, StoredMatchesWaiting
    <3>2. client # "CONNECTED"
      BY <3>1 DEF Running, IInv, SessionConsistent
    <3>3. UNCHANGED <<mqttsSubscribe, mqttsUnsubscribe, mqttsRegister, mqttPublish, mqttsPublish>>
      BY <1>3, <2>2 DEF handleMqttsWillMsg
    <3>4. connectBroker \/ connectFailed
      BY <1>3, <2>2, <3>1 DEF handleMqttsWillMsg
    <3> QED
      BY <3>2, <3>3, <3>4, ConnectGood DEF Good, KeepsPending
  <2> QED
    BY <2>1, <2>2
<1> QED
  BY <1>1, <1>2, <1>3

LEMMA RegistrationGood ==
    ASSUME Running,
           \/ \E name \in TopicNames, id \in MsgIds : handleMqttsRegister(name, id)
           \/ \E id \in TopicIds, ackMsgId \in 1 .. MaxMsgId : handleMqttsRegack(id, ackMsgId)
           \/ \E accepted \in BOOLEAN, id \in TopicIds : handleMqttsPuback(accepted, id)
    PROVE  Good
<1>1. ASSUME NEW name \in TopicNames, NEW id \in MsgIds, handleMqttsRegister(name, id) PROVE Good
  <2>1. CASE refuseUnconnected
    BY <2>1, RefusedGood
  <2>2. CASE ~refuseUnconnected
    <3>1. UNCHANGED stored /\ \E t : out' = {[to |-> "client", type |-> "REGACK",
                                              topicId |-> t, msgId |-> id]}
      BY <1>1, <2>2 DEF handleMqttsRegister
    <3>2. \A m \in out' : Plain(m)
      BY <3>1 DEF Plain
    <3> QED
      BY <3>1, <3>2, PlainGood DEF Good, KeepsPending, stored
  <2> QED
    BY <2>1, <2>2
<1>2. ASSUME NEW id \in TopicIds, NEW ackMsgId \in 1 .. MaxMsgId, handleMqttsRegack(id, ackMsgId)
      PROVE  Good
  <2>1. CASE refuseUnconnected \/ Nothing
    BY <2>1, RefusedGood, NothingGood
  <2>2. CASE ~refuseUnconnected /\ ~Nothing
    <3>1. /\ endWait("Regack")
          /\ UNCHANGED <<mqttsSubscribe, mqttsUnsubscribe, mqttsPublish>>
          /\ \A m \in out' : m.to = "client" /\ m.type = "PUBLISH"
      BY <1>2, <2>2 DEF handleMqttsRegack
    <3>2. \A m \in out' : Plain(m)
      BY <3>1 DEF Plain
    <3> QED
      BY <3>1, <3>2, PlainGood DEF Good, KeepsPending, endWait
  <2> QED
    BY <2>1, <2>2
<1>3. ASSUME NEW accepted \in BOOLEAN, NEW id \in TopicIds, handleMqttsPuback(accepted, id) PROVE Good
  <2>1. CASE refuseUnconnected \/ forwardToBroker("PUBACK")
    BY <2>1, RefusedGood, ForwardGood
  <2>2. CASE out' = {} /\ UNCHANGED stored
    BY <2>2, PlainGood DEF Good, KeepsPending, stored
  <2> QED
    BY <1>3, <2>1, <2>2 DEF handleMqttsPuback
<1> QED
  BY <1>1, <1>2, <1>3

(* A request is stored only when none of its kind is waited for.           *)
LEMMA RequestGood ==
    ASSUME Running,
           \/ \E m \in PublishMsg : handleMqttsPublish(m)
           \/ \E m \in SubscribeMsg : handleMqttsSubscribe(m)
           \/ \E m \in UnsubscribeMsg : handleMqttsUnsubscribe(m)
    PROVE  Good
<1>1. ASSUME NEW m \in PublishMsg, handleMqttsPublish(m) PROVE Good
  <2>1. CASE Nothing \/ refuseUnconnected \/ sendFailed
    BY <2>1, NothingGood, RefusedGood
  <2>2. CASE Reply(ToGateway("PUBLISH")) \/ Reply(invalidTopicId("PUBACK", m))
    BY <2>2, ReplyGood, RejectGood DEF Plain, ToGateway
  <2>3. CASE /\ ~("Puback" \in waiting /\ m.qos = 1) /\ brokerInterface = "open"
             /\ \E name \in namesOf(m) : out' = {request("PUBLISH", name, m)}
             /\ mqttsPublish' = IF m.qos = 1 THEN m ELSE mqttsPublish
             /\ UNCHANGED <<mqttsSubscribe, mqttsUnsubscribe, mqttsRegister, mqttPublish>>
    <3>1. \A r \in out' : Plain(r)
      BY <2>3 DEF request, Plain
    <3> QED
      BY <2>3, <3>1, PlainGood DEF Good, KeepsPending
  <2> QED
    BY <1>1, <2>1, <2>2, <2>3 DEF handleMqttsPublish
<1>2. ASSUME NEW m \in SubscribeMsg, handleMqttsSubscribe(m) PROVE Good
  <2>1. CASE Nothing \/ refuseUnconnected \/ sendFailed
    BY <2>1, NothingGood, RefusedGood
  <2>2. CASE Reply(invalidTopicId("SUBACK", m))
    BY <2>2, RejectGood
  <2>3. CASE /\ "Suback" \notin waiting /\ brokerInterface = "open"
             /\ \E name \in namesOf(m) : out' = {request("SUBSCRIBE", name, m)}
             /\ UNCHANGED <<mqttsUnsubscribe, mqttsRegister, mqttPublish, mqttsPublish>>
    <3>1. \A r \in out' : Plain(r)
      BY <2>3 DEF request, Plain
    <3> QED
      BY <2>3, <3>1, PlainGood DEF Good, KeepsPending
  <2> QED
    BY <1>2, <2>1, <2>2, <2>3 DEF handleMqttsSubscribe
<1>3. ASSUME NEW m \in UnsubscribeMsg, handleMqttsUnsubscribe(m) PROVE Good
  <2>1. CASE Nothing \/ refuseUnconnected \/ sendFailed
    BY <2>1, NothingGood, RefusedGood
  <2>2. CASE /\ "Unsuback" \notin waiting /\ brokerInterface = "open"
             /\ \E name \in namesOf(m) : out' = {request("UNSUBSCRIBE", name, m)}
             /\ UNCHANGED <<mqttsSubscribe, mqttsRegister, mqttPublish, mqttsPublish>>
    <3>1. \A r \in out' : Plain(r)
      BY <2>2 DEF request, Plain
    <3> QED
      BY <2>2, <3>1, PlainGood DEF Good, KeepsPending
  <2> QED
    BY <1>3, <2>1, <2>2 DEF handleMqttsUnsubscribe
<1> QED
  BY <1>1, <1>2, <1>3

LEMMA BrokerPublishGood ==
    ASSUME Running, NEW m \in MqttPublishMsg, NEW fits, handleMqttPublish(m, fits) PROVE Good
<1>1. CASE Nothing
  BY <1>1, NothingGood
<1>2. ASSUME NEW id,
             Reply([to |-> "client", type |-> "PUBLISH",
                    idType |-> IF id > PredfTopicIdSize THEN "NORMAL" ELSE "PREDEFINED",
                    topicId |-> id, topicName |-> m.topicName])
      PROVE  Good
  BY <1>2, ReplyGood DEF Plain
<1>3. CASE /\ "Regack" \notin waiting
           /\ out' = {[to |-> "client", type |-> "REGISTER", topicId |-> topicId,
                       msgId |-> msgId]}
           /\ UNCHANGED <<mqttsSubscribe, mqttsUnsubscribe, mqttsPublish>>
  <2>1. \A r \in out' : Plain(r)
    BY <1>3 DEF Plain
  <2> QED
    BY <1>3, <2>1, PlainGood DEF Good, KeepsPending
<1> QED
  BY <1>1, <1>2, <1>3 DEF handleMqttPublish

(* Only the handler of the broker's answer accepts, and ends the wait.      *)
LEMMA BrokerAckGood ==
    ASSUME Running, NEW id,
           handleMqttPuback(id) \/ handleMqttSuback(id) \/ handleMqttUnsuback(id)
    PROVE  Good
<1>1. CASE Nothing
  BY <1>1, NothingGood
<1>2. /\ ~requestMissing("Puback", mqttsPublish)
      /\ ~requestMissing("Suback", mqttsSubscribe)
      /\ ~requestMissing("Unsuback", mqttsUnsubscribe)
  BY DEF requestMissing, Running, IInv, StoredMatchesWaiting
<1>3. CASE ~Nothing
  <2> USE DEF answers, answered, Good, KeepsPending, KeepsStream, AnswersDue
  <2>1. CASE handleMqttPuback(id)
    BY <1>2, <1>3, <2>1 DEF handleMqttPuback
  <2>2. CASE handleMqttSuback(id)
    BY <1>2, <1>3, <2>2 DEF handleMqttSuback
  <2>3. CASE handleMqttUnsuback(id)
    BY <1>2, <1>3, <2>3 DEF handleMqttUnsuback
  <2> QED
    BY <2>1, <2>2, <2>3
<1> QED
  BY <1>1, <1>3

LEMMA TimeoutGood ==
    ASSUME Running,
           \/ handleWaitingWillTopicTimeout \/ handleWaitingWillMsgTimeout
           \/ handleWaitingRegackTimeout
    PROVE  Good
<1>1. \A m \in out' : Plain(m)
  BY DEF handleWaitingWillTopicTimeout, handleWaitingWillMsgTimeout, handleWaitingRegackTimeout,
     timeoutOf, Plain, ToClient
<1>2. UNCHANGED <<mqttsSubscribe, mqttsUnsubscribe, mqttsPublish>>
  BY DEF handleWaitingWillTopicTimeout, handleWaitingWillMsgTimeout, handleWaitingRegackTimeout, timeoutOf
<1>3. "Regack" \in waiting \cap waiting' =>
         mqttPublish' = mqttPublish /\ mqttsRegister'.topicId = mqttsRegister.topicId
  <2>1. CASE handleWaitingWillTopicTimeout \/ handleWaitingWillMsgTimeout
    BY <2>1 DEF handleWaitingWillTopicTimeout, handleWaitingWillMsgTimeout, timeoutOf
  <2>2. CASE handleWaitingRegackTimeout
    <3>1. mqttsRegister \in RegisterMsg
      BY <2>2 DEF handleWaitingRegackTimeout, timeoutOf, Running, IInv, TypeOK, StoredMatchesWaiting
    <3>2. [mqttsRegister EXCEPT !.msgId = msgId].topicId = mqttsRegister.topicId
      BY <3>1 DEF RegisterMsg
    <3>3. \/ "Regack" \notin waiting'
          \/ UNCHANGED mqttPublish /\ mqttsRegister' = [mqttsRegister EXCEPT !.msgId = msgId]
      BY <2>2 DEF handleWaitingRegackTimeout, timeoutOf, endWait
    <3> QED
      BY <3>2, <3>3
  <2> QED
    BY <2>1, <2>2
<1> QED
  BY <1>1, <1>2, <1>3, PlainGood DEF Good, KeepsPending
-----------------------------------------------------------------------------
LEMMA ClientGood == ASSUME Running, handleMqttsMessage PROVE Good
<1>1. CASE handleMqttsDisconnect
  BY <1>1, NothingGood, DisconnectGood DEF handleMqttsDisconnect
<1>2. CASE \/ handleMqttsPubComp \/ handleMqttsPubRec \/ handleMqttsPubRel
           \/ handleMqttsPingReq \/ handleMqttsPingResp
  BY <1>2, ForwardGood DEF handleMqttsPubComp, handleMqttsPubRec,
     handleMqttsPubRel, handleMqttsPingReq, handleMqttsPingResp
<1>3. CASE handleMqttsSearchGW \/ handleOther
  BY <1>3, ReplyGood, NothingGood DEF handleMqttsSearchGW, handleOther, ToGateway, Plain
<1> QED
  BY <1>1, <1>2, <1>3, DialogueGood, RegistrationGood, RequestGood DEF handleMqttsMessage

LEMMA BrokerGood == ASSUME Running, handleMqttMessage PROVE Good
<1>1. ASSUME NEW accepted \in BOOLEAN, handleMqttConnack(accepted) PROVE Good
  BY <1>1, NothingGood, ReplyGood, DisconnectGood DEF handleMqttConnack, ToClient, Plain
<1>2. CASE \/ handleMqttPubRec \/ handleMqttPubRel \/ handleMqttPubComp
           \/ handleMqttPingReq \/ handleMqttPingResp
  BY <1>2, ForwardGood DEF handleMqttPubRec, handleMqttPubRel,
     handleMqttPubComp, handleMqttPingReq, handleMqttPingResp
<1> QED
  BY <1>1, <1>2, BrokerPublishGood, BrokerAckGood DEF handleMqttMessage

LEMMA ControlGood == ASSUME Running, handleControlMessage PROVE Good
<1>1. CASE connectionLost \/ \E w \in ClientWaits : staleTimeout(w)
  BY <1>1, NothingGood, DisconnectGood DEF connectionLost, staleTimeout
<1>2. CASE shutDown
  <2>1. KeepsPending
    BY <1>2 DEF shutDown, stored, KeepsPending
  <2>2. KeepsStream /\ AnswersDue
    BY <1>2, OpenIfConnected DEF shutDown, KeepsStream, AnswersDue, ToBroker
  <2> QED
    BY <2>1, <2>2 DEF Good
<1>3. CASE handleCheckInactivity
  BY <1>3, PlainGood DEF handleCheckInactivity, reset, Good, KeepsPending
<1> QED
  BY <1>1, <1>2, <1>3, TimeoutGood DEF handleControlMessage

LEMMA NextGood == IInv /\ [Next]_vars => [Good]_vars
<1> SUFFICES ASSUME IInv, Next PROVE Good
  OBVIOUS
<1>1. Running
  BY DEF Next, Running
<1>2. CASE silence
  BY <1>2, NothingGood DEF silence
<1> QED
  BY <1>1, <1>2, ClientGood, BrokerGood, ControlGood DEF Next

(* No request that is waited for is replaced before it is answered, given   *)
(* up or ended with the session, and a retried REGISTER keeps its topic id. *)
THEOREM PendingIsKept == Spec => PendingKept
<1>1. [Good]_vars => [KeepsPending]_vars
  BY DEF Good
<1> QED
  BY <1>1, NextGood, Invariance, PTL DEF Spec, PendingKept, KeepsPending

(* CONNECT comes first and once on a connection to the broker, DISCONNECT   *)
(* comes last.                                                              *)
THEOREM StreamIsFramed == Spec => BrokerStream
<1>1. [Good]_vars => [KeepsStream]_vars
  BY DEF Good
<1> QED
  BY <1>1, NextGood, Invariance, PTL DEF Spec, BrokerStream, KeepsStream

(* An acceptance answers the request that was pending, and ends its wait.   *)
THEOREM AcceptancesAreDue == Spec => AnswersAreDue
<1>1. [Good]_vars => [AnswersDue]_vars
  BY DEF Good
<1> QED
  BY <1>1, NextGood, Invariance, PTL DEF Spec, AnswersAreDue, AnswersDue

-----------------------------------------------------------------------------
(***************************************************************************)
(* ClientMsgHandler implements ClientSession for every set of names and    *)
(* ids, every retry count and every handler timeout: each step of the      *)
(* handler is a step of the session or leaves it unchanged.  (That a       *)
(* session's retries go on needs the fairness of the timers and is         *)
(* model-checked.)                                                         *)
(***************************************************************************)

(* The abstract state: phase is phase, and                                  *)
pending == waiting \ {"WillTopic", "WillMsg"}
sends == tries["WillTopic"] + tries["WillMsg"] + tries["Regack"]

(* A step seen from the session.                                           *)
Step == Session!Next \/ UNCHANGED Session!vars

USE DEF Session!Requests

(* The one dialogue with the client determines phase and sends.            *)
LEMMA Dialogue ==
    ASSUME IInv
    PROVE  /\ tries \in [ClientWaits -> Nat] /\ sends \in Nat
           /\ "WillTopic" \in waiting =>
                 phase = "willTopic" /\ pending = {} /\ sends = tries["WillTopic"]
                 /\ tries["WillMsg"] = 0 /\ tries["Regack"] = 0
           /\ "WillMsg" \in waiting =>
                 phase = "willMsg" /\ pending = {} /\ sends = tries["WillMsg"]
                 /\ tries["WillTopic"] = 0 /\ tries["Regack"] = 0
           /\ "Regack" \in waiting => phase = "active" /\ sends = tries["Regack"]
                 /\ tries["WillTopic"] = 0 /\ tries["WillMsg"] = 0
           /\ "Regack" \notin waiting =>
                 sends = tries["WillTopic"] + tries["WillMsg"] /\ tries["Regack"] = 0
           /\ waiting \cap {"WillTopic", "WillMsg"} = {} /\ client # "CONNECTED" =>
                 phase = "idle" /\ pending = {} /\ waiting = {}
           /\ waiting \cap ClientWaits = {} =>
                 sends = 0 /\ \A w \in ClientWaits : tries[w] = 0
           /\ client = "CONNECTED" =>
                 phase = "active" /\ tries["WillTopic"] = 0 /\ tries["WillMsg"] = 0
           /\ \A w \in ClientWaits : w \in waiting => tries[w] \in 1 .. MaxRetries + 1
<1>1. /\ tries \in [ClientWaits -> Nat] /\ TimersMatchWaiting /\ SessionConsistent
      /\ waiting \subseteq ClientWaits \cup BrokerWaits
  BY DEF IInv, TypeOK
<1>2. \A w \in ClientWaits : IF w \in waiting THEN tries[w] \in 1 .. MaxRetries + 1 ELSE tries[w] = 0
  BY <1>1 DEF TimersMatchWaiting
<1>3. sends \in Nat /\ tries["WillTopic"] \in Nat /\ tries["WillMsg"] \in Nat /\ tries["Regack"] \in Nat
  BY <1>1 DEF sends
<1>4. CASE "WillTopic" \in waiting
  BY <1>1, <1>2, <1>3, <1>4 DEF SessionConsistent, phase, pending, sends
<1>5. CASE "WillMsg" \in waiting
  BY <1>1, <1>2, <1>3, <1>5 DEF SessionConsistent, phase, pending, sends
<1>6. CASE waiting \cap {"WillTopic", "WillMsg"} = {}
  BY <1>1, <1>2, <1>3, <1>6 DEF SessionConsistent, phase, pending, sends
<1> QED
  BY <1>4, <1>5, <1>6
-----------------------------------------------------------------------------
(* The steps of the session.                                               *)

LEMMA SameStep == ASSUME UNCHANGED <<client, waiting, tries, exited>> PROVE Step
  BY DEF Step, Session!vars, phase

LEMMA NothingStep == ASSUME Nothing PROVE Step
  BY SameStep DEF Nothing, session

LEMMA ReplyStep == ASSUME NEW m, Reply(m) PROVE Step
  BY SameStep DEF Reply, session

LEMMA CloseStep ==
    ASSUME Running, client' # "CONNECTED", reset, UNCHANGED exited PROVE Step
<1>1. phase' = "idle" /\ pending' = {} /\ sends' = 0
  BY DEF reset, NoTries, phase, pending, sends
<1> QED
  BY <1>1 DEF Running, Step, Session!Next, Session!Close, pending, sends

LEMMA DisconnectStep == ASSUME Running, NEW S, sendClientDisconnect(S) PROVE Step
  BY CloseStep DEF sendClientDisconnect

LEMMA RefusedStep == ASSUME Running, refuseUnconnected \/ sendFailed PROVE Step
  BY DisconnectStep DEF refuseUnconnected, sendFailed

LEMMA ForwardStep ==
    ASSUME Running, NEW type, forwardToBroker(type) \/ forwardToClient(type) PROVE Step
  BY NothingStep, ReplyStep, RefusedStep DEF forwardToBroker, forwardToClient

(* CONNECT without a will, or with one that has been asked for.            *)
LEMMA ConnectStep ==
    ASSUME Running, NEW will \in BOOLEAN, handleMqttsConnect(will) PROVE Step
<1>1. CASE Reply(ToClient("CONNACK")) \/ Nothing
  BY <1>1, ReplyStep, NothingStep
<1>2. CASE /\ client # "CONNECTED" /\ waiting \cap {"WillTopic", "WillMsg"} = {}
           /\ connectBroker \/ connectFailed
           /\ UNCHANGED <<waiting, tries, exited>>
  <2>1. CASE connectBroker
    <3>1. phase = "idle" /\ pending = {} /\ sends = 0
      BY <1>2, Dialogue DEF Running
    <3>2. phase' = "active" /\ pending' = {} /\ sends' = 0
      BY <1>2, <2>1, <3>1 DEF connectBroker, phase, pending, sends
    <3> QED
      BY <1>2, <3>1, <3>2 DEF Running, Step, Session!Next, Session!Open, pending, sends
  <2>2. CASE connectFailed
    BY <1>2, <2>2, SameStep DEF connectFailed
  <2> QED
    BY <1>2, <2>1, <2>2
<1>3. CASE /\ client # "CONNECTED" /\ waiting \cap {"WillTopic", "WillMsg"} = {}
           /\ startWait("WillTopic") /\ UNCHANGED <<client, exited>>
  <2>1. phase = "idle" /\ pending = {} /\ waiting = {} /\ \A w \in ClientWaits : tries[w] = 0
    BY <1>3, Dialogue DEF Running
  <2>2. phase' = "willTopic" /\ pending' = {}
    BY <1>3, <2>1 DEF startWait, phase, pending
  <2>3. sends' = 1
    BY <1>3, <2>1, Dialogue DEF startWait, sends, Running
  <2> QED
    BY <1>3, <2>1, <2>2, <2>3 DEF Running, Step, Session!Next, Session!AskWillTopic, pending, sends
<1> QED
  BY <1>1, <1>2, <1>3 DEF handleMqttsConnect

LEMMA WillTopicStep == ASSUME Running, handleMqttsWillTopic PROVE Step
<1>1. CASE Nothing
  BY <1>1, NothingStep
<1>2. CASE /\ "WillTopic" \in waiting
           /\ waiting' = (waiting \ {"WillTopic"}) \cup {"WillMsg"}
           /\ tries' = [tries EXCEPT !["WillTopic"] = 0, !["WillMsg"] = @ + 1]
           /\ UNCHANGED <<client, exited>>
  <2>1. /\ phase = "willTopic" /\ pending = {} /\ client # "CONNECTED"
        /\ tries["WillMsg"] = 0 /\ tries["Regack"] = 0
    BY <1>2, Dialogue DEF Running, IInv, SessionConsistent
  <2>2. phase' = "willMsg" /\ pending' = {}
    BY <1>2, <2>1 DEF phase, pending
  <2>3. sends' = 1
    BY <1>2, <2>1, Dialogue DEF sends, Running
  <2> QED
    BY <1>2, <2>1, <2>2, <2>3 DEF Running, Step, Session!Next, Session!AskWillMsg, pending, sends
<1> QED
  BY <1>1, <1>2 DEF handleMqttsWillTopic

LEMMA WillMsgStep == ASSUME Running, handleMqttsWillMsg PROVE Step
<1>1. CASE Nothing
  BY <1>1, NothingStep
<1>2. CASE ~Nothing
  <2>1. "WillMsg" \in waiting /\ NoMsg \notin {mqttsConnect, mqttsWillTopic}
    BY <1>2 DEF handleMqttsWillMsg, Running, IInv, StoredMatchesWaiting
  <2>2. /\ endWait("WillMsg") /\ UNCHANGED exited
        /\ connectBroker \/ connectFailed
    BY <1>2, <2>1 DEF handleMqttsWillMsg
  <2>3. /\ phase = "willMsg" /\ pending = {} /\ client # "CONNECTED" /\ "WillTopic" \notin waiting
        /\ tries["WillTopic"] = 0 /\ tries["Regack"] = 0
    BY <2>1, Dialogue DEF Running, IInv, SessionConsistent
  <2>4. pending' = {} /\ phase' = IF client' = "CONNECTED" THEN "active" ELSE "idle"
    BY <2>2, <2>3 DEF endWait, phase, pending
  <2>5. sends' = 0
    BY <2>2, <2>3, Dialogue DEF endWait, sends, Running
  <2> QED
    BY <2>2, <2>3, <2>4, <2>5 DEF Running, Step, Session!Next, Session!Open, Session!OpenFails,
       connectBroker, connectFailed, pending, sends
<1> QED
  BY <1>1, <1>2

(* A request becomes pending, and is answered.                             *)
LEMMA AskStep ==
    ASSUME Running, NEW r \in BrokerWaits, client = "CONNECTED", r \notin waiting,
           waiting' = waiting \cup {r}, UNCHANGED <<client, tries, exited>>
    PROVE  Step
<1>1. /\ phase = "active" /\ r \notin pending /\ r \in Session!Requests
      /\ phase' = phase /\ pending' = pending \cup {r} /\ sends' = sends
  BY Dialogue DEF Running, phase, pending, sends
<1> QED
  BY <1>1 DEF Running, Step, Session!Next, Session!Ask, pending, sends

LEMMA AnswerStep ==
    ASSUME Running, NEW r \in BrokerWaits, client = "CONNECTED", r \in waiting,
           answered(r), UNCHANGED exited
    PROVE  Step
<1>1. /\ r \in pending /\ r \in Session!Requests
      /\ phase' = phase /\ pending' = pending \ {r} /\ sends' = sends
  BY Dialogue DEF answered, Running, phase, pending, sends
<1> QED
  BY <1>1 DEF Running, Step, Session!Next, Session!Answer, pending, sends

LEMMA RequestStep ==
    ASSUME Running,
           \/ \E m \in PublishMsg : handleMqttsPublish(m)
           \/ \E m \in SubscribeMsg : handleMqttsSubscribe(m)
           \/ \E m \in UnsubscribeMsg : handleMqttsUnsubscribe(m)
    PROVE  Step
<1>1. CASE Nothing \/ (\E m : Reply(m)) \/ refuseUnconnected \/ sendFailed
  BY <1>1, NothingStep, ReplyStep, RefusedStep
<1>2. CASE /\ client = "CONNECTED" /\ UNCHANGED <<client, tries, exited>>
           /\ \/ waiting' = waiting
              \/ \E r \in BrokerWaits : r \notin waiting /\ waiting' = waiting \cup {r}
  BY <1>2, SameStep, AskStep
<1>3. ASSUME NEW m \in PublishMsg, handleMqttsPublish(m) PROVE Step
  BY <1>1, <1>2, <1>3 DEF handleMqttsPublish
<1>4. ASSUME NEW m \in SubscribeMsg, handleMqttsSubscribe(m) PROVE Step
  BY <1>1, <1>2, <1>4 DEF handleMqttsSubscribe
<1>5. ASSUME NEW m \in UnsubscribeMsg, handleMqttsUnsubscribe(m) PROVE Step
  BY <1>1, <1>2, <1>5 DEF handleMqttsUnsubscribe
<1> QED
  BY <1>3, <1>4, <1>5

(* The gateway's own request to the client, and its answer.                *)
LEMMA RegistrationStep ==
    ASSUME Running,
           \/ \E name \in TopicNames, id \in MsgIds : handleMqttsRegister(name, id)
           \/ \E id \in TopicIds, ackMsgId \in 1 .. MaxMsgId : handleMqttsRegack(id, ackMsgId)
           \/ \E accepted \in BOOLEAN, id \in TopicIds : handleMqttsPuback(accepted, id)
           \/ \E m \in MqttPublishMsg, fits \in BOOLEAN : handleMqttPublish(m, fits)
    PROVE  Step
<1>1. CASE Nothing \/ (\E m : Reply(m)) \/ refuseUnconnected \/ forwardToBroker("PUBACK")
  BY <1>1, NothingStep, ReplyStep, RefusedStep, ForwardStep
<1>2. CASE UNCHANGED <<session, exited>>
  BY <1>2, SameStep DEF session
<1>3. ASSUME NEW name \in TopicNames, NEW id \in MsgIds, handleMqttsRegister(name, id) PROVE Step
  BY <1>1, <1>2, <1>3 DEF handleMqttsRegister
<1>4. ASSUME NEW id \in TopicIds, NEW ackMsgId \in 1 .. MaxMsgId, handleMqttsRegack(id, ackMsgId)
      PROVE  Step
  <2>1. CASE ~refuseUnconnected /\ ~Nothing
    <3>1. /\ client = "CONNECTED" /\ "Regack" \in waiting /\ endWait("Regack")
          /\ UNCHANGED <<client, exited>>
      BY <1>4, <2>1 DEF handleMqttsRegack, Running, IInv, StoredMatchesWaiting
    <3>2. "Regack" \in pending /\ phase' = phase /\ pending' = pending \ {"Regack"}
      BY <3>1 DEF endWait, phase, pending
    <3>3. sends' = 0
      BY <3>1, Dialogue DEF endWait, sends, Running
    <3> QED
      BY <3>1, <3>2, <3>3 DEF Running, Step, Session!Next, Session!Answer, pending, sends
  <2> QED
    BY <1>1, <2>1
<1>5. ASSUME NEW accepted \in BOOLEAN, NEW id \in TopicIds, handleMqttsPuback(accepted, id) PROVE Step
  BY <1>1, <1>2, <1>5 DEF handleMqttsPuback
<1>6. ASSUME NEW m \in MqttPublishMsg, NEW fits \in BOOLEAN, handleMqttPublish(m, fits) PROVE Step
  <2>1. CASE /\ client = "CONNECTED" /\ "Regack" \notin waiting /\ startWait("Regack")
             /\ UNCHANGED <<client, exited>>
    <3>1. /\ phase = "active" /\ "Regack" \notin pending
          /\ phase' = phase /\ pending' = pending \cup {"Regack"}
      BY <2>1, Dialogue DEF startWait, Running, phase, pending
    <3>2. sends' = 1
      BY <2>1, Dialogue DEF startWait, sends, Running
    <3> QED
      BY <2>1, <3>1, <3>2 DEF Running, Step, Session!Next, Session!Ask, pending, sends
  <2> QED
    BY <1>1, <1>6, <2>1 DEF handleMqttPublish
<1> QED
  BY <1>3, <1>4, <1>5, <1>6

LEMMA BrokerAckStep ==
    ASSUME Running, NEW id,
           handleMqttPuback(id) \/ handleMqttSuback(id) \/ handleMqttUnsuback(id)
    PROVE  Step
<1>1. CASE Nothing
  BY <1>1, NothingStep
<1>2. CASE ~Nothing
  <2>1. PICK r \in BrokerWaits : r \in waiting /\ client = "CONNECTED" /\ answered(r) /\ UNCHANGED exited
    BY <1>2 DEF handleMqttPuback, handleMqttSuback, handleMqttUnsuback, answers, requestMissing
  <2> QED
    BY <2>1, AnswerStep
<1> QED
  BY <1>1, <1>2

(* A timeout repeats the request or gives it up, as the bound demands.     *)
LEMMA TimeoutStep ==
    ASSUME Running, NEW w \in ClientWaits, w \in waiting, UNCHANGED <<client, exited>>,
           \/ exhausted(w) /\ endWait(w)
           \/ ~exhausted(w) /\ tries' = [tries EXCEPT ![w] = @ + 1] /\ UNCHANGED waiting
    PROVE  Step
<1>1. tries[w] \in 1 .. MaxRetries + 1 /\ sends = tries[w] /\ tries \in [ClientWaits -> Nat]
  BY Dialogue DEF Running
<1>2. \A v \in ClientWaits : v # w => tries[v] = 0 /\ v \notin waiting
  BY OneWait, Dialogue DEF Running, IInv, TimersMatchWaiting
<1>3. CASE ~exhausted(w) /\ tries' = [tries EXCEPT ![w] = @ + 1] /\ UNCHANGED waiting
  <2>1. phase' = phase /\ pending' = pending
    BY <1>3 DEF phase, pending
  <2>2. sends' = sends + 1
    <3>1. tries'[w] = tries[w] + 1 /\ \A v \in ClientWaits : v # w => tries'[v] = 0
      BY <1>1, <1>2, <1>3
    <3> QED
      BY <1>1, <3>1 DEF sends
  <2>3. 0 < sends /\ sends < MaxRetries + 1
    BY <1>1, <1>3, HandlerAssumption DEF exhausted
  <2> QED
    BY <2>1, <2>2, <2>3 DEF Running, Step, Session!Next, Session!Resend, pending, sends
<1>4. CASE exhausted(w) /\ endWait(w)
  <2>1. sends = MaxRetries + 1
    BY <1>1, <1>4, HandlerAssumption DEF exhausted
  <2>2. sends' = 0
    <3>1. \A v \in ClientWaits : tries'[v] = 0
      BY <1>1, <1>2, <1>4 DEF endWait
    <3> QED
      BY <3>1 DEF sends
  <2>3. pending' = pending \ {"Regack"} /\ phase' = IF phase = "active" THEN "active" ELSE "idle"
    BY <1>2, <1>4, Dialogue DEF endWait, Running, IInv, SessionConsistent, phase, pending
  <2> QED
    BY <2>1, <2>2, <2>3 DEF Running, Step, Session!Next, Session!GiveUp, pending, sends
<1> QED
  BY <1>3, <1>4
-----------------------------------------------------------------------------
LEMMA ClientStep == ASSUME Running, handleMqttsMessage PROVE Step
<1>1. CASE handleMqttsDisconnect
  BY <1>1, NothingStep, DisconnectStep DEF handleMqttsDisconnect
<1>2. CASE \/ handleMqttsPubComp \/ handleMqttsPubRec \/ handleMqttsPubRel
           \/ handleMqttsPingReq \/ handleMqttsPingResp
  BY <1>2, ForwardStep DEF handleMqttsPubComp, handleMqttsPubRec,
     handleMqttsPubRel, handleMqttsPingReq, handleMqttsPingResp
<1>3. CASE handleMqttsSearchGW \/ handleOther
  BY <1>3, ReplyStep, NothingStep DEF handleMqttsSearchGW, handleOther
<1> QED
  BY <1>1, <1>2, <1>3, ConnectStep, WillTopicStep, WillMsgStep, RegistrationStep, RequestStep
     DEF handleMqttsMessage

LEMMA BrokerStep == ASSUME Running, handleMqttMessage PROVE Step
<1>1. ASSUME NEW accepted \in BOOLEAN, handleMqttConnack(accepted) PROVE Step
  BY <1>1, NothingStep, ReplyStep, DisconnectStep DEF handleMqttConnack
<1>2. CASE \/ handleMqttPubRec \/ handleMqttPubRel \/ handleMqttPubComp
           \/ handleMqttPingReq \/ handleMqttPingResp
  BY <1>2, ForwardStep DEF handleMqttPubRec, handleMqttPubRel,
     handleMqttPubComp, handleMqttPingReq, handleMqttPingResp
<1> QED
  BY <1>1, <1>2, RegistrationStep, BrokerAckStep DEF handleMqttMessage

LEMMA ControlStep == ASSUME Running, handleControlMessage PROVE Step
<1>1. CASE connectionLost \/ \E w \in ClientWaits : staleTimeout(w)
  BY <1>1, NothingStep, DisconnectStep DEF connectionLost, staleTimeout
<1>2. CASE handleWaitingWillTopicTimeout \/ handleWaitingWillMsgTimeout \/ handleWaitingRegackTimeout
  <2>1. PICK w \in ClientWaits :
            /\ w \in waiting /\ UNCHANGED <<client, exited>>
            /\ \/ exhausted(w) /\ endWait(w)
               \/ ~exhausted(w) /\ tries' = [tries EXCEPT ![w] = @ + 1] /\ UNCHANGED waiting
    BY <1>2 DEF handleWaitingWillTopicTimeout, handleWaitingWillMsgTimeout,
       handleWaitingRegackTimeout, timeoutOf
  <2> QED
    BY <2>1, TimeoutStep
<1>3. CASE handleCheckInactivity
  BY <1>3, CloseStep DEF handleCheckInactivity
<1>4. CASE shutDown
  <2>1. exited' = TRUE /\ phase' = phase /\ pending' = pending /\ sends' = sends
    BY <1>4 DEF shutDown, phase, pending, sends
  <2> QED
    BY <2>1 DEF Running, Step, Session!Next, Session!Stop, pending, sends
<1> QED
  BY <1>1, <1>2, <1>3, <1>4 DEF handleControlMessage

LEMMA NextStep == IInv /\ [Next]_vars => Step
<1> SUFFICES ASSUME IInv, [Next]_vars PROVE Step
  OBVIOUS
<1>1. CASE UNCHANGED vars
  BY <1>1, SameStep DEF vars, session
<1>2. CASE Next
  <2>1. Running
    BY <1>2 DEF Next, Running
  <2>2. CASE silence
    BY <2>2, NothingStep DEF silence
  <2> QED
    BY <1>2, <2>1, <2>2, ClientStep, BrokerStep, ControlStep DEF Next
<1> QED
  BY <1>1, <1>2

LEMMA InitSession == Init => Session!Init
  BY DEF Init, NoTries, Session!Init, phase

(* Every behaviour of the handler is one of a session: will dialogue before *)
(* the connection, requests only of an active client, one of each kind at a *)
(* time, each sent to the client at most MaxRetries + 1 times.              *)
THEOREM HandlerImplementsSession == Spec => Session!Spec
<1>1. Step => [Session!Next]_(Session!vars)
  BY DEF Step
<1> QED
  BY <1>1, InitSession, NextStep, Invariance, PTL DEF Spec, Session!Spec
=============================================================================
