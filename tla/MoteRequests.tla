---------------------------- MODULE MoteRequests ----------------------------
(***************************************************************************)
(* The requests of the MQTT-SN mote client (src/ictp/mqtt-sn): the          *)
(* protothread manage_request of the library, which sends a REGISTER or a   *)
(* SUBSCRIBE and waits for its answer or for a timer, and the two processes *)
(* of example.c that make the requests, each up to Tries times.             *)
(*                                                                         *)
(* The channel and the gateway may lose, delay, repeat and answer as they   *)
(* like, but answer nothing that was not sent.  Where the code uses a NULL  *)
(* pointer the mote may go on, with the arbitrary bytes it read, or halt.   *)
(***************************************************************************)
EXTENDS Naturals

CONSTANTS
    Tries,      \* tries of a request before its process gives up: 4 in the code
    MaxMsgId    \* bound: no late answer is taken once this many ids are used

ASSUME TriesAssumption == Tries \in Nat \ {0} /\ MaxMsgId \in Nat

Types == {"register", "subscribe"}
Names == {"topic", "garbage"}     \* a name of the application, or what NULL points at
NoTopic == <<>>                   \* publisher_topic_id, ctrl_topic_id before an answer

VARIABLES
    requests,           \* mqc->requests; who is in the list, as no two wait for one message id
    next_message_id,    \* mqc->next_message_id
    state,              \* req->state
    msg_id,             \* req->msg_id
    lc,                 \* req->pt: at its start, or yielded
    timer,              \* req->t: stopped, running, or set to expire at once
    posted,             \* processes the broadcast mqtt_sn_request_event is to reach
    pc,                 \* where the process that makes the request is
    tries,              \* registration_tries, subscription_tries
    topic_msg_id,       \* reg_topic_msg_id, ctrl_topic_msg_id
    topic_id,           \* publisher_topic_id, ctrl_topic_id
    sent,               \* the packets sent to the gateway
    up                  \* FALSE once the mote has halted

library == <<requests, next_message_id, state, msg_id, lc, timer, sent>>
example == <<pc, tries, topic_msg_id, topic_id>>
vars == <<library, posted, example, up>>

Init ==
    /\ requests = {}
    /\ next_message_id = 1
    /\ state = [t \in Types |-> "none"]
    /\ msg_id = [t \in Types |-> 0]
    /\ lc = [t \in Types |-> "start"]
    /\ timer = [t \in Types |-> "stopped"]
    /\ posted = {}
    /\ pc = [t \in Types |-> "off"]
    /\ tries = [t \in Types |-> 0]
    /\ topic_msg_id = [t \in Types |-> 0]
    /\ topic_id = [t \in Types |-> NoTopic]
    /\ sent = {}
    /\ up = TRUE

Packets == [type : Types, name : Names, msg_id : Nat]

-----------------------------------------------------------------------------
(* Contiki's lists: an item added again is in the list once.                *)

(* Mutant: a request answered stays in the list.                            *)
Bug_list_remove(list, t) == list

list_remove(list, t) == list \ {t}

list_add(list, t) == list \cup {t}

(* What follows from the use of a NULL pointer.                             *)
MayHalt == up' \in BOOLEAN

-----------------------------------------------------------------------------
(* manage_request: its two halves, before and after the PT_YIELD.           *)

Returned(t) == state[t] \in {"complete", "failed"}

(* mqtt_sn_send_register, mqtt_sn_send_subscribe: a packet under the next   *)
(* message id; a topic name to register that is too long is not sent, and   *)
(* its message id is 0.                                                     *)
send(t, name) ==
    \/ /\ sent' = sent \cup {[type |-> t, name |-> name, msg_id |-> next_message_id]}
       /\ msg_id' = [msg_id EXCEPT ![t] = next_message_id]
       /\ next_message_id' = next_message_id + 1
    \/ /\ t = "register" /\ name = "garbage"
       /\ msg_id' = [msg_id EXCEPT ![t] = 0]
       /\ UNCHANGED <<sent, next_message_id>>

start(t, name, time_out) ==
    /\ requests' = list_add(requests, t)
    /\ timer' = [timer EXCEPT ![t] = time_out]
    /\ state' = [state EXCEPT ![t] = "waiting"]
    /\ send(t, name)
    /\ lc' = [lc EXCEPT ![t] = "yielded"]

(* Mutant: the event is not posted.                                         *)
BugPost_resume(t) ==
    /\ timer' = [timer EXCEPT ![t] = "stopped"]
    /\ lc' = [lc EXCEPT ![t] = "start"]
    /\ UNCHANGED posted

resume(t) ==
    /\ timer' = [timer EXCEPT ![t] = "stopped"]
    /\ posted' = {u \in Types : pc[u] = "waiting"}
    /\ lc' = [lc EXCEPT ![t] = "start"]

-----------------------------------------------------------------------------
(* The timer of a request: request_timer_callback passes no connection, so  *)
(* list_remove works on NULL->requests and the request stays in its list,   *)
(* and in the state WAITING_ACK.                                            *)

Timeout(t) ==
    /\ up
    /\ timer[t] # "stopped"
    /\ IF lc[t] = "yielded"
         THEN resume(t) /\ UNCHANGED <<requests, next_message_id, state, msg_id, sent>>
         ELSE start(t, "garbage", "zero") /\ UNCHANGED posted
    /\ MayHalt
    /\ UNCHANGED example

-----------------------------------------------------------------------------
(* A REGACK or a SUBACK arrives: mqtt_sn_receiver calls the application,    *)
(* then manage_response.                                                    *)

(* regack_receiver, suback_receiver.  A topic id is named by what the       *)
(* gateway gave it for.                                                     *)
takeTopicId(p, accepted) ==
    topic_id' = IF p.msg_id = topic_msg_id[p.type] /\ accepted
                  THEN [topic_id EXCEPT ![p.type] = <<p.type, p.name>>]
                  ELSE topic_id

(* Mutant: the message id of an answer is not compared.                     *)
Bug_answered(p) == requests

(* The requests an answer is for: the type of the answer is not looked at.  *)
answered(p) == {t \in requests : msg_id[t] = p.msg_id}

(* A request that waits takes the answer.  One that no longer does, its     *)
(* timer having expired, is started again by the same call: with no topic   *)
(* name, a time-out of 0, and its state back at WAITING_ACK.                *)
manage_response(p, accepted) ==
    \/ /\ answered(p) = {}
       /\ UNCHANGED <<library, posted, up>>
    \/ \E t \in answered(p) :
        \/ /\ lc[t] = "yielded"
           /\ state' = [state EXCEPT ![t] = IF accepted THEN "complete" ELSE "failed"]
           /\ resume(t)
           /\ requests' = list_remove(requests, t)
           /\ UNCHANGED <<next_message_id, msg_id, sent, up>>
        \/ /\ lc[t] = "start"
           /\ next_message_id <= MaxMsgId
           /\ start(t, "garbage", "zero")
           /\ MayHalt
           /\ UNCHANGED posted

(* An answer takes longer than a timer set to 0.                            *)
Receive(p, accepted) ==
    /\ up
    /\ p \in sent
    /\ ~\E t \in Types : timer[t] = "zero" /\ msg_id[t] = p.msg_id
    /\ takeTopicId(p, accepted)
    /\ manage_response(p, accepted)
    /\ UNCHANGED <<pc, tries, topic_msg_id>>

-----------------------------------------------------------------------------
(* ctrl_subscription_process and publish_process up to its first message.   *)

try(t) ==
    /\ start(t, "topic", "running")
    /\ topic_msg_id' = [topic_msg_id EXCEPT ![t] = msg_id'[t]]
    /\ pc' = [pc EXCEPT ![t] = "waiting"]

(* The subscription process is started first.                               *)
Begin(t) ==
    /\ up
    /\ pc[t] = "off"
    /\ t = "register" => pc["subscribe"] # "off"
    /\ try(t)
    /\ UNCHANGED <<tries, topic_id, posted, up>>

triesLeft(n) == n < Tries

(* The process sees the event and waits on, has succeeded, tries again or   *)
(* gives up.                                                                *)
Wake(t) ==
    /\ up
    /\ t \in posted
    /\ posted' = posted \ {t}
    /\ \/ /\ ~Returned(t)
          /\ UNCHANGED <<library, pc, tries, topic_msg_id>>
       \/ /\ state[t] = "complete"
          /\ tries' = [tries EXCEPT ![t] = Tries]
          /\ pc' = [pc EXCEPT ![t] = "done"]
          /\ UNCHANGED <<library, topic_msg_id>>
       \/ /\ state[t] = "failed"
          /\ tries' = [tries EXCEPT ![t] = @ + 1]
          /\ IF triesLeft(tries[t] + 1)
               THEN try(t)
               ELSE /\ pc' = [pc EXCEPT ![t] = "unable"]
                    /\ UNCHANGED <<library, topic_msg_id>>
    /\ UNCHANGED <<topic_id, up>>

-----------------------------------------------------------------------------
Next ==
    \/ \E t \in Types : Timeout(t) \/ Begin(t) \/ Wake(t)
    \/ \E p \in sent, accepted \in BOOLEAN : Receive(p, accepted)

Spec == Init /\ [][Next]_vars

(* Timers expire, and Contiki delivers what was posted.  Nothing is assumed *)
(* of the channel and of the gateway.                                       *)
FairSpec == Spec /\ \A t \in Types : WF_vars(Timeout(t)) /\ WF_vars(Wake(t)) /\ WF_vars(Begin(t))

-----------------------------------------------------------------------------
TypeOK ==
    /\ requests \subseteq Types
    /\ next_message_id \in Nat \ {0}
    /\ state \in [Types -> {"none", "waiting", "failed", "complete"}]
    /\ msg_id \in [Types -> Nat]
    /\ lc \in [Types -> {"start", "yielded"}]
    /\ timer \in [Types -> {"stopped", "running", "zero"}]
    /\ posted \subseteq Types
    /\ pc \in [Types -> {"off", "waiting", "done", "unable"}]
    /\ tries \in [Types -> 0 .. Tries]
    /\ topic_msg_id \in [Types -> Nat]
    /\ topic_id \in [Types -> {NoTopic} \cup (Types \X Names)]
    /\ sent \subseteq Packets
    /\ up \in BOOLEAN

(* A timer runs for a request exactly while its protothread is yielded, and *)
(* a yielded request is in the list an answer looks it up in.  A timer left *)
(* running would enter manage_request at its start, with no connection; a   *)
(* request out of the list could only time out.                             *)
TimerWhileYielded ==
    \A t \in Types : /\ lc[t] = "yielded" <=> timer[t] # "stopped"
                     /\ lc[t] = "yielded" => t \in requests

(* A request that has returned is over: it is out of the list, so no late   *)
(* or repeated answer changes its outcome before its process has seen it.   *)
ReturnedForGood ==
    \A t \in Types : Returned(t) => t \notin requests /\ lc[t] = "start"

(* List, timer and protothread of every request agree.                     *)
RequestsConsistent == TypeOK /\ TimerWhileYielded /\ ReturnedForGood

(* A process goes on to publish, or to listen, only under the topic id the  *)
(* gateway gave for its own topic: never under none, under the id of the    *)
(* other request, or under one given for the bytes a NULL name pointed at,  *)
(* though the two requests share a list, the message ids and the receiver.  *)
OwnTopicId ==
    \A t \in Types : pc[t] = "done" => topic_id[t] = <<t, "topic">>

(* A process whose request was answered in time goes on.                    *)
AnswerSeen ==
    \A t \in Types : Returned(t) ~> (~Returned(t) \/ pc[t] \in {"done", "unable"} \/ ~up)

(* A process does not wait for ever: its request is answered or times out,  *)
(* and after Tries of them it gives up.                                     *)
Decides ==
    \A t \in Types : pc[t] = "waiting" ~> (pc[t] \in {"done", "unable"} \/ ~up)

=============================================================================
