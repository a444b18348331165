----------------------------- MODULE MqttSnTools -----------------------------
(* The command-line programs of src/mqtt-sn-tools that talk to a gateway:  *)
(* mqtt-sn-pub, mqtt-sn-sub and mqtt-sn-dump, with the library mqtt-sn.c   *)
(* they are linked with.  One process runs, given its options; the gateway *)
(* sends any packet at any time, or none; signals may come.                *)
(*                                                                         *)
(* Time is counted in ticks and only passes while the process blocks in    *)
(* select, in recv, or in the command that forwards a message to the DTN.  *)
(* Times are kept as ages: idle is now - last_transmit, silence is         *)
(* now - last_receive, and slept is the age of wait_for's variable "now".  *)
EXTENDS Integers, FiniteSets, Sequences

CONSTANTS
    TopicIds,        \* valid topic ids of the gateway
    Names,           \* topic names of more than two characters
    TopicName,       \* the one of them a command line may name
    PredefinedId,    \* the predefined topic id it may name
    PubKeepAlive,    \* keep_alive of mqtt-sn-pub (30 s in the code)
    DefaultTimeout,  \* MQTT_SN_DEFAULT_TIMEOUT (10 s in the code)
    SubKeepAlives,   \* the values of option -k of mqtt-sn-sub
    FlagSets,        \* the flags a command line may have together
    ForwardTime,     \* bound: the longest a DTN command blocks
    MaxAge,          \* bound: ages are not told apart beyond it
    MaxSignals       \* bound: signals sent to the process

NoId == 0            \* topic id 0x0000: not a valid id
NoName == "no_name"  \* a NULL name
NoTopic == "none"    \* no option for a topic's name

ASSUME ToolsAssumption ==
    /\ PubKeepAlive \in Nat /\ DefaultTimeout \in Nat \ {0}
    /\ SubKeepAlives \subseteq Nat /\ ForwardTime \in Nat
    /\ MaxAge \in Nat /\ MaxSignals \in Nat
    /\ 0 \notin TopicIds /\ PredefinedId # 0
    /\ TopicName \in Names /\ Names \cap {NoName, NoTopic, "short"} = {}
    /\ 2 * DefaultTimeout <= PubKeepAlive

VARIABLES
    opts,            \* what the command line gave
    forwarder_encapsulation, keep_alive, timeout,
    topic_map,       \* id -> name
    pc,              \* where the process is
    awaited,         \* the type wait_for waits for
    idle, silence, slept,
    topic_id,        \* the id mqtt-sn-pub publishes to
    keep_running,    \* cleared by the signal handler
    outcome,         \* "running", or how it exited
    signals,         \* signals sent so far
    \* History
    sent,            \* which of PUBLISH and DISCONNECT were sent
    granted,         \* the acknowledgments with return code "accepted"
    assigned,        \* id -> name: what the gateway knows the process to know
    owed,            \* age of the oldest request nothing was received after
    noise,           \* a packet was rejected since the last good one
    output           \* what the PUBLISH of this turn of the loop was printed as

vars == <<opts, forwarder_encapsulation, keep_alive, timeout, topic_map, pc, awaited,
          idle, silence, slept, topic_id, keep_running, outcome, signals,
          sent, granted, assigned, owed, noise, output>>

settings == <<opts, forwarder_encapsulation, keep_alive, timeout>>
ages == <<idle, silence, slept, owed>>

NotOwed == -1
NoOutput == [id |-> NoId, as |-> "nothing"]

-----------------------------------------------------------------------------
(* Command lines: the options the control of the programs depends on.      *)
(* The flags are -m (pub), -1, --dtn (sub), -v, -a (dump) and --fe; a      *)
(* program ignores those it does not have.                                 *)
Topics == {NoTopic, "short", TopicName}
Ids == {NoId, PredefinedId}

Options ==
    [tool : {"pub"}, qos : {-1, 0, 1}, name : Topics, id : Ids, k : {PubKeepAlive}, flags : FlagSets]
    \cup [tool : {"sub"}, qos : {0}, name : Topics, id : Ids, k : SubKeepAlives, flags : FlagSets]
    \cup [tool : {"dump"}, qos : {0}, name : {NoTopic}, id : {NoId}, k : {0}, flags : FlagSets]

PubAccepts(o) ==
    /\ (o.name # NoTopic \/ o.id # NoId) /\ "m" \in o.flags
    /\ o.qos \in {-1, 0}
    /\ ~(o.name # NoTopic /\ o.id # NoId)
    /\ ~(o.qos = -1 /\ o.id = NoId /\ o.name # "short")

SubAccepts(o) ==
    /\ o.name # NoTopic \/ o.id # NoId
    /\ ~(o.name # NoTopic /\ o.id # NoId)

Accepts(o) == CASE o.tool = "pub" -> PubAccepts(o)
                [] o.tool = "sub" -> SubAccepts(o)
                [] OTHER          -> TRUE

set_timeout(value) == IF value < 1 THEN DefaultTimeout ELSE value

-----------------------------------------------------------------------------
(* Lengths.  A packet begins with its length in one byte; what the gateway *)
(* reads of a name or of data is what the length byte covers.  Each sender *)
(* gives that byte and the bytes of its argument the packet really has, or *)
(* refuses the argument and exits.                                         *)
MQTT_SN_MAX_PACKET_LENGTH == 255
MQTT_SN_MAX_WIRELESS_NODE_ID_LENGTH == 252
Byte(n) == n % 256
AtMost(n, limit) == IF n > limit THEN limit ELSE n
TooLong == [length |-> 0, has |-> 0]

send_connect(n) ==       \* the client id: strncpy leaves room for a NUL
    IF n > 23 THEN TooLong ELSE [length |-> 6 + AtMost(n, 22), has |-> AtMost(n, 22)]

send_register(n) ==
    IF n > MQTT_SN_MAX_PACKET_LENGTH - 6 THEN TooLong ELSE [length |-> Byte(6 + n), has |-> n]
send_publish(n) ==
    IF n > MQTT_SN_MAX_PACKET_LENGTH - 7 THEN TooLong ELSE [length |-> Byte(7 + n), has |-> n]

send_subscribe_topic_name(n) ==   \* not refused, but cut and NUL-terminated
    [length |-> Byte(5 + n), has |-> AtMost(n, MQTT_SN_MAX_PACKET_LENGTH - 7)]

(* A packet wrapped with a wireless node id whose length the caller passed *)
(* as a byte; without an id, digits of the process id stand for it.        *)
create_frwdencap_packet(n, inner) ==
    LET given == Byte(n)
        id == IF given = 0 THEN 4 ELSE given
    IN  IF given > MQTT_SN_MAX_WIRELESS_NODE_ID_LENGTH THEN [total |-> 0, header |-> 0, inner |-> 0]
        ELSE [total |-> id + 3 + inner, header |-> Byte(id + 3), inner |-> inner]

-----------------------------------------------------------------------------
(* Packets of the gateway.  A frame is plain, wrapped by forwarder         *)
(* encapsulation, or of a length that contradicts its length byte.         *)
Frames == {"plain", "encapsulated", "broken"}

Received ==
    [type : {"CONNACK"}, code : {0, 1}, frame : Frames]
    \cup [type : {"REGACK", "SUBACK"}, code : {0, 1}, id : {NoId} \cup TopicIds, frame : Frames]
    \cup [type : {"REGISTER"}, id : {NoId} \cup TopicIds, name : Names, frame : Frames]
    \cup [type : {"PUBLISH"}, id : TopicIds, normal : BOOLEAN, frame : Frames]
    \cup [type : {"PINGRESP", "DISCONNECT", "GWINFO"}, frame : Frames]

validate_packet(p) ==
    /\ p.frame # "broken"
    /\ forwarder_encapsulation => p.frame = "encapsulated"

(* Requests are answered by a packet; REGACK and PUBLISH at level 0 are not. *)
Requests == {"CONNECT", "REGISTER", "SUBSCRIBE", "PINGREQ", "DISCONNECT"}

(* Without a keep-alive period the ages do not matter.                     *)
Older(age) == IF keep_alive > 0 /\ age < MaxAge THEN age + 1 ELSE age

(* The packets sent in a step; due is the age of the oldest request before. *)
Send(types, due) ==
    /\ idle' = IF types = {} THEN idle ELSE 0
    /\ sent' = sent \cup (types \cap {"PUBLISH", "DISCONNECT"})
    /\ owed' = IF due = NotOwed /\ types \cap Requests # {} THEN 0 ELSE due

(* Mutant: the time is not stored.                                         *)
Bug_Hear == UNCHANGED silence /\ noise' = FALSE

(* receive_packet stores the time of a valid packet.                       *)
Hear == /\ silence' = 0 /\ noise' = FALSE

Exit(how) == /\ pc' = "exited" /\ outcome' = how

register_topic(map, id, name) ==
    IF id \in TopicIds
    THEN [i \in DOMAIN map \cup {id} |-> IF i = id THEN name ELSE map[i]]
    ELSE map

Told(id, name) == [i \in DOMAIN assigned \cup ({id} \ {NoId}) |-> IF i = id THEN name ELSE assigned[i]]

lookup_topic(id) == IF id \in DOMAIN topic_map THEN topic_map[id] ELSE NoName

(* print_publish_packet: a message under an unknown id is not printed when *)
(* the output is verbose.                                                  *)
print_publish_packet(p) ==
    [id |-> IF p.normal THEN p.id ELSE NoId,
     as |-> IF "v" \notin opts.flags THEN "data"
            ELSE IF ~p.normal THEN "its_id"
            ELSE IF lookup_topic(p.id) = NoName THEN "nothing" ELSE lookup_topic(p.id)]

-----------------------------------------------------------------------------
Init ==
    /\ opts \in Options
    /\ forwarder_encapsulation = FALSE /\ keep_alive = 0 /\ timeout = DefaultTimeout
    /\ topic_map = <<>> /\ pc = "start" /\ awaited = "CONNACK"
    /\ idle = MaxAge /\ silence = MaxAge /\ slept = 0
    /\ topic_id = NoId /\ keep_running = TRUE /\ outcome = "running" /\ signals = 0
    /\ sent = {} /\ granted = {} /\ assigned = <<>> /\ owed = NotOwed /\ noise = FALSE
    /\ output = NoOutput

(* The command line is refused, or the socket cannot be made.              *)
parse_opts ==
    /\ pc = "start"
    /\ \/ /\ Accepts(opts)
          /\ pc' = "socket"
          /\ forwarder_encapsulation' = (opts.tool # "dump" /\ "fe" \in opts.flags)
          /\ timeout' = IF opts.tool = "sub" THEN set_timeout(opts.k \div 2) ELSE timeout
          /\ topic_id' = opts.id
          /\ UNCHANGED outcome
       \/ /\ ~Accepts(opts)
          /\ Exit("failure")
          /\ UNCHANGED <<forwarder_encapsulation, timeout, topic_id>>
    /\ UNCHANGED <<opts, keep_alive, topic_map, awaited, ages, keep_running, signals,
                   sent, granted, assigned, noise, output>>

create_socket ==
    /\ pc = "socket"
    /\ \/ /\ Exit("failure")
          /\ UNCHANGED <<keep_alive, idle, slept, sent, owed>>
       \/ /\ opts.tool = "dump"                              \* bind_udp_socket
          /\ pc' = "listen" /\ UNCHANGED <<keep_alive, idle, slept, sent, owed, outcome>>
       \/ /\ opts.tool = "pub" /\ opts.qos = -1               \* publish and leave
          /\ Send({"PUBLISH"}, owed)
          /\ Exit("ok") /\ UNCHANGED <<keep_alive, slept>>
       \/ /\ opts.tool = "sub" \/ (opts.tool = "pub" /\ opts.qos >= 0)
          /\ Send({"CONNECT"}, owed)                           \* send_connect
          /\ keep_alive' = IF opts.k > 0 THEN opts.k ELSE keep_alive
          /\ slept' = 0 /\ pc' = "recv" /\ UNCHANGED outcome
    /\ UNCHANGED <<opts, forwarder_encapsulation, timeout, topic_map, awaited, silence, topic_id,
                   keep_running, signals, granted, assigned, noise, output>>

-----------------------------------------------------------------------------
(* receive_connack: one recv, with the timeout of the socket.              *)
receive_connack(p) ==
    /\ pc = "recv" /\ slept' = slept
    /\ IF validate_packet(p) THEN Hear ELSE silence' = silence /\ noise' = TRUE
    /\ LET accepted == validate_packet(p) /\ p.type = "CONNACK" /\ p.code = 0
           register == opts.tool = "pub" /\ opts.name \in Names
           next == IF opts.tool = "sub" THEN {"SUBSCRIBE"}
                   ELSE IF register THEN {"REGISTER"} ELSE {"PUBLISH", "DISCONNECT"}
       IN  IF accepted
           THEN /\ Send(next, NotOwed)
                /\ awaited' = IF opts.tool = "sub" THEN "SUBACK"
                              ELSE IF register THEN "REGACK" ELSE "DISCONNECT"
                /\ pc' = "top" /\ granted' = granted \cup {"CONNACK"} /\ UNCHANGED outcome
           ELSE /\ Send({}, IF validate_packet(p) THEN NotOwed ELSE owed)
                /\ Exit(IF validate_packet(p) /\ p.type = "CONNACK" THEN "refused" ELSE "failure")
                /\ UNCHANGED <<awaited, granted>>
    /\ UNCHANGED <<settings, topic_map, topic_id, keep_running, signals, assigned, output>>

connack_timeout ==
    /\ pc = "recv" /\ slept = timeout
    /\ Exit("failure")
    /\ UNCHANGED <<settings, topic_map, awaited, ages, topic_id, keep_running, signals,
                   sent, granted, assigned, noise, output>>

-----------------------------------------------------------------------------
(* Mutant: a ping is due when the gateway has been silent.                  *)
Bug_wait_for_top ==
    /\ pc = "top" /\ pc' = "select" /\ slept' = 0 /\ output' = NoOutput
    /\ Send(IF keep_alive > 0 /\ silence >= keep_alive THEN {"PINGREQ"} ELSE {}, owed)
    /\ UNCHANGED <<settings, topic_map, awaited, silence, topic_id, keep_running, outcome, signals,
                   granted, assigned, noise>>

(* wait_for.  At the top of its loop it reads the clock and may ping.      *)
wait_for_top ==
    /\ pc = "top" /\ pc' = "select" /\ slept' = 0 /\ output' = NoOutput
    /\ Send(IF keep_alive > 0 /\ idle >= keep_alive THEN {"PINGREQ"} ELSE {}, owed)
    /\ UNCHANGED <<settings, topic_map, awaited, silence, topic_id, keep_running, outcome, signals,
                   granted, assigned, noise>>

(* Mutant: the silence is counted from the last packet sent.               *)
Bug_NothingReceived_transmit ==
    /\ IF keep_alive > 0 /\ 2 * (idle - slept) >= 3 * keep_alive
       THEN Exit("keep_alive_error")
       ELSE pc' = "top" /\ UNCHANGED outcome
    /\ UNCHANGED <<settings, topic_map, awaited, ages, topic_id, keep_running, signals,
                   sent, granted, assigned, output>>

(* select or receive_packet gave nothing: has the gateway been silent for  *)
(* one and a half keep-alive periods, as of the last look at the clock?    *)
NothingReceived ==
    /\ IF keep_alive > 0 /\ 2 * (silence - slept) >= 3 * keep_alive
       THEN Exit("keep_alive_error")
       ELSE pc' = "top" /\ UNCHANGED outcome
    /\ UNCHANGED <<settings, topic_map, awaited, ages, topic_id, keep_running, signals,
                   sent, granted, assigned, output>>

select_timeout ==
    /\ pc = "select" /\ slept = timeout
    /\ NothingReceived /\ UNCHANGED noise

wait_for_invalid(p) ==
    /\ pc = "select" /\ ~validate_packet(p)
    /\ NothingReceived /\ noise' = TRUE

(* What a program does when wait_for returns a packet of the awaited type. *)
Disconnecting(due) == Send({"DISCONNECT"}, due) /\ awaited' = "DISCONNECT" /\ pc' = "top"

(* The loop of mqtt-sn-sub.                                                *)
KeepProcessing(due) ==
    IF keep_running THEN Send({}, due) /\ awaited' = "PUBLISH" /\ pc' = "top" ELSE Disconnecting(due)

receive_regack(p) ==
    /\ IF p.code = 0
       THEN /\ topic_id' = p.id /\ granted' = granted \cup {"REGACK"}
            /\ Send({"PUBLISH", "DISCONNECT"}, NotOwed)
            /\ awaited' = "DISCONNECT" /\ pc' = "top" /\ UNCHANGED outcome
       ELSE Send({}, NotOwed) /\ Exit("refused") /\ UNCHANGED <<awaited, topic_id, granted>>
    /\ UNCHANGED <<topic_map, assigned, output>>

receive_suback(p) ==
    /\ IF p.code = 0
       THEN /\ granted' = granted \cup {"SUBACK"}
            /\ KeepProcessing(NotOwed) /\ UNCHANGED outcome
       ELSE Send({}, NotOwed) /\ Exit("refused") /\ UNCHANGED <<awaited, granted>>
    /\ LET told == p.code = 0 /\ opts.name \in Names
       IN  /\ topic_map' = IF told THEN register_topic(topic_map, p.id, opts.name) ELSE topic_map
           /\ assigned' = IF told THEN Told(p.id, opts.name) ELSE assigned
    /\ UNCHANGED <<topic_id, output>>

PublishReceived(due) ==
    IF awaited # "PUBLISH" THEN Send({}, due) /\ pc' = "top" /\ UNCHANGED awaited
    ELSE IF "1" \in opts.flags THEN Disconnecting(due) ELSE KeepProcessing(due)

process_register(p) ==
    /\ topic_map' = register_topic(topic_map, p.id, p.name)
    /\ assigned' = Told(p.id, p.name)
    /\ Send({"REGACK"}, NotOwed)
    /\ pc' = "top" /\ UNCHANGED <<awaited, topic_id, outcome, granted, output>>

(* A valid packet while wait_for waits.                                    *)
wait_for_packet(p) ==
    /\ pc = "select" /\ validate_packet(p) /\ Hear /\ slept' = slept
    /\ \/ /\ p.type = "PUBLISH" /\ output' = print_publish_packet(p)
          /\ IF "dtn" \in opts.flags THEN pc' = "forward" /\ Send({}, NotOwed) /\ UNCHANGED awaited
                         ELSE PublishReceived(NotOwed)
          /\ UNCHANGED <<topic_map, topic_id, outcome, granted, assigned>>
       \/ p.type = "REGISTER" /\ process_register(p)
       \/ /\ p.type = "DISCONNECT"
          /\ Exit(IF awaited = "DISCONNECT" THEN "ok" ELSE "failure") /\ Send({}, NotOwed)
          /\ UNCHANGED <<topic_map, awaited, topic_id, granted, assigned, output>>
       \/ p.type = "REGACK" /\ awaited = "REGACK" /\ receive_regack(p)
       \/ p.type = "SUBACK" /\ awaited = "SUBACK" /\ receive_suback(p)
       \/ /\ p.type \notin {"PUBLISH", "REGISTER", "DISCONNECT", awaited}
          /\ Send({}, NotOwed) /\ pc' = "top"
          /\ UNCHANGED <<topic_map, awaited, topic_id, outcome, granted, assigned, output>>
    /\ UNCHANGED <<settings, keep_running, signals>>

(* The shell command of fwd_dtn_packet ends.                               *)
fwd_dtn_packet ==
    /\ pc = "forward" /\ PublishReceived(owed)
    /\ UNCHANGED <<settings, topic_map, silence, slept, topic_id, keep_running, outcome, signals,
                   granted, assigned, noise, output>>

-----------------------------------------------------------------------------
(* mqtt-sn-dump prints what it receives; it uses the packet unchecked.     *)
dump_top ==
    /\ pc = "listen" /\ slept' = 0 /\ output' = NoOutput
    /\ IF keep_running THEN pc' = "dump_select" /\ UNCHANGED outcome ELSE Exit("ok")
    /\ UNCHANGED <<settings, topic_map, awaited, idle, silence, topic_id, keep_running, signals,
                   sent, granted, assigned, owed, noise>>

dump_timeout ==
    /\ pc = "dump_select" /\ slept = timeout /\ pc' = "listen"
    /\ UNCHANGED <<settings, topic_map, awaited, ages, topic_id, keep_running, outcome, signals,
                   sent, granted, assigned, noise, output>>

dump_packet(p) ==
    /\ pc = "dump_select"
    /\ IF validate_packet(p)
       THEN /\ Hear /\ pc' = "listen" /\ UNCHANGED outcome
            /\ output' = IF p.type = "PUBLISH" /\ "a" \notin opts.flags THEN print_publish_packet(p) ELSE output
       ELSE /\ Exit("crashed") /\ noise' = TRUE /\ UNCHANGED <<silence, output>>
    /\ UNCHANGED <<settings, topic_map, awaited, idle, slept, topic_id, keep_running, signals,
                   sent, granted, assigned, owed>>

-----------------------------------------------------------------------------
(* The socket reports an error, as when nothing listens at the gateway.    *)
recv_failed ==
    /\ pc \in {"recv", "select", "dump_select"}
    /\ Exit("failure")
    /\ UNCHANGED <<settings, topic_map, awaited, ages, topic_id, keep_running, signals,
                   sent, granted, assigned, noise, output>>

(* The handler only clears keep_running.  A blocked select or recv returns *)
(* with EINTR; at any other moment nothing else happens.                   *)
termination_handler ==
    /\ opts.tool \in {"sub", "dump"} /\ pc \notin {"start", "exited"}
    /\ signals < MaxSignals /\ signals' = signals + 1
    /\ keep_running' = FALSE
    /\ IF pc = "select" /\ awaited = "PUBLISH" THEN Disconnecting(owed) /\ UNCHANGED outcome
       ELSE /\ IF pc \in {"recv", "select"} THEN Exit("failure")
               ELSE IF pc = "dump_select" THEN Exit("ok") ELSE UNCHANGED <<pc, outcome>>
            /\ UNCHANGED <<awaited, idle, owed, sent>>
    /\ UNCHANGED <<settings, topic_map, silence, slept, topic_id, granted, assigned, noise, output>>

(* A tick of the clock while the process is blocked.                       *)
Tick ==
    /\ \/ pc \in {"recv", "select", "dump_select"} /\ slept < timeout
       \/ pc = "forward" /\ slept < timeout + ForwardTime
    /\ slept' = slept + 1 /\ idle' = Older(idle) /\ silence' = Older(silence)
    /\ owed' = IF owed = NotOwed THEN owed ELSE Older(owed)
    /\ UNCHANGED <<settings, topic_map, pc, awaited, topic_id, keep_running, outcome, signals,
                   sent, granted, assigned, noise, output>>

Receive(p) == receive_connack(p) \/ wait_for_invalid(p) \/ wait_for_packet(p) \/ dump_packet(p)

Step == \/ parse_opts \/ create_socket \/ connack_timeout \/ wait_for_top \/ select_timeout
        \/ fwd_dtn_packet \/ dump_top \/ dump_timeout

Next == Step \/ Tick \/ (\E p \in Received : Receive(p)) \/ recv_failed \/ termination_handler

Spec == Init /\ [][Next]_vars

(* A process that can go on does, and time goes on while it is blocked.    *)
Fairness == WF_vars(Step) /\ SF_vars(Tick)
FairSpec == Spec /\ Fairness

-----------------------------------------------------------------------------
(* Every variable has its type.                                            *)
TypeOK ==
    /\ opts \in Options
    /\ forwarder_encapsulation \in BOOLEAN /\ keep_alive \in Nat /\ timeout \in Nat
    /\ DOMAIN topic_map \subseteq TopicIds /\ \A i \in DOMAIN topic_map : topic_map[i] \in Names
    /\ pc \in {"start", "socket", "recv", "top", "select", "forward", "listen", "dump_select", "exited"}
    /\ awaited \in {"CONNACK", "REGACK", "SUBACK", "PUBLISH", "DISCONNECT"}
    /\ idle \in 0 .. MaxAge /\ silence \in 0 .. MaxAge /\ slept \in 0 .. timeout + ForwardTime
    /\ topic_id \in Ids \cup TopicIds /\ keep_running \in BOOLEAN /\ signals \in 0 .. MaxSignals
    /\ outcome \in {"running", "ok", "failure", "refused", "keep_alive_error", "crashed"}
    /\ (outcome = "running") = (pc # "exited")
    /\ owed \in {NotOwed} \cup 0 .. MaxAge /\ noise \in BOOLEAN

(* A program that exits with status 0 has done what it was started for:    *)
(* connected, published under the id the gateway gave for the name, or     *)
(* subscribed, and its DISCONNECT was answered.                            *)
ExitHonest ==
    outcome = "ok" /\ opts.tool # "dump" =>
        /\ Accepts(opts)
        /\ opts.tool = "pub" => "PUBLISH" \in sent
        /\ opts.tool = "sub" => {"CONNACK", "SUBACK"} \subseteq granted
        /\ opts.qos >= 0 => "CONNACK" \in granted /\ "DISCONNECT" \in sent
        /\ opts.tool = "pub" /\ opts.name \in Names => "REGACK" \in granted

(* A keep alive error is no false alarm: unless packets were rejected, the *)
(* gateway has left a request unanswered for at least the network timeout. *)
NoFalseAlarm == outcome = "keep_alive_error" /\ ~noise => owed >= timeout

(* The gateway hears of a connected client within one and a half of the    *)
(* keep-alive period it announced, although pings are only considered when *)
(* select returns, and that takes a timeout derived from the period.       *)
KeepsAlive ==
    keep_alive > 1 /\ pc # "exited" /\ "dtn" \notin opts.flags => 2 * idle <= 3 * keep_alive

(* A message under an id the process was told in a SUBACK, or acknowledged *)
(* in a REGACK, is printed under the name it was told last.                *)
NameKept == "v" \in opts.flags /\ output.id \in DOMAIN assigned => output.as = assigned[output.id]

(* Whatever the command line gives, a REGISTER, a PUBLISH and, up to the   *)
(* lengths they do not cut, a SUBSCRIBE and a CONNECT carry all of it under *)
(* a length byte that says so, or are not sent; and a wrapped packet has   *)
(* the length that mqtt_sn_validate_packet asks of it and fits the buffer. *)
LengthsFit ==
    pc = "socket" =>
        /\ \A n \in 0 .. 300 :
            /\ opts.tool = "pub" =>
                   /\ send_register(n) \in {TooLong, [length |-> n + 6, has |-> n]}
                   /\ send_publish(n) \in {TooLong, [length |-> n + 7, has |-> n]}
            /\ opts.tool = "sub" /\ n <= 248 =>
                   send_subscribe_topic_name(n) = [length |-> n + 5, has |-> n]
            /\ n <= 22 => send_connect(n) = [length |-> n + 6, has |-> n]
        /\ forwarder_encapsulation =>
            \A n \in 0 .. 300, inner \in {2, 7, 8, 254, 255} :
                LET p == create_frwdencap_packet(n, inner)
                IN  /\ p.header + p.inner = p.total
                    /\ p.total <= MQTT_SN_MAX_PACKET_LENGTH + MQTT_SN_MAX_WIRELESS_NODE_ID_LENGTH + 3

(* A program with a keep-alive period does not wait for a silent gateway   *)
(* for ever: it ends unless it hears from it again and again.              *)
SilenceNoticed == opts.tool # "dump" /\ (keep_alive > 0) ~> (pc = "exited" \/ silence = 0)
=============================================================================
