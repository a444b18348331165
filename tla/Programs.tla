------------------------------ MODULE Programs ------------------------------
(***************************************************************************)
(* The programs that connect to a gateway or a broker, side by side: the    *)
(* clients of mqtt-sn-tools (MqttSnTools) and mqtt-sn-serial-bridge         *)
(* (SerialBridge), mosquitto_pub and mosquitto_sub (MosquittoClients), and  *)
(* the MQTT demo (MqttDemo).  They share nothing, so a behaviour is one of  *)
(* one of them: the others have stopped before it begins.                   *)
(***************************************************************************)
EXTENDS MqttSnTools

CONSTANTS
    \* of MosquittoClients
    MosquittoOptions, MaxOptions, Characters, Usernames, Passwords, Hosts, Ports, Lengths, MaxLines, Chunk,
    Count, MaxConnects, MaxMessages,
    \* of SerialBridge
    PacketLengths, Contents, MaxPackets, MaxFaults,
    \* of MqttDemo
    AttemptLimits, RETRY_FOREVER, EventTypeLengths, AttemptValues, CONNECTION_STABLE_TIME, NET_CONNECT_PERIODIC,
    STATE_MACHINE_PERIODIC, RECONNECT_INTERVAL, PUBLISH_INTERVAL

VARIABLES
    program,          \* the one that runs
    \* of MosquittoClients
    tool, given, proxy, wanted, m_pc, rc, read, link, inflight, status, mid_sent, last_mid, last_mid_sent,
    connected, disconnect_sent, thread, input, newline, buf_len, process_messages, msg_count, subscribed,
    connects, failed, published, printed,
    \* of SerialBridge
    b_pc, b_keep_running, frwdencap, length, wire, socket, b_sent, forwarded, written, answers, faults,
    damaged, separated,
    \* of MqttDemo
    RECONNECT_ATTEMPTS, event_type, state, connect_attempt, timer, life, events, poll, d_link, out_buffer_sent,
    address, d_subscribed, attempts, wait, hurried

Mosquitto == INSTANCE MosquittoProofs WITH pc <- m_pc, Options <- MosquittoOptions

Serial == INSTANCE SerialBridge WITH pc <- b_pc, keep_running <- b_keep_running, sent <- b_sent

Demo == INSTANCE DemoProofs WITH link <- d_link, subscribed <- d_subscribed

ASSUME ProgramsAssumption ==
    /\ Options # {} /\ Mosquitto!MosquittoAssumption /\ Serial!BridgeAssumption
    /\ Demo!DemoAssumption

mosquitto ==
    <<tool, given, proxy, wanted, m_pc, rc, read, link, inflight, status, mid_sent, last_mid, last_mid_sent,
      connected, disconnect_sent, thread, input, newline, buf_len, process_messages, msg_count, subscribed,
      connects, failed, published, printed>>
serial ==
    <<b_pc, b_keep_running, frwdencap, length, wire, socket, b_sent, forwarded, written, answers, faults,
      damaged, separated>>
demo ==
    <<RECONNECT_ATTEMPTS, event_type, state, connect_attempt, timer, life, events, poll, d_link, out_buffer_sent,
      address, d_subscribed, attempts, wait, hurried>>
allvars == <<program, vars, mosquitto, serial, demo>>

(* A program that has stopped before it did anything.                        *)
NoTools ==
    /\ opts = (CHOOSE o \in Options : TRUE) /\ pc = "exited" /\ outcome = "failure"
    /\ forwarder_encapsulation = FALSE /\ keep_alive = 0 /\ timeout = DefaultTimeout
    /\ topic_map = <<>> /\ awaited = "CONNACK" /\ idle = MaxAge /\ silence = MaxAge /\ slept = 0
    /\ topic_id = NoId /\ keep_running = TRUE /\ signals = 0 /\ sent = {} /\ granted = {}
    /\ assigned = <<>> /\ owed = NotOwed /\ noise = FALSE /\ output = NoOutput

NoMosquitto ==
    /\ tool = "pub" /\ given = {} /\ proxy = Mosquitto!NoProxy /\ wanted = Mosquitto!NoProxy
    /\ m_pc = "exited" /\ rc = "1" /\ read = 0 /\ link = "none" /\ inflight = <<>>
    /\ status = "CONNECTING" /\ mid_sent = 0 /\ last_mid = -1 /\ last_mid_sent = -1
    /\ connected = TRUE /\ disconnect_sent = FALSE /\ thread = "loop"
    /\ input = <<>> /\ newline = TRUE /\ buf_len = Chunk
    /\ process_messages = TRUE /\ msg_count = 0 /\ subscribed = FALSE /\ connects = 0
    /\ failed = FALSE /\ published = <<>> /\ printed = 0

NoSerial ==
    /\ b_pc = "exited" /\ frwdencap = FALSE /\ b_keep_running = TRUE /\ length = 0
    /\ wire = <<>> /\ socket = <<>> /\ b_sent = <<>> /\ forwarded = <<>> /\ written = <<>>
    /\ answers = 0 /\ faults = 0 /\ damaged = {} /\ separated = TRUE

NoDemo ==
    /\ RECONNECT_ATTEMPTS = RETRY_FOREVER /\ event_type = 11 /\ state = "CONFIG_ERROR" /\ timer = Demo!Stopped
    /\ connect_attempt = 0 /\ life = 0 /\ events = <<>> /\ poll = FALSE
    /\ d_link = "none" /\ out_buffer_sent = TRUE /\ address = FALSE
    /\ d_subscribed = FALSE /\ attempts = 0 /\ wait = 0 /\ hurried = FALSE

AllInit ==
    \/ program = "mqtt-sn-tools" /\ Init /\ NoMosquitto /\ NoSerial /\ NoDemo
    \/ program = "mosquitto" /\ NoTools /\ Mosquitto!Init /\ NoSerial /\ NoDemo
    \/ program = "mqtt-sn-serial-bridge" /\ NoTools /\ NoMosquitto /\ Serial!Init /\ NoDemo
    \/ program = "mqtt-demo" /\ NoTools /\ NoMosquitto /\ NoSerial /\ Demo!Init

AllNext ==
    /\ UNCHANGED program
    /\ \/ program = "mqtt-sn-tools" /\ Next /\ UNCHANGED <<mosquitto, serial, demo>>
       \/ program = "mosquitto" /\ Mosquitto!Next /\ UNCHANGED <<vars, serial, demo>>
       \/ program = "mqtt-sn-serial-bridge" /\ Serial!Next /\ UNCHANGED <<vars, mosquitto, demo>>
       \/ program = "mqtt-demo" /\ Demo!Next /\ UNCHANGED <<vars, mosquitto, serial>>

(* What the four modules assume of the scheduling.                          *)
AllFairness ==
    /\ WF_vars(program = "mqtt-sn-tools" /\ Step)
    /\ SF_vars(program = "mqtt-sn-tools" /\ Tick)
    /\ WF_mosquitto(program = "mosquitto" /\ Mosquitto!Main)
    /\ WF_mosquitto(program = "mosquitto" /\ Mosquitto!Callback)
    /\ WF_mosquitto(program = "mosquitto" /\ Mosquitto!disconnect_callback /\ link = "disconnecting")
    /\ WF_serial(program = "mqtt-sn-serial-bridge" /\ Serial!serial_read_rest)
    /\ WF_serial(program = "mqtt-sn-serial-bridge" /\ Serial!serial_write_packet)
    /\ WF_demo(program = "mqtt-demo" /\ Demo!Process)
    /\ WF_demo(program = "mqtt-demo" /\ Demo!Expire)
    /\ WF_demo(program = "mqtt-demo" /\ Demo!Tick)
    /\ WF_demo(program = "mqtt-demo" /\ Demo!Sent)
    /\ WF_demo(/\ program = "mqtt-demo" /\ d_link = "connecting"
               /\ Demo!MQTT_EVENT_CONNECTED \/ Demo!MQTT_EVENT_DISCONNECTED)

AllSpec == AllInit /\ [][AllNext]_allvars /\ AllFairness

-----------------------------------------------------------------------------
(* The properties of the four modules, each stated there.                   *)
(* Every variable has its type; mosquitto_sub's subscriptions and the       *)
(* demo's state, timer and connection agree.                                *)
StatesConsistent ==
    /\ TypeOK
    /\ program = "mosquitto" => Mosquitto!TypeOK /\ Mosquitto!Resubscribed
    /\ program = "mqtt-sn-serial-bridge" => Serial!TypeOK
    /\ program = "mqtt-demo" => Demo!StateConsistent

(* What a client tells its user is true: the exit status of mqtt-sn-pub,    *)
(* mqtt-sn-sub and mosquitto_pub, the error that the gateway is silent, and *)
(* the topic name printed with a message.                                   *)
ToldTheTruth ==
    /\ ExitHonest /\ NoFalseAlarm /\ NameKept
    /\ program = "mosquitto" => Mosquitto!ExitHonest

(* Names, data, ids, option sets and proxy URLs are used as they are given, *)
(* or refused: none is silently cut, wrapped or taken for another.          *)
ArgumentsAsGiven == LengthsFit /\ (program = "mosquitto" => Mosquitto!OptionsAsGiven)

(* A message of mosquitto_pub -l is the line that was read.                 *)
LinesWhole == program = "mosquitto" => Mosquitto!LinesWhole

(* mosquitto_pub and mosquitto_sub -C disconnect when they are done, and    *)
(* not before.                                                              *)
DisconnectsWhenDone == program = "mosquitto" => Mosquitto!DisconnectsWhenDone

(* mosquitto_pub and mosquitto_sub end.                                     *)
Ends == Mosquitto!Ends

(* Packets of the device are passed on whole, once and in order.            *)
WholePackets == program = "mqtt-sn-serial-bridge" => Serial!WholePackets

(* The demo makes as many attempts, with the pauses, as it is built for.    *)
RetriesAsConfigured == program = "mqtt-demo" => Demo!RetriesAsConfigured

(* The bridge writes what the gateway sends; the demo makes another attempt *)
(* after each that failed, and uses the connection it gets.                 *)
MakesProgress == Serial!AnswersWritten /\ Demo!KeepsTrying /\ Demo!UsesConnection
=============================================================================
