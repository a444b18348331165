---------------------------- MODULE BorderRouter ----------------------------
(* The border router of src/ictp/border-router/native: the program on the   *)
(* host (border-router.c, border-router-rdc.c, border-router-cmds.c,        *)
(* tun-bridge.c) and the firmware of its radio (slip-radio.c,               *)
(* slip-radio-cc2420.c).  They exchange packets over a serial line, which   *)
(* SlipDev describes; here it is a queue in each direction.  What goes into *)
(* the packets, RPL and the tables of neighbours and routes are left out.   *)
EXTENDS Integers, Sequences, FiniteSets

CONSTANTS
    MAX_CALLBACKS,    \* callbacks the host keeps (16)
    RadioSlots,       \* the length of the radio's packet_ids (16)
    MAX_SENSORS,
    MaxSegments,      \* bound: parts of a sensor report
    MaxPackets,       \* bound: packets the host sends
    MaxCommands,      \* bound: commands on the console, sensor reports, starts of the radio
    MaxRequests,      \* bound: packets on the line to the radio, when the host asks
    Prompt            \* the radio answers within the second until the next request

RouterAssumption ==
    /\ MAX_CALLBACKS \in Nat \ {0} /\ RadioSlots \in Nat \ {0} /\ MAX_SENSORS \in Nat
    /\ MaxSegments \in Nat /\ MaxPackets \in Nat /\ MaxCommands \in Nat /\ MaxRequests \in Nat /\ Prompt \in BOOLEAN

VARIABLES
    pc,               \* border_router_process: "asking" for the MAC address, "running", "exited"
    mac_set, prefix_set,
    addressed,        \* the host has its address and is the root of a DAG
    delaymsec,        \* the pause after a packet of the tunnel
    callbacks, callback_pos,
    sensor_count, channel,
    requests,         \* bytes to the radio, as packets
    reports,          \* and back
    radio,            \* the radio's program is running
    packet_ids, packet_pos,
    transmitting,     \* packets in the radio's MAC layer, and their place in packet_ids
    \* History
    packets,          \* packets sent
    called,           \* which callback was called for which packet, when how many were sent
    commands

host == <<pc, mac_set, prefix_set, addressed, delaymsec, sensor_count, channel>>
rdc == <<callbacks, callback_pos, packets, called>>
firmware == <<radio, packet_ids, packet_pos, transmitting>>
vars == <<host, rdc, requests, reports, firmware, commands>>

None == 0     \* no packet has this number

(* The options that are left out only set a variable.                       *)
Arguments == [options : SUBSET {"v", "T", "h"}, positional : 0 .. 3, baudrate : {115200, 921600, 300}]

slip_config_handle_arguments(args) ==
    /\ args.options \subseteq {"B", "H", "L", "s", "t", "a", "p", "d", "v"}
    /\ args.positional \in {1, 2}
    /\ args.baudrate \in {-2, 9600, 19200, 38400, 57600, 115200, 921600}

Init ==
    /\ pc \in {IF slip_config_handle_arguments(args) THEN "asking" ELSE "exited" : args \in Arguments}
    /\ mac_set = FALSE /\ prefix_set = FALSE /\ addressed = FALSE /\ delaymsec = FALSE
    /\ callbacks = [s \in 0 .. MAX_CALLBACKS - 1 |-> None] /\ callback_pos = 0
    /\ sensor_count = 0 /\ channel = "unknown"
    /\ requests = <<>> /\ reports = <<>>
    /\ radio = FALSE /\ packet_ids = [i \in 0 .. RadioSlots - 1 |-> 0] /\ packet_pos = 0
    /\ transmitting = {} /\ packets = 0 /\ called = {} /\ commands = 0

Command == pc # "exited" /\ commands < MaxCommands /\ commands' = commands + 1

-----------------------------------------------------------------------------
(* border_router_process.  Each second without an address it asks again.    *)
Unanswered == {i \in DOMAIN requests : requests[i].type = "?M"} = {}
              /\ {i \in DOMAIN reports : reports[i].type = "!M"} = {}

(* Mutant: asks before it looks whether it was answered.                    *)
Bug_request_mac == requests' = Append(requests, [type |-> "?M"])

request_mac == IF mac_set THEN UNCHANGED requests ELSE requests' = Append(requests, [type |-> "?M"])

(* set_prefix_64, when the address of the command line can be parsed.       *)
set_prefix_64 ==
    \/ pc' = "running" /\ prefix_set' = TRUE /\ addressed' = TRUE
    \/ pc' = "exited" /\ UNCHANGED <<prefix_set, addressed>>

second_passed ==
    /\ pc = "asking" /\ (Prompt => Unanswered)
    /\ Len(requests) < MaxRequests /\ request_mac
    /\ IF mac_set THEN set_prefix_64 ELSE UNCHANGED <<pc, prefix_set, addressed>>
    /\ UNCHANGED <<mac_set, delaymsec, sensor_count, channel, rdc, reports, firmware, commands>>

(* send_packet: without room for the headers the callback is called at      *)
(* once; else it is kept under the session id the packet carries.  With     *)
(* from_tun the packet came from the tunnel, and a pause begins.            *)
setup_callback ==
    /\ callbacks' = [callbacks EXCEPT ![callback_pos] = packets']
    /\ callback_pos' = IF callback_pos + 1 >= MAX_CALLBACKS THEN 0 ELSE callback_pos + 1

Report(packet, ptr) == [packet |-> packet, ptr |-> ptr, sent |-> packets']

too_large ==
    /\ called' = called \cup {Report(packets', packets')}
    /\ UNCHANGED <<callbacks, callback_pos, requests>>

send_packet(from_tun) ==
    /\ pc # "exited" /\ packets < MaxPackets /\ packets' = packets + 1
    /\ from_tun => ~delaymsec
    /\ delaymsec' \in (IF from_tun THEN BOOLEAN ELSE {delaymsec})   \* option -d
    /\ \/ too_large
       \/ /\ setup_callback /\ UNCHANGED called
          /\ requests' = Append(requests, [type |-> "!S", sid |-> callback_pos, packet |-> packets'])
    /\ UNCHANGED <<pc, mac_set, prefix_set, addressed, sensor_count, channel, reports, firmware, commands>>

delay_passed ==
    /\ pc # "exited" /\ delaymsec /\ delaymsec' = FALSE
    /\ UNCHANGED <<pc, mac_set, prefix_set, addressed, sensor_count, channel, rdc, requests, reports, firmware,
                   commands>>

-----------------------------------------------------------------------------
(* border_router_cmd_handler, for what the radio sends (CMD_CONTEXT_RADIO). *)
FromRadio(type) ==
    /\ pc # "exited" /\ reports # <<>> /\ Head(reports).type = type /\ reports' = Tail(reports)
    /\ UNCHANGED <<requests, firmware, commands>>

(* border_router_set_mac starts the addresses and RPL anew.                 *)
border_router_set_mac ==
    /\ FromRadio("!M") /\ mac_set' = TRUE /\ addressed' = FALSE
    /\ UNCHANGED <<pc, prefix_set, delaymsec, sensor_count, channel, rdc>>

(* packet_sent of border-router-rdc.c.                                      *)
packet_sent ==
    /\ FromRadio("!R") /\ UNCHANGED <<host, callbacks, callback_pos, packets>>
    /\ called' = IF Head(reports).sid < MAX_CALLBACKS
                 THEN called \cup {Report(Head(reports).packet, callbacks[Head(reports).sid])}
                 ELSE called

(* Cut at the semicolons; the parts beyond MAX_SENSORS are left.            *)
border_router_set_sensors ==
    /\ FromRadio("!D")
    /\ sensor_count' = IF Head(reports).parts > MAX_SENSORS THEN MAX_SENSORS ELSE Head(reports).parts
    /\ UNCHANGED <<pc, mac_set, prefix_set, addressed, delaymsec, channel, rdc>>

channel_report ==
    /\ FromRadio("!C") /\ channel' = "told"
    /\ UNCHANGED <<pc, mac_set, prefix_set, addressed, delaymsec, sensor_count, rdc>>

packet_input == FromRadio("packet") /\ UNCHANGED <<host, rdc>>

(* border_router_cmd_process: from the console the question for the channel *)
(* goes to the radio; the others do not leave the host.                     *)
console_command ==
    /\ Command
    /\ requests' = Append(requests, [type |-> "?C"])
    /\ UNCHANGED <<host, rdc, reports, firmware>>

(* A signal, or a failure of the tunnel or the line, ends the program.      *)
sigcleanup ==
    /\ pc # "exited" /\ pc' = "exited"
    /\ UNCHANGED <<mac_set, prefix_set, addressed, delaymsec, sensor_count, channel, rdc, requests, reports,
                   firmware, commands>>

Host ==
    \/ border_router_set_mac \/ packet_sent \/ border_router_set_sensors \/ channel_report \/ packet_input
    \/ delay_passed

-----------------------------------------------------------------------------
(* The radio.  It starts, or starts again, with nothing of what it had.     *)
radio_starts ==
    /\ Command /\ radio' = TRUE /\ packet_pos' = 0
    /\ transmitting' = {} /\ packet_ids' = [i \in 0 .. RadioSlots - 1 |-> 0]
    /\ UNCHANGED <<host, rdc, requests, reports>>

(* slip_radio_cmd_handler and cmd_handler_cc2420, for the packets of type.  *)
Received(type) ==
    /\ radio /\ requests # <<>> /\ Head(requests).type = type /\ requests' = Tail(requests)
    /\ UNCHANGED <<host, rdc, radio, commands>>

(* A packet whose attributes cannot be read is dropped: nobody is told.     *)
radio_send ==
    /\ Received("!S") /\ packet_ids' = [packet_ids EXCEPT ![packet_pos] = Head(requests).sid]
    /\ \/ UNCHANGED <<transmitting, packet_pos>>
       \/ /\ transmitting' = transmitting \cup {[packet |-> Head(requests).packet, ptr |-> packet_pos]}
          /\ packet_pos' = IF packet_pos + 1 >= RadioSlots THEN 0 ELSE packet_pos + 1
    /\ UNCHANGED reports

(* Mutant: answered with the radio's own number.                            *)
Bug_radio_packet_sent(t) ==
    /\ radio /\ t \in transmitting /\ transmitting' = transmitting \ {t}
    /\ reports' = Append(reports, [type |-> "!R", sid |-> t.ptr, packet |-> t.packet])
    /\ UNCHANGED <<host, rdc, requests, radio, packet_ids, packet_pos, commands>>

(* packet_sent of slip-radio.c, called by the radio's MAC layer.            *)
radio_packet_sent(t) ==
    /\ radio /\ t \in transmitting /\ transmitting' = transmitting \ {t}
    /\ reports' = Append(reports, [type |-> "!R", sid |-> packet_ids[t.ptr], packet |-> t.packet])
    /\ UNCHANGED <<host, rdc, requests, radio, packet_ids, packet_pos, commands>>

radio_mac ==
    /\ Received("?M") /\ reports' = Append(reports, [type |-> "!M"])
    /\ UNCHANGED <<packet_ids, packet_pos, transmitting>>

radio_channel ==
    /\ Received("?C") /\ reports' = Append(reports, [type |-> "!C"])
    /\ UNCHANGED <<packet_ids, packet_pos, transmitting>>

(* Bytes sent to a radio that is off are lost.                              *)
nobody_listens ==
    /\ ~radio /\ requests # <<>> /\ requests' = Tail(requests)
    /\ UNCHANGED <<host, rdc, reports, firmware, commands>>

(* Its sensors, and packets from the air.                                   *)
radio_reports ==
    /\ radio /\ Command
    /\ \/ \E n \in 1 .. MaxSegments : reports' = Append(reports, [type |-> "!D", parts |-> n])
       \/ reports' = Append(reports, [type |-> "packet"])
    /\ UNCHANGED <<host, rdc, requests, firmware>>

Radio == radio_send \/ radio_mac \/ radio_channel \/ \E t \in transmitting : radio_packet_sent(t)

Next ==
    \/ second_passed \/ \E from_tun \in BOOLEAN : send_packet(from_tun)
    \/ Host \/ console_command \/ sigcleanup
    \/ Radio \/ radio_starts \/ radio_reports \/ nobody_listens

Spec == Init /\ [][Next]_vars

(* Both programs are scheduled, the MAC layer reports every packet, and     *)
(* time passes.                                                             *)
FairSpec ==
    Spec /\ WF_vars(second_passed) /\ WF_vars(Host) /\ WF_vars(Radio) /\ WF_vars(nobody_listens)

-----------------------------------------------------------------------------
(* Every variable has its type; no more sensors are kept than there is room *)
(* for.                                                                     *)
TypeOK ==
    /\ pc \in {"asking", "running", "exited"}
    /\ {mac_set, prefix_set, addressed, delaymsec, radio} \subseteq BOOLEAN
    /\ callbacks \in [0 .. MAX_CALLBACKS - 1 -> 0 .. MaxPackets] /\ callback_pos \in DOMAIN callbacks
    /\ sensor_count \in 0 .. MAX_SENSORS /\ channel \in {"unknown", "told"}
    /\ packet_ids \in [0 .. RadioSlots - 1 -> DOMAIN callbacks] /\ packet_pos \in DOMAIN packet_ids
    /\ packets \in 0 .. MaxPackets /\ commands \in 0 .. MaxCommands

(* The report of a packet calls the callback of that packet, once, although *)
(* host and radio number packets by places they use again - as long as      *)
(* fewer packets were sent after it than there are places.                  *)
OwnCallback ==
    /\ \A r \in called :
          r.ptr = r.packet \/ r.sent - r.packet >= MAX_CALLBACKS \/ r.sent - r.packet >= RadioSlots
    /\ \A r, q \in called : r.packet = q.packet => r = q

(* Once it has its prefix the host keeps its address: an answer to a        *)
(* repeated request, which would start the addresses anew, does not come    *)
(* after that if the radio answers promptly.                                *)
AddressKept == Prompt /\ prefix_set => addressed

(* The border router gets its address and prefix, and goes on, once the     *)
(* radio is there, though requests before that are lost.                    *)
Starts == (pc = "asking" /\ radio) ~> pc # "asking"
=============================================================================
