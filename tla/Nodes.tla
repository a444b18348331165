------------------------------- MODULE Nodes --------------------------------
(***************************************************************************)
(* The programs of the sensor network, side by side: the requests of the    *)
(* MQTT-SN mote (MoteRequests), the border router (BorderRouter) and, apart *)
(* from it, its serial line (SlipDev).  They share nothing, so a behaviour  *)
(* is one of one of them: the others have stopped before it begins.         *)
(***************************************************************************)
EXTENDS MoteRequests

CONSTANTS
    \* of BorderRouter
    MAX_CALLBACKS, RadioSlots, MAX_SENSORS, MaxSegments, RouterPackets, MaxCommands, MaxRequests, Prompt,
    \* of SlipDev
    Octets, SlipPackets, Frames, MaxTraffic, OutSize, InSize

VARIABLES
    program,          \* the one that runs
    \* of BorderRouter
    r_pc, mac_set, prefix_set, addressed, delaymsec, callbacks, callback_pos, sensor_count, channel, r_requests,
    reports, radio, packet_ids, packet_pos, transmitting, r_packets, called, commands,
    \* of SlipDev
    verbose, slip_buf, slip_begin, slip_packet_end, slip_packet_count, waiting, inbuf, ungot, exited, wire,
    debug_frame, line, packets, emitted, received, traffic

Router == INSTANCE BorderRouterProofs WITH
    pc <- r_pc, requests <- r_requests, packets <- r_packets, MaxPackets <- RouterPackets

Slip == INSTANCE SlipDev WITH Packets <- SlipPackets

ASSUME NodesAssumption == Router!RouterAssumption /\ Slip!SlipAssumption

router ==
    <<r_pc, mac_set, prefix_set, addressed, delaymsec, callbacks, callback_pos, sensor_count, channel, r_requests,
      reports, radio, packet_ids, packet_pos, transmitting, r_packets, called, commands>>
slip ==
    <<verbose, slip_buf, slip_begin, slip_packet_end, slip_packet_count, waiting, inbuf, ungot, exited, wire,
      debug_frame, line, packets, emitted, received, traffic>>
allvars == <<program, vars, router, slip>>

(* A program that has stopped before it did anything.                       *)
NoMote ==
    /\ requests = {} /\ next_message_id = 1 /\ up = FALSE /\ posted = {} /\ sent = {}
    /\ state = [t \in Types |-> "none"] /\ lc = [t \in Types |-> "start"]
    /\ timer = [t \in Types |-> "stopped"] /\ pc = [t \in Types |-> "off"]
    /\ msg_id = [t \in Types |-> 0] /\ tries = [t \in Types |-> 0]
    /\ topic_msg_id = [t \in Types |-> 0] /\ topic_id = [t \in Types |-> NoTopic]

NoRouter ==
    /\ r_pc = "exited" /\ mac_set = FALSE /\ prefix_set = FALSE /\ addressed = FALSE /\ delaymsec = FALSE
    /\ callbacks = [s \in 0 .. MAX_CALLBACKS - 1 |-> 0] /\ callback_pos = 0 /\ sensor_count = 0 /\ channel = "unknown"
    /\ r_requests = <<>> /\ reports = <<>> /\ radio = FALSE /\ packet_ids = [i \in 0 .. RadioSlots - 1 |-> 0]
    /\ packet_pos = 0 /\ transmitting = {} /\ r_packets = 0 /\ called = {} /\ commands = 0

NoSlip ==
    /\ verbose = FALSE /\ slip_buf = <<>> /\ slip_begin = 0 /\ slip_packet_end = 0 /\ slip_packet_count = 0
    /\ waiting = FALSE /\ exited = TRUE /\ inbuf = <<>> /\ ungot = FALSE /\ wire = <<>> /\ debug_frame = FALSE
    /\ line = <<>> /\ packets = <<>> /\ emitted = <<>> /\ received = <<>> /\ traffic = 0

AllInit ==
    \/ program = "mote" /\ Init /\ NoRouter /\ NoSlip
    \/ program = "border-router" /\ NoMote /\ Router!Init /\ NoSlip
    \/ program = "serial-line" /\ NoMote /\ NoRouter /\ Slip!Init

AllNext ==
    /\ UNCHANGED program
    /\ \/ program = "mote" /\ Next /\ UNCHANGED <<router, slip>>
       \/ program = "border-router" /\ Router!Next /\ UNCHANGED <<vars, slip>>
       \/ program = "serial-line" /\ Slip!Next /\ UNCHANGED <<vars, router>>

(* What the three modules assume of the scheduling.                         *)
AllFairness ==
    /\ \A t \in Types :
          /\ WF_vars(program = "mote" /\ Timeout(t))
          /\ WF_vars(program = "mote" /\ Wake(t))
          /\ WF_vars(program = "mote" /\ Begin(t))
    /\ WF_router(program = "border-router" /\ Router!second_passed)
    /\ WF_router(program = "border-router" /\ Router!Host)
    /\ WF_router(program = "border-router" /\ Router!Radio)
    /\ WF_router(program = "border-router" /\ Router!nobody_listens)
    /\ WF_slip(program = "serial-line" /\ Slip!timer_expired)
    /\ WF_slip(/\ program = "serial-line"
               /\ \E n \in 1 .. slip_packet_end - slip_begin : Slip!slip_flushbuf(n))

AllSpec == AllInit /\ [][AllNext]_allvars /\ AllFairness

-----------------------------------------------------------------------------
(* The properties of the three modules, each stated there.                  *)
(* Every variable has its type, tables are within their sizes, and the       *)
(* mote's requests, timers and protothreads agree.                          *)
StatesConsistent == RequestsConsistent /\ (program = "border-router" => Router!TypeOK)

(* The report of a packet calls that packet's callback, once.               *)
OwnCallback == program = "border-router" => Router!OwnCallback

(* The border router keeps its address once it has its prefix.              *)
AddressKept == program = "border-router" => Router!AddressKept

(* Packets pass the serial line unchanged and in order, both ways, through   *)
(* buffers that are never left.                                             *)
LineFaithful == program = "serial-line" => Slip!TypeOK /\ Slip!LineFaithful

(* The border router goes on once its radio is there, and every packet for  *)
(* the radio is written in the end.                                         *)
NodesGoOn == Router!Starts /\ Slip!AllWritten
=============================================================================
