---------------------------- MODULE SerialBridge ----------------------------
(* mqtt-sn-serial-bridge, src/mqtt-sn-tools/mqtt-sn-serial-bridge.c: passes   *)
(* packets between a device on a serial line and a gateway.  A packet begins  *)
(* with its length and nothing else marks where one begins; the line is read  *)
(* with VMIN 255 and VTIME 1: read() waits for a first byte and then returns  *)
(* what was asked for, or what came before a gap.                             *)
EXTENDS Integers, Sequences, SequencesExt

CONSTANTS
    PacketLengths,   \* lengths of the device's packets
    Contents,        \* the bytes after the length
    MaxPackets,      \* bound: packets in each direction
    MaxFaults        \* bound: bytes lost on the line, pauses within a packet

BridgeAssumption ==
    /\ PacketLengths \subseteq Nat /\ Contents \subseteq Nat /\ MaxPackets \in Nat /\ MaxFaults \in Nat

VARIABLES
    pc,              \* "select", "rest" of a packet, "exited"
    keep_running, frwdencap,
    length,          \* buf[0]
    wire,            \* bytes of the device not read yet, and gaps between them
    socket,          \* packets of the gateway
    \* History
    sent,            \* packets of the device
    forwarded,       \* packets sent to the gateway, how they were wrapped
    written,         \* packets written to the line
    answers, faults,
    damaged,         \* packets a fault was in
    separated        \* only bytes after the length were lost, and a gap followed

line == <<wire, sent, faults, damaged, separated>>
vars == <<pc, keep_running, frwdencap, length, line, socket, forwarded, written, answers>>

Byte(i, v) == [packet |-> i, value |-> v]    \* of the i-th packet
Gap == Byte(0, -1)

Init ==
    /\ pc \in {"select", "exited"}    \* options, socket and device are in order, or it exits
    /\ frwdencap \in BOOLEAN /\ keep_running = TRUE /\ length = 0
    /\ wire = <<>> /\ socket = <<>> /\ sent = <<>> /\ forwarded = <<>> /\ written = <<>>
    /\ answers = 0 /\ faults = 0 /\ damaged = {} /\ separated = TRUE

(* select: serial input, then the packet of the socket, then a look at      *)
(* keep_running; a signal while it waits ends the program.                  *)
(* A gap before the first byte of a read does not end it.                   *)
FirstByte(w) == SelectInSeq(w, LAMBDA b : b # Gap)
Line(w) == IF FirstByte(w) = 0 THEN <<>> ELSE SubSeq(w, FirstByte(w), Len(w))

(* The first read of serial_read_packet.  A length of 0 is dropped, and one *)
(* of 1, for which the second read returns nothing.                         *)
NoRest == {0, 1}

serial_read_length ==
    /\ pc = "select" /\ keep_running /\ wire # <<>>
    /\ length' = Head(wire).value /\ wire' = Line(Tail(wire))
    /\ pc' = IF length' \in NoRest THEN "select" ELSE "rest"
    /\ UNCHANGED <<keep_running, frwdencap, sent, faults, damaged, separated, socket, forwarded, written, answers>>

(* The second read: it takes what was asked for, or stops at a gap.         *)
Before(w, end) == IF end = 0 THEN Len(w) ELSE end - 1
Available == LET run == Before(wire, SelectInSeq(wire, LAMBDA b : b = Gap))
             IN  IF run < length - 1 THEN run ELSE length - 1
Complete == wire # <<>> /\ (Available = length - 1 \/ \E i \in DOMAIN wire : wire[i] = Gap)

(* Mutant: a packet may be short.                                           *)
Bug_validate_packet(n) == n + 1 <= length

validate_packet(n) == n + 1 = length

serial_read_rest ==
    /\ pc = "rest" /\ Complete /\ pc' = "select"
    /\ wire' = Line(SubSeq(wire, Available + 1, Len(wire)))
    /\ forwarded' = IF validate_packet(Available)
                    THEN Append(forwarded, [bytes |-> SubSeq(wire, 1, Available), wrapped |-> frwdencap])
                    ELSE forwarded
    /\ UNCHANGED <<keep_running, frwdencap, length, sent, faults, damaged, separated, socket, written, answers>>

(* The packet of the socket; it may be written in the turn in which a       *)
(* signal comes.                                                            *)
serial_write_packet ==
    /\ pc = "select" /\ socket # <<>>
    /\ written' = Append(written, Head(socket)) /\ socket' = Tail(socket)
    /\ UNCHANGED <<pc, keep_running, frwdencap, length, line, forwarded, answers>>

(* A signal interrupts select; in the middle of a packet it is noticed when *)
(* the packet is complete.                                                  *)
termination_handler ==
    /\ pc # "exited" /\ keep_running' = FALSE
    /\ UNCHANGED <<pc, frwdencap, length, line, socket, forwarded, written, answers>>

stops ==
    /\ pc = "select" /\ ~keep_running /\ pc' = "exited"
    /\ UNCHANGED <<keep_running, frwdencap, length, line, socket, forwarded, written, answers>>

-----------------------------------------------------------------------------
(* External: the device sends a packet at once, with or without a gap       *)
(* before it; a byte is lost, or the device pauses within a packet; the     *)
(* line is quiet; the gateway sends.                                        *)
Packet(n, c) == <<Byte(Len(sent) + 1, n)>> \o [i \in 1 .. n - 1 |-> Byte(Len(sent) + 1, c)]

AfterGap == faults = 0 \/ wire = <<>> \/ Last(wire) = Gap

device_sends(n, c) ==
    /\ Len(sent) < MaxPackets /\ separated' = (separated /\ AfterGap)
    /\ sent' = Append(sent, Packet(n, c)) /\ wire' = wire \o Packet(n, c)
    /\ UNCHANGED <<pc, keep_running, frwdencap, length, faults, damaged, socket, forwarded, written, answers>>

line_fails(n, c) ==
    /\ Len(sent) < MaxPackets /\ faults < MaxFaults /\ faults' = faults + 1
    /\ sent' = Append(sent, Packet(n, c)) /\ damaged' = damaged \cup {Len(sent) + 1}
    /\ \E i \in 1 .. n :
        \/ /\ wire' = wire \o RemoveAt(Packet(n, c), i)
           /\ separated' = (separated /\ AfterGap /\ i > 1 /\ n > 2)
        \/ wire' = Line(wire \o InsertAt(Packet(n, c), i, Gap)) /\ separated' = FALSE
    /\ UNCHANGED <<pc, keep_running, frwdencap, length, socket, forwarded, written, answers>>

line_quiet ==
    /\ wire # <<>> /\ Last(wire) # Gap /\ wire' = Append(wire, Gap)
    /\ UNCHANGED <<pc, keep_running, frwdencap, length, sent, faults, damaged, separated, socket, forwarded, written, answers>>

gateway_sends ==
    /\ answers < MaxPackets /\ answers' = answers + 1 /\ socket' = Append(socket, answers + 1)
    /\ UNCHANGED <<pc, keep_running, frwdencap, length, line, forwarded, written>>

Bridge == serial_read_length \/ serial_read_rest \/ stops

Next ==
    \/ Bridge \/ serial_write_packet \/ termination_handler
    \/ \E n \in PacketLengths, c \in Contents : device_sends(n, c) \/ line_fails(n, c)
    \/ line_quiet \/ gateway_sends

Spec == Init /\ [][Next]_vars

(* The bridge is scheduled, and select, which looks at the serial line      *)
(* first, gets to the socket in the end.                                    *)
Fairness == WF_vars(serial_read_rest) /\ WF_vars(serial_write_packet)
FairSpec == Spec /\ Fairness

-----------------------------------------------------------------------------
(* Every variable has its type.                                             *)
TypeOK ==
    /\ pc \in {"select", "rest", "exited"} /\ {keep_running, frwdencap} \subseteq BOOLEAN
    /\ length \in Nat /\ (pc = "rest" => length > 1)
    /\ answers \in 0 .. MaxPackets /\ faults \in 0 .. MaxFaults

(* Every packet of the device, longer than its length byte, is sent on      *)
(* once, whole and in order, with or without gaps between packets; when a   *)
(* byte after the length was lost and a gap follows, only that packet is    *)
(* missing.                                                                 *)
Proper == {k \in DOMAIN sent : Len(sent[k]) > 1 /\ k \notin damaged}
Number(i) == Head(forwarded[i].bytes).packet
WholePackets ==
    separated =>
        /\ \A i \in DOMAIN forwarded : Number(i) \in Proper /\ forwarded[i].bytes = Tail(sent[Number(i)])
        /\ \A i, j \in DOMAIN forwarded : i < j => Number(i) < Number(j)
        /\ \A k \in Proper :
               (pc = "select" /\ wire = <<>>) \/ (\E i \in DOMAIN forwarded : k < Number(i))
                   => \E i \in DOMAIN forwarded : Number(i) = k

(* What the gateway sends is written in the end, while no byte was lost on   *)
(* the line and no pause came within a packet: else the bridge may wait for *)
(* the rest of a packet as long as the device sends nothing.                *)
AnswersWritten ==
    socket # <<>> ~> Len(written) = answers \/ ~keep_running \/ pc = "exited" \/ (pc = "rest" /\ faults > 0)
=============================================================================
