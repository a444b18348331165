------------------------------ MODULE SlipDev -------------------------------
(* The serial line of the border router, src/ictp/border-router/native: the *)
(* host's side in host/slip-dev.c, the radio's in node/slip-net.c and        *)
(* node/slip-radio.c.  A packet is escaped and ended by SLIP_END; the host   *)
(* writes from a buffer as far as the line takes it and reads in pieces as   *)
(* they come.  The radio's debug output shares the line with its packets.    *)
(* Contiki's own SLIP receiver in the radio is external.                     *)
EXTENDS Integers, FiniteSets, SequencesExt

CONSTANTS
    Octets,        \* the values of a byte
    Packets,       \* packets of the host
    Frames,        \* packets of the radio
    MaxTraffic,    \* bound: packets and characters of debug output
    OutSize,       \* the size of slip_buf (2048)
    InSize         \* the size of inbuf (2048)

SLIP_END == "END"
SLIP_ESC == "ESC"
SLIP_ESC_END == "ESC_END"
SLIP_ESC_ESC == "ESC_ESC"
Newline == "\n"
DEBUG_LINE_MARKER == "\r"
Printable == {"a", "!", "?", Newline, DEBUG_LINE_MARKER}

SlipAssumption ==
    /\ MaxTraffic \in Nat /\ OutSize \in Nat \ {0} /\ InSize \in Nat \ {0}
    /\ {SLIP_END, SLIP_ESC, SLIP_ESC_END, SLIP_ESC_ESC} \cup Printable \subseteq Octets
    /\ Packets \cup Frames \subseteq Seq(Octets) \ {<<>>}

VARIABLES
    verbose,            \* slip_config_verbose is 2, 3, 5 or more
    slip_buf, slip_begin, slip_packet_end, slip_packet_count,
    waiting,            \* send_delay_timer runs
    inbuf,
    ungot,              \* an ESC was put back
    exited,             \* the program gave up
    wire,               \* bytes from the radio, not read yet
    debug_frame,        \* of the radio's putchar
    \* History
    line,               \* bytes written
    packets,            \* packets given to write_to_slip
    emitted,            \* packets of the radio
    received,           \* what the host made of them
    traffic

output == <<slip_buf, slip_begin, slip_packet_end, slip_packet_count, waiting, line, packets>>
input == <<inbuf, ungot, received>>
radio == <<wire, debug_frame, emitted>>
vars == <<verbose, output, input, radio, exited, traffic>>

-----------------------------------------------------------------------------
(* slip_send, on the buffer and its bookkeeping.                            *)
slip_send(b, c) ==
    IF b.overflow \/ Len(b.buf) >= OutSize THEN [b EXCEPT !.overflow = TRUE]
    ELSE [buf |-> Append(b.buf, c), count |-> b.count + (IF c = SLIP_END THEN 1 ELSE 0), overflow |-> FALSE,
          packet_end |-> IF c = SLIP_END /\ b.packet_end = 0 THEN Len(b.buf) + 1 ELSE b.packet_end]

(* Where a packet or a piece of the line is gone through byte by byte, the   *)
(* recursive function has what the first i bytes make.                      *)
sent_bytes(b, bytes) ==
    LET after[i \in 0 .. Len(bytes)] == IF i = 0 THEN b ELSE slip_send(after[i - 1], bytes[i])
    IN  after[Len(bytes)]

Escape(c) ==
    CASE c = SLIP_END                 -> <<SLIP_ESC, SLIP_ESC_END>>
      [] c = SLIP_ESC                 -> <<SLIP_ESC, SLIP_ESC_ESC>>
      [] c \notin {SLIP_END, SLIP_ESC} -> <<c>>

Escaped(packet) ==
    LET bytes[i \in 0 .. Len(packet)] == IF i = 0 THEN <<>> ELSE bytes[i - 1] \o Escape(packet[i])
    IN  bytes[Len(packet)]

Buffer == [buf |-> slip_buf, packet_end |-> slip_packet_end, count |-> slip_packet_count, overflow |-> FALSE]

write_to_slip(packet) ==
    LET b == sent_bytes(Buffer, Append(Escaped(packet), SLIP_END))
    IN  /\ ~exited /\ traffic < MaxTraffic /\ traffic' = traffic + 1
        /\ slip_buf' = b.buf /\ slip_packet_end' = b.packet_end /\ slip_packet_count' = b.count
        /\ exited' = b.overflow /\ packets' = Append(packets, packet)
        /\ UNCHANGED <<verbose, slip_begin, waiting, line, input, radio>>

(* slip_init opens the line, or gives up, and sends one SLIP_END.           *)
Init ==
    LET b == slip_send([buf |-> <<>>, packet_end |-> 0, count |-> 0, overflow |-> FALSE], SLIP_END)
    IN  /\ verbose \in BOOLEAN
        /\ slip_buf = b.buf /\ slip_begin = 0 /\ slip_packet_end = b.packet_end
        /\ slip_packet_count = b.count /\ waiting = FALSE /\ exited \in {b.overflow, TRUE}
        /\ inbuf = <<>> /\ ungot = FALSE /\ wire = <<>> /\ debug_frame = FALSE
        /\ line = <<>> /\ packets = <<>> /\ emitted = <<>> /\ received = <<>> /\ traffic = 0

(* Mutant: the next packet is not looked for.                               *)
Bug_NextEnd(buf) == 0

(* set_fd asks to write when a packet is complete and the pause is over;    *)
(* slip_flushbuf writes n bytes of it, and finds the next when it is done.  *)
(* A write that fails otherwise than with EAGAIN ends the program.          *)
NextEnd(buf) == LET ends == {n \in 2 .. Len(buf) : buf[n] = SLIP_END}
                IN  IF ends = {} THEN 0 ELSE CHOOSE n \in ends : \A m \in ends : n <= m

slip_flushbuf(n) ==
    /\ ~exited /\ slip_packet_end > 0 /\ ~waiting /\ slip_begin + n <= slip_packet_end
    /\ line' = line \o SubSeq(slip_buf, slip_begin + 1, slip_begin + n)
    /\ IF slip_begin + n < slip_packet_end
       THEN /\ slip_begin' = slip_begin + n
            /\ UNCHANGED <<slip_buf, slip_packet_end, slip_packet_count, waiting>>
       ELSE /\ slip_buf' = SubSeq(slip_buf, slip_packet_end + 1, Len(slip_buf))
            /\ slip_begin' = 0 /\ slip_packet_end' = NextEnd(slip_buf')
            /\ slip_packet_count' = slip_packet_count - 1 /\ waiting' = (slip_buf' # <<>>)
    /\ UNCHANGED <<verbose, packets, input, radio, exited, traffic>>

write_fails ==
    /\ ~exited /\ slip_packet_end > 0 /\ ~waiting /\ exited' = TRUE
    /\ UNCHANGED <<verbose, output, input, radio, traffic>>

timer_expired ==
    /\ waiting /\ waiting' = FALSE
    /\ UNCHANGED <<verbose, slip_buf, slip_begin, slip_packet_end, slip_packet_count, line, packets, input,
                   radio, exited, traffic>>

-----------------------------------------------------------------------------
(* serial_input, one byte at a time: s is the buffer, whether an ESC is     *)
(* waiting for its second byte, the frames so far and the verbosity.        *)
is_sensible_string(s) == \A i \in 2 .. Len(s) : s[i] \in Printable

Unescaped(c) ==
    CASE c = SLIP_ESC_END                        -> SLIP_END
      [] c = SLIP_ESC_ESC                        -> SLIP_ESC
      [] c \notin {SLIP_ESC_END, SLIP_ESC_ESC} -> c

(* What becomes of a frame: a command, a packet, or nothing but output.     *)
HandedOn(frame) ==
    CASE frame[1] = "!"                              -> <<<<"cmd_input", frame>>>>
      [] frame[1] \in {"?", DEBUG_LINE_MARKER}       -> <<>>
      [] frame[1] \notin {"!", "?", DEBUG_LINE_MARKER} ->
             IF is_sensible_string(frame) THEN <<>> ELSE <<<<"slip_packet_input", frame>>>>

Store(s, c) ==
    LET more == Append(s.inbuf, c)
    IN  [s EXCEPT !.esc = FALSE,
                  !.inbuf = IF s.verbose /\ c = Newline /\ is_sensible_string(more) THEN <<>> ELSE more]

Fresh(s) == IF Len(s.inbuf) >= InSize /\ ~s.esc THEN [s EXCEPT !.inbuf = <<>>] ELSE s

read_byte(t, c) ==
    LET s == Fresh(t)
    IN  CASE s.esc                     -> Store(s, Unescaped(c))
          [] ~s.esc /\ c = SLIP_ESC    -> [s EXCEPT !.esc = TRUE]
          [] ~s.esc /\ c = SLIP_END    ->
                 [s EXCEPT !.inbuf = <<>>,
                           !.got = IF s.inbuf = <<>> THEN s.got ELSE s.got \o HandedOn(s.inbuf)]
          [] ~s.esc /\ c \notin {SLIP_ESC, SLIP_END} -> Store(s, c)

read_bytes(s, bytes) ==
    LET after[i \in 0 .. Len(bytes)] == IF i = 0 THEN s ELSE read_byte(after[i - 1], bytes[i])
    IN  after[Len(bytes)]

(* The bytes that have come, after an ESC put back; an ESC that is the last *)
(* of them is put back again.                                               *)
(* Mutant: an ESC at the end of what has come is lost.                      *)
Bug_serial_input(n) ==
    LET bytes == (IF ungot THEN <<SLIP_ESC>> ELSE <<>>) \o SubSeq(wire, 1, n)
        s == read_bytes([inbuf |-> inbuf, esc |-> FALSE, got |-> received, verbose |-> verbose], bytes)
    IN  /\ ~exited /\ n <= Len(wire)
        /\ inbuf' = s.inbuf /\ ungot' = FALSE /\ received' = s.got
        /\ wire' = SubSeq(wire, n + 1, Len(wire))
        /\ UNCHANGED <<verbose, output, debug_frame, emitted, exited, traffic>>

serial_input(n) ==
    LET bytes == (IF ungot THEN <<SLIP_ESC>> ELSE <<>>) \o SubSeq(wire, 1, n)
        s == read_bytes([inbuf |-> inbuf, esc |-> FALSE, got |-> received, verbose |-> verbose], bytes)
    IN  /\ ~exited /\ n <= Len(wire)
        /\ inbuf' = s.inbuf /\ ungot' = s.esc /\ received' = s.got
        /\ wire' = SubSeq(wire, n + 1, Len(wire))
        /\ UNCHANGED <<verbose, output, debug_frame, emitted, exited, traffic>>

(* The line is closed.                                                      *)
read_fails ==
    /\ ~exited /\ exited' = TRUE
    /\ UNCHANGED <<verbose, output, input, radio, traffic>>

-----------------------------------------------------------------------------
(* The radio sends a packet, and a character of debug output.               *)
slip_send_packet(frame) ==
    /\ traffic < MaxTraffic /\ traffic' = traffic + 1
    /\ wire' = wire \o <<SLIP_END>> \o Escaped(frame) \o <<SLIP_END>>
    /\ emitted' = Append(emitted, frame)
    /\ UNCHANGED <<verbose, output, input, debug_frame, exited>>

putchar(c) ==
    /\ traffic < MaxTraffic /\ traffic' = traffic + 1
    /\ wire' = wire \o (IF debug_frame THEN <<>> ELSE <<SLIP_END, DEBUG_LINE_MARKER>>)
                    \o (IF c = Newline THEN <<c, SLIP_END>> ELSE <<c>>)
    /\ debug_frame' = (c # Newline)
    /\ UNCHANGED <<verbose, output, input, emitted, exited>>

handle_fd ==
    \/ \E n \in 1 .. Len(wire) : serial_input(n)
    \/ \E n \in 1 .. slip_packet_end - slip_begin : slip_flushbuf(n)

Next ==
    \/ \E packet \in Packets : write_to_slip(packet)
    \/ handle_fd \/ write_fails \/ read_fails \/ timer_expired
    \/ \E frame \in Frames : slip_send_packet(frame)
    \/ \E c \in {"a", Newline} : putchar(c)

Spec == Init /\ [][Next]_vars

(* The program is scheduled and the line takes bytes.                       *)
Fairness ==
    WF_vars(timer_expired) /\ WF_vars(\E n \in 1 .. slip_packet_end - slip_begin : slip_flushbuf(n))
FairSpec == Spec /\ Fairness

-----------------------------------------------------------------------------
(* Both buffers are within their sizes, and the positions within them.      *)
TypeOK ==
    /\ Len(slip_buf) <= OutSize /\ Len(inbuf) <= InSize
    /\ slip_packet_end \in 0 .. Len(slip_buf) /\ slip_begin \in 0 .. slip_packet_end
    /\ slip_packet_count \in Nat /\ traffic \in 0 .. MaxTraffic
    /\ {verbose, waiting, ungot, exited, debug_frame} \subseteq BOOLEAN

(* What a receiver makes of a stream of bytes.                              *)
Decode(s, c) ==
    CASE s.esc                                   -> [s EXCEPT !.esc = FALSE, !.cur = Append(s.cur, Unescaped(c))]
      [] ~s.esc /\ c = SLIP_ESC                  -> [s EXCEPT !.esc = TRUE]
      [] ~s.esc /\ c = SLIP_END                  ->
             [s EXCEPT !.cur = <<>>, !.got = IF s.cur = <<>> THEN s.got ELSE Append(s.got, s.cur)]
      [] ~s.esc /\ c \notin {SLIP_ESC, SLIP_END} -> [s EXCEPT !.cur = Append(s.cur, c)]

Decoding(s, bytes) ==
    LET after[i \in 0 .. Len(bytes)] == IF i = 0 THEN s ELSE Decode(after[i - 1], bytes[i])
    IN  after[Len(bytes)]

Start == [cur |-> <<>>, esc |-> FALSE, got |-> <<>>]
Decoded(bytes) == Decoding(Start, bytes).got

(* A receiver of the line gets the host's packets, unchanged and in order,  *)
(* however many bytes a write takes; what is not written yet is in the      *)
(* buffer, and counted.                                                     *)
PacketsWritten ==
    /\ IsPrefix(Decoded(line), packets)
    /\ ~exited =>
          /\ Decoded(line \o SubSeq(slip_buf, slip_begin + 1, Len(slip_buf))) = packets
          /\ slip_packet_count = Cardinality({i \in DOMAIN slip_buf : slip_buf[i] = SLIP_END})

Expected(frames) ==
    LET from[i \in 0 .. Len(frames)] == IF i = 0 THEN <<>> ELSE from[i - 1] \o HandedOn(frames[i])
    IN  from[Len(frames)]

(* Frames that are neither longer than the buffer nor taken for lines.      *)
Fitting(frames) ==
    \A i \in DOMAIN frames :
        /\ Len(frames[i]) < InSize
        /\ verbose => \A j \in DOMAIN frames[i] : frames[i][j] # Newline

(* The host gets the radio's commands and packets, unchanged and in order,  *)
(* whatever the pieces it reads them in and with debug output before,       *)
(* between and after them - but for frames longer than the buffer, and, at  *)
(* the verbosities that echo lines, frames with a newline in them.          *)
FramesReceived ==
    Fitting(emitted) => IF wire = <<>> THEN received = Expected(emitted) ELSE IsPrefix(received, Expected(emitted))

(* The line carries packets faithfully in both directions.                  *)
LineFaithful == PacketsWritten /\ FramesReceived

(* Every packet is written in the end, unless the program gives up.         *)
AllWritten == packets # <<>> ~> exited \/ Decoded(line) = packets
=============================================================================
