-------------------------- MODULE BrokerConnection --------------------------
(***************************************************************************)
(* The TCP connection of one client handler to the broker                  *)
(* (broker/tcp/TCPBrokerInterface.java) between three kinds of processes:  *)
(* the dispatcher thread, which runs initialize(), sendMsg() and           *)
(* disconnect() inside the handler and takes messages from the queue       *)
(* (core/Dispatcher.java, utils/MsgQueue.java); the reading threads, one   *)
(* started by each initialize(); and the broker.  The fields running and   *)
(* streamIn are shared by all threads of one TCPBrokerInterface object, so *)
(* each access to them is a step of its own.                               *)
(*                                                                         *)
(* Of the handler only ClientState.isConnected() is kept.  A thread that   *)
(* has begun a message takes all of its bytes from the same stream.        *)
(***************************************************************************)
EXTENDS Naturals, Sequences, Functions

CONSTANTS
    MaxConnections,  \* bound on successful initialize() calls
    MaxMessages,     \* bound on the broker's messages on one connection
    MaxArrivals,     \* bound on them on all connections together
    MaxCommands      \* bound on the client's messages

ASSUME ConnectionAssumption ==
    /\ MaxConnections \in Nat /\ MaxMessages \in Nat
    /\ MaxArrivals \in Nat /\ MaxCommands \in Nat

(* A connection and the thread initialize() starts for it share a number. *)
Connections == 1 .. MaxConnections

VARIABLES
    connected,  \* client.isConnected()
    step,       \* where the dispatcher thread is: "get" between two messages
    running,
    streamIn,   \* the connection whose stream it is, 0 for null
    socket,     \* "none", "open", "ended" by the broker, "closed" by disconnect()
    arrived,    \* messages the broker has sent on a connection
    taken,      \* messages read off a connection
    thread,     \* the reading threads
    queue,      \* Dispatcher.dataQueue
    commands    \* messages the client has sent

tcp == <<socket, arrived, taken>>
vars == <<connected, step, running, streamIn, tcp, thread, queue, commands>>

Command(type) == [type |-> type, control |-> FALSE]
ClientCommands == {Command("CONNECT"), Command("DISCONNECT"), Command("PUBLISH")}
ConnectionLost == [type |-> "CONNECTION_LOST", control |-> TRUE]
(* by: the thread that read the message, for InOrder. *)
MqttMsg(c, n, k) ==
    [type |-> "MQTT", control |-> FALSE, conn |-> c, seq |-> n, by |-> k]
Messages ==
    ClientCommands \cup {ConnectionLost}
    \cup {MqttMsg(c, n, k) : c \in Connections, n \in 1 .. MaxMessages, k \in Connections}

Thread == [pc : {"none", "loop", "enter", "begin", "read", "sleep", "failed",
                 "stopping", "posting", "ended"},
           conn : Connections \cup {0}, seq : 0 .. MaxMessages]

TypeOK ==
    /\ connected \in BOOLEAN /\ running \in BOOLEAN
    /\ step \in {"get", "opened", "running", "started",
                 "closing", "closeOut", "closeIn"}
    /\ streamIn \in Connections \cup {0}
    /\ socket \in [Connections -> {"none", "open", "ended", "closed"}]
    /\ arrived \in [Connections -> 0 .. MaxMessages]
    /\ taken \in [Connections -> 0 .. MaxMessages]
    /\ thread \in [Connections -> Thread]
    /\ queue \in Seq(Messages)
    /\ commands \in 0 .. MaxCommands

Init ==
    /\ connected = FALSE /\ step = "get" /\ running = FALSE /\ streamIn = 0
    /\ socket = [c \in Connections |-> "none"]
    /\ arrived = [c \in Connections |-> 0] /\ taken = [c \in Connections |-> 0]
    /\ thread = [k \in Connections |-> [pc |-> "none", conn |-> 0, seq |-> 0]]
    /\ queue = <<>> /\ commands = 0

(* The operators named Bug... are not part of the model: each is a plausible *)
(* mistake in the definition that follows it, and a property below notices.  *)

Bug_putMessage(m) == queue' = <<m>> \o queue
putMessage(m) == queue' = IF m.control THEN <<m>> \o queue ELSE Append(queue, m)
-----------------------------------------------------------------------------
(* The dispatcher thread. *)

get(type) ==
    /\ step = "get" /\ queue # <<>> /\ Head(queue).type = type
    /\ queue' = Tail(queue)

(* The first step of disconnect(), from whatever handler calls it. *)
disconnect == step' = "closing" /\ connected' = FALSE
stay == UNCHANGED <<step, connected>>

(* The socket is connected, or is not: then disconnect() finds no streams. *)
handleConnect ==
    /\ get("CONNECT")
    /\ UNCHANGED <<connected, arrived, taken, thread, commands>>
    /\ \/ connected /\ UNCHANGED <<step, running, streamIn, socket>>
       \/ ~connected /\ running' = FALSE /\ UNCHANGED <<step, streamIn, socket>>
       \/ /\ ~connected
          /\ \E c \in Connections :
                /\ socket[c] = "none" /\ \A d \in 1 .. c - 1 : socket[d] # "none"
                /\ socket' = [socket EXCEPT ![c] = "open"] /\ streamIn' = c
          /\ step' = "opened" /\ UNCHANGED running

setRunning ==
    /\ step = "opened" /\ running' = TRUE /\ step' = "running"
    /\ UNCHANGED <<connected, streamIn, tcp, thread, queue, commands>>
startThread ==
    /\ step = "running" /\ step' = "started"
    /\ thread' = [thread EXCEPT ![streamIn] = [@ EXCEPT !.pc = "loop"]]
    /\ UNCHANGED <<connected, running, streamIn, tcp, queue, commands>>

Bug_sendConnect ==
    /\ step = "started" /\ step' = "get" /\ connected' \in BOOLEAN
    /\ UNCHANGED <<running, streamIn, tcp, thread, queue, commands>>
(* sendMsg(CONNECT); when it throws it has called disconnect(). *)
sendConnect ==
    /\ step = "started"
    /\ \/ step' = "get" /\ connected' = TRUE
       \/ disconnect
    /\ UNCHANGED <<running, streamIn, tcp, thread, queue, commands>>

(* setRunning(false) before the DISCONNECT is sent to the broker. *)
handleDisconnect ==
    /\ get("DISCONNECT")
    /\ \/ ~connected /\ stay /\ UNCHANGED running
       \/ connected /\ disconnect /\ running' = FALSE
    /\ UNCHANGED <<streamIn, tcp, thread, commands>>

(* Any other client message; sending it on fails when the socket has ended. *)
handlePublish ==
    /\ get("PUBLISH")
    /\ \/ connected /\ stay
       \/ (connected => socket[streamIn] = "ended") /\ disconnect
    /\ UNCHANGED <<running, streamIn, tcp, thread, commands>>

(* A message of the broker; a CONNACK may refuse the connection. *)
handleMqtt ==
    /\ get("MQTT")
    /\ stay \/ (connected /\ disconnect)
    /\ UNCHANGED <<running, streamIn, tcp, thread, commands>>

Bug_handleConnectionLost ==
    /\ get("CONNECTION_LOST") /\ stay
    /\ UNCHANGED <<running, streamIn, tcp, thread, commands>>
handleConnectionLost ==
    /\ get("CONNECTION_LOST")
    /\ \/ ~connected /\ stay
       \/ connected /\ disconnect
    /\ UNCHANGED <<running, streamIn, tcp, thread, commands>>

(* disconnect(): closing streamOut closes the socket under the readers. *)
stopRunning ==
    /\ step = "closing" /\ running' = FALSE /\ step' = "closeOut"
    /\ UNCHANGED <<connected, streamIn, tcp, thread, queue, commands>>
Bug_closeSocket == step = "closeOut" /\ step' = "closeIn" /\ UNCHANGED
    <<connected, running, streamIn, tcp, thread, queue, commands>>
closeSocket ==
    /\ step = "closeOut" /\ step' = "closeIn"
    /\ socket' = [c \in Connections |-> IF c = streamIn THEN "closed" ELSE socket[c]]
    /\ UNCHANGED <<connected, running, streamIn, arrived, taken, thread, queue, commands>>
dropStream ==
    /\ step = "closeIn" /\ streamIn' = 0 /\ step' = "get"
    /\ UNCHANGED <<connected, running, tcp, thread, queue, commands>>

Dispatcher ==
    \/ handleConnect \/ setRunning \/ startThread \/ sendConnect
    \/ handleDisconnect \/ handlePublish \/ handleMqtt \/ handleConnectionLost
    \/ stopRunning \/ closeSocket \/ dropStream
-----------------------------------------------------------------------------
(* A reading thread k. *)

at(k, pc) == thread[k].pc = pc
goto(k, pc) == thread' = [thread EXCEPT ![k].pc = pc]

testRunning(k) ==
    /\ at(k, "loop") /\ goto(k, IF running THEN "enter" ELSE "ended")
    /\ UNCHANGED <<connected, step, running, streamIn, tcp, queue, commands>>

enterRead(k) ==
    /\ at(k, "enter") /\ goto(k, IF streamIn = 0 THEN "loop" ELSE "begin")
    /\ UNCHANGED <<connected, step, running, streamIn, tcp, queue, commands>>
(* From here on the thread is blocked in the read of that stream. *)
beginRead(k) ==
    /\ at(k, "begin") /\ streamIn # 0
    /\ thread' = [thread EXCEPT ![k] = [@ EXCEPT !.pc = "read", !.conn = streamIn]]
    /\ UNCHANGED <<connected, step, running, streamIn, tcp, queue, commands>>

(* A whole message, then 20 ms of sleep. *)
readMsg(k) ==
    LET c == thread[k].conn IN
    /\ at(k, "read")
    /\ socket[c] \in {"open", "ended"} /\ taken[c] < arrived[c]
    /\ taken' = [taken EXCEPT ![c] = @ + 1]
    /\ thread' = [thread EXCEPT ![k] = [@ EXCEPT !.pc = "sleep", !.seq = taken[c] + 1]]
    /\ UNCHANGED <<connected, step, running, streamIn, socket, arrived, queue, commands>>

(* End of file, reset, or a stream closed by disconnect(). *)
readFails(k) ==
    /\ at(k, "read") /\ socket[thread[k].conn] # "open"
    /\ goto(k, "failed")
    /\ UNCHANGED <<connected, step, running, streamIn, tcp, queue, commands>>

(* The field is null when it is used again, after its test or between two    *)
(* bytes of a message: the exception ends the thread.                         *)
nullPointer(k) ==
    /\ streamIn = 0
    /\ \/ at(k, "begin")
       \/ at(k, "read") /\ taken[thread[k].conn] < arrived[thread[k].conn]
    /\ goto(k, "ended")
    /\ UNCHANGED <<connected, step, running, streamIn, tcp, queue, commands>>

decodeMsg(k) ==
    /\ at(k, "sleep")
    /\ putMessage(MqttMsg(thread[k].conn, thread[k].seq, k))
    /\ goto(k, "loop")
    /\ UNCHANGED <<connected, step, running, streamIn, tcp, commands>>

(* The catch block: testing running, clearing it, the control message. *)
testLost(k) ==
    /\ at(k, "failed") /\ goto(k, IF running THEN "stopping" ELSE "loop")
    /\ UNCHANGED <<connected, step, running, streamIn, tcp, queue, commands>>
clearRunning(k) ==
    /\ at(k, "stopping") /\ running' = FALSE /\ goto(k, "posting")
    /\ UNCHANGED <<connected, step, streamIn, tcp, queue, commands>>
Bug_postLost(k) ==
    /\ at(k, "posting") /\ goto(k, "loop")
    /\ UNCHANGED <<connected, step, running, streamIn, tcp, queue, commands>>
postLost(k) ==
    /\ at(k, "posting") /\ putMessage(ConnectionLost) /\ goto(k, "loop")
    /\ UNCHANGED <<connected, step, running, streamIn, tcp, commands>>

Reader(k) ==
    \/ testRunning(k) \/ enterRead(k) \/ beginRead(k) \/ readMsg(k) \/ readFails(k)
    \/ nullPointer(k) \/ decodeMsg(k) \/ testLost(k) \/ clearRunning(k) \/ postLost(k)
-----------------------------------------------------------------------------
(* The client and the broker. *)

clientSends ==
    /\ commands < MaxCommands /\ commands' = commands + 1
    /\ \E m \in ClientCommands : putMessage(m)
    /\ UNCHANGED <<connected, step, running, streamIn, tcp, thread>>

Arrivals == FoldFunction(+, 0, arrived)
brokerSends(c) ==
    /\ socket[c] = "open" /\ arrived[c] < MaxMessages /\ Arrivals < MaxArrivals
    /\ arrived' = [arrived EXCEPT ![c] = @ + 1]
    /\ UNCHANGED <<connected, step, running, streamIn, socket, taken, thread,
           queue, commands>>
brokerEnds(c) ==
    /\ socket[c] = "open" /\ socket' = [socket EXCEPT ![c] = "ended"]
    /\ UNCHANGED <<connected, step, running, streamIn, arrived, taken, thread,
           queue, commands>>

Next ==
    \/ Dispatcher
    \/ \E k \in Connections : Reader(k)
    \/ clientSends
    \/ \E c \in Connections : brokerSends(c) \/ brokerEnds(c)

Spec == Init /\ [][Next]_vars

(* The threads are scheduled: none of them waits for anything but a message. *)
Scheduling == WF_vars(Dispatcher) /\ \A k \in Connections : WF_vars(Reader(k))
FairSpec == Spec /\ Scheduling
-----------------------------------------------------------------------------
(* A connected client is never left with a connection nobody watches: a     *)
(* thread of its own reads the stream, or CONNECTION_LOST is on its way -   *)
(* although every thread, of this and of earlier connections, may clear the *)
(* one running flag, before or after initialize() sets it.                  *)
SessionWatched ==
    step = "get" /\ connected =>
        \/ streamIn # 0 /\ running /\ ~at(streamIn, "ended")
        \/ \E k \in Connections : at(k, "posting")
        \/ \E i \in DOMAIN queue : queue[i] = ConnectionLost

(* Between two messages the gateway holds a socket only for a connected     *)
(* client, and only the one its stream belongs to, whichever step failed.   *)
NoSocketLeak ==
    step = "get" => \A c \in Connections :
        socket[c] \in {"open", "ended"} <=> connected /\ c = streamIn

(* Messages of the broker wait in the queue in the order they were sent.    *)
InOrder ==
    \A i, j \in DOMAIN queue :
        /\ i < j /\ queue[i].type = "MQTT" /\ queue[j].type = "MQTT"
        /\ queue[i].conn = queue[j].conn /\ queue[i].by = queue[j].by
        => queue[i].seq < queue[j].seq

(* A connection the broker has ended is noticed and closed, however many    *)
(* connections came before and whatever their threads still do.             *)
EndIsNoticed == \A c \in Connections : socket[c] = "ended" ~> socket[c] = "closed"

(* When the client stays away, no reading thread stays.                     *)
ThreadsEnd ==
    <>[](~connected) =>
        <>[](\A k \in Connections : at(k, "none") \/ at(k, "ended"))
-----------------------------------------------------------------------------
(* A statement of the source that does not hold. *)

(* "invoked when the TCP/IP connection with the broker was lost"            *)
(* (ClientMsgHandler.java:1895): the connection lost may be an earlier one. *)
LostWasLost ==
    [][(handleConnectionLost /\ connected) => socket[streamIn] = "ended"]_vars
=============================================================================
