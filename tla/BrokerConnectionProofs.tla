----------------------- MODULE BrokerConnectionProofs -----------------------
(***************************************************************************)
(* Safety of BrokerConnection for any number of connections, messages and  *)
(* reading threads.                                                        *)
(***************************************************************************)
EXTENDS BrokerConnection, SequenceTheorems, TLAPS

(* A thread reads, or holds a message of, some connection.                 *)
Reading ==
    \A k \in Connections :
        /\ thread[k].pc \in {"read", "sleep"} => thread[k].conn \in Connections
        /\ thread[k].pc = "sleep" => thread[k].seq \in 1 .. MaxMessages

Posting == \E k \in Connections : at(k, "posting")
Queued == \E i \in DOMAIN queue : queue[i] = ConnectionLost

(* Connecting: the new connection is watched before client.setConnected(). *)
Watched ==
    /\ connected => step = "get"
    /\ connected \/ step \in {"opened", "running", "started"} => streamIn \in Connections
    /\ step = "running" => running \/ Posting \/ Queued
    /\ connected \/ step = "started" =>
          (running /\ ~at(streamIn, "ended")) \/ Posting \/ Queued

(* A socket that is not closed is the stream's, and someone will close it. *)
Owned ==
    /\ \A c \in Connections : socket[c] \in {"open", "ended"} =>
          c = streamIn /\ (connected \/ step \notin {"get", "closeIn"})
    /\ connected \/ step \in {"opened", "running", "started"} =>
          socket[streamIn] \in {"open", "ended"}

(* A thread exists only from the end of its initialize().                  *)
Fresh ==
    /\ \A c \in Connections : socket[c] = "none" => at(c, "none")
    /\ step \in {"opened", "running"} => at(streamIn, "none")

IInv == TypeOK /\ Reading /\ Watched /\ Owned /\ Fresh

(* What putMessage does to the queue. *)
LEMMA PutTyped ==
    ASSUME queue \in Seq(Messages), NEW m \in Messages, putMessage(m)
    PROVE  /\ queue' \in Seq(Messages)
           /\ Queued => Queued'
           /\ m = ConnectionLost => Queued'
<1> USE DEF putMessage, Queued
<1>1. CASE m.control
  <2>1. queue' = <<m>> \o queue /\ <<m>> \in Seq(Messages)
    BY <1>1
  <2>2. queue' \in Seq(Messages) /\ Len(queue') = 1 + Len(queue)
    BY <2>1, ConcatProperties
  <2>3. queue'[1] = m /\ \A i \in 1 .. Len(queue) : queue'[i + 1] = queue[i]
    <3>1. Len(<<m>>) = 1 /\ <<m>>[1] = m /\ Len(queue) \in Nat
      BY LenProperties
    <3>2. \A i \in 1 .. 1 + Len(queue) :
              queue'[i] = IF i <= 1 THEN <<m>>[i] ELSE queue[i - 1]
      BY <2>1, <3>1, ConcatProperties, SMTT(30)
    <3>3. queue'[1] = m
      <4>1. 1 \in 1 .. 1 + Len(queue)
        BY <3>1
      <4> QED
        BY <3>1, <3>2, <4>1
    <3>4. ASSUME NEW i \in 1 .. Len(queue) PROVE queue'[i + 1] = queue[i]
      <4>1. i + 1 \in 1 .. 1 + Len(queue) /\ ~(i + 1 <= 1) /\ (i + 1) - 1 = i
        BY <3>1
      <4>2. queue'[i + 1] = queue[(i + 1) - 1]
        BY <3>2, <4>1
      <4> QED
        BY <4>1, <4>2
    <3> QED
      BY <3>3, <3>4
  <2>4. Len(queue) \in Nat /\ DOMAIN queue = 1 .. Len(queue) /\ DOMAIN queue' = 1 .. Len(queue')
    BY <2>2, LenProperties
  <2>5. Queued => Queued'
    <3>1. \A i \in DOMAIN queue : i + 1 \in DOMAIN queue' /\ queue'[i + 1] = queue[i]
      BY <2>2, <2>3, <2>4
    <3> QED
      BY <3>1
  <2>6. m = ConnectionLost => Queued'
    BY <2>2, <2>3, <2>4
  <2> QED
    BY <2>2, <2>5, <2>6
<1>2. CASE ~m.control
  <2>1. queue' = Append(queue, m)
    BY <1>2
  <2>2. queue' \in Seq(Messages) /\ Len(queue') = Len(queue) + 1
    BY <2>1
  <2>3. \A i \in 1 .. Len(queue) : queue'[i] = queue[i]
    BY <2>1
  <2>4. m # ConnectionLost
    BY <1>2 DEF ConnectionLost
  <2>5. Len(queue) \in Nat /\ DOMAIN queue = 1 .. Len(queue) /\ DOMAIN queue' = 1 .. Len(queue')
    BY <2>2, LenProperties
  <2>6. Queued => Queued'
    <3>1. \A i \in DOMAIN queue : i \in DOMAIN queue' /\ queue'[i] = queue[i]
      BY <2>2, <2>3, <2>5
    <3> QED
      BY <3>1
  <2> QED
    BY <2>2, <2>4, <2>6
<1> QED
  BY <1>1, <1>2

(* What taking a message off the queue does to it. *)
LEMMA GetTyped ==
    ASSUME queue \in Seq(Messages), NEW type, get(type)
    PROVE  /\ queue' \in Seq(Messages)
           /\ type # "CONNECTION_LOST" /\ Queued => Queued'
<1> USE DEF get, Queued
<1>1. queue' \in Seq(Messages) /\ Len(queue') = Len(queue) - 1 /\ Len(queue) > 0
  OBVIOUS
<1>2. \A i \in 2 .. Len(queue) : queue'[i - 1] = queue[i]
  OBVIOUS
<1>3. type # "CONNECTION_LOST" => queue[1] # ConnectionLost
  BY <1>1 DEF ConnectionLost
<1>4. ASSUME type # "CONNECTION_LOST", Queued PROVE Queued'
  <2>1. PICK i \in DOMAIN queue : queue[i] = ConnectionLost
    BY <1>4
  <2>2. i \in 2 .. Len(queue) /\ i - 1 \in DOMAIN queue'
    BY <1>1, <1>3, <1>4, <2>1
  <2> QED
    BY <1>2, <2>1, <2>2
<1> QED
  BY <1>1, <1>4

LEMMA InitIInv == Init => IInv
<1> SUFFICES ASSUME Init PROVE IInv
  OBVIOUS
<1> USE ConnectionAssumption DEF Init, Connections
<1>1. TypeOK
  <2>1. queue \in Seq(Messages)
    BY EmptySeq
  <2>2. thread \in [Connections -> Thread]
    <3>1. [pc |-> "none", conn |-> 0, seq |-> 0] \in Thread
      BY DEF Thread
    <3> QED
      BY <3>1
  <2>3. connected \in BOOLEAN /\ running \in BOOLEAN
    BY Zenon
  <2>4. streamIn = 0 /\ commands \in 0 .. MaxCommands
    OBVIOUS
  <2>5. /\ socket \in [Connections -> {"none", "open", "ended", "closed"}]
        /\ arrived \in [Connections -> 0 .. MaxMessages]
        /\ taken \in [Connections -> 0 .. MaxMessages]
    OBVIOUS
  <2> QED
    BY <2>1, <2>2, <2>3, <2>4, <2>5 DEF TypeOK
<1>2. Reading
  BY DEF Reading
<1>3. Watched /\ Owned /\ Fresh
  BY DEF Watched, Owned, Fresh, at
<1> QED
  BY <1>1, <1>2, <1>3 DEF IInv

(* A step of the dispatcher thread that leaves the reading threads alone    *)
(* keeps the part of the invariant that is about them.                      *)
LEMMA ThreadsAlone ==
    ASSUME IInv, UNCHANGED thread
    PROVE  thread' \in [Connections -> Thread] /\ Reading' /\ (Posting <=> Posting')
  BY DEF IInv, TypeOK, Reading, Posting, at

(* get(type), then a step that goes on, or one that begins disconnect().    *)
LEMMA HandlerStep ==
    ASSUME IInv, NEW type, type # "CONNECTION_LOST" \/ ~connected' \/ ~connected, get(type),
           running' \in BOOLEAN, running' = running \/ ~connected',
           UNCHANGED <<streamIn, tcp, thread, commands>>,
           disconnect \/ stay
    PROVE  IInv'
<1> USE DEF IInv, TypeOK, disconnect, stay, tcp
<1>1. queue' \in Seq(Messages) /\ step = "get"
  BY GetTyped DEF get
<1>2. TypeOK'
  BY <1>1
<1>3. Reading' /\ (Posting <=> Posting')
  BY ThreadsAlone
<1>4. Watched'
  <2>1. type # "CONNECTION_LOST" /\ Queued => Queued'
    BY GetTyped
  <2> QED
    BY <1>1, <1>3, <2>1 DEF Watched, at
<1>5. Owned' /\ Fresh'
  BY <1>1 DEF Owned, Fresh, at
<1> QED
  BY <1>2, <1>3, <1>4, <1>5

(* The handlers that at most end the session.                              *)
LEMMA HandlersKeep ==
    ASSUME IInv,
           handleDisconnect \/ handlePublish \/ handleMqtt \/ handleConnectionLost
    PROVE  IInv'
<1>0. connected \in BOOLEAN /\ running \in BOOLEAN
  BY DEF IInv, TypeOK
<1>1. CASE handleDisconnect
  <2>1. get("DISCONNECT") /\ (disconnect \/ stay) /\ UNCHANGED <<streamIn, tcp, thread, commands>>
    BY <1>1 DEF handleDisconnect
  <2>2. running' \in BOOLEAN /\ (running' = running \/ ~connected')
    BY <1>0, <1>1, Zenon DEF handleDisconnect, disconnect
  <2> QED
    BY <2>1, <2>2, HandlerStep
<1>2. CASE handlePublish
  <2>1. /\ get("PUBLISH") /\ (disconnect \/ stay)
        /\ UNCHANGED <<running, streamIn, tcp, thread, commands>>
    BY <1>2 DEF handlePublish
  <2> QED
    BY <1>0, <2>1, HandlerStep
<1>3. CASE handleMqtt
  <2>1. /\ get("MQTT") /\ (disconnect \/ stay)
        /\ UNCHANGED <<running, streamIn, tcp, thread, commands>>
    BY <1>3 DEF handleMqtt
  <2> QED
    BY <1>0, <2>1, HandlerStep
<1>4. CASE handleConnectionLost
  <2>1. /\ get("CONNECTION_LOST") /\ (disconnect \/ (stay /\ ~connected))
        /\ UNCHANGED <<running, streamIn, tcp, thread, commands>>
    BY <1>4 DEF handleConnectionLost
  <2>2. ~connected \/ ~connected'
    BY <2>1 DEF disconnect
  <2> QED
    BY <1>0, <2>1, <2>2, HandlerStep
<1> QED
  BY <1>1, <1>2, <1>3, <1>4

(* initialize(), to the end of handleConnect().                            *)
LEMMA ConnectKeeps ==
    ASSUME IInv, handleConnect \/ setRunning \/ startThread \/ sendConnect
    PROVE  IInv'
<1> USE DEF IInv, TypeOK
<1>1. CASE handleConnect
  <2> USE DEF handleConnect
  <2>1. queue' \in Seq(Messages) /\ (Queued => Queued') /\ step = "get"
    BY <1>1, GetTyped DEF get
  <2>2. thread' \in [Connections -> Thread] /\ Reading' /\ (Posting <=> Posting')
    BY <1>1, ThreadsAlone
  <2>3. CASE connected /\ UNCHANGED <<step, running, streamIn, socket>>
    BY <1>1, <2>1, <2>2, <2>3 DEF Watched, Owned, Fresh, at
  <2>4. CASE ~connected /\ running' = FALSE /\ UNCHANGED <<step, streamIn, socket>>
    BY <1>1, <2>1, <2>2, <2>4 DEF Watched, Owned, Fresh, at
  <2>5. CASE /\ ~connected /\ step' = "opened" /\ UNCHANGED running
             /\ \E c \in Connections :
                   /\ socket[c] = "none" /\ streamIn' = c
                   /\ socket' = [socket EXCEPT ![c] = "open"]
    <3>1. PICK c \in Connections :
              socket[c] = "none" /\ streamIn' = c /\ socket' = [socket EXCEPT ![c] = "open"]
      BY <2>5
    <3>2. TypeOK'
      BY <1>1, <2>1, <2>2, <2>5, <3>1
    <3>3. Watched' /\ Owned' /\ Fresh'
      BY <1>1, <2>1, <2>5, <3>1 DEF Watched, Owned, Fresh, at
    <3> QED
      BY <2>2, <3>2, <3>3
  <2> QED
    BY <1>1, <2>3, <2>4, <2>5
<1>2. CASE setRunning
  <2> USE DEF setRunning, tcp
  <2>1. Reading' /\ (Posting <=> Posting')
    BY <1>2, ThreadsAlone
  <2>2. TypeOK'
    BY <1>2
  <2>3. Watched' /\ Owned' /\ Fresh'
    BY <1>2, <2>1 DEF Watched, Owned, Fresh, at
  <2> QED
    BY <2>1, <2>2, <2>3
<1>3. CASE startThread
  <2> USE DEF startThread, tcp
  <2>1. streamIn \in Connections /\ at(streamIn, "none") /\ ~connected /\ step = "running"
    BY <1>3 DEF Watched, Fresh
  <2>2. thread' \in [Connections -> Thread] /\ thread'[streamIn].pc = "loop"
    BY <1>3, <2>1 DEF Thread
  <2>3. \A k \in Connections : k # streamIn => thread'[k] = thread[k]
    BY <1>3, <2>1
  <2>4. TypeOK'
    BY <1>3, <2>2
  <2>5. Reading' /\ (Posting => Posting') /\ (Queued <=> Queued')
    BY <1>3, <2>1, <2>2, <2>3 DEF Reading, Posting, Queued, at
  <2>6. Watched' /\ Owned' /\ Fresh'
    BY <1>3, <2>1, <2>2, <2>3, <2>5 DEF Watched, Owned, Fresh, at
  <2> QED
    BY <2>4, <2>5, <2>6
<1>4. CASE sendConnect
  <2> USE DEF sendConnect, disconnect, tcp
  <2>1. Reading' /\ (Posting <=> Posting') /\ (Queued <=> Queued')
    BY <1>4, ThreadsAlone DEF Queued
  <2>2. TypeOK'
    BY <1>4
  <2>3. Watched' /\ Owned' /\ Fresh'
    BY <1>4, <2>1 DEF Watched, Owned, Fresh, at
  <2> QED
    BY <2>1, <2>2, <2>3
<1> QED
  BY <1>1, <1>2, <1>3, <1>4

(* disconnect() after setDisconnected().                                   *)
LEMMA DisconnectKeeps ==
    ASSUME IInv, stopRunning \/ closeSocket \/ dropStream
    PROVE  IInv'
<1> USE DEF IInv, TypeOK, stopRunning, closeSocket, dropStream, tcp
<1>1. Reading' /\ (Posting <=> Posting')
  BY ThreadsAlone
<1>2. TypeOK'
  <2>1. CASE stopRunning
    BY <2>1
  <2>2. CASE closeSocket
    BY <2>2
  <2>3. CASE dropStream
    BY <2>3
  <2> QED
    BY <2>1, <2>2, <2>3
<1>3. ~connected /\ UNCHANGED connected /\ step' \in {"closeOut", "closeIn", "get"}
  BY DEF Watched
<1>4. Watched'
  BY <1>3 DEF Watched
<1>6. Owned'
  <2>1. CASE stopRunning
    BY <2>1, <1>3 DEF Owned
  <2>2. CASE closeSocket
    BY <2>2, <1>3 DEF Owned
  <2>3. CASE dropStream
    BY <2>3, <1>3 DEF Owned
  <2> QED
    BY <2>1, <2>2, <2>3
<1>5. Fresh'
  BY DEF Fresh, at
<1> QED
  BY <1>1, <1>2, <1>4, <1>5, <1>6

(* What goto() does to the threads.                                        *)
LEMMA GotoTyped ==
    ASSUME thread \in [Connections -> Thread], NEW k \in Connections,
           NEW pc \in {"loop", "enter", "begin", "read", "failed", "stopping", "posting", "ended"},
           goto(k, pc)
    PROVE  /\ thread' \in [Connections -> Thread]
           /\ thread'[k].pc = pc /\ thread'[k].conn = thread[k].conn
           /\ \A j \in Connections : j # k => thread'[j] = thread[j]
  BY DEF goto, Thread

(* A thread that only moves, and neither ends while the connection counts on *)
(* it nor leaves "posting".                                                *)
LEMMA MoveKeeps ==
    ASSUME IInv, NEW k \in Connections,
           NEW pc \in {"loop", "enter", "begin", "failed", "stopping", "posting", "ended"},
           goto(k, pc), ~at(k, "none"), ~at(k, "posting"),
           pc = "ended" => ~running \/ streamIn = 0,
           running' = running \/ (pc = "posting" /\ running' = FALSE),
           UNCHANGED <<connected, step, streamIn, tcp, queue, commands>>
    PROVE  IInv'
<1> USE DEF IInv, TypeOK, tcp
<1>1. /\ thread' \in [Connections -> Thread] /\ thread'[k].pc = pc
      /\ \A j \in Connections : j # k => thread'[j] = thread[j]
  BY GotoTyped
<1>2. running' \in BOOLEAN
  OBVIOUS
<1>3. TypeOK'
  BY <1>1, <1>2
<1>4. Reading'
  BY <1>1 DEF Reading
<1>5. (Posting => Posting') /\ (pc = "posting" => Posting') /\ (Queued <=> Queued')
  BY <1>1 DEF Posting, Queued, at
<1>6. Watched'
  <2>1. connected \/ step \in {"running", "started"} => streamIn \in Connections /\ streamIn # 0
    BY DEF Watched, Connections
  <2>2. CASE Posting' \/ Queued'
    BY <2>2 DEF Watched
  <2>3. CASE ~Posting' /\ ~Queued'
    <3>1. ~Posting /\ ~Queued /\ running' = running
      BY <1>5, <2>3
    <3>2. connected \/ step = "started" => running /\ ~at(streamIn, "ended")
      BY <3>1 DEF Watched
    <3>3. connected \/ step = "started" => ~(thread'[streamIn].pc = "ended")
      BY <1>1, <2>1, <3>2 DEF at
    <3> QED
      BY <3>1, <3>2, <3>3 DEF Watched, at
  <2> QED
    BY <2>2, <2>3
<1>7. Owned'
  BY DEF Owned
<1>8. Fresh'
  BY <1>1 DEF Fresh, Watched, at
<1> QED
  BY <1>3, <1>4, <1>6, <1>7, <1>8

(* A thread that posts a message of the broker, or CONNECTION_LOST.         *)
LEMMA PostKeeps ==
    ASSUME IInv, NEW k \in Connections, NEW m \in Messages,
           putMessage(m), goto(k, "loop"), ~at(k, "none"),
           at(k, "posting") => m = ConnectionLost,
           UNCHANGED <<connected, step, running, streamIn, tcp, commands>>
    PROVE  IInv'
<1> USE DEF IInv, TypeOK, tcp
<1>1. /\ thread' \in [Connections -> Thread] /\ thread'[k].pc = "loop"
      /\ \A j \in Connections : j # k => thread'[j] = thread[j]
  BY GotoTyped
<1>2. queue' \in Seq(Messages) /\ (Queued => Queued') /\ (m = ConnectionLost => Queued')
  BY PutTyped
<1>3. TypeOK'
  BY <1>1, <1>2
<1>4. Reading'
  BY <1>1 DEF Reading
<1>5. Posting \/ Queued => Posting' \/ Queued'
  BY <1>1, <1>2 DEF Posting, at
<1>6. Watched'
  BY <1>1, <1>5 DEF Watched, at
<1>7. Owned'
  BY DEF Owned
<1>8. Fresh'
  BY <1>1 DEF Fresh, Watched, at
<1> QED
  BY <1>3, <1>4, <1>6, <1>7, <1>8

LEMMA ReaderKeeps ==
    ASSUME IInv, NEW k \in Connections, Reader(k)
    PROVE  IInv'
<1>0. IInv
  OBVIOUS
<1> USE DEF tcp, at
<1>1. CASE testRunning(k)
  BY <1>1, MoveKeeps DEF testRunning
<1>2. CASE enterRead(k)
  BY <1>2, MoveKeeps DEF enterRead
<1>10. CASE beginRead(k)
  <2> USE DEF IInv, TypeOK, beginRead
  <2>1. /\ thread' \in [Connections -> Thread]
        /\ thread'[k].pc = "read" /\ thread'[k].conn = streamIn
        /\ \A j \in Connections : j # k => thread'[j] = thread[j]
    <3>1. thread[k] \in Thread /\ streamIn \in Connections
      BY <1>10
    <3>2. thread' = [thread EXCEPT ![k] = [thread[k] EXCEPT !.pc = "read", !.conn = streamIn]]
      BY <1>10
    <3>3. [thread[k] EXCEPT !.pc = "read", !.conn = streamIn] \in Thread
      BY <3>1 DEF Thread
    <3>4. thread'[k] = [thread[k] EXCEPT !.pc = "read", !.conn = streamIn]
      BY <3>2
    <3>5. thread'[k].pc = "read" /\ thread'[k].conn = streamIn
      BY <3>1, <3>4 DEF Thread
    <3> QED
      BY <3>2, <3>3, <3>5
  <2>2. TypeOK'
    BY <1>10, <2>1
  <2>3. Reading' /\ (Posting => Posting') /\ (Queued <=> Queued')
    BY <1>10, <2>1 DEF Reading, Posting, Queued
  <2>4. Watched' /\ Owned' /\ Fresh'
    BY <1>10, <2>1, <2>3 DEF Watched, Owned, Fresh
  <2> QED
    BY <2>2, <2>3, <2>4
<1>3. CASE readMsg(k)
  <2> USE DEF IInv, TypeOK, readMsg
  <2>1. thread[k].conn \in Connections
    BY <1>3 DEF Reading
  <2>2. /\ taken[thread[k].conn] + 1 \in 1 .. MaxMessages
        /\ taken' \in [Connections -> 0 .. MaxMessages]
    BY <1>3, <2>1, ConnectionAssumption, SMTT(30)
  <2>3. /\ thread' \in [Connections -> Thread]
        /\ thread'[k].pc = "sleep" /\ thread'[k].conn = thread[k].conn
        /\ thread'[k].seq = taken[thread[k].conn] + 1
        /\ \A j \in Connections : j # k => thread'[j] = thread[j]
    BY <1>3, <2>1, <2>2 DEF Thread
  <2>4. TypeOK'
    BY <1>3, <2>2, <2>3
  <2>5. Reading' /\ (Posting => Posting') /\ (Queued <=> Queued')
    <3>1. at(k, "read") /\ queue' = queue
      BY <1>3
    <3>2. \A j \in Connections : j # k => thread'[j] = thread[j]
      BY <2>3
    <3> HIDE DEF IInv, TypeOK, readMsg
    <3>3. Reading'
      BY <2>1, <2>2, <2>3, <3>2 DEF IInv, Reading
    <3>4. Posting => Posting'
      BY <3>1, <3>2 DEF Posting, at
    <3>5. Queued <=> Queued'
      BY <3>1 DEF Queued
    <3> QED
      BY <3>3, <3>4, <3>5
  <2>6. Watched' /\ Owned' /\ Fresh'
    BY <1>3, <2>3, <2>5 DEF Watched, Owned, Fresh
  <2> QED
    BY <2>4, <2>5, <2>6
<1>4. CASE readFails(k)
  BY <1>4, MoveKeeps DEF readFails
<1>5. CASE nullPointer(k)
  BY <1>5, MoveKeeps DEF nullPointer
<1>6. CASE decodeMsg(k)
  <2>1. thread[k].conn \in Connections /\ thread[k].seq \in 1 .. MaxMessages
    BY <1>6 DEF IInv, Reading, decodeMsg
  <2>2. MqttMsg(thread[k].conn, thread[k].seq, k) \in Messages
    BY <2>1 DEF Messages
  <2> QED
    BY <1>6, <2>2, PostKeeps DEF decodeMsg
<1>7. CASE testLost(k)
  BY <1>7, MoveKeeps DEF testLost
<1>8. CASE clearRunning(k)
  BY <1>8, MoveKeeps DEF clearRunning
<1>9. CASE postLost(k)
  <2>1. ConnectionLost \in Messages
    BY DEF Messages
  <2> QED
    BY <1>9, <2>1, PostKeeps DEF postLost
<1> QED
  BY <1>1, <1>2, <1>3, <1>4, <1>5, <1>6, <1>7, <1>8, <1>9, <1>10 DEF Reader

(* The client and the broker.                                              *)
LEMMA PeersKeep ==
    ASSUME IInv, clientSends \/ \E c \in Connections : brokerSends(c) \/ brokerEnds(c)
    PROVE  IInv'
<1> USE ConnectionAssumption DEF IInv, TypeOK, tcp
<1>1. Reading' /\ (Posting <=> Posting')
  BY ThreadsAlone DEF clientSends, brokerSends, brokerEnds
<1>2. CASE clientSends
  <2>1. PICK m \in ClientCommands : putMessage(m)
    BY <1>2 DEF clientSends
  <2>2. queue' \in Seq(Messages) /\ (Queued => Queued')
    <3>1. m \in Messages
      BY DEF Messages
    <3> QED
      BY <2>1, <3>1, PutTyped
  <2>3. TypeOK'
    BY <1>2, <2>2 DEF clientSends
  <2>4. Watched' /\ Owned' /\ Fresh'
    BY <1>1, <1>2, <2>2 DEF clientSends, Watched, Owned, Fresh, at
  <2> QED
    BY <1>1, <2>3, <2>4
<1>3. ASSUME NEW c \in Connections, brokerSends(c) \/ brokerEnds(c) PROVE IInv'
  <2> USE DEF brokerSends, brokerEnds
  <2>1. Queued <=> Queued'
    BY <1>3 DEF Queued
  <2>2. TypeOK'
    <3>1. CASE brokerSends(c)
      BY <3>1
    <3>2. CASE brokerEnds(c)
      BY <3>2
    <3> QED
      BY <1>3, <3>1, <3>2
  <2>3. Watched' /\ Owned' /\ Fresh'
    BY <1>1, <1>3, <2>1 DEF Watched, Owned, Fresh, at
  <2> QED
    BY <1>1, <2>2, <2>3
<1> QED
  BY <1>2, <1>3

LEMMA NextKeeps == IInv /\ [Next]_vars => IInv'
<1> SUFFICES ASSUME IInv, [Next]_vars PROVE IInv'
  OBVIOUS
<1>1. CASE Dispatcher
  BY <1>1, ConnectKeeps, HandlersKeep, DisconnectKeeps DEF Dispatcher
<1>2. CASE \E k \in Connections : Reader(k)
  BY <1>2, ReaderKeeps
<1>3. CASE clientSends \/ \E c \in Connections : brokerSends(c) \/ brokerEnds(c)
  BY <1>3, PeersKeep
<1>4. CASE UNCHANGED vars
  BY <1>4 DEF vars, tcp, IInv, TypeOK, Reading, Watched, Owned, Fresh,
     Posting, Queued, at
<1> QED
  BY <1>1, <1>2, <1>3, <1>4 DEF Next

THEOREM ConnectionInvariance == Spec => []IInv
  BY InitIInv, NextKeeps, PTL DEF Spec

-----------------------------------------------------------------------------
(* The order of the broker's messages.  What a thread has read and not yet  *)
(* put into the queue comes after all it has put there.                     *)
IsMqtt(i) == queue[i].type = "MQTT"
Taken ==
    \A i \in DOMAIN queue : IsMqtt(i) => queue[i].seq <= taken[queue[i].conn]
Held ==
    \A k \in Connections : at(k, "sleep") =>
        /\ thread[k].seq <= taken[thread[k].conn]
        /\ \A i \in DOMAIN queue :
              IsMqtt(i) /\ queue[i].by = k /\ queue[i].conn = thread[k].conn
                => queue[i].seq < thread[k].seq

Ordered == Taken /\ Held /\ InOrder

LEMMA MqttTyped ==
    ASSUME NEW m \in Messages, m.type = "MQTT"
    PROVE  m.conn \in Connections /\ m.seq \in Nat /\ m.by \in Connections /\ ~m.control
<1>1. m \notin ClientCommands /\ m # ConnectionLost
  BY DEF ClientCommands, Command, ConnectionLost
<1>2. PICK c \in Connections, n \in 1 .. MaxMessages, k \in Connections : m = MqttMsg(c, n, k)
  BY <1>1 DEF Messages
<1> QED
  BY <1>2, ConnectionAssumption DEF MqttMsg

(* What a new last, and a new first, element of a sequence changes.          *)
LEMMA LastPut ==
    ASSUME NEW S, NEW s \in Seq(S), NEW e \in S
    PROVE  /\ Append(s, e) \in Seq(S) /\ Len(s) \in Nat /\ Len(Append(s, e)) = Len(s) + 1
           /\ \A i \in 1 .. Len(s) : Append(s, e)[i] = s[i]
           /\ Append(s, e)[Len(s) + 1] = e
  BY AppendProperties, LenProperties

LEMMA FirstPut ==
    ASSUME NEW S, NEW s \in Seq(S), NEW e \in S
    PROVE  /\ <<e>> \o s \in Seq(S) /\ Len(s) \in Nat /\ Len(<<e>> \o s) = Len(s) + 1
           /\ (<<e>> \o s)[1] = e
           /\ \A i \in 2 .. Len(s) + 1 : (<<e>> \o s)[i] = s[i - 1]
<1>1. <<e>> \in Seq(S) /\ Len(<<e>>) = 1 /\ <<e>>[1] = e /\ Len(s) \in Nat
  BY LenProperties
<1>2. <<e>> \o s \in Seq(S) /\ Len(<<e>> \o s) = 1 + Len(s)
  BY <1>1, ConcatProperties
<1>3. \A i \in 1 .. 1 + Len(s) : (<<e>> \o s)[i] = IF i <= 1 THEN <<e>>[i] ELSE s[i - 1]
  BY <1>1, ConcatProperties, SMTT(30)
<1> QED
  BY <1>1, <1>2, <1>3

(* Where putMessage puts a message, and where the others are then.           *)
LEMMA PutWhere ==
    ASSUME queue \in Seq(Messages), NEW m \in Messages, putMessage(m)
    PROVE  \/ /\ m.control
              /\ \A i \in DOMAIN queue' :
                    \/ i = 1 /\ queue'[i] = m
                    \/ i \in Nat /\ i > 1 /\ i - 1 \in DOMAIN queue /\ queue'[i] = queue[i - 1]
           \/ /\ ~m.control
              /\ \A i \in DOMAIN queue' :
                    \/ i = Len(queue) + 1 /\ queue'[i] = m
                    \/ i \in DOMAIN queue /\ queue'[i] = queue[i]
<1>1. CASE m.control
  <2>1. queue' = <<m>> \o queue
    BY <1>1 DEF putMessage
  <2>2. /\ queue' \in Seq(Messages) /\ Len(queue) \in Nat /\ Len(queue') = Len(queue) + 1
        /\ queue'[1] = m /\ \A i \in 2 .. Len(queue) + 1 : queue'[i] = queue[i - 1]
    BY <2>1, FirstPut, ZenonT(60)
  <2>3. DOMAIN queue = 1 .. Len(queue) /\ DOMAIN queue' = 1 .. Len(queue')
    BY <2>2, LenProperties
  <2> QED
    BY <1>1, <2>2, <2>3
<1>2. CASE ~m.control
  <2>1. queue' = Append(queue, m)
    BY <1>2 DEF putMessage
  <2>2. /\ queue' \in Seq(Messages) /\ Len(queue) \in Nat /\ Len(queue') = Len(queue) + 1
        /\ queue'[Len(queue) + 1] = m /\ \A i \in 1 .. Len(queue) : queue'[i] = queue[i]
    BY <2>1, LastPut, ZenonT(60)
  <2>3. DOMAIN queue = 1 .. Len(queue) /\ DOMAIN queue' = 1 .. Len(queue')
    BY <2>2, LenProperties
  <2> QED
    BY <1>2, <2>2, <2>3
<1> QED
  BY <1>1, <1>2

(* A step that takes nothing off a connection and lets no thread hold a new *)
(* message: the queue may lose its head or be left alone.                   *)
Moved(k) == thread'[k] = thread[k] \/ thread'[k].pc # "sleep"

LEMMA HeldAlone ==
    ASSUME IInv, Ordered, UNCHANGED <<queue, taken>>, \A k \in Connections : Moved(k)
    PROVE  Ordered'
<1>1. Taken' /\ InOrder'
  BY DEF Ordered, Taken, InOrder, IsMqtt
<1>2. Held'
  BY DEF Ordered, Held, Moved, IsMqtt, at
<1> QED
  BY <1>1, <1>2 DEF Ordered

LEMMA GotoMoves ==
    ASSUME IInv, NEW k \in Connections, NEW pc, pc # "sleep", goto(k, pc)
    PROVE  \A j \in Connections : Moved(j)
<1>1. thread \in [Connections -> Thread] /\ thread' = [thread EXCEPT ![k].pc = pc]
  BY DEF goto, IInv, TypeOK
<1>2. thread[k] \in Thread
  BY <1>1
<1> QED
  BY <1>1, <1>2 DEF Moved, Thread

LEMMA GetOrdered ==
    ASSUME IInv, Ordered, NEW type, get(type), UNCHANGED <<taken, thread>>
    PROVE  Ordered'
<1>1. queue \in Seq(Messages)
  BY DEF IInv, TypeOK
<1>2. /\ Len(queue) \in Nat /\ Len(queue') = Len(queue) - 1 /\ queue' \in Seq(Messages)
      /\ \A i \in 1 .. Len(queue) - 1 : queue'[i] = queue[i + 1]
  BY <1>1 DEF get
<1>3. \A i \in DOMAIN queue' : i \in Nat /\ i + 1 \in DOMAIN queue /\ queue'[i] = queue[i + 1]
  BY <1>1, <1>2, LenProperties
<1>4. Taken' /\ Held'
  BY <1>3 DEF Ordered, Taken, Held, IsMqtt, at
<1>5. InOrder'
  <2> SUFFICES ASSUME NEW i \in DOMAIN queue', NEW j \in DOMAIN queue', i < j,
                      queue'[i].type = "MQTT", queue'[j].type = "MQTT",
                      queue'[i].conn = queue'[j].conn, queue'[i].by = queue'[j].by
               PROVE  queue'[i].seq < queue'[j].seq
    BY DEF InOrder
  <2>1. i + 1 < j + 1 /\ i + 1 \in DOMAIN queue /\ j + 1 \in DOMAIN queue
        /\ queue'[i] = queue[i + 1] /\ queue'[j] = queue[j + 1]
    BY <1>3
  <2> QED
    BY <2>1 DEF Ordered, InOrder
<1> QED
  BY <1>4, <1>5 DEF Ordered

(* A command or a control message comes into the queue.                     *)
LEMMA OtherOrdered ==
    ASSUME IInv, Ordered, NEW m \in ClientCommands \cup {ConnectionLost}, putMessage(m), UNCHANGED taken,
           \A k \in Connections : Moved(k)
    PROVE  Ordered'
<1>1. queue \in Seq(Messages) /\ m \in Messages /\ m.type # "MQTT"
  BY DEF IInv, TypeOK, Messages, ClientCommands, Command, ConnectionLost
<1>2. PICK d \in {0, 1} : \A i \in DOMAIN queue' :
          queue'[i].type = "MQTT" =>
              i \in Int /\ i - d \in DOMAIN queue /\ queue'[i] = queue[i - d]
  <2>1. \A i \in DOMAIN queue : i \in Int /\ i - 0 = i
    BY <1>1, LenProperties
  <2>2. CASE m.control
    <3>1. \A i \in DOMAIN queue' : queue'[i].type = "MQTT" =>
              i \in Int /\ i - 1 \in DOMAIN queue /\ queue'[i] = queue[i - 1]
      BY <1>1, <2>2, PutWhere
    <3> QED
      BY <3>1
  <2>3. CASE ~m.control
    <3>1. \A i \in DOMAIN queue' : queue'[i].type = "MQTT" =>
              i \in Int /\ i - 0 \in DOMAIN queue /\ queue'[i] = queue[i - 0]
      BY <1>1, <2>1, <2>3, PutWhere
    <3> QED
      BY <3>1
  <2> QED
    BY <2>2, <2>3
<1>3. Taken'
  BY <1>2 DEF Ordered, Taken, IsMqtt
<1>4. Held'
  BY <1>2 DEF Ordered, Held, Moved, IsMqtt, at
<1>5. InOrder'
  <2> SUFFICES ASSUME NEW i \in DOMAIN queue', NEW j \in DOMAIN queue', i < j,
                      queue'[i].type = "MQTT", queue'[j].type = "MQTT",
                      queue'[i].conn = queue'[j].conn, queue'[i].by = queue'[j].by
               PROVE  queue'[i].seq < queue'[j].seq
    BY DEF InOrder
  <2>1. i - d < j - d /\ i - d \in DOMAIN queue /\ j - d \in DOMAIN queue
        /\ queue'[i] = queue[i - d] /\ queue'[j] = queue[j - d]
    BY <1>2
  <2> QED
    BY <2>1 DEF Ordered, InOrder
<1> QED
  BY <1>3, <1>4, <1>5 DEF Ordered

(* A thread reads a message: it is newer than all it read of the connection. *)
LEMMA ReadOrdered == ASSUME IInv, Ordered, NEW k \in Connections, readMsg(k) PROVE Ordered'
<1> DEFINE c == thread[k].conn
<1>1. c \in Connections /\ taken \in [Connections -> Nat] /\ queue \in Seq(Messages)
  BY ConnectionAssumption DEF readMsg, at, IInv, Reading, TypeOK
<1>2. queue' = queue /\ taken' = [taken EXCEPT ![c] = @ + 1]
  BY DEF readMsg
<1>3. /\ thread'[k].pc = "sleep" /\ thread'[k].conn = c /\ thread'[k].seq = taken[c] + 1
      /\ \A j \in Connections \ {k} : thread'[j] = thread[j]
  BY DEF readMsg, IInv, TypeOK, Thread
<1>4. taken'[c] = taken[c] + 1 /\ \A d \in Connections : taken'[d] \in Nat /\ taken[d] <= taken'[d]
  BY <1>1, <1>2
<1>5. \A i \in DOMAIN queue : IsMqtt(i) => queue[i].conn \in Connections /\ queue[i].seq \in Nat
  BY <1>1, MqttTyped, LenProperties DEF IsMqtt
<1>6. Taken'
  BY <1>1, <1>2, <1>4, <1>5 DEF Ordered, Taken, IsMqtt
<1>7. Held'
  <2>1. ASSUME NEW j \in Connections, j # k, at(j, "sleep")
        PROVE  thread[j].conn \in Connections /\ thread[j].seq \in Nat
    BY <2>1, ConnectionAssumption DEF IInv, Reading, at
  <2>2. \A j \in Connections \ {k} : at(j, "sleep") => thread[j].seq <= taken'[thread[j].conn]
    BY <1>1, <1>4, <2>1 DEF Ordered, Held
  <2>3. \A i \in DOMAIN queue : IsMqtt(i) /\ queue[i].conn = c => queue[i].seq < taken[c] + 1
    BY <1>1, <1>5 DEF Ordered, Taken
  <2>4. \A i \in DOMAIN queue' : IsMqtt(i)' => IsMqtt(i) /\ i \in DOMAIN queue /\ queue'[i] = queue[i]
    BY <1>2 DEF IsMqtt
  <2>5. ASSUME NEW j \in Connections, at(j, "sleep")'
        PROVE  /\ thread'[j].seq <= taken'[thread'[j].conn]
               /\ \A i \in DOMAIN queue' :
                     IsMqtt(i)' /\ queue'[i].by = j /\ queue'[i].conn = thread'[j].conn
                       => queue'[i].seq < thread'[j].seq
    <3>1. CASE j = k
      BY <1>1, <1>3, <1>4, <2>3, <2>4, <3>1
    <3>2. CASE j # k
      <4>1. thread'[j] = thread[j] /\ at(j, "sleep")
        BY <1>3, <2>5, <3>2 DEF at
      <4>2. thread'[j].seq <= taken'[thread'[j].conn]
        BY <2>2, <3>2, <4>1
      <4> QED
        BY <2>4, <4>1, <4>2 DEF Ordered, Held
    <3> QED
      BY <3>1, <3>2
  <2> QED
    BY <2>5 DEF Held
<1>8. InOrder'
  BY <1>2 DEF Ordered, InOrder
<1> QED
  BY <1>6, <1>7, <1>8 DEF Ordered

(* It puts the message behind those it put before.                          *)
LEMMA DecodeOrdered == ASSUME IInv, Ordered, NEW k \in Connections, decodeMsg(k) PROVE Ordered'
<1> DEFINE m == MqttMsg(thread[k].conn, thread[k].seq, k)
<1>1. queue \in Seq(Messages) /\ m \in Messages /\ ~m.control /\ putMessage(m)
  <2>1. thread[k].conn \in Connections /\ thread[k].seq \in 1 .. MaxMessages
    BY DEF decodeMsg, IInv, Reading, at
  <2>2. m \in Messages
    BY <2>1 DEF Messages
  <2>3. ~m.control
    BY DEF MqttMsg
  <2> QED
    BY <2>2, <2>3 DEF decodeMsg, IInv, TypeOK
<1>2. m.conn = thread[k].conn /\ m.seq = thread[k].seq /\ m.by = k
  BY DEF MqttMsg
<1>3. taken' = taken /\ thread'[k].pc = "loop" /\ \A j \in Connections \ {k} : thread'[j] = thread[j]
  <2>1. thread \in [Connections -> Thread] /\ thread' = [thread EXCEPT ![k].pc = "loop"]
    BY DEF decodeMsg, goto, IInv, TypeOK
  <2>2. thread[k] \in Thread
    BY <2>1
  <2> QED
    BY <2>1, <2>2 DEF decodeMsg, tcp, Thread
<1>4. \A i \in DOMAIN queue' : \/ i = Len(queue) + 1 /\ queue'[i] = m
                               \/ i \in DOMAIN queue /\ queue'[i] = queue[i]
  BY <1>1, PutWhere
<1>5. at(k, "sleep") /\ thread[k].seq <= taken[thread[k].conn]
  BY DEF decodeMsg, Ordered, Held
<1>6. Taken'
  BY <1>2, <1>3, <1>4, <1>5 DEF Ordered, Taken, IsMqtt
<1>7. Held'
  BY <1>2, <1>3, <1>4 DEF Ordered, Held, IsMqtt, at
<1>8. InOrder'
  <2> SUFFICES ASSUME NEW i \in DOMAIN queue', NEW j \in DOMAIN queue', i < j,
                      queue'[i].type = "MQTT", queue'[j].type = "MQTT",
                      queue'[i].conn = queue'[j].conn, queue'[i].by = queue'[j].by
               PROVE  queue'[i].seq < queue'[j].seq
    BY DEF InOrder
  <2>1. Len(queue) \in Nat /\ DOMAIN queue = 1 .. Len(queue)
    BY <1>1, LenProperties
  <2>2. i \in DOMAIN queue /\ queue'[i] = queue[i]
    BY <1>4, <2>1
  <2>3. CASE j = Len(queue) + 1 /\ queue'[j] = m
    BY <1>2, <1>5, <2>2, <2>3 DEF Ordered, Held, IsMqtt
  <2>4. CASE j \in DOMAIN queue /\ queue'[j] = queue[j]
    BY <2>2, <2>4 DEF Ordered, InOrder
  <2> QED
    BY <1>4, <2>3, <2>4
<1> QED
  BY <1>6, <1>7, <1>8 DEF Ordered

LEMMA NextOrdered == IInv /\ Ordered /\ [Next]_vars => Ordered'
<1> SUFFICES ASSUME IInv, Ordered, [Next]_vars PROVE Ordered'
  OBVIOUS
<1>1. CASE handleConnect \/ handleDisconnect \/ handlePublish \/ handleMqtt \/ handleConnectionLost
  <2>1. PICK type \in {"CONNECT", "DISCONNECT", "PUBLISH", "MQTT", "CONNECTION_LOST"} : get(type)
    BY <1>1 DEF handleConnect, handleDisconnect, handlePublish, handleMqtt, handleConnectionLost
  <2>2. UNCHANGED <<taken, thread>>
    BY <1>1 DEF handleConnect, handleDisconnect, handlePublish, handleMqtt, handleConnectionLost, tcp
  <2> QED
    BY <2>1, <2>2, GetOrdered
<1>2. CASE \/ setRunning \/ startThread \/ sendConnect \/ stopRunning \/ closeSocket \/ dropStream
           \/ (\E c \in Connections : brokerSends(c) \/ brokerEnds(c)) \/ UNCHANGED vars
  <2>1. UNCHANGED <<queue, taken>>
    BY <1>2 DEF setRunning, startThread, sendConnect, stopRunning, closeSocket, dropStream, brokerSends,
       brokerEnds, vars, tcp
  <2>2. \A k \in Connections : Moved(k)
    <3>1. CASE startThread
      BY <3>1 DEF startThread, Moved, IInv, TypeOK, Thread
    <3>2. CASE UNCHANGED thread
      BY <3>2 DEF Moved
    <3> QED
      BY <1>2, <3>1, <3>2 DEF setRunning, sendConnect, stopRunning, closeSocket, dropStream, brokerSends,
         brokerEnds, vars
  <2> QED
    BY <2>1, <2>2, HeldAlone
<1>3. ASSUME NEW k \in Connections, Reader(k) PROVE Ordered'
  <2>1. CASE readMsg(k) \/ decodeMsg(k)
    BY <2>1, ReadOrdered, DecodeOrdered
  <2>2. CASE \/ testRunning(k) \/ enterRead(k) \/ beginRead(k) \/ readFails(k) \/ nullPointer(k)
             \/ testLost(k) \/ clearRunning(k)
    <3>1. UNCHANGED <<queue, taken>>
      BY <2>2 DEF testRunning, enterRead, beginRead, readFails, nullPointer, testLost, clearRunning, tcp
    <3>2. \A j \in Connections : Moved(j)
      <4>1. CASE testRunning(k)
        BY <4>1, GotoMoves DEF testRunning
      <4>2. CASE enterRead(k)
        BY <4>2, GotoMoves DEF enterRead
      <4>3. CASE beginRead(k)
        <5>1. thread \in [Connections -> Thread]
          BY DEF IInv, TypeOK
        <5>2. thread[k] \in Thread /\ thread' = [thread EXCEPT ![k] = [thread[k] EXCEPT !.pc = "read", !.conn = streamIn]]
          BY <4>3, <5>1 DEF beginRead
        <5> QED
          BY <5>1, <5>2 DEF Moved, Thread
      <4>4. CASE readFails(k) \/ nullPointer(k) \/ clearRunning(k)
        BY <4>4, GotoMoves DEF readFails, nullPointer, clearRunning
      <4>5. CASE testLost(k)
        BY <4>5, GotoMoves DEF testLost
      <4> QED
        BY <2>2, <4>1, <4>2, <4>3, <4>4, <4>5
    <3> QED
      BY <3>1, <3>2, HeldAlone
  <2>3. CASE postLost(k)
    <3>1. putMessage(ConnectionLost) /\ UNCHANGED taken
      BY <2>3 DEF postLost, tcp
    <3>2. \A j \in Connections : Moved(j)
      BY <2>3, GotoMoves DEF postLost
    <3> QED
      BY <3>1, <3>2, OtherOrdered
  <2> QED
    BY <1>3, <2>1, <2>2, <2>3 DEF Reader
<1>4. CASE clientSends
  <2>1. PICK m \in ClientCommands : putMessage(m)
    BY <1>4 DEF clientSends
  <2>2. UNCHANGED taken /\ \A k \in Connections : Moved(k)
    BY <1>4 DEF clientSends, tcp, Moved
  <2> QED
    BY <2>1, <2>2, OtherOrdered
<1> QED
  BY <1>1, <1>2, <1>3, <1>4 DEF Next, Dispatcher

(* Messages of the broker wait in the queue in the order in which they were *)
(* sent, although control messages overtake them and several threads read.  *)
THEOREM BrokerOrderKept == Spec => []InOrder
<1>1. Init => Ordered
  BY DEF Init, Ordered, Taken, Held, InOrder, at, Connections
<1>2. Ordered => InOrder
  BY DEF Ordered
<1> QED
  BY <1>1, <1>2, NextOrdered, ConnectionInvariance, PTL DEF Spec

-----------------------------------------------------------------------------
(* Every field of the connection, the queue and the threads has its type.   *)
THEOREM ConnectionTyped == Spec => []TypeOK
<1>1. IInv => TypeOK
  BY DEF IInv
<1> QED
  BY <1>1, ConnectionInvariance, PTL

(* A connected client's stream is read, or its loss is reported, whatever   *)
(* threads of earlier connections do to the flag they share.                *)
THEOREM ConnectedIsWatched == Spec => []SessionWatched
<1>1. IInv => SessionWatched
  BY DEF IInv, TypeOK, Watched, SessionWatched, Posting, Queued, Connections
<1> QED
  BY <1>1, ConnectionInvariance, PTL

(* The gateway keeps a socket exactly while its client is connected.        *)
THEOREM SocketsAreOwned == Spec => []NoSocketLeak
<1>1. IInv => NoSocketLeak
  BY DEF IInv, TypeOK, Owned, NoSocketLeak
<1> QED
  BY <1>1, ConnectionInvariance, PTL
=============================================================================
