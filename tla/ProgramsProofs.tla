--------------------------- MODULE ProgramsProofs ---------------------------
(***************************************************************************)
(* Safety of the clients of mqtt-sn-tools for any topics, times and options *)
(* (first part), and of the programs side by side (second part), from the   *)
(* invariants of MosquittoProofs and DemoProofs.                            *)
(***************************************************************************)
EXTENDS Programs, SequenceTheorems, WellFoundedInduction, TLAPS

(* Which program is where, with which settings: a keep-alive period is only *)
(* set once connected, and select does not wait longer than the timeout.    *)
Settled ==
    /\ keep_alive \in {0, opts.k}
    /\ pc = "start" => timeout = DefaultTimeout /\ slept = 0
    /\ pc \in {"start", "socket"} => keep_alive = 0 /\ slept = 0
    /\ pc \in {"recv", "select", "dump_select"} => slept <= timeout
    /\ pc \notin {"start", "exited"} =>
           /\ Accepts(opts)
           /\ timeout = IF opts.tool = "sub" THEN set_timeout(opts.k \div 2) ELSE DefaultTimeout
    /\ pc \in {"recv", "top", "select", "forward"} => opts.tool # "dump" /\ opts.qos >= 0
    /\ pc \in {"listen", "dump_select"} => opts.tool = "dump"
    /\ pc = "forward" => "dtn" \in opts.flags

(* What was sent and granted before wait_for waits for a packet.            *)
Reached ==
    pc \in {"top", "select", "forward"} =>
        /\ "CONNACK" \in granted /\ awaited # "CONNACK"
        /\ awaited = "REGACK" => opts.tool = "pub"
        /\ awaited \in {"SUBACK", "PUBLISH"} => opts.tool = "sub"
        /\ awaited \in {"PUBLISH", "DISCONNECT"} /\ opts.tool = "sub" => "SUBACK" \in granted
        /\ awaited = "DISCONNECT" =>
               /\ "DISCONNECT" \in sent
               /\ opts.tool = "pub" =>
                      "PUBLISH" \in sent /\ (opts.name \in Names => "REGACK" \in granted)

(* The topic map has every name the gateway told, and a message is only      *)
(* printed between one wait and the next.                                   *)
MapAgrees ==
    /\ DOMAIN assigned \subseteq TopicIds
    /\ \A i \in DOMAIN assigned : i \in DOMAIN topic_map /\ topic_map[i] = assigned[i]
    /\ pc \in {"start", "socket", "recv", "select"} => output = NoOutput
    /\ pc \in {"start", "socket", "listen", "dump_select"} => DOMAIN assigned = {}

(* Without a request under way, nothing was sent since the last packet came; *)
(* a request that is, is as old as the wait in select.                      *)
SilenceKnown ==
    /\ owed = NotOwed /\ pc # "exited" => idle >= silence
    /\ pc = "select" /\ keep_alive > 0 =>
           /\ owed # NotOwed => owed >= slept \/ owed = MaxAge
           /\ owed = NotOwed => 2 * (silence - slept) < 3 * keep_alive

(* Where the process is in its keep-alive period.                           *)
PingDue ==
    keep_alive > 1 /\ "dtn" \notin opts.flags =>
        /\ pc = "recv" => idle <= slept
        /\ pc = "top" => 2 * idle <= 3 * keep_alive
        /\ pc = "select" => idle < keep_alive + slept

ToolsInv ==
    /\ TypeOK /\ Settled /\ Reached /\ MapAgrees /\ SilenceKnown /\ PingDue
    /\ ExitHonest /\ NoFalseAlarm /\ NameKept
-----------------------------------------------------------------------------
LEMMA OptionsAre ==
    ASSUME NEW o \in Options
    PROVE  /\ o.tool \in {"pub", "sub", "dump"} /\ o.qos \in {-1, 0, 1} /\ o.name \in Topics
           /\ o.id \in Ids /\ o.k \in Nat
           /\ o.tool = "pub" => o.k = PubKeepAlive
           /\ o.tool # "pub" => o.qos = 0
           /\ o.tool = "dump" => o.k = 0 /\ o.name = NoTopic
  <1>1. CASE o \in [tool : {"pub"}, qos : {-1, 0, 1}, name : Topics, id : Ids, k : {PubKeepAlive}, flags : FlagSets]
    <2>1. o.tool = "pub" /\ o.qos \in {-1, 0, 1} /\ o.name \in Topics /\ o.id \in Ids /\ o.k = PubKeepAlive
      BY <1>1
    <2>. QED BY <2>1, ToolsAssumption
  <1>2. CASE o \in [tool : {"sub"}, qos : {0}, name : Topics, id : Ids, k : SubKeepAlives, flags : FlagSets]
    <2>1. o.tool = "sub" /\ o.qos = 0 /\ o.name \in Topics /\ o.id \in Ids /\ o.k \in SubKeepAlives
      BY <1>2
    <2>. QED BY <2>1, ToolsAssumption
  <1>3. CASE o \in [tool : {"dump"}, qos : {0}, name : {NoTopic}, id : {NoId}, k : {0}, flags : FlagSets]
    <2>1. o.tool = "dump" /\ o.qos = 0 /\ o.name = NoTopic /\ o.id = NoId /\ o.k = 0
      BY <1>3
    <2>. QED BY <2>1 DEF Topics, Ids
  <1>. QED BY <1>1, <1>2, <1>3 DEF Options

LEMMA PacketsAre ==
    ASSUME NEW p \in Received
    PROVE  /\ p.type \in {"CONNACK", "REGACK", "SUBACK", "REGISTER", "PUBLISH", "PINGRESP", "DISCONNECT", "GWINFO"}
           /\ p.type \in {"REGACK", "SUBACK", "REGISTER"} => p.id \in {NoId} \cup TopicIds
           /\ p.type = "REGISTER" => p.name \in Names
           /\ p.type = "PUBLISH" => p.id \in TopicIds /\ p.normal \in BOOLEAN
  BY DEF Received

LEMMA TimeoutPositive ==
    ASSUME NEW o \in Options
    PROVE  set_timeout(o.k \div 2) \in Nat \ {0}
           /\ (o.k > 1 => 2 * set_timeout(o.k \div 2) <= o.k)
  BY OptionsAre, ToolsAssumption DEF set_timeout

(* A tick makes an age at most one older.                                   *)
LEMMA OlderIs ==
    ASSUME NEW a \in 0 .. MaxAge, NEW b \in 0 .. MaxAge, keep_alive \in Nat
    PROVE  /\ Older(a) \in 0 .. MaxAge /\ a <= Older(a) /\ Older(a) <= a + 1
           /\ a <= b => Older(a) <= Older(b)
           /\ keep_alive > 0 => Older(a) = a + 1 \/ Older(a) = MaxAge
  BY ToolsAssumption DEF Older

LEMMA SendIs ==
    ASSUME NEW types, NEW due, Send(types, due), idle \in 0 .. MaxAge
    PROVE  /\ idle' \in 0 .. MaxAge /\ (idle' = 0 \/ idle' = idle)
           /\ sent \subseteq sent'
           /\ owed' = 0 \/ owed' = due
  BY ToolsAssumption DEF Send

LEMMA SendNothing ==
    ASSUME NEW due, Send({}, due) PROVE UNCHANGED <<idle, sent>> /\ owed' = due
  BY DEF Send

LEMMA SendDisconnect ==
    ASSUME NEW due, Send({"DISCONNECT"}, due) PROVE owed' # NotOwed /\ idle' = 0 /\ "DISCONNECT" \in sent'
  BY DEF Send, Requests, NotOwed

LEMMA ToolsInit == Init => ToolsInv
  <1>. SUFFICES ASSUME Init PROVE ToolsInv
    OBVIOUS
  <1>1. TypeOK
    <2>1. DOMAIN topic_map = {}
      BY DEF Init
    <2>2. /\ keep_alive \in Nat /\ timeout \in Nat
          /\ idle \in 0 .. MaxAge /\ silence \in 0 .. MaxAge /\ slept \in 0 .. timeout + ForwardTime
          /\ signals \in 0 .. MaxSignals
      BY ToolsAssumption DEF Init
    <2>3. /\ forwarder_encapsulation \in BOOLEAN /\ keep_running \in BOOLEAN /\ noise \in BOOLEAN
          /\ topic_id \in Ids /\ owed = NotOwed
      BY DEF Init, Ids
    <2>. QED BY <2>1, <2>2, <2>3 DEF Init, TypeOK
  <1>2. Settled /\ Reached /\ MapAgrees /\ SilenceKnown /\ PingDue
    BY OptionsAre, ToolsAssumption DEF Init, Settled, Reached, MapAgrees, SilenceKnown, PingDue
  <1>3. ExitHonest /\ NoFalseAlarm /\ NameKept
    BY ToolsAssumption DEF Init, ExitHonest, NoFalseAlarm, NameKept
  <1>. QED BY <1>1, <1>2, <1>3 DEF ToolsInv

(* A program looks at the clock twice in a keep-alive period at least.     *)
LEMMA TimeoutBound ==
    ASSUME ToolsInv, pc \notin {"start", "exited"}, keep_alive > 1
    PROVE  2 * timeout <= keep_alive
  <1>1. opts \in Options /\ keep_alive = opts.k
    BY DEF ToolsInv, TypeOK, Settled
  <1>2. timeout = IF opts.tool = "sub" THEN set_timeout(opts.k \div 2) ELSE DefaultTimeout
    BY DEF ToolsInv, Settled
  <1>3. opts.tool \in {"pub", "sub", "dump"} /\ (opts.tool = "pub" => opts.k = PubKeepAlive)
        /\ (opts.tool = "dump" => opts.k = 0)
    BY <1>1, OptionsAre
  <1>4. CASE opts.tool = "sub"
    BY <1>1, <1>2, <1>4, TimeoutPositive
  <1>5. CASE opts.tool = "pub"
    BY <1>1, <1>2, <1>3, <1>5, ToolsAssumption
  <1>. QED BY <1>1, <1>3, <1>4, <1>5

(* The command line is taken or refused.                                    *)
LEMMA ParseOptsSafe ==
    ASSUME ToolsInv, parse_opts PROVE ToolsInv'
  <1>1. TypeOK'
    <2>1. opts.id \in Ids /\ timeout' \in Nat
      BY OptionsAre, TimeoutPositive DEF ToolsInv, TypeOK, parse_opts
    <2>2. slept = 0
      BY DEF ToolsInv, Settled, parse_opts
    <2>3. slept \in 0 .. timeout' + ForwardTime
      <3>1. ASSUME NEW n \in Nat, NEW m \in Nat PROVE 0 \in 0 .. n + m
        OBVIOUS
      <3>. QED BY <2>1, <2>2, <3>1, ToolsAssumption
    <2>. QED BY <2>1, <2>3 DEF ToolsInv, TypeOK, parse_opts, Exit, ages
  <1>2. Settled'
    BY DEF ToolsInv, TypeOK, Settled, parse_opts, Exit, settings, ages
  <1>3. Reached'
    BY DEF ToolsInv, TypeOK, Settled, Reached, parse_opts, Exit, settings, ages
  <1>4. MapAgrees'
    BY DEF ToolsInv, TypeOK, MapAgrees, parse_opts, Exit, settings, ages
  <1>5. SilenceKnown'
    BY DEF ToolsInv, TypeOK, SilenceKnown, parse_opts, Exit, settings, ages
  <1>6. PingDue'
    BY DEF ToolsInv, TypeOK, Settled, PingDue, parse_opts, Exit, settings, ages
  <1>7. ExitHonest'
    BY DEF ToolsInv, TypeOK, Settled, Reached, ExitHonest, parse_opts, Exit, settings, ages
  <1>8. NoFalseAlarm'
    BY DEF ToolsInv, TypeOK, Settled, SilenceKnown, NoFalseAlarm, parse_opts, Exit, settings, ages
  <1>9. NameKept'
    BY DEF ToolsInv, TypeOK, Settled, MapAgrees, NameKept, parse_opts, Exit, settings, ages
  <1>. QED BY <1>1, <1>2, <1>3, <1>4, <1>5, <1>6, <1>7, <1>8, <1>9 DEF ToolsInv
(* The socket, and the first packet.                                        *)
LEMMA CreateSocketSafe ==
    ASSUME ToolsInv, create_socket PROVE ToolsInv'
  <1>1. TypeOK'
    <2>1. keep_alive' \in Nat
      BY OptionsAre DEF ToolsInv, TypeOK, create_socket
    <2>2. idle' \in 0 .. MaxAge /\ owed' \in {NotOwed} \cup 0 .. MaxAge
      BY ToolsAssumption DEF ToolsInv, TypeOK, create_socket, Send
    <2>3. slept' \in 0 .. timeout' + ForwardTime
      BY ToolsAssumption DEF ToolsInv, TypeOK, create_socket
    <2>. QED BY <2>1, <2>2, <2>3 DEF ToolsInv, TypeOK, create_socket, Exit
  <1>2. Settled'
    <2>1. opts \in Options /\ timeout \in Nat
      BY DEF ToolsInv, TypeOK
    <2>2. pc = "socket" /\ keep_alive = 0 /\ UNCHANGED <<opts, timeout>>
      BY DEF ToolsInv, Settled, create_socket
    <2>3. /\ Accepts(opts)
          /\ timeout = IF opts.tool = "sub" THEN set_timeout(opts.k \div 2) ELSE DefaultTimeout
      BY <2>2 DEF ToolsInv, Settled
    <2>4. opts.k \in Nat /\ (opts.tool # "pub" => opts.qos = 0)
      BY <2>1, OptionsAre
    <2>5. Accepts(opts)'
      BY <2>2, <2>3 DEF Accepts, PubAccepts, SubAccepts
    <2>. QED BY <2>1, <2>2, <2>3, <2>4, <2>5 DEF Settled, create_socket, Exit
  <1>3. Reached'
    BY DEF ToolsInv, TypeOK, Settled, Reached, create_socket, Exit, Send, settings, ages
  <1>4. MapAgrees'
    BY DEF ToolsInv, TypeOK, MapAgrees, create_socket, Exit, Send, settings, ages
  <1>5. SilenceKnown'
    <2>1. /\ pc' \in {"exited", "listen", "recv"}
          /\ pc' = "listen" => UNCHANGED <<idle, owed>>
          /\ pc' = "recv" => Send({"CONNECT"}, owed)
          /\ silence' = silence /\ pc # "exited"
      BY DEF create_socket, Exit
    <2>2. Send({"CONNECT"}, owed) => owed' # NotOwed
      BY DEF Send, Requests, NotOwed
    <2>. QED BY <2>1, <2>2 DEF ToolsInv, SilenceKnown
  <1>6. PingDue'
    BY DEF ToolsInv, TypeOK, Settled, PingDue, create_socket, Exit, Send, settings, ages
  <1>7. ExitHonest'
    <2>1. opts \in Options
      BY DEF ToolsInv, TypeOK
    <2>2. CASE opts.tool = "pub" /\ opts.qos = -1 /\ Exit("ok") /\ Send({"PUBLISH"}, owed)
      <3>1. "PUBLISH" \in sent' /\ UNCHANGED opts
        BY <2>2 DEF Send, create_socket
      <3>2. Accepts(opts) /\ PubAccepts(opts)
        BY <2>2 DEF ToolsInv, Settled, create_socket, Accepts
      <3>3. opts.name \notin Names
        BY <2>2, <3>2, ToolsAssumption DEF PubAccepts
      <3>. QED BY <2>2, <3>1, <3>2, <3>3 DEF ExitHonest, Accepts, PubAccepts
    <2>3. CASE outcome' # "ok"
      BY <2>3 DEF ExitHonest
    <2>. QED BY <2>2, <2>3 DEF create_socket, Exit, ToolsInv, TypeOK
  <1>8. NoFalseAlarm'
    BY DEF ToolsInv, TypeOK, Settled, SilenceKnown, NoFalseAlarm, create_socket, Exit, Send, settings, ages
  <1>9. NameKept'
    BY DEF ToolsInv, TypeOK, Settled, MapAgrees, NameKept, create_socket, Exit, Send, settings, ages
  <1>. QED BY <1>1, <1>2, <1>3, <1>4, <1>5, <1>6, <1>7, <1>8, <1>9 DEF ToolsInv
LEMMA ConnackTimeoutSafe ==
    ASSUME ToolsInv, connack_timeout PROVE ToolsInv'
  <1>1. TypeOK'
    BY DEF ToolsInv, TypeOK, connack_timeout, Exit, settings, ages
  <1>2. Settled'
    BY DEF ToolsInv, TypeOK, Settled, connack_timeout, Exit, settings, ages
  <1>3. Reached'
    BY DEF ToolsInv, TypeOK, Settled, Reached, connack_timeout, Exit, settings, ages
  <1>4. MapAgrees'
    BY DEF ToolsInv, TypeOK, MapAgrees, connack_timeout, Exit, settings, ages
  <1>5. SilenceKnown'
    BY DEF ToolsInv, TypeOK, SilenceKnown, connack_timeout, Exit, settings, ages
  <1>6. PingDue'
    BY DEF ToolsInv, TypeOK, Settled, PingDue, connack_timeout, Exit, settings, ages
  <1>7. ExitHonest'
    BY DEF ToolsInv, TypeOK, Settled, Reached, ExitHonest, connack_timeout, Exit, settings, ages
  <1>8. NoFalseAlarm'
    BY DEF ToolsInv, TypeOK, Settled, SilenceKnown, NoFalseAlarm, connack_timeout, Exit, settings, ages
  <1>9. NameKept'
    BY DEF ToolsInv, TypeOK, Settled, MapAgrees, NameKept, connack_timeout, Exit, settings, ages
  <1>. QED BY <1>1, <1>2, <1>3, <1>4, <1>5, <1>6, <1>7, <1>8, <1>9 DEF ToolsInv
(* The answer to CONNECT; accepted, the next request goes out.              *)
LEMMA ReceiveConnackSafe ==
    ASSUME ToolsInv, NEW p \in Received, receive_connack(p) PROVE ToolsInv'
  <1>1. TypeOK'
    <2>1. idle' \in 0 .. MaxAge /\ owed' \in {NotOwed} \cup 0 .. MaxAge
      BY ToolsAssumption DEF ToolsInv, TypeOK, receive_connack, Send
    <2>2. silence' \in 0 .. MaxAge
      BY ToolsAssumption DEF ToolsInv, TypeOK, receive_connack, Hear
    <2>3. noise' \in BOOLEAN
      BY DEF receive_connack, Hear
    <2>. QED BY <2>1, <2>2, <2>3 DEF ToolsInv, TypeOK, receive_connack, Exit, settings
  <1>2. Settled'
    BY DEF ToolsInv, TypeOK, Settled, receive_connack, Exit, Send, Hear, settings, ages
  <1>3. Reached'
    BY DEF ToolsInv, TypeOK, Settled, Reached, receive_connack, Exit, Send, Hear, settings, ages
  <1>4. MapAgrees'
    BY DEF ToolsInv, TypeOK, MapAgrees, receive_connack, Exit, Send, Hear, settings, ages
  <1>5. SilenceKnown'
    <2>1. pc' = "exited" \/ silence' = 0
      BY DEF receive_connack, Hear, Exit
    <2>2. pc' # "select" /\ idle' \in Nat /\ UNCHANGED slept
      BY <1>1 DEF receive_connack, Exit, TypeOK
    <2>. QED BY <2>1, <2>2 DEF ToolsInv, SilenceKnown
  <1>6. PingDue'
    <2>1. pc' = "exited" \/ (pc' = "top" /\ idle' = 0)
      BY DEF receive_connack, Exit, Send
    <2>2. keep_alive' \in Nat
      BY <1>1 DEF TypeOK
    <2>. QED BY <2>1, <2>2 DEF PingDue
  <1>7. ExitHonest'
    BY DEF ToolsInv, TypeOK, Settled, Reached, ExitHonest, receive_connack, Exit, Send, Hear, settings, ages
  <1>8. NoFalseAlarm'
    BY DEF ToolsInv, TypeOK, Settled, SilenceKnown, NoFalseAlarm, receive_connack, Exit, Send, Hear, settings, ages
  <1>9. NameKept'
    BY DEF ToolsInv, TypeOK, Settled, MapAgrees, NameKept, receive_connack, Exit, Send, Hear, settings, ages
  <1>. QED BY <1>1, <1>2, <1>3, <1>4, <1>5, <1>6, <1>7, <1>8, <1>9 DEF ToolsInv
(* A ping is due when nothing was sent for a keep-alive period.             *)
LEMMA WaitForTopSafe ==
    ASSUME ToolsInv, wait_for_top PROVE ToolsInv'
  <1>1. TypeOK'
    <2>1. idle' \in 0 .. MaxAge /\ owed' \in {NotOwed} \cup 0 .. MaxAge
      BY ToolsAssumption DEF ToolsInv, TypeOK, wait_for_top, Send
    <2>2. slept' \in 0 .. timeout' + ForwardTime
      BY ToolsAssumption DEF ToolsInv, TypeOK, wait_for_top, settings
    <2>. QED BY <2>1, <2>2 DEF ToolsInv, TypeOK, wait_for_top, settings
  <1>2. Settled'
    BY DEF ToolsInv, TypeOK, Settled, wait_for_top, Send, settings, ages
  <1>3. Reached'
    BY DEF ToolsInv, TypeOK, Settled, Reached, wait_for_top, Send, settings, ages
  <1>4. MapAgrees'
    BY DEF ToolsInv, TypeOK, MapAgrees, wait_for_top, Send, settings, ages
  <1>5. SilenceKnown'
    <2>1. CASE keep_alive > 0 /\ idle >= keep_alive
      <3>1. owed' # NotOwed /\ (owed' = 0 \/ owed' = owed)
        BY <2>1 DEF wait_for_top, Send, Requests, NotOwed
      <3>2. slept' = 0 /\ owed' \in 0 .. MaxAge
        BY <1>1, <3>1 DEF TypeOK, wait_for_top
      <3>. QED BY <3>1, <3>2 DEF SilenceKnown
    <2>2. CASE ~(keep_alive > 0 /\ idle >= keep_alive)
      <3>1. owed' = owed /\ idle' = idle /\ silence' = silence /\ keep_alive' = keep_alive /\ slept' = 0
        BY <2>2 DEF wait_for_top, Send, settings, Requests
      <3>2. owed = NotOwed => idle >= silence
        BY DEF ToolsInv, SilenceKnown, wait_for_top
      <3>3. idle \in Nat /\ silence \in Nat /\ keep_alive \in Nat /\ owed \in {NotOwed} \cup Nat
        BY DEF ToolsInv, TypeOK
      <3>. QED BY <2>2, <3>1, <3>2, <3>3 DEF SilenceKnown
    <2>. QED BY <2>1, <2>2
  <1>6. PingDue'
    BY DEF ToolsInv, TypeOK, Settled, PingDue, wait_for_top, Send, settings, ages
  <1>7. ExitHonest'
    BY DEF ToolsInv, TypeOK, Settled, Reached, ExitHonest, wait_for_top, Send, settings, ages
  <1>8. NoFalseAlarm'
    BY DEF ToolsInv, TypeOK, Settled, SilenceKnown, NoFalseAlarm, wait_for_top, Send, settings, ages
  <1>9. NameKept'
    <2>1. NoId \notin DOMAIN assigned'
      BY ToolsAssumption DEF ToolsInv, MapAgrees, wait_for_top, NoId
    <2>. QED BY <2>1 DEF NameKept, wait_for_top, NoOutput
  <1>. QED BY <1>1, <1>2, <1>3, <1>4, <1>5, <1>6, <1>7, <1>8, <1>9 DEF ToolsInv
(* The network timeout has passed without a packet.                         *)
LEMMA SelectTimeoutSafe ==
    ASSUME ToolsInv, select_timeout PROVE ToolsInv'
  <1>1. TypeOK'
    BY DEF ToolsInv, TypeOK, select_timeout, NothingReceived, Exit, settings, ages
  <1>2. Settled'
    BY DEF ToolsInv, TypeOK, Settled, select_timeout, NothingReceived, Exit, settings, ages
  <1>3. Reached'
    BY DEF ToolsInv, TypeOK, Settled, Reached, select_timeout, NothingReceived, Exit, settings, ages
  <1>4. MapAgrees'
    BY DEF ToolsInv, TypeOK, MapAgrees, select_timeout, NothingReceived, Exit, settings, ages
  <1>5. SilenceKnown'
    BY DEF ToolsInv, TypeOK, SilenceKnown, select_timeout, NothingReceived, Exit, settings, ages
  <1>6. PingDue'
    <2>1. /\ pc' = "exited" \/ pc' = "top"
          /\ UNCHANGED <<opts, idle, keep_alive>>
      BY DEF select_timeout, NothingReceived, Exit, settings, ages
    <2>2. keep_alive > 1 /\ "dtn" \notin opts.flags => idle < keep_alive + timeout /\ 2 * timeout <= keep_alive
      BY TimeoutBound, ToolsAssumption DEF ToolsInv, TypeOK, Settled, PingDue, select_timeout
    <2>3. idle \in Nat /\ keep_alive \in Nat /\ timeout \in Nat
      BY DEF ToolsInv, TypeOK
    <2>. QED BY <2>1, <2>2, <2>3 DEF PingDue
  <1>7. ExitHonest'
    BY DEF ToolsInv, TypeOK, Settled, Reached, ExitHonest, select_timeout, NothingReceived, Exit, settings, ages
  <1>8. NoFalseAlarm'
    BY DEF ToolsInv, TypeOK, Settled, SilenceKnown, NoFalseAlarm, select_timeout, NothingReceived, Exit, settings, ages
  <1>9. NameKept'
    BY DEF ToolsInv, TypeOK, Settled, MapAgrees, NameKept, select_timeout, NothingReceived, Exit, settings, ages
  <1>. QED BY <1>1, <1>2, <1>3, <1>4, <1>5, <1>6, <1>7, <1>8, <1>9 DEF ToolsInv
LEMMA WaitForInvalidSafe ==
    ASSUME ToolsInv, NEW p \in Received, wait_for_invalid(p) PROVE ToolsInv'
  <1>1. TypeOK'
    BY DEF ToolsInv, TypeOK, wait_for_invalid, NothingReceived, Exit, settings, ages
  <1>2. Settled'
    BY DEF ToolsInv, TypeOK, Settled, wait_for_invalid, NothingReceived, Exit, settings, ages
  <1>3. Reached'
    BY DEF ToolsInv, TypeOK, Settled, Reached, wait_for_invalid, NothingReceived, Exit, settings, ages
  <1>4. MapAgrees'
    BY DEF ToolsInv, TypeOK, MapAgrees, wait_for_invalid, NothingReceived, Exit, settings, ages
  <1>5. SilenceKnown'
    BY DEF ToolsInv, TypeOK, SilenceKnown, wait_for_invalid, NothingReceived, Exit, settings, ages
  <1>6. PingDue'
    <2>1. /\ pc' = "exited" \/ pc' = "top"
          /\ UNCHANGED <<opts, idle, keep_alive>>
      BY DEF wait_for_invalid, NothingReceived, Exit, settings, ages
    <2>2. keep_alive > 1 /\ "dtn" \notin opts.flags => idle < keep_alive + timeout /\ 2 * timeout <= keep_alive
      BY TimeoutBound, ToolsAssumption DEF ToolsInv, TypeOK, Settled, PingDue, wait_for_invalid
    <2>3. idle \in Nat /\ keep_alive \in Nat /\ timeout \in Nat
      BY DEF ToolsInv, TypeOK
    <2>. QED BY <2>1, <2>2, <2>3 DEF PingDue
  <1>7. ExitHonest'
    BY DEF ToolsInv, TypeOK, Settled, Reached, ExitHonest, wait_for_invalid, NothingReceived, Exit, settings, ages
  <1>8. NoFalseAlarm'
    BY DEF ToolsInv, TypeOK, Settled, SilenceKnown, NoFalseAlarm, wait_for_invalid, NothingReceived, Exit, settings, ages
  <1>9. NameKept'
    BY DEF ToolsInv, TypeOK, Settled, MapAgrees, NameKept, wait_for_invalid, NothingReceived, Exit, settings, ages
  <1>. QED BY <1>1, <1>2, <1>3, <1>4, <1>5, <1>6, <1>7, <1>8, <1>9 DEF ToolsInv
LEMMA WaitForPacketSafe ==
    ASSUME ToolsInv, NEW p \in Received, wait_for_packet(p) PROVE ToolsInv'
  <1>1. TypeOK'
    <2>1. /\ idle' \in 0 .. MaxAge /\ owed' \in {NotOwed} \cup 0 .. MaxAge
          /\ silence' \in 0 .. MaxAge
      BY ToolsAssumption DEF ToolsInv, TypeOK, wait_for_packet, Send, Hear, PublishReceived,
         KeepProcessing, Disconnecting, process_register, receive_regack, receive_suback
    <2>2. topic_id' \in Ids \cup TopicIds
      BY PacketsAre DEF ToolsInv, TypeOK, wait_for_packet, process_register, receive_regack, receive_suback, Ids
    <2>3. DOMAIN topic_map' \subseteq TopicIds /\ \A i \in DOMAIN topic_map' : topic_map'[i] \in Names
      <3>1. ASSUME NEW id, NEW name \in Names
            PROVE  /\ DOMAIN register_topic(topic_map, id, name) \subseteq TopicIds
                   /\ \A i \in DOMAIN register_topic(topic_map, id, name) :
                          register_topic(topic_map, id, name)[i] \in Names
        BY DEF ToolsInv, TypeOK, register_topic
      <3>2. \/ topic_map' = topic_map
            \/ topic_map' = register_topic(topic_map, p.id, p.name) /\ p.name \in Names
            \/ topic_map' = register_topic(topic_map, p.id, opts.name) /\ opts.name \in Names
        BY PacketsAre DEF wait_for_packet, process_register, receive_regack, receive_suback
      <3>. QED BY <3>1, <3>2 DEF ToolsInv, TypeOK
    <2>4. /\ pc = "select" /\ outcome = "running"
          /\ awaited' \in {"CONNACK", "REGACK", "SUBACK", "PUBLISH", "DISCONNECT"}
          /\ \/ pc' = "exited" /\ outcome' \in {"ok", "failure", "refused"}
             \/ pc' \in {"top", "forward"} /\ outcome' = "running"
      BY DEF ToolsInv, TypeOK, wait_for_packet, Exit, PublishReceived,
         KeepProcessing, Disconnecting, process_register, receive_regack, receive_suback
    <2>5. UNCHANGED <<settings, keep_running, signals, slept>> /\ noise' = FALSE
      BY DEF wait_for_packet, Hear
    <2>. QED BY <2>1, <2>2, <2>3, <2>4, <2>5 DEF ToolsInv, TypeOK, settings
  <1>2. Settled'
    BY DEF ToolsInv, TypeOK, Settled, wait_for_packet, Hear, Send, Exit, PublishReceived, KeepProcessing, Disconnecting, process_register, receive_regack, receive_suback, settings, ages
  <1>3. Reached'
    BY DEF ToolsInv, TypeOK, Settled, Reached, wait_for_packet, Hear, Send, Exit, PublishReceived, KeepProcessing, Disconnecting, process_register, receive_regack, receive_suback, settings, ages
  <1>4. MapAgrees'
    <2>1. pc' \in {"top", "forward", "exited"}
      BY DEF wait_for_packet, Exit, PublishReceived,
         KeepProcessing, Disconnecting, process_register, receive_regack, receive_suback
    <2>2. ASSUME NEW id \in {NoId} \cup TopicIds, NEW name,
                 topic_map' = register_topic(topic_map, id, name), assigned' = Told(id, name)
          PROVE  /\ DOMAIN assigned' \subseteq TopicIds
                 /\ \A i \in DOMAIN assigned' : i \in DOMAIN topic_map' /\ topic_map'[i] = assigned'[i]
      <3>1. CASE id = NoId
        BY <2>2, <3>1, ToolsAssumption DEF ToolsInv, MapAgrees, register_topic, Told, NoId
      <3>2. CASE id # NoId
        BY <2>2, <3>2 DEF ToolsInv, MapAgrees, register_topic, Told
      <3>. QED BY <3>1, <3>2
    <2>3. \/ UNCHANGED <<topic_map, assigned>>
          \/ \E name : /\ p.id \in {NoId} \cup TopicIds
                        /\ topic_map' = register_topic(topic_map, p.id, name)
                        /\ assigned' = Told(p.id, name)
      BY PacketsAre DEF wait_for_packet, process_register, receive_regack, receive_suback
    <2>4. /\ DOMAIN assigned' \subseteq TopicIds
          /\ \A i \in DOMAIN assigned' : i \in DOMAIN topic_map' /\ topic_map'[i] = assigned'[i]
      BY <2>2, <2>3 DEF ToolsInv, MapAgrees
    <2>. QED BY <2>1, <2>4 DEF MapAgrees
  <1>5. SilenceKnown'
    BY DEF ToolsInv, TypeOK, SilenceKnown, wait_for_packet, Hear, Send, Exit, PublishReceived, KeepProcessing, Disconnecting, process_register, receive_regack, receive_suback, settings, ages
  <1>6. PingDue'
    <2>1. /\ pc' \in {"top", "forward", "exited"} /\ (idle' = 0 \/ idle' = idle)
          /\ UNCHANGED <<opts, keep_alive>>
      BY DEF wait_for_packet, Exit, PublishReceived, settings, Send,
         KeepProcessing, Disconnecting, process_register, receive_regack, receive_suback
    <2>2. keep_alive > 1 /\ "dtn" \notin opts.flags => idle < keep_alive + timeout /\ 2 * timeout <= keep_alive
      BY TimeoutBound, ToolsAssumption DEF ToolsInv, TypeOK, Settled, PingDue, wait_for_packet
    <2>3. idle \in Nat /\ keep_alive \in Nat /\ timeout \in Nat
      BY DEF ToolsInv, TypeOK
    <2>. QED BY <2>1, <2>2, <2>3 DEF PingDue
  <1>7. ExitHonest'
    BY DEF ToolsInv, TypeOK, Settled, Reached, ExitHonest, wait_for_packet, Hear, Send, Exit, PublishReceived, KeepProcessing, Disconnecting, process_register, receive_regack, receive_suback, settings, ages
  <1>8. NoFalseAlarm'
    BY DEF ToolsInv, TypeOK, Settled, SilenceKnown, NoFalseAlarm, wait_for_packet, Hear, Send, Exit, PublishReceived, KeepProcessing, Disconnecting, process_register, receive_regack, receive_suback, settings, ages
  <1>9. NameKept'
    <2>1. pc = "select" /\ output = NoOutput /\ UNCHANGED opts
      BY DEF wait_for_packet, ToolsInv, MapAgrees, settings
    <2>2. NoId \notin DOMAIN assigned'
      BY <1>4, ToolsAssumption DEF MapAgrees, NoId
    <2>3. CASE output' = output
      BY <2>1, <2>2, <2>3 DEF NameKept, NoOutput
    <2>4. CASE output' # output
      <3>1. output' = print_publish_packet(p) /\ UNCHANGED assigned
        BY <2>4 DEF wait_for_packet, process_register, receive_regack, receive_suback
      <3>2. CASE p.normal /\ "v" \in opts.flags /\ p.id \in DOMAIN assigned
        <4>1. p.id \in DOMAIN topic_map /\ topic_map[p.id] = assigned[p.id] /\ topic_map[p.id] \in Names
          BY <3>2 DEF ToolsInv, TypeOK, MapAgrees
        <4>2. lookup_topic(p.id) = assigned[p.id] /\ lookup_topic(p.id) # NoName
          BY <4>1, ToolsAssumption DEF lookup_topic
        <4>3. output'.as = assigned[p.id] /\ output'.id = p.id
          BY <3>1, <3>2, <4>2 DEF print_publish_packet
        <4>. QED BY <3>1, <4>3 DEF NameKept
      <3>3. CASE ~(p.normal /\ "v" \in opts.flags /\ p.id \in DOMAIN assigned)
        <4>1. output'.id = IF p.normal THEN p.id ELSE NoId
          BY <3>1 DEF print_publish_packet
        <4>. QED BY <2>1, <2>2, <3>1, <3>3, <4>1 DEF NameKept
      <3>. QED BY <3>2, <3>3
    <2>. QED BY <2>3, <2>4
  <1>. QED BY <1>1, <1>2, <1>3, <1>4, <1>5, <1>6, <1>7, <1>8, <1>9 DEF ToolsInv
LEMMA FwdDtnPacketSafe ==
    ASSUME ToolsInv, fwd_dtn_packet PROVE ToolsInv'
  <1>1. TypeOK'
    <2>1. idle' \in 0 .. MaxAge /\ owed' \in {NotOwed} \cup 0 .. MaxAge
      BY ToolsAssumption DEF ToolsInv, TypeOK, fwd_dtn_packet, PublishReceived, KeepProcessing, Disconnecting, Send
    <2>. QED BY <2>1 DEF ToolsInv, TypeOK, fwd_dtn_packet, PublishReceived, KeepProcessing, Disconnecting, settings
  <1>2. Settled'
    BY DEF ToolsInv, TypeOK, Settled, fwd_dtn_packet, PublishReceived, KeepProcessing, Disconnecting, Send, settings, ages
  <1>3. Reached'
    BY DEF ToolsInv, TypeOK, Settled, Reached, fwd_dtn_packet, PublishReceived, KeepProcessing, Disconnecting, Send, settings, ages
  <1>4. MapAgrees'
    BY DEF ToolsInv, TypeOK, MapAgrees, fwd_dtn_packet, PublishReceived, KeepProcessing, Disconnecting, Send, settings, ages
  <1>5. SilenceKnown'
    <2>1. /\ pc' # "select" /\ silence' = silence
          /\ Send({}, owed) \/ Send({"DISCONNECT"}, owed)
          /\ pc # "exited"
      BY DEF fwd_dtn_packet, PublishReceived, KeepProcessing, Disconnecting
    <2>2. (idle' = idle /\ owed' = owed) \/ owed' # NotOwed
      BY <2>1, SendNothing, SendDisconnect
    <2>. QED BY <2>1, <2>2 DEF ToolsInv, SilenceKnown
  <1>6. PingDue'
    BY DEF ToolsInv, TypeOK, Settled, PingDue, fwd_dtn_packet, PublishReceived, KeepProcessing, Disconnecting, Send, settings, ages
  <1>7. ExitHonest'
    BY DEF ToolsInv, TypeOK, Settled, Reached, ExitHonest, fwd_dtn_packet, PublishReceived, KeepProcessing, Disconnecting, Send, settings, ages
  <1>8. NoFalseAlarm'
    BY DEF ToolsInv, TypeOK, Settled, SilenceKnown, NoFalseAlarm, fwd_dtn_packet, PublishReceived, KeepProcessing, Disconnecting, Send, settings, ages
  <1>9. NameKept'
    BY DEF ToolsInv, TypeOK, Settled, MapAgrees, NameKept, fwd_dtn_packet, PublishReceived, KeepProcessing, Disconnecting, Send, settings, ages
  <1>. QED BY <1>1, <1>2, <1>3, <1>4, <1>5, <1>6, <1>7, <1>8, <1>9 DEF ToolsInv
LEMMA DumpSafe ==
    ASSUME ToolsInv, dump_top \/ dump_timeout \/ (\E p \in Received : dump_packet(p)) PROVE ToolsInv'
  <1>1. TypeOK'
    <2>1. /\ silence' \in 0 .. MaxAge /\ slept' \in 0 .. timeout + ForwardTime
      BY ToolsAssumption DEF ToolsInv, TypeOK, dump_top, dump_timeout, dump_packet, Hear, ages
    <2>4. noise' \in BOOLEAN
      BY DEF ToolsInv, TypeOK, dump_top, dump_timeout, dump_packet, Hear
    <2>2. /\ outcome = "running" /\ pc # "exited"
          /\ \/ pc' = "exited" /\ outcome' \in {"ok", "crashed"}
             \/ pc' \in {"listen", "dump_select"} /\ outcome' = "running"
      BY DEF ToolsInv, TypeOK, dump_top, dump_timeout, dump_packet, Exit
    <2>3. UNCHANGED <<settings, topic_map, awaited, idle, topic_id, keep_running, signals, owed>>
      BY DEF dump_top, dump_timeout, dump_packet, ages
    <2>. QED BY <2>1, <2>2, <2>3, <2>4 DEF ToolsInv, TypeOK, settings
  <1>2. Settled'
    BY DEF ToolsInv, TypeOK, Settled, dump_top, dump_timeout, dump_packet, Exit, Hear, settings, ages
  <1>3. Reached'
    BY DEF ToolsInv, TypeOK, Settled, Reached, dump_top, dump_timeout, dump_packet, Exit, Hear, settings, ages
  <1>4. MapAgrees'
    BY DEF ToolsInv, TypeOK, MapAgrees, dump_top, dump_timeout, dump_packet, Exit, Hear, settings, ages
  <1>5. SilenceKnown'
    BY DEF ToolsInv, TypeOK, SilenceKnown, dump_top, dump_timeout, dump_packet, Exit, Hear, settings, ages
  <1>6. PingDue'
    BY DEF ToolsInv, TypeOK, Settled, PingDue, dump_top, dump_timeout, dump_packet, Exit, Hear, settings, ages
  <1>7. ExitHonest'
    BY DEF ToolsInv, TypeOK, Settled, Reached, ExitHonest, dump_top, dump_timeout, dump_packet, Exit, Hear, settings, ages
  <1>8. NoFalseAlarm'
    BY DEF ToolsInv, TypeOK, Settled, SilenceKnown, NoFalseAlarm, dump_top, dump_timeout, dump_packet, Exit, Hear, settings, ages
  <1>9. NameKept'
    BY DEF ToolsInv, TypeOK, Settled, MapAgrees, NameKept, dump_top, dump_timeout, dump_packet, Exit, Hear, settings, ages
  <1>. QED BY <1>1, <1>2, <1>3, <1>4, <1>5, <1>6, <1>7, <1>8, <1>9 DEF ToolsInv
LEMMA RecvFailedSafe ==
    ASSUME ToolsInv, recv_failed PROVE ToolsInv'
  <1>1. TypeOK'
    BY DEF ToolsInv, TypeOK, recv_failed, Exit, settings, ages
  <1>2. Settled'
    BY DEF ToolsInv, TypeOK, Settled, recv_failed, Exit, settings, ages
  <1>3. Reached'
    BY DEF ToolsInv, TypeOK, Settled, Reached, recv_failed, Exit, settings, ages
  <1>4. MapAgrees'
    BY DEF ToolsInv, TypeOK, MapAgrees, recv_failed, Exit, settings, ages
  <1>5. SilenceKnown'
    BY DEF ToolsInv, TypeOK, SilenceKnown, recv_failed, Exit, settings, ages
  <1>6. PingDue'
    BY DEF ToolsInv, TypeOK, Settled, PingDue, recv_failed, Exit, settings, ages
  <1>7. ExitHonest'
    BY DEF ToolsInv, TypeOK, Settled, Reached, ExitHonest, recv_failed, Exit, settings, ages
  <1>8. NoFalseAlarm'
    BY DEF ToolsInv, TypeOK, Settled, SilenceKnown, NoFalseAlarm, recv_failed, Exit, settings, ages
  <1>9. NameKept'
    BY DEF ToolsInv, TypeOK, Settled, MapAgrees, NameKept, recv_failed, Exit, settings, ages
  <1>. QED BY <1>1, <1>2, <1>3, <1>4, <1>5, <1>6, <1>7, <1>8, <1>9 DEF ToolsInv
LEMMA TerminationHandlerSafe ==
    ASSUME ToolsInv, termination_handler PROVE ToolsInv'
  <1>1. TypeOK'
    <2>1. idle' \in 0 .. MaxAge /\ owed' \in {NotOwed} \cup 0 .. MaxAge
      BY ToolsAssumption DEF ToolsInv, TypeOK, termination_handler, Disconnecting, Send
    <2>2. signals' \in 0 .. MaxSignals
      BY ToolsAssumption DEF ToolsInv, TypeOK, termination_handler
    <2>3. /\ outcome = "running" /\ pc # "exited"
          /\ \/ pc' = "exited" /\ outcome' \in {"ok", "failure"}
             \/ pc' \in {pc, "top"} /\ outcome' = "running"
      BY DEF ToolsInv, TypeOK, termination_handler, Exit, Disconnecting
    <2>4. /\ UNCHANGED <<settings, topic_map, silence, slept, topic_id, noise>> /\ keep_running' = FALSE
          /\ awaited' \in {awaited, "DISCONNECT"}
      BY DEF termination_handler, Disconnecting
    <2>. QED BY <2>1, <2>2, <2>3, <2>4 DEF ToolsInv, TypeOK, settings
  <1>2. Settled'
    BY DEF ToolsInv, TypeOK, Settled, termination_handler, Exit, Disconnecting, Send, settings, ages
  <1>3. Reached'
    BY DEF ToolsInv, TypeOK, Settled, Reached, termination_handler, Exit, Disconnecting, Send, settings, ages
  <1>4. MapAgrees'
    BY DEF ToolsInv, TypeOK, MapAgrees, termination_handler, Exit, Disconnecting, Send, settings, ages
  <1>5. SilenceKnown'
    <2>1. /\ silence' = silence /\ slept' = slept /\ keep_alive' = keep_alive
          /\ pc' = "select" => pc = "select"
          /\ (idle' = idle /\ owed' = owed /\ pc' \in {"exited", pc}) \/ (Send({"DISCONNECT"}, owed) /\ pc' # "select")
      BY DEF termination_handler, Disconnecting, Exit, settings
    <2>. QED BY <2>1, SendDisconnect DEF ToolsInv, SilenceKnown
  <1>6. PingDue'
    BY DEF ToolsInv, TypeOK, Settled, PingDue, termination_handler, Exit, Disconnecting, Send, settings, ages
  <1>7. ExitHonest'
    BY DEF ToolsInv, TypeOK, Settled, Reached, ExitHonest, termination_handler, Exit, Disconnecting, Send, settings, ages
  <1>8. NoFalseAlarm'
    BY DEF ToolsInv, TypeOK, Settled, SilenceKnown, NoFalseAlarm, termination_handler, Exit, Disconnecting, Send, settings, ages
  <1>9. NameKept'
    BY DEF ToolsInv, TypeOK, Settled, MapAgrees, NameKept, termination_handler, Exit, Disconnecting, Send, settings, ages
  <1>. QED BY <1>1, <1>2, <1>3, <1>4, <1>5, <1>6, <1>7, <1>8, <1>9 DEF ToolsInv
LEMMA TickSafe ==
    ASSUME ToolsInv, Tick PROVE ToolsInv'
  <1>1. TypeOK'
    <2>1. /\ idle \in 0 .. MaxAge /\ silence \in 0 .. MaxAge /\ keep_alive \in Nat
          /\ owed \in {NotOwed} \cup 0 .. MaxAge
      BY DEF ToolsInv, TypeOK
    <2>2. /\ idle' \in 0 .. MaxAge /\ silence' \in 0 .. MaxAge
          /\ owed' \in {NotOwed} \cup 0 .. MaxAge
      BY <2>1, OlderIs DEF Tick
    <2>3. slept' \in 0 .. timeout + ForwardTime
      BY ToolsAssumption DEF ToolsInv, TypeOK, Tick
    <2>. QED BY <2>2, <2>3 DEF ToolsInv, TypeOK, Tick, settings
  <1>2. Settled'
    BY DEF ToolsInv, TypeOK, Settled, Tick, settings, ages
  <1>3. Reached'
    BY DEF ToolsInv, TypeOK, Settled, Reached, Tick, settings, ages
  <1>4. MapAgrees'
    BY DEF ToolsInv, TypeOK, MapAgrees, Tick, settings, ages
  <1>5. SilenceKnown'
    <2>1. /\ idle \in 0 .. MaxAge /\ silence \in 0 .. MaxAge /\ keep_alive \in Nat
          /\ owed \in {NotOwed} \cup 0 .. MaxAge /\ slept \in Nat
      BY DEF ToolsInv, TypeOK
    <2>2. owed = NotOwed => idle >= silence
      BY DEF ToolsInv, SilenceKnown, Tick
    <2>3. /\ idle' = Older(idle) /\ silence' = Older(silence) /\ slept' = slept + 1
          /\ owed' = (IF owed = NotOwed THEN owed ELSE Older(owed))
          /\ UNCHANGED <<pc, keep_alive>>
      BY DEF Tick, settings
    <2>4. owed' = NotOwed => owed = NotOwed
      BY <2>1, <2>3, OlderIs DEF NotOwed
    <2>5. owed' = NotOwed => idle' >= silence'
      BY <2>1, <2>2, <2>3, <2>4, OlderIs
    <2>6. CASE pc = "select" /\ keep_alive > 0
      <3>1. /\ owed # NotOwed => owed >= slept \/ owed = MaxAge
            /\ owed = NotOwed => 2 * (silence - slept) < 3 * keep_alive
        BY <2>6 DEF ToolsInv, SilenceKnown
      <3>2. silence' \in Nat /\ silence' <= silence + 1
        BY <2>1, <2>3, OlderIs
      <3>3. owed # NotOwed => owed' = owed + 1 \/ owed' = MaxAge
        BY <2>1, <2>3, <2>6, OlderIs
      <3>4. owed' # NotOwed => owed' >= slept' \/ owed' = MaxAge
        <4>1. CASE owed = NotOwed
          BY <2>3, <4>1
        <4>2. CASE owed # NotOwed
          <5>1. owed \in 0 .. MaxAge /\ owed' \in 0 .. MaxAge /\ slept' = slept + 1
            BY <2>1, <2>3, <4>2, OlderIs
          <5>. QED BY <2>1, <3>1, <3>3, <4>2, <5>1, ToolsAssumption
        <4>. QED BY <4>1, <4>2
      <3>5. owed' = NotOwed => 2 * (silence' - slept') < 3 * keep_alive
        BY <2>1, <2>3, <2>4, <3>1, <3>2
      <3>. QED BY <2>3, <2>5, <3>4, <3>5 DEF SilenceKnown
    <2>7. CASE ~(pc = "select" /\ keep_alive > 0)
      BY <2>3, <2>5, <2>7 DEF SilenceKnown
    <2>. QED BY <2>6, <2>7
  <1>6. PingDue'
    <2>1. /\ idle \in 0 .. MaxAge /\ keep_alive \in Nat /\ slept \in Nat /\ idle \in Nat
      BY DEF ToolsInv, TypeOK
    <2>2. /\ idle' = Older(idle) /\ slept' = slept + 1 /\ UNCHANGED <<pc, keep_alive, opts>>
          /\ pc # "top"
      BY DEF Tick, settings
    <2>3. idle' <= idle + 1 /\ idle' \in Nat
      BY <2>1, <2>2, OlderIs
    <2>. QED BY <2>1, <2>2, <2>3 DEF ToolsInv, PingDue
  <1>7. ExitHonest'
    BY DEF ToolsInv, TypeOK, Settled, Reached, ExitHonest, Tick, settings, ages
  <1>8. NoFalseAlarm'
    BY DEF ToolsInv, TypeOK, Settled, SilenceKnown, NoFalseAlarm, Tick, settings, ages
  <1>9. NameKept'
    BY DEF ToolsInv, TypeOK, Settled, MapAgrees, NameKept, Tick, settings, ages
  <1>. QED BY <1>1, <1>2, <1>3, <1>4, <1>5, <1>6, <1>7, <1>8, <1>9 DEF ToolsInv

(* Every step of a program, the clock, the gateway, an error or a signal.   *)
LEMMA ToolsStep == ToolsInv /\ [Next]_vars => ToolsInv'
  <1>. SUFFICES ASSUME ToolsInv, [Next]_vars PROVE ToolsInv'
    OBVIOUS
  <1>1. CASE Step
    BY <1>1, ParseOptsSafe, CreateSocketSafe, ConnackTimeoutSafe, WaitForTopSafe, SelectTimeoutSafe,
       FwdDtnPacketSafe, DumpSafe DEF Step
  <1>2. CASE \E p \in Received : Receive(p)
    BY <1>2, ReceiveConnackSafe, WaitForInvalidSafe, WaitForPacketSafe, DumpSafe DEF Receive
  <1>3. CASE UNCHANGED vars
    BY <1>3 DEF vars, ToolsInv, TypeOK, Settled, Reached, MapAgrees, SilenceKnown, PingDue,
                ExitHonest, NoFalseAlarm, NameKept, Accepts, PubAccepts, SubAccepts
  <1>. QED BY <1>1, <1>2, <1>3, TickSafe, RecvFailedSafe, TerminationHandlerSafe DEF Next

(* The invariant of the programs: where one is, what it has sent and been   *)
(* granted, and how the ages of its last packets relate.                    *)
THEOREM ToolsInvariance == Spec => []ToolsInv
  BY ToolsInit, ToolsStep, PTL DEF Spec

(* Every variable of the programs keeps its type.                           *)
THEOREM ToolsTyped == Spec => []TypeOK
  <1>. ToolsInv => TypeOK
    BY DEF ToolsInv
  <1>. QED BY ToolsInvariance, PTL

(* Exit status 0 of mqtt-sn-pub and mqtt-sn-sub means that what they were    *)
(* started for was granted by the gateway and sent.                         *)
THEOREM ExitsHonest == Spec => []ExitHonest
  <1>. ToolsInv => ExitHonest
    BY DEF ToolsInv
  <1>. QED BY ToolsInvariance, PTL

(* The keep alive error of wait_for only comes after a request went          *)
(* unanswered for the network timeout, unless packets were rejected.        *)
THEOREM NoFalseAlarms == Spec => []NoFalseAlarm
  <1>. ToolsInv => NoFalseAlarm
    BY DEF ToolsInv
  <1>. QED BY ToolsInvariance, PTL

(* A verbose program prints a message under the name it was told last.       *)
THEOREM NamesKept == Spec => []NameKept
  <1>. ToolsInv => NameKept
    BY DEF ToolsInv
  <1>. QED BY ToolsInvariance, PTL

(* Whatever the keep-alive period: as select wakes twice in it, the gateway *)
(* hears of the client within one and a half of it.                         *)
LEMMA KeepsAliveFollows == ToolsInv => KeepsAlive
  <1>. SUFFICES ASSUME ToolsInv, keep_alive > 1, pc # "exited", "dtn" \notin opts.flags
                PROVE  2 * idle <= 3 * keep_alive
    BY DEF KeepsAlive
  <1>1. pc \in {"recv", "top", "select"}
    <2>1. opts \in Options /\ keep_alive \in {0, opts.k}
      BY DEF ToolsInv, TypeOK, Settled
    <2>2. opts.tool # "dump"
      BY <2>1, OptionsAre
    <2>. QED BY <2>2 DEF ToolsInv, TypeOK, Settled
  <1>2. 2 * timeout <= keep_alive
    BY <1>1, TimeoutBound
  <1>3. idle \in Nat /\ slept \in Nat /\ timeout \in Nat /\ keep_alive \in Nat
    BY DEF ToolsInv, TypeOK
  <1>4. pc \in {"recv", "select"} => slept <= timeout
    BY DEF ToolsInv, Settled
  <1>5. CASE pc = "recv"
    <2>1. idle <= slept
      BY <1>5 DEF ToolsInv, PingDue
    <2>. QED BY <2>1, <1>2, <1>3, <1>4, <1>5
  <1>6. CASE pc = "top"
    BY <1>6 DEF ToolsInv, PingDue
  <1>7. CASE pc = "select"
    <2>1. idle < keep_alive + slept
      BY <1>7 DEF ToolsInv, PingDue
    <2>. QED BY <2>1, <1>2, <1>3, <1>4, <1>7
  <1>. QED BY <1>1, <1>5, <1>6, <1>7

(* A connected client is never silent for longer than one and a half of the *)
(* keep-alive period it announced.                                          *)
THEOREM ClientKeepsAlive == Spec => []KeepsAlive
  BY ToolsInvariance, KeepsAliveFollows, PTL

(* The arithmetic of the length bytes, for every argument: what does not    *)
(* fit one byte is refused or cut before it is sent.                        *)
LEMMA BytesFit == LengthsFit
  <1>1. ASSUME NEW n \in 0 .. 300
        PROVE  /\ send_register(n) \in {TooLong, [length |-> n + 6, has |-> n]}
               /\ send_publish(n) \in {TooLong, [length |-> n + 7, has |-> n]}
               /\ n <= 248 => send_subscribe_topic_name(n) = [length |-> n + 5, has |-> n]
               /\ n <= 22 => send_connect(n) = [length |-> n + 6, has |-> n]
    BY DEF send_register, send_publish, send_subscribe_topic_name, send_connect, Byte, AtMost,
           TooLong, MQTT_SN_MAX_PACKET_LENGTH
  <1>2. ASSUME NEW n \in 0 .. 300, NEW inner \in {2, 7, 8, 254, 255}
        PROVE  LET p == create_frwdencap_packet(n, inner)
               IN  /\ p.header + p.inner = p.total
                   /\ p.total <= MQTT_SN_MAX_PACKET_LENGTH + MQTT_SN_MAX_WIRELESS_NODE_ID_LENGTH + 3
    BY DEF create_frwdencap_packet, Byte, MQTT_SN_MAX_PACKET_LENGTH, MQTT_SN_MAX_WIRELESS_NODE_ID_LENGTH
  <1>3. ASSUME NEW n \in 0 .. 300
        PROVE  /\ opts.tool = "pub" =>
                      /\ send_register(n) \in {TooLong, [length |-> n + 6, has |-> n]}
                      /\ send_publish(n) \in {TooLong, [length |-> n + 7, has |-> n]}
               /\ opts.tool = "sub" /\ n <= 248 =>
                      send_subscribe_topic_name(n) = [length |-> n + 5, has |-> n]
               /\ n <= 22 => send_connect(n) = [length |-> n + 6, has |-> n]
    BY ONLY <1>1, n \in 0 .. 300
  <1>. QED BY ONLY <1>2, <1>3 DEF LengthsFit

(* Whatever a command line gives, each packet has the length it says.       *)
THEOREM LengthsAlwaysFit == Spec => []LengthsFit
  BY BytesFit, PTL

-----------------------------------------------------------------------------
(* The serial bridge: a read never takes a gap for a length.                *)
Bytes == [packet : Nat, value : Nat]
OnLine == Bytes \cup {Serial!Gap}
BridgeInv ==
    /\ Serial!TypeOK
    /\ wire \in Seq(OnLine) /\ (wire # <<>> => wire[1] # Serial!Gap)
    /\ b_sent \in Seq(Seq(Bytes))

LEMMA GapIsNoByte == Serial!Gap \notin Bytes /\ \A b \in OnLine : b # Serial!Gap => b \in Bytes
  BY DEF Serial!Gap, Serial!Byte, Bytes, OnLine

LEMMA FirstOne ==
    ASSUME NEW I \in SUBSET Nat, I # {}
    PROVE  Serial!Min(I) \in I /\ \A y \in I : Serial!Min(I) <= y
  <1>. DEFINE Less == {ss \in Nat \X Nat : ss[1] < ss[2]}
  <1>0. IsWellFoundedOn(Less, Nat)
    BY NatLessThanWellFounded DEF OpToRel
  <1>. HIDE DEF Less
  <1>1. PICK x \in I : \A y \in I : ~(<<y, x>> \in Less)
    BY <1>0, WFMin
  <1>2. \A y \in I : x <= y
    <2>. TAKE y \in I
    <2>1. <<y, x>> \notin Less /\ x \in Nat /\ y \in Nat
      BY <1>1
    <2>. QED BY <2>1 DEF Less
  <1>. QED BY <1>2 DEF Serial!Min

(* Where the first byte of a line is, and the first gap.                     *)
LEMMA FirstByteIs ==
    ASSUME NEW w \in Seq(OnLine)
    PROVE  /\ Serial!FirstByte(w) \in 0 .. Len(w)
           /\ Serial!FirstByte(w) = 0 => \A i \in 1 .. Len(w) : w[i] = Serial!Gap
           /\ Serial!FirstByte(w) # 0 =>
                w[Serial!FirstByte(w)] # Serial!Gap /\ \A i \in 1 .. Serial!FirstByte(w) - 1 : w[i] = Serial!Gap
  <1>. DEFINE I == {i \in 1 .. Len(w) : w[i] # Serial!Gap}
              f == Serial!FirstByte(w)
  <1>0. Len(w) \in Nat /\ I \in SUBSET Nat
    OBVIOUS
  <1>1. f = IF I # {} THEN Serial!Min(I) ELSE 0
    BY DEF Serial!FirstByte, Serial!SelectInSeq
  <1>2. CASE I = {}
    BY <1>0, <1>1, <1>2
  <1>3. CASE I # {}
    <2>1. f \in I /\ \A y \in I : f <= y
      BY <1>0, <1>1, <1>3, FirstOne
    <2>. HIDE DEF f
    <2>2. f \in 1 .. Len(w) /\ w[f] # Serial!Gap
      BY <2>1
    <2>3. ASSUME NEW i \in 1 .. f - 1 PROVE w[i] = Serial!Gap
      <3>1. i \in 1 .. Len(w) /\ ~(f <= i)
        BY <1>0, <2>2
      <3>. QED BY <2>1, <3>1
    <2>4. f \in 0 .. Len(w) /\ f # 0
      BY <1>0, <2>2
    <2>. QED BY <2>2, <2>3, <2>4 DEF f
  <1>. QED BY <1>2, <1>3

FirstGap(w) == Serial!SelectInSeq(w, LAMBDA b : b = Serial!Gap)

LEMMA FirstGapIs ==
    ASSUME NEW w \in Seq(OnLine)
    PROVE  /\ FirstGap(w) \in 0 .. Len(w)
           /\ FirstGap(w) = 0 => \A i \in 1 .. Len(w) : w[i] # Serial!Gap
           /\ FirstGap(w) # 0 =>
                w[FirstGap(w)] = Serial!Gap /\ \A i \in 1 .. FirstGap(w) - 1 : w[i] # Serial!Gap
  <1>. DEFINE I == {i \in 1 .. Len(w) : w[i] = Serial!Gap}
              f == FirstGap(w)
  <1>0. Len(w) \in Nat /\ I \in SUBSET Nat
    OBVIOUS
  <1>1. f = IF I # {} THEN Serial!Min(I) ELSE 0
    BY DEF FirstGap, Serial!SelectInSeq
  <1>2. CASE I = {}
    BY <1>0, <1>1, <1>2
  <1>3. CASE I # {}
    <2>1. f \in I /\ \A y \in I : f <= y
      BY <1>0, <1>1, <1>3, FirstOne
    <2>. HIDE DEF f
    <2>2. f \in 1 .. Len(w) /\ w[f] = Serial!Gap
      BY <2>1
    <2>3. ASSUME NEW i \in 1 .. f - 1 PROVE w[i] # Serial!Gap
      <3>1. i \in 1 .. Len(w) /\ ~(f <= i)
        BY <1>0, <2>2
      <3>. QED BY <2>1, <3>1
    <2>4. f \in 0 .. Len(w) /\ f # 0
      BY <1>0, <2>2
    <2>. QED BY <2>2, <2>3, <2>4 DEF f
  <1>. QED BY <1>2, <1>3

(* Line drops leading gaps and nothing else.                                *)
LEMMA LineDrops ==
    ASSUME NEW w \in Seq(OnLine)
    PROVE  \/ Serial!Line(w) = <<>> /\ \A i \in 1 .. Len(w) : w[i] = Serial!Gap
           \/ \E f \in 1 .. Len(w) :
                /\ w[f] # Serial!Gap /\ \A i \in 1 .. f - 1 : w[i] = Serial!Gap
                /\ Serial!Line(w) \in Seq(OnLine) /\ Len(Serial!Line(w)) = Len(w) - f + 1
                /\ \A i \in 1 .. Len(w) - f + 1 : Serial!Line(w)[i] = w[f + i - 1]
  <1>. DEFINE f == Serial!FirstByte(w)
  <1>0. Len(w) \in Nat /\ \A i \in 1 .. Len(w) : w[i] \in OnLine
    OBVIOUS
  <1>1. CASE f = 0
    BY <1>1, FirstByteIs DEF Serial!Line
  <1>2. CASE f # 0
    <2>1. f \in 1 .. Len(w) /\ w[f] # Serial!Gap /\ \A i \in 1 .. f - 1 : w[i] = Serial!Gap
      BY <1>0, <1>2, FirstByteIs
    <2>2. Serial!Line(w) = SubSeq(w, f, Len(w))
      BY <1>2 DEF Serial!Line
    <2>. HIDE DEF f
    <2>3. /\ SubSeq(w, f, Len(w)) \in Seq(OnLine)
          /\ Len(SubSeq(w, f, Len(w))) = Len(w) - f + 1
          /\ \A i \in 1 .. Len(w) - f + 1 : SubSeq(w, f, Len(w))[i] = w[f + i - 1]
      <3>1. f \in Int /\ Len(w) \in Int /\ f <= Len(w) /\ \A i \in f .. Len(w) : w[i] \in OnLine
        BY <1>0, <2>1
      <3>. QED BY <3>1, SubSeqProperties
    <2>. QED BY <2>1, <2>2, <2>3
  <1>. QED BY <1>1, <1>2

LEMMA LineIs ==
    ASSUME NEW w \in Seq(OnLine)
    PROVE  Serial!Line(w) \in Seq(OnLine) /\ (Serial!Line(w) # <<>> => Serial!Line(w)[1] # Serial!Gap)
  <1>1. CASE Serial!Line(w) = <<>>
    BY <1>1
  <1>2. CASE Serial!Line(w) # <<>>
    <2>1. PICK f \in 1 .. Len(w) :
              /\ w[f] # Serial!Gap /\ Serial!Line(w) \in Seq(OnLine)
              /\ \A i \in 1 .. Len(w) - f + 1 : Serial!Line(w)[i] = w[f + i - 1]
      BY <1>2, LineDrops
    <2>2. 1 \in 1 .. Len(w) - f + 1 /\ f + 1 - 1 = f
      BY <2>1
    <2>. QED BY <2>1, <2>2
  <1>. QED BY <1>1, <1>2

(* A line that does not begin with a gap stays, one that begins with a       *)
(* single gap loses it.                                                     *)
LEMMA LineStays ==
    ASSUME NEW w \in Seq(OnLine), w # <<>> => w[1] # Serial!Gap
    PROVE  Len(Serial!Line(w)) = Len(w) /\ \A i \in 1 .. Len(w) : Serial!Line(w)[i] = w[i]
  <1>0. Len(w) \in Nat
    OBVIOUS
  <1>1. CASE Serial!Line(w) = <<>> /\ \A i \in 1 .. Len(w) : w[i] = Serial!Gap
    <2>1. w = <<>>
      <3>1. Len(w) >= 1 => 1 \in 1 .. Len(w) /\ w # <<>>
        BY <1>0
      <3>. QED BY <1>0, <1>1, <3>1
    <2>. QED BY <1>1, <2>1
  <1>2. ASSUME NEW f \in 1 .. Len(w), w[f] # Serial!Gap, \A i \in 1 .. f - 1 : w[i] = Serial!Gap,
               Len(Serial!Line(w)) = Len(w) - f + 1,
               \A i \in 1 .. Len(w) - f + 1 : Serial!Line(w)[i] = w[f + i - 1]
        PROVE  Len(Serial!Line(w)) = Len(w) /\ \A i \in 1 .. Len(w) : Serial!Line(w)[i] = w[i]
    <2>1. w # <<>>
      BY <1>0
    <2>2. f = 1
      <3>1. f # 1 => 1 \in 1 .. f - 1
        OBVIOUS
      <3>. QED BY <1>2, <2>1, <3>1
    <2>3. Len(w) - f + 1 = Len(w) /\ \A i \in 1 .. Len(w) : f + i - 1 = i
      BY <1>0, <2>2
    <2>. QED BY <1>2, <2>3
  <1>. QED BY <1>1, <1>2, LineDrops

LEMMA LineSkips ==
    ASSUME NEW w \in Seq(OnLine), w # <<>>, w[1] = Serial!Gap, Len(w) > 1 => w[2] # Serial!Gap
    PROVE  Len(Serial!Line(w)) = Len(w) - 1 /\ \A i \in 1 .. Len(w) - 1 : Serial!Line(w)[i] = w[i + 1]
  <1>0. Len(w) \in Nat /\ Len(w) >= 1
    BY EmptySeq
  <1>1. CASE Serial!Line(w) = <<>> /\ \A i \in 1 .. Len(w) : w[i] = Serial!Gap
    <2>1. Len(w) = 1
      <3>1. Len(w) > 1 => 2 \in 1 .. Len(w)
        BY <1>0
      <3>2. 2 \in 1 .. Len(w) => w[2] = Serial!Gap
        BY <1>1
      <3>3. ~(Len(w) > 1)
        BY <3>1, <3>2
      <3>. DEFINE m == Len(w)
      <3>4. m \in Nat /\ m >= 1 /\ ~(m > 1)
        BY <1>0, <3>3
      <3>. HIDE DEF m
      <3>5. m = 1
        BY <3>4
      <3>. QED BY <3>5 DEF m
    <2>. QED BY <1>1, <2>1
  <1>2. ASSUME NEW f \in 1 .. Len(w), w[f] # Serial!Gap, \A i \in 1 .. f - 1 : w[i] = Serial!Gap,
               Len(Serial!Line(w)) = Len(w) - f + 1,
               \A i \in 1 .. Len(w) - f + 1 : Serial!Line(w)[i] = w[f + i - 1]
        PROVE  Len(Serial!Line(w)) = Len(w) - 1 /\ \A i \in 1 .. Len(w) - 1 : Serial!Line(w)[i] = w[i + 1]
    <2>1. f # 1
      BY <1>2
    <2>2. f = 2
      <3>1. f > 2 => 2 \in 1 .. f - 1 /\ Len(w) > 1
        BY <1>0
      <3>2. ~(f > 2)
        BY <1>2, <3>1
      <3>. QED BY <2>1, <3>2
    <2>3. Len(w) - f + 1 = Len(w) - 1 /\ \A i \in 1 .. Len(w) - 1 : f + i - 1 = i + 1
      BY <1>0, <2>2
    <2>. QED BY <1>2, <2>3
  <1>. QED BY <1>1, <1>2, LineDrops

(* What the line carries may grow by bytes.                                 *)
LEMMA MoreBytes ==
    ASSUME NEW w \in Seq(OnLine), w # <<>> => w[1] # Serial!Gap, NEW q \in Seq(Bytes)
    PROVE  w \o q \in Seq(OnLine) /\ (w \o q # <<>> => (w \o q)[1] # Serial!Gap)
  <1>1. q \in Seq(OnLine)
    BY SeqMonotonic DEF OnLine
  <1>2. /\ w \o q \in Seq(OnLine) /\ Len(w \o q) = Len(w) + Len(q)
        /\ \A i \in 1 .. Len(w) + Len(q) : (w \o q)[i] = IF i <= Len(w) THEN w[i] ELSE q[i - Len(w)]
    BY <1>1, ConcatProperties
  <1>3. Len(w) \in Nat /\ Len(q) \in Nat
    OBVIOUS
  <1>4. ASSUME w \o q # <<>> PROVE (w \o q)[1] # Serial!Gap
    <2>1. 1 \in 1 .. Len(w) + Len(q)
      BY <1>2, <1>3, <1>4
    <2>2. CASE Len(w) >= 1
      BY <1>2, <2>1, <2>2
    <2>3. CASE Len(w) = 0
      <3>1. (w \o q)[1] = q[1] /\ 1 \in 1 .. Len(q)
        BY <1>2, <1>3, <2>1, <2>3
      <3>2. q[1] \in Bytes
        BY <3>1, ElementOfSeq
      <3>3. Serial!Gap \notin Bytes
        BY GapIsNoByte
      <3>4. q[1] # Serial!Gap
        BY <3>2, <3>3
      <3>. QED BY <3>1, <3>4
    <2>4. Len(w) >= 1 \/ Len(w) = 0
      BY <1>3
    <2>. QED BY <2>2, <2>3, <2>4, Zenon
  <1>. QED BY <1>2, <1>4

LEMMA Part ==
    ASSUME NEW S, NEW s \in Seq(S), NEW m \in Nat \ {0}, NEW n \in Int, n <= Len(s)
    PROVE  SubSeq(s, m, n) \in Seq(S)
  <1>1. m \in Int /\ n \in Int /\ \A i \in m .. n : s[i] \in S
    <2>1. Len(s) \in Nat
      OBVIOUS
    <2>2. ASSUME NEW i \in m .. n PROVE i \in 1 .. Len(s)
      BY <2>1
    <2>. QED BY <2>2, ElementOfSeq
  <1>. QED BY <1>1, SubSeqProperties

IsPacket(q, n, k) ==
    /\ q \in Seq(Bytes) /\ q[1].value = n /\ (n > 0 => Len(q) = n) /\ (n = 0 => Len(q) = 1)
    /\ Len(q) >= n /\ \A i \in 1 .. Len(q) : q[i].packet = k

LEMMA PacketIs ==
    ASSUME BridgeInv, NEW n \in Nat, NEW c \in Nat
    PROVE  IsPacket(Serial!Packet(n, c), n, Len(b_sent) + 1)
  <1>. DEFINE k == Len(b_sent) + 1
              first == Serial!Byte(k, n)
              byte == Serial!Byte(k, c)
              h == <<first>>
              f == [i \in 1 .. n - 1 |-> byte]
              q == Serial!Packet(n, c)
  <1>1. k \in Nat
    BY DEF BridgeInv
  <1>2. first \in Bytes /\ byte \in Bytes /\ first.value = n /\ first.packet = k /\ byte.packet = k
    BY <1>1 DEF Serial!Byte, Bytes
  <1>. HIDE DEF k, first, byte
  <1>3. h \in Seq(Bytes) /\ Len(h) = 1 /\ h[1] = first
    BY <1>2
  <1>4. f \in Seq(Bytes) /\ Len(f) = (IF n = 0 THEN 0 ELSE n - 1) /\ \A i \in 1 .. Len(f) : f[i] = byte
    <2>1. CASE n = 0
      <3>1. 1 .. n - 1 = {} /\ f \in [1 .. 0 -> Bytes]
        BY <1>2, <2>1
      <3>2. f = <<>>
        BY <3>1
      <3>. QED BY <2>1, <3>2, EmptySeq
    <2>2. CASE n # 0
      <3>1. n - 1 \in Nat /\ f \in [1 .. n - 1 -> Bytes]
        BY <1>2, <2>2
      <3>2. f \in Seq(Bytes) /\ Len(f) = n - 1
        BY <3>1
      <3>. QED BY <2>2, <3>2
    <2>. QED BY <2>1, <2>2
  <1>5. q = h \o f
    BY DEF Serial!Packet, h, f, k, first, byte
  <1>. HIDE DEF h, f
  <1>6. q \in Seq(Bytes) /\ Len(q) = Len(h) + Len(f)
    BY <1>3, <1>4, <1>5, ConcatProperties
  <1>7. \A i \in 1 .. Len(h) + Len(f) : q[i] = IF i <= Len(h) THEN h[i] ELSE f[i - Len(h)]
    <2>1. \A i \in 1 .. Len(h) + Len(f) : (h \o f)[i] = IF i <= Len(h) THEN h[i] ELSE f[i - Len(h)]
      BY <1>3, <1>4, ConcatProperties
    <2>. HIDE DEF q
    <2>. QED BY <1>5, <2>1
  <1>8. Len(f) \in Nat /\ (n > 0 => Len(f) = n - 1) /\ (n = 0 => Len(f) = 0)
    BY <1>4
  <1>. HIDE DEF q
  <1>9. Len(q) >= n /\ (n > 0 => Len(q) = n) /\ (n = 0 => Len(q) = 1)
    BY <1>3, <1>6, <1>8
  <1>10. q[1].value = n
    <2>1. 1 \in 1 .. Len(h) + Len(f) /\ 1 <= Len(h)
      BY <1>3, <1>8
    <2>. QED BY <1>2, <1>3, <1>7, <2>1
  <1>11. ASSUME NEW i \in 1 .. Len(q) PROVE q[i].packet = k
    <2>1. i = 1 \/ (~(i <= 1) /\ i - 1 \in 1 .. Len(f))
      BY <1>3, <1>6, <1>8
    <2>2. q[i] = IF i <= 1 THEN h[i] ELSE f[i - 1]
      BY <1>3, <1>6, <1>7
    <2>3. q[i] = first \/ q[i] = byte
      <3>1. CASE i = 1
        BY <1>3, <2>2, <3>1
      <3>2. CASE ~(i <= 1) /\ i - 1 \in 1 .. Len(f)
        BY <1>4, <2>2, <3>2
      <3>. QED BY <2>1, <3>1, <3>2
    <2>. QED BY <1>2, <2>3
  <1>. QED BY <1>6, <1>9, <1>10, <1>11 DEF IsPacket, q, k

LEMMA BridgeInit == ASSUME Serial!Init PROVE BridgeInv
  <1>1. Serial!TypeOK
    BY ProgramsAssumption DEF Serial!Init, Serial!TypeOK, Serial!BridgeAssumption
  <1>2. wire = <<>> /\ b_sent = <<>>
    BY DEF Serial!Init
  <1>. QED BY <1>1, <1>2, EmptySeq DEF BridgeInv

LEMMA ReadLength == ASSUME BridgeInv, Serial!serial_read_length PROVE BridgeInv'
  <1>1. /\ b_pc = "select" /\ wire # <<>> /\ length' = Head(wire).value /\ wire' = Serial!Line(Tail(wire))
        /\ b_pc' = (IF length' \in {0, 1} THEN "select" ELSE "rest")
        /\ UNCHANGED <<b_keep_running, frwdencap, answers, faults, b_sent>>
    BY DEF Serial!serial_read_length, Serial!NoRest
  <1>2. Head(wire) \in OnLine /\ Head(wire) = wire[1] /\ Tail(wire) \in Seq(OnLine)
    BY <1>1, HeadTailProperties DEF BridgeInv
  <1>3. Head(wire) \in Bytes
    BY <1>1, <1>2, GapIsNoByte DEF BridgeInv
  <1>4. length' \in Nat
    BY <1>1, <1>3 DEF Bytes
  <1>5. b_pc' \in {"select", "rest"} /\ (b_pc' = "rest" => length' > 1)
    BY <1>1, <1>4
  <1>6. Serial!TypeOK'
    BY <1>1, <1>4, <1>5 DEF BridgeInv, Serial!TypeOK
  <1>. QED BY <1>1, <1>2, <1>6, LineIs DEF BridgeInv

LEMMA AvailableIs == ASSUME BridgeInv, b_pc = "rest" PROVE Serial!Available \in Nat
  <1>. DEFINE I == {i \in 1 .. Len(wire) : wire[i] = Serial!Gap}
              gap == IF I # {} THEN Serial!Min(I) ELSE 0
              run == IF gap = 0 THEN Len(wire) ELSE gap - 1
  <1>1. Serial!Available = IF run < length - 1 THEN run ELSE length - 1
    BY DEF Serial!Available, Serial!Before, Serial!SelectInSeq
  <1>2. Len(wire) \in Nat /\ length \in Nat /\ length > 1
    BY DEF BridgeInv, Serial!TypeOK
  <1>3. gap \in Nat
    <2>1. I \in SUBSET Nat
      OBVIOUS
    <2>2. CASE I # {}
      BY <2>1, <2>2, FirstOne
    <2>. QED BY <2>2
  <1>. HIDE DEF gap
  <1>4. run \in Nat
    BY <1>2, <1>3
  <1>. QED BY <1>1, <1>2, <1>4

LEMMA ReadRest == ASSUME BridgeInv, Serial!serial_read_rest PROVE BridgeInv'
  <1>1. /\ b_pc = "rest" /\ b_pc' = "select" /\ wire' = Serial!Line(SubSeq(wire, Serial!Available + 1, Len(wire)))
        /\ UNCHANGED <<b_keep_running, frwdencap, length, answers, faults, b_sent>>
    BY DEF Serial!serial_read_rest
  <1>2. Serial!Available + 1 \in Nat \ {0} /\ Len(wire) \in Int
    BY <1>1, AvailableIs DEF BridgeInv
  <1>3. SubSeq(wire, Serial!Available + 1, Len(wire)) \in Seq(OnLine)
    BY <1>2, Part DEF BridgeInv
  <1>4. Serial!TypeOK'
    BY <1>1 DEF BridgeInv, Serial!TypeOK
  <1>. QED BY <1>1, <1>3, <1>4, LineIs DEF BridgeInv

LEMMA DeviceSends ==
    ASSUME BridgeInv, NEW n \in PacketLengths, NEW c \in Contents, Serial!device_sends(n, c) PROVE BridgeInv'
  <1>1. /\ b_sent' = Append(b_sent, Serial!Packet(n, c)) /\ wire' = wire \o Serial!Packet(n, c)
        /\ UNCHANGED <<b_pc, b_keep_running, frwdencap, length, answers, faults>>
    BY DEF Serial!device_sends
  <1>2. Serial!Packet(n, c) \in Seq(Bytes)
    BY ProgramsAssumption, PacketIs DEF Serial!BridgeAssumption, IsPacket
  <1>3. Serial!TypeOK'
    BY <1>1 DEF BridgeInv, Serial!TypeOK
  <1>4. b_sent' \in Seq(Seq(Bytes))
    BY <1>1, <1>2, AppendProperties DEF BridgeInv
  <1>. QED BY <1>1, <1>2, <1>3, <1>4, MoreBytes DEF BridgeInv

(* A byte is lost, or a gap comes within a packet.                          *)
LEMMA LineFails ==
    ASSUME BridgeInv, NEW n \in PacketLengths, NEW c \in Contents, Serial!line_fails(n, c) PROVE BridgeInv'
  <1>. DEFINE p == Serial!Packet(n, c)
  <1>1. /\ faults < MaxFaults /\ faults' = faults + 1 /\ b_sent' = Append(b_sent, p)
        /\ UNCHANGED <<b_pc, b_keep_running, frwdencap, length, answers>>
    BY DEF Serial!line_fails
  <1>2. PICK i \in 1 .. n :
            wire' = wire \o Serial!RemoveAt(p, i) \/ wire' = Serial!Line(wire \o Serial!InsertAt(p, i, Serial!Gap))
    BY DEF Serial!line_fails
  <1>3. p \in Seq(Bytes) /\ n \in Nat /\ Len(p) >= n
    BY ProgramsAssumption, PacketIs DEF Serial!BridgeAssumption, IsPacket
  <1>. HIDE DEF p
  <1>4. b_sent' \in Seq(Seq(Bytes))
    BY <1>1, <1>3, AppendProperties DEF BridgeInv
  <1>5. faults' \in 0 .. MaxFaults
    BY <1>1, ProgramsAssumption DEF BridgeInv, Serial!TypeOK, Serial!BridgeAssumption
  <1>6. Serial!TypeOK'
    BY <1>1, <1>5 DEF BridgeInv, Serial!TypeOK
  <1>7. Len(p) \in Nat /\ i \in Nat \ {0} /\ i + 1 \in Nat \ {0}
    BY <1>2, <1>3
  <1>8. SubSeq(p, i, Len(p)) \in Seq(Bytes) /\ SubSeq(p, i + 1, Len(p)) \in Seq(Bytes)
    BY <1>3, <1>7, Part
  <1>9. SubSeq(p, 1, i - 1) \in Seq(Bytes)
    <2>1. i - 1 \in Int /\ i - 1 <= Len(p) /\ 1 \in Nat \ {0}
      BY <1>2, <1>3, <1>7
    <2>. QED BY <1>3, <2>1, Part
  <1>10. Serial!RemoveAt(p, i) \in Seq(Bytes)
    BY <1>8, <1>9, ConcatProperties DEF Serial!RemoveAt
  <1>11. wire \o Serial!InsertAt(p, i, Serial!Gap) \in Seq(OnLine)
    <2>1. SubSeq(p, i, Len(p)) \in Seq(OnLine) /\ SubSeq(p, 1, i - 1) \in Seq(OnLine)
      BY <1>8, <1>9, SeqMonotonic DEF OnLine
    <2>2. <<Serial!Gap>> \in Seq(OnLine)
      BY DEF OnLine
    <2>3. SubSeq(p, 1, i - 1) \o <<Serial!Gap>> \in Seq(OnLine)
      BY <2>1, <2>2, ConcatProperties
    <2>4. Serial!InsertAt(p, i, Serial!Gap) \in Seq(OnLine)
      BY <2>1, <2>3, ConcatProperties DEF Serial!InsertAt
    <2>. QED BY <2>4, ConcatProperties DEF BridgeInv
  <1>12. wire' \in Seq(OnLine) /\ (wire' # <<>> => wire'[1] # Serial!Gap)
    <2>1. CASE wire' = wire \o Serial!RemoveAt(p, i)
      BY <1>10, <2>1, MoreBytes DEF BridgeInv
    <2>2. CASE wire' = Serial!Line(wire \o Serial!InsertAt(p, i, Serial!Gap))
      BY <1>11, <2>2, LineIs
    <2>. QED BY <1>2, <2>1, <2>2
  <1>. QED BY <1>4, <1>6, <1>12 DEF BridgeInv

LEMMA LineQuiet == ASSUME BridgeInv, Serial!line_quiet PROVE BridgeInv'
  <1>1. /\ wire # <<>> /\ wire' = Append(wire, Serial!Gap)
        /\ UNCHANGED <<b_pc, b_keep_running, frwdencap, length, answers, faults, b_sent>>
    BY DEF Serial!line_quiet
  <1>2. Serial!Gap \in OnLine
    BY DEF OnLine
  <1>3. Append(wire, Serial!Gap) \in Seq(OnLine) /\ Append(wire, Serial!Gap)[1] = wire[1]
    <2>1. wire \in Seq(OnLine) /\ 1 \in 1 .. Len(wire)
      BY <1>1 DEF BridgeInv
    <2>. QED BY <1>2, <2>1, AppendProperties
  <1>4. Serial!TypeOK'
    BY <1>1 DEF BridgeInv, Serial!TypeOK
  <1>. QED BY <1>1, <1>3, <1>4 DEF BridgeInv

LEMMA BridgeRest ==
    ASSUME BridgeInv,
           \/ Serial!serial_write_packet \/ Serial!termination_handler \/ Serial!stops \/ Serial!gateway_sends
           \/ UNCHANGED Serial!vars
    PROVE  BridgeInv'
  <1>1. UNCHANGED <<wire, b_sent, length, frwdencap, faults>>
    BY DEF Serial!serial_write_packet, Serial!termination_handler, Serial!stops, Serial!gateway_sends, Serial!vars,
           Serial!line
  <1>2. b_keep_running' \in BOOLEAN
    BY DEF BridgeInv, Serial!TypeOK, Serial!serial_write_packet, Serial!termination_handler, Serial!stops,
           Serial!gateway_sends, Serial!vars
  <1>3. b_pc' \in {b_pc, "exited"}
    BY DEF Serial!serial_write_packet, Serial!termination_handler, Serial!stops, Serial!gateway_sends, Serial!vars
  <1>4. answers' = answers \/ (answers < MaxPackets /\ answers' = answers + 1)
    BY DEF Serial!serial_write_packet, Serial!termination_handler, Serial!stops, Serial!gateway_sends, Serial!vars
  <1>5. answers' \in 0 .. MaxPackets
    BY <1>4, ProgramsAssumption DEF BridgeInv, Serial!TypeOK, Serial!BridgeAssumption
  <1>6. Serial!TypeOK'
    BY <1>1, <1>2, <1>3, <1>5 DEF BridgeInv, Serial!TypeOK
  <1>. QED BY <1>1, <1>6 DEF BridgeInv

LEMMA BridgeStep == ASSUME BridgeInv, [Serial!Next]_(Serial!vars) PROVE BridgeInv'
  <1>1. CASE Serial!Bridge
    BY <1>1, ReadLength, ReadRest, BridgeRest DEF Serial!Bridge
  <1>2. CASE \E n \in PacketLengths, c \in Contents : Serial!device_sends(n, c) \/ Serial!line_fails(n, c)
    BY <1>2, DeviceSends, LineFails
  <1>3. CASE Serial!line_quiet
    BY <1>3, LineQuiet
  <1>4. CASE Serial!serial_write_packet \/ Serial!termination_handler \/ Serial!gateway_sends \/ UNCHANGED Serial!vars
    BY <1>4, BridgeRest
  <1>. QED BY <1>1, <1>2, <1>3, <1>4 DEF Serial!Next

-----------------------------------------------------------------------------
(* The order of the bridge's packets.  t is what came on the line since some *)
(* time, the packets s from lo on in it in blocks: block k begins at p[k],  *)
(* has what was not lost of the packet, and may be followed by a gap, as    *)
(* every packet of D, that lost a byte, is before the next.                 *)
Size(s, D, k) == IF k \in D THEN Len(s[k]) - 1 ELSE Len(s[k])

On(t, s, D, k, a) ==
    \A i \in 1 .. Size(s, D, k) :
        t[a + i - 1] \in Bytes /\ (k \notin D \/ i = 1 => t[a + i - 1] = s[k][i])

Follows(t, s, D, k, p) ==
    /\ \/ p[k + 1] = p[k] + Size(s, D, k)
       \/ p[k + 1] = p[k] + Size(s, D, k) + 1 /\ t[p[k] + Size(s, D, k)] = Serial!Gap
    /\ k \in D /\ k < Len(s) => p[k + 1] = p[k] + Size(s, D, k) + 1

Layout(t, s, D, lo, p) ==
    /\ \A k \in lo .. Len(s) : Follows(t, s, D, k, p)
    /\ \A k \in lo .. Len(s) : On(t, s, D, k, p[k])
    /\ \A k \in lo .. Len(s) + 1 : p[k] <= p[Len(s) + 1]

(* w is what t has after r.                                                 *)
Carries(w, t, r, e) == Len(w) = e - r /\ \A i \in 1 .. Len(w) : w[i] = t[r + i]

(* Packets of the device, and those that lost a byte and can be told from    *)
(* what follows.                                                            *)
Shape(s) ==
    /\ s \in Seq(Seq(Bytes))
    /\ \A k \in 1 .. Len(s) :
           /\ Len(s[k]) >= 1 /\ \A i \in 1 .. Len(s[k]) : s[k][i].packet = k
           /\ s[k][1].value = Len(s[k]) \/ (Len(s[k]) = 1 /\ s[k][1].value = 0)

Apart(s, D) == D \subseteq 1 .. Len(s) /\ \A k \in D : Len(s[k]) > 2

LEMMA SizeIs ==
    ASSUME NEW s, NEW D, Shape(s), Apart(s, D), NEW k \in 1 .. Len(s)
    PROVE  /\ s[k] \in Seq(Bytes) /\ Len(s[k]) \in Nat \ {0} /\ Size(s, D, k) \in Nat \ {0}
           /\ k \in D => Size(s, D, k) = Len(s[k]) - 1 /\ Len(s[k]) > 2
           /\ k \notin D => Size(s, D, k) = Len(s[k])
  <1>1. s[k] \in Seq(Bytes)
    BY ElementOfSeq DEF Shape
  <1>2. Len(s[k]) \in Nat /\ Len(s[k]) >= 1
    BY <1>1 DEF Shape
  <1>3. k \in D => Len(s[k]) > 2
    BY DEF Apart
  <1>4. CASE k \in D
    <2>1. Size(s, D, k) = Len(s[k]) - 1
      BY <1>4 DEF Size
    <2>. DEFINE m == Len(s[k])
    <2>2. m - 1 \in Nat \ {0}
      <3>1. m \in Nat /\ m > 2
        BY <1>2, <1>3, <1>4
      <3>. HIDE DEF m
      <3>. QED BY <3>1
    <2>. QED BY <1>1, <1>2, <1>3, <1>4, <2>1, <2>2
  <1>5. CASE k \notin D
    <2>1. Size(s, D, k) = Len(s[k])
      BY <1>5 DEF Size
    <2>. QED BY <1>1, <1>2, <1>5, <2>1
  <1>. QED BY <1>4, <1>5

(* The block at which the bridge is, is on the line to its end.             *)
LEMMA BlockIs ==
    ASSUME NEW s, NEW D, Shape(s), Apart(s, D), NEW t, NEW p \in [Int -> Int], NEW lo \in 1 .. Len(s),
           Layout(t, s, D, lo, p)
    PROVE  /\ p[lo] \in Int /\ p[lo + 1] \in Int /\ p[Len(s) + 1] \in Int
           /\ Follows(t, s, D, lo, p) /\ On(t, s, D, lo, p[lo])
           /\ p[lo] + Size(s, D, lo) <= p[lo + 1] /\ p[lo + 1] <= p[Len(s) + 1]
  <1>1. Len(s) \in Nat
    BY DEF Shape
  <1>2. lo \in Int /\ lo + 1 \in Int /\ Len(s) + 1 \in Int /\ lo \in lo .. Len(s) /\ lo + 1 \in lo .. Len(s) + 1
    BY <1>1
  <1>3. p[lo] \in Int /\ p[lo + 1] \in Int /\ p[Len(s) + 1] \in Int
    BY <1>2
  <1>4. Follows(t, s, D, lo, p) /\ On(t, s, D, lo, p[lo])
    BY <1>2 DEF Layout
  <1>5. p[lo + 1] <= p[Len(s) + 1]
    BY <1>2 DEF Layout
  <1>6. Size(s, D, lo) \in Nat
    BY SizeIs
  <1>7. p[lo] + Size(s, D, lo) <= p[lo + 1]
    <2>. DEFINE a == p[lo]
                b == p[lo + 1]
                z == Size(s, D, lo)
    <2>1. b = a + z \/ b = a + z + 1
      BY <1>4 DEF Follows
    <2>2. a \in Int /\ b \in Int /\ z \in Nat
      BY <1>3, <1>6
    <2>3. a + z <= b
      <3>. HIDE DEF a, b, z
      <3>. QED BY <2>1, <2>2
    <2>. QED BY <2>3
  <1>. QED BY <1>3, <1>4, <1>5, <1>7

LEMMA LayoutLater ==
    ASSUME NEW s, NEW D, Shape(s), NEW t, NEW p, NEW lo \in 1 .. Len(s), Layout(t, s, D, lo, p)
    PROVE  Layout(t, s, D, lo + 1, p)
  <1>1. Len(s) \in Nat
    BY DEF Shape
  <1>2. lo + 1 .. Len(s) \subseteq lo .. Len(s) /\ lo + 1 .. Len(s) + 1 \subseteq lo .. Len(s) + 1
    BY <1>1
  <1>. QED BY <1>2 DEF Layout

(* After a block the line carries the next one, its gap apart.              *)
LEMMA NextBlock ==
    ASSUME NEW s, NEW D, Shape(s), Apart(s, D), NEW t, NEW p \in [Int -> Int], NEW lo \in 1 .. Len(s),
           Layout(t, s, D, lo, p), NEW w \in Seq(OnLine),
           Carries(w, t, p[lo] + Size(s, D, lo) - 1, p[Len(s) + 1] - 1)
    PROVE  Carries(Serial!Line(w), t, p[lo + 1] - 1, p[Len(s) + 1] - 1)
  <1>. DEFINE z == Size(s, D, lo)
              a == p[lo]
              b == p[lo + 1]
              e == p[Len(s) + 1] - 1
              n == Len(s)
              m == Len(w)
  <1>1. n \in Nat /\ m \in Nat /\ lo \in 1 .. n
    <2>1. Len(s) \in Nat
      BY DEF Shape
    <2>2. Len(w) \in Nat
      OBVIOUS
    <2>. QED BY <2>1, <2>2
  <1>2. z \in Nat \ {0}
    BY SizeIs
  <1>3. a \in Int /\ b \in Int /\ e \in Int /\ a + z <= b /\ b <= e + 1
    <2>1. p[lo] \in Int /\ p[lo + 1] \in Int /\ p[Len(s) + 1] \in Int
      BY BlockIs
    <2>2. a + z <= b /\ b <= p[Len(s) + 1]
      BY BlockIs
    <2>. DEFINE end == p[Len(s) + 1]
    <2>3. b <= end - 1 + 1 /\ end - 1 \in Int
      <3>1. end \in Int /\ b \in Int /\ b <= end
        BY <2>1, <2>2
      <3>. HIDE DEF end, b
      <3>. QED BY <3>1
    <2>. QED BY <2>1, <2>2, <2>3
  <1>4. m = e - (a + z - 1) /\ \A i \in 1 .. m : w[i] = t[a + z - 1 + i]
    BY DEF Carries
  <1>5. b = a + z \/ (b = a + z + 1 /\ t[a + z] = Serial!Gap)
    <2>1. Follows(t, s, D, lo, p)
      BY BlockIs
    <2>. QED BY <2>1 DEF Follows
  <1>6. lo = n => b = e + 1
    <2>1. p[Len(s) + 1] \in Int
      BY BlockIs
    <2>. QED BY <2>1
  <1>7. b <= e => t[b] # Serial!Gap
    <2>1. ASSUME b <= e PROVE lo + 1 \in 1 .. Len(s)
      <3>. HIDE DEF b, e
      <3>1. lo # n
        BY <1>3, <1>6, <2>1
      <3>. QED BY <1>1, <3>1
    <2>2. ASSUME lo + 1 \in 1 .. Len(s) PROVE t[p[lo + 1]] \in Bytes
      <3>1. Layout(t, s, D, lo + 1, p)
        BY LayoutLater
      <3>2. On(t, s, D, lo + 1, p[lo + 1])
        BY <2>2, <3>1, BlockIs
      <3>3. Size(s, D, lo + 1) \in Nat \ {0}
        BY <2>2, SizeIs
      <3>4. 1 \in 1 .. Size(s, D, lo + 1)
        <4>. DEFINE y == Size(s, D, lo + 1)
        <4>1. y \in Nat \ {0}
          BY <3>3
        <4>2. 1 \in 1 .. y
          <5>. HIDE DEF y
          <5>. QED BY <4>1
        <4>. QED BY <4>2
      <3>5. t[p[lo + 1] + 1 - 1] \in Bytes
        BY <3>2, <3>4 DEF On
      <3>6. p[lo + 1] + 1 - 1 = p[lo + 1]
        BY <1>3
      <3>. QED BY <3>5, <3>6
    <2>. QED BY <2>1, <2>2, GapIsNoByte
  <1>8. ASSUME Len(Serial!Line(w)) = e - (b - 1), \A i \in 1 .. Len(Serial!Line(w)) : Serial!Line(w)[i] = t[b - 1 + i]
        PROVE  Carries(Serial!Line(w), t, p[lo + 1] - 1, p[Len(s) + 1] - 1)
    BY <1>8 DEF Carries
  <1>. HIDE DEF z, a, b, e, n
  <1>9. CASE b = a + z
    <2>1. w # <<>> => w[1] # Serial!Gap
      <3>1. ASSUME w # <<>> PROVE m >= 1
        BY <1>1, <3>1, EmptySeq
      <3>2. ASSUME m >= 1 PROVE 1 \in 1 .. m /\ b <= e /\ a + z - 1 + 1 = b
        <4>. HIDE DEF m
        <4>. QED BY <1>1, <1>2, <1>3, <1>4, <1>9, <3>2
      <3>. QED BY <1>4, <1>7, <3>1, <3>2
    <2>2. Len(Serial!Line(w)) = m /\ \A i \in 1 .. m : Serial!Line(w)[i] = w[i]
      BY <2>1, LineStays
    <2>3. e - (a + z - 1) = e - (b - 1) /\ a + z - 1 = b - 1
      BY <1>2, <1>3, <1>9
    <2>. QED BY <1>4, <1>8, <2>2, <2>3
  <1>10. CASE b = a + z + 1 /\ t[a + z] = Serial!Gap
    <2>1. m >= 1 /\ 1 \in 1 .. m /\ a + z - 1 + 1 = a + z
      <3>. HIDE DEF m
      <3>. QED BY <1>1, <1>2, <1>3, <1>4, <1>10
    <2>2. w # <<>> /\ w[1] = Serial!Gap
      <3>1. w # <<>>
        BY <2>1
      <3>2. w[1] = t[a + z]
        BY <1>4, <2>1
      <3>. QED BY <1>10, <3>1, <3>2
    <2>3. Len(w) > 1 => w[2] # Serial!Gap
      <3>1. ASSUME m > 1 PROVE 2 \in 1 .. m /\ b <= e /\ a + z - 1 + 2 = b
        <4>. HIDE DEF m
        <4>. QED BY <1>1, <1>2, <1>3, <1>4, <1>10, <3>1
      <3>. QED BY <1>4, <1>7, <3>1
    <2>4. Len(Serial!Line(w)) = m - 1 /\ \A i \in 1 .. m - 1 : Serial!Line(w)[i] = w[i + 1]
      BY <2>2, <2>3, LineSkips
    <2>. HIDE DEF m
    <2>5. m - 1 = e - (b - 1)
      BY <1>1, <1>2, <1>3, <1>4, <1>10
    <2>6. ASSUME NEW i \in 1 .. m - 1 PROVE Serial!Line(w)[i] = t[b - 1 + i]
      <3>1. i + 1 \in 1 .. m /\ a + z - 1 + (i + 1) = b - 1 + i
        BY <1>1, <1>2, <1>3, <1>10
      <3>. QED BY <1>4, <2>4, <3>1
    <2>. QED BY <1>8, <2>4, <2>5, <2>6
  <1>. QED BY <1>5, <1>9, <1>10

Begins(t, s, D, k, a) == t[a] = s[k][1] /\ t[a] \in Bytes /\ (Size(s, D, k) > 1 => t[a + 1] \in Bytes)

LEMMA BlockBegins ==
    ASSUME NEW s, NEW D, NEW t, NEW p \in [Int -> Int], NEW lo \in 1 .. Len(s),
           Shape(s), Apart(s, D), Layout(t, s, D, lo, p)
    PROVE  Begins(t, s, D, lo, p[lo])
  <1>. DEFINE z == Size(s, D, lo)
              a == p[lo]
  <1>1. On(t, s, D, lo, a) /\ a \in Int
    BY BlockIs
  <1>2. z \in Nat \ {0}
    BY SizeIs
  <1>3. \A i \in 1 .. z : t[a + i - 1] \in Bytes /\ (lo \notin D \/ i = 1 => t[a + i - 1] = s[lo][i])
    BY <1>1 DEF On
  <1>. HIDE DEF z, a
  <1>4. 1 \in 1 .. z /\ a + 1 - 1 = a
    BY <1>1, <1>2
  <1>5. t[a] = s[lo][1] /\ t[a] \in Bytes
    BY <1>3, <1>4
  <1>6. ASSUME z > 1 PROVE t[a + 1] \in Bytes
    <2>1. 2 \in 1 .. z /\ a + 2 - 1 = a + 1
      BY <1>1, <1>2, <1>6
    <2>. QED BY <1>3, <2>1
  <1>. QED BY <1>5, <1>6 DEF Begins, z, a

(* The packets that are passed on: those before lo, whole and in order.     *)
ProperOf(s, D) == {k \in DOMAIN s : Len(s[k]) > 1 /\ k \notin D}

NumberOf(r) == Head(r.bytes).packet

Passed(f, s, D, lo) ==
    /\ \A i \in DOMAIN f :
           /\ NumberOf(f[i]) \in ProperOf(s, D) /\ NumberOf(f[i]) < lo
           /\ f[i].bytes = Tail(s[NumberOf(f[i])])
    /\ \A i, j \in DOMAIN f : i < j => NumberOf(f[i]) < NumberOf(f[j])
    /\ \A k \in ProperOf(s, D) : k < lo => \E i \in DOMAIN f : NumberOf(f[i]) = k

LEMMA ProperIs == ASSUME NEW s, Shape(s), NEW D PROVE ProperOf(s, D) \subseteq 1 .. Len(s) /\ Len(s) \in Nat
  BY DEF ProperOf, Shape

LEMMA PassedBy ==
    ASSUME NEW s, Shape(s), NEW D, NEW lo \in 1 .. Len(s), lo \notin ProperOf(s, D), NEW f, Passed(f, s, D, lo)
    PROVE  Passed(f, s, D, lo + 1)
  <1>1. ASSUME NEW k \in ProperOf(s, D) PROVE k < lo => k < lo + 1
    <2>1. k \in Nat /\ lo \in Nat
      BY ProperIs
    <2>. QED BY <2>1
  <1>2. ASSUME NEW k \in ProperOf(s, D), k < lo + 1 PROVE k < lo
    <2>1. k \in Nat /\ lo \in Nat /\ k # lo
      BY ProperIs
    <2>. QED BY <1>2, <2>1
  <1>. QED BY <1>1, <1>2 DEF Passed

LEMMA PassedOn ==
    ASSUME NEW s, Shape(s), NEW D, NEW lo \in ProperOf(s, D), NEW S, NEW f \in Seq(S), Passed(f, s, D, lo),
           NEW r \in S, r.bytes = Tail(s[lo])
    PROVE  Passed(Append(f, r), s, D, lo + 1)
  <1>. DEFINE g == Append(f, r)
              n == Len(f)
  <1>1. n \in Nat /\ DOMAIN f = 1 .. n /\ DOMAIN g = 1 .. n + 1 /\ g[n + 1] = r /\ \A i \in 1 .. n : g[i] = f[i]
    BY AppendProperties
  <1>2. lo \in 1 .. Len(s) /\ Len(s[lo]) > 1 /\ s[lo] \in Seq(Bytes)
    BY ProperIs, ElementOfSeq DEF ProperOf, Shape
  <1>3. NumberOf(r) = lo
    <2>1. Head(Tail(s[lo])) = s[lo][2] /\ 2 \in 1 .. Len(s[lo])
      BY <1>2, HeadTailProperties
    <2>2. s[lo][2].packet = lo
      BY <1>2, <2>1 DEF Shape
    <2>. QED BY <2>1, <2>2 DEF NumberOf
  <1>4. ASSUME NEW k \in ProperOf(s, D) PROVE /\ k \in Nat /\ lo \in Nat
                                              /\ k < lo + 1 => k < lo \/ k = lo
                                              /\ k < lo => k < lo + 1
    <2>1. k \in Nat /\ lo \in Nat
      BY ProperIs
    <2>. QED BY <2>1
  <1>. HIDE DEF g, n
  <1>5. ASSUME NEW i \in DOMAIN g
        PROVE  /\ NumberOf(g[i]) \in ProperOf(s, D) /\ NumberOf(g[i]) < lo + 1
               /\ g[i].bytes = Tail(s[NumberOf(g[i])])
    <2>1. CASE i \in 1 .. n
      BY <1>1, <1>4, <2>1 DEF Passed
    <2>2. CASE i = n + 1
      BY <1>1, <1>3, <1>4, <2>2
    <2>. QED BY <1>1, <2>1, <2>2
  <1>6. ASSUME NEW i \in DOMAIN g, NEW j \in DOMAIN g, i < j PROVE NumberOf(g[i]) < NumberOf(g[j])
    <2>1. i \in 1 .. n /\ (j \in 1 .. n \/ j = n + 1)
      BY <1>1, <1>6
    <2>2. CASE j \in 1 .. n
      BY <1>1, <1>6, <2>1, <2>2 DEF Passed
    <2>3. CASE j = n + 1
      BY <1>1, <1>3, <2>1, <2>3 DEF Passed
    <2>. QED BY <2>1, <2>2, <2>3
  <1>7. ASSUME NEW k \in ProperOf(s, D), k < lo + 1 PROVE \E i \in DOMAIN g : NumberOf(g[i]) = k
    <2>1. CASE k < lo
      <3>1. PICK i \in DOMAIN f : NumberOf(f[i]) = k
        BY <2>1 DEF Passed
      <3>2. i \in DOMAIN g /\ NumberOf(g[i]) = k
        BY <1>1, <3>1
      <3>. QED BY <3>2
    <2>2. CASE k = lo
      <3>1. n + 1 \in DOMAIN g /\ NumberOf(g[n + 1]) = k
        BY <1>1, <1>3, <2>2
      <3>. QED BY <3>1
    <2>. QED BY <1>4, <1>7, <2>1, <2>2
  <1>8. Passed(g, s, D, lo + 1)
    BY <1>5, <1>6, <1>7 DEF Passed
  <1>. QED BY <1>8 DEF g

LEMMA PassedGrows ==
    ASSUME NEW s, Shape(s), NEW D, NEW lo \in 1 .. Len(s) + 1, NEW f, Passed(f, s, D, lo),
           NEW q \in Seq(Bytes), NEW E, E = D \/ E = D \cup {Len(s) + 1}
    PROVE  Passed(f, Append(s, q), E, lo)
  <1>. DEFINE u == Append(s, q)
              n == Len(s)
  <1>1. n \in Nat /\ DOMAIN s = 1 .. n /\ DOMAIN u = 1 .. n + 1 /\ \A k \in 1 .. n : u[k] = s[k]
    BY AppendProperties DEF Shape
  <1>. HIDE DEF u, n
  <1>2. ASSUME NEW k \in 1 .. n PROVE k \in ProperOf(s, D) <=> k \in ProperOf(u, E)
    <2>1. k # n + 1 /\ k \in 1 .. n + 1
      BY <1>1
    <2>2. k \in D <=> k \in E
      BY <2>1 DEF n
    <2>. QED BY <1>1, <2>1, <2>2 DEF ProperOf
  <1>3. ProperOf(s, D) \subseteq 1 .. n
    BY ProperIs DEF n
  <1>4. ASSUME NEW i \in DOMAIN f
        PROVE  /\ NumberOf(f[i]) \in ProperOf(u, E) /\ NumberOf(f[i]) < lo
               /\ f[i].bytes = Tail(u[NumberOf(f[i])])
    <2>1. NumberOf(f[i]) \in ProperOf(s, D) /\ NumberOf(f[i]) < lo /\ f[i].bytes = Tail(s[NumberOf(f[i])])
      BY DEF Passed
    <2>. QED BY <1>1, <1>2, <1>3, <2>1
  <1>5. ASSUME NEW k \in ProperOf(u, E), k < lo PROVE k \in ProperOf(s, D)
    <2>1. k \in 1 .. n + 1 /\ lo \in 1 .. n + 1
      BY <1>1 DEF ProperOf, n
    <2>2. k \in 1 .. n
      BY <1>1, <1>5, <2>1
    <2>. QED BY <1>2, <2>2
  <1>6. Passed(f, u, E, lo)
    BY <1>4, <1>5 DEF Passed
  <1>. QED BY <1>6 DEF u

(* What a first read takes is a length byte, and what is left the rest of    *)
(* its packet.                                                              *)
LEMMA LengthIs ==
    ASSUME NEW s, NEW D, Shape(s), Apart(s, D), NEW t, NEW p \in [Int -> Int], NEW lo \in 1 .. Len(s) + 1,
           Layout(t, s, D, lo, p), NEW w \in Seq(OnLine), w # <<>>, Carries(w, t, p[lo] - 1, p[Len(s) + 1] - 1)
    PROVE  /\ lo \in 1 .. Len(s) /\ Head(w) = s[lo][1] /\ Head(w) \in Bytes
           /\ Tail(w) \in Seq(OnLine) /\ Carries(Tail(w), t, p[lo], p[Len(s) + 1] - 1)
  <1>. DEFINE a == p[lo]
              e == p[Len(s) + 1]
              n == Len(s)
              m == Len(w)
  <1>1. n \in Nat /\ lo \in 1 .. n + 1
    BY DEF Shape
  <1>2. m \in Nat /\ m # 0
    BY EmptySeq
  <1>3. a \in Int /\ e \in Int
    BY <1>1
  <1>4. m = e - 1 - (a - 1) /\ \A i \in 1 .. m : w[i] = t[a - 1 + i]
    BY DEF Carries
  <1>5. lo = n + 1 => a = e
    OBVIOUS
  <1>6. /\ Tail(w) \in Seq(OnLine) /\ Len(Tail(w)) = m - 1 /\ Head(w) = w[1]
        /\ \A i \in 1 .. m - 1 : Tail(w)[i] = w[i + 1]
    <2>1. w # <<>>
      BY <1>2
    <2>. QED BY <2>1, HeadTailProperties
  <1>7. ASSUME lo \in 1 .. n PROVE t[a] = s[lo][1] /\ t[a] \in Bytes
    <2>1. lo \in 1 .. Len(s)
      BY <1>7
    <2>2. Begins(t, s, D, lo, p[lo])
      BY ONLY <2>1, BlockBegins, Shape(s), Apart(s, D), Layout(t, s, D, lo, p), p \in [Int -> Int]
    <2>. QED BY <2>2 DEF Begins
  <1>8. ASSUME Len(Tail(w)) = e - 1 - a, \A i \in 1 .. Len(Tail(w)) : Tail(w)[i] = t[a + i]
        PROVE  Carries(Tail(w), t, p[lo], p[Len(s) + 1] - 1)
    BY <1>8 DEF Carries
  <1>. HIDE DEF a, e, n, m
  <1>9. lo \in 1 .. n
    BY <1>1, <1>2, <1>3, <1>4, <1>5
  <1>10. Head(w) = t[a]
    <2>1. 1 \in 1 .. m /\ a - 1 + 1 = a
      BY <1>2, <1>3
    <2>. QED BY <1>4, <1>6, <2>1
  <1>11. m - 1 = e - 1 - a
    BY <1>2, <1>3, <1>4
  <1>12. ASSUME NEW i \in 1 .. m - 1 PROVE Tail(w)[i] = t[a + i]
    <2>1. i + 1 \in 1 .. m /\ a - 1 + (i + 1) = a + i
      BY <1>2, <1>3
    <2>. QED BY <1>4, <1>6, <2>1
  <1>13. Carries(Tail(w), t, p[lo], p[Len(s) + 1] - 1)
    BY <1>6, <1>8, <1>11, <1>12
  <1>14. lo \in 1 .. Len(s)
    BY <1>9 DEF n
  <1>. QED BY <1>6, <1>7, <1>9, <1>10, <1>13, <1>14

(* w begins with the rest of block k, and a gap if a byte of it was lost,    *)
(* when it is complete.                                                     *)
Rest(w, s, D, k) ==
    LET z == Size(s, D, k)
    IN  /\ z - 1 <= Len(w) /\ \A i \in 1 .. z - 1 : w[i] \in Bytes
        /\ k \notin D => SubSeq(w, 1, z - 1) = Tail(s[k])
        /\ k \in D => (z <= Len(w) /\ w[z] = Serial!Gap) \/ Len(w) = z - 1

LEMMA RestIs ==
    ASSUME NEW s, NEW D, Shape(s), Apart(s, D), NEW t, NEW p \in [Int -> Int], NEW lo \in 1 .. Len(s),
           Layout(t, s, D, lo, p), NEW w \in Seq(OnLine), Carries(w, t, p[lo], p[Len(s) + 1] - 1)
    PROVE  /\ Rest(w, s, D, lo)
           /\ SubSeq(w, Size(s, D, lo), Len(w)) \in Seq(OnLine)
           /\ Carries(SubSeq(w, Size(s, D, lo), Len(w)), t, p[lo] + Size(s, D, lo) - 1, p[Len(s) + 1] - 1)
  <1>. DEFINE a == p[lo]
              b == p[lo + 1]
              e == p[Len(s) + 1]
              n == Len(s)
              m == Len(w)
              z == Size(s, D, lo)
              v == SubSeq(w, z, Len(w))
  <1>1. n \in Nat /\ lo \in 1 .. n /\ m \in Nat
    <2>1. Len(s) \in Nat
      BY DEF Shape
    <2>2. Len(w) \in Nat
      OBVIOUS
    <2>. QED BY <2>1, <2>2
  <1>2. z \in Nat \ {0}
    BY SizeIs
  <1>3. a \in Int /\ b \in Int /\ e \in Int /\ a + z <= b /\ b <= e
    BY BlockIs
  <1>4. m = e - 1 - a /\ \A i \in 1 .. m : w[i] = t[a + i]
    BY DEF Carries
  <1>5. \A i \in 1 .. z : t[a + i - 1] \in Bytes /\ (lo \notin D => t[a + i - 1] = s[lo][i])
    <2>1. On(t, s, D, lo, p[lo])
      BY BlockIs
    <2>. QED BY <2>1 DEF On
  <1>6. /\ b = a + z \/ (b = a + z + 1 /\ t[a + z] = Serial!Gap)
        /\ lo \in D /\ lo < n => b = a + z + 1
    <2>1. Follows(t, s, D, lo, p)
      BY BlockIs
    <2>. QED BY <2>1 DEF Follows
  <1>7. lo = n => b = e
    OBVIOUS
  <1>8. \A i \in 1 .. m : w[i] \in OnLine
    OBVIOUS
  <1>9. ASSUME Len(v) = e - 1 - (a + z - 1), \A i \in 1 .. Len(v) : v[i] = t[a + z - 1 + i]
        PROVE  Carries(v, t, p[lo] + z - 1, p[Len(s) + 1] - 1)
    BY <1>9 DEF Carries
  <1>. HIDE DEF a, b, e, n, z
  <1>10. m = e - 1 - a /\ m \in Nat
    BY <1>1, <1>4
  <1>11. z - 1 <= m
    <2>. HIDE DEF m
    <2>. QED BY <1>2, <1>3, <1>10
  <1>12. ASSUME NEW i \in 1 .. z - 1 PROVE w[i] \in Bytes /\ (lo \notin D => w[i] = s[lo][i + 1])
    <2>1. i \in 1 .. m /\ i + 1 \in 1 .. z /\ a + (i + 1) - 1 = a + i
      <3>. HIDE DEF m
      <3>. QED BY <1>1, <1>2, <1>3, <1>11
    <2>2. w[i] = t[a + (i + 1) - 1]
      BY <1>4, <2>1
    <2>. QED BY <1>5, <2>1, <2>2
  <1>13. ASSUME lo \in D PROVE (z <= m /\ w[z] = Serial!Gap) \/ m = z - 1
    <2>1. CASE b = a + z + 1
      <3>1. z \in 1 .. m
        <4>. HIDE DEF m
        <4>. QED BY <1>2, <1>3, <1>10, <2>1
      <3>2. t[a + z] = Serial!Gap
        <4>1. b # a + z
          BY <1>2, <1>3, <2>1
        <4>. QED BY <1>6, <4>1
      <3>3. z <= m
        <4>. HIDE DEF m
        <4>. QED BY <1>10, <3>1
      <3>4. w[z] = t[a + z]
        BY <1>4, <3>1
      <3>. QED BY <3>2, <3>3, <3>4
    <2>2. CASE b = a + z
      <3>1. lo = n
        <4>1. ~(lo < n)
          <5>1. b # a + z + 1
            BY <1>2, <1>3, <2>2
          <5>. QED BY <1>6, <1>13, <5>1
        <4>. QED BY <1>1, <4>1
      <3>2. m = z - 1
        <4>. HIDE DEF m
        <4>1. b = e
          BY <1>7, <3>1
        <4>. QED BY <1>2, <1>3, <1>10, <2>2, <4>1
      <3>. QED BY <3>2
    <2>. QED BY <1>6, <2>1, <2>2
  <1>14. \A i \in z .. m : w[i] \in OnLine
    <2>1. \A i \in z .. m : i \in 1 .. m
      BY <1>1, <1>2
    <2>. QED BY <1>8, <2>1
  <1>15. v \in Seq(OnLine)
    BY <1>1, <1>2, <1>14, SubSeqProperties
  <1>16. Len(v) = IF z <= m THEN m - z + 1 ELSE 0
    BY <1>1, <1>2, <1>14, SubSeqProperties
  <1>17. \A i \in 1 .. m - z + 1 : v[i] = w[z + i - 1]
    BY <1>1, <1>2, <1>14, SubSeqProperties
  <1>18. Carries(v, t, p[lo] + z - 1, p[Len(s) + 1] - 1)
    <2>. HIDE DEF v, m
    <2>1. Len(v) = m - z + 1
      <3>1. CASE z <= m
        BY <1>16, <3>1
      <3>2. CASE ~(z <= m)
        <4>1. m \in Nat /\ z \in Nat /\ z - 1 <= m /\ ~(z <= m)
          BY <1>2, <1>10, <1>11, <3>2
        <4>2. m - z + 1 = 0
          BY ONLY <4>1
        <4>. QED BY <1>16, <3>2, <4>2
      <3>. QED BY <3>1, <3>2
    <2>2. m - z + 1 = e - 1 - (a + z - 1)
      BY <1>2, <1>3, <1>10
    <2>3. ASSUME NEW i \in 1 .. m - z + 1 PROVE v[i] = t[a + z - 1 + i]
      <3>1. z + i - 1 \in 1 .. m /\ a + (z + i - 1) = a + z - 1 + i
        BY <1>1, <1>2, <1>3
      <3>. QED BY <1>4, <1>17, <3>1
    <2>. QED BY <1>9, <2>1, <2>2, <2>3
  <1>19. lo \in D => (z <= m /\ w[z] = Serial!Gap) \/ m = z - 1
    BY <1>13
  <1>20. ASSUME lo \notin D PROVE SubSeq(w, 1, z - 1) = Tail(s[lo])
    <2>. DEFINE d == z - 1
                u == SubSeq(w, 1, d)
                q == Tail(s[lo])
    <2>1. s[lo] \in Seq(Bytes) /\ Len(s[lo]) = z
      BY <1>20, SizeIs DEF z
    <2>2. s[lo] # <<>>
      <3>1. s[lo] = <<>> => z = 0
        BY <2>1
      <3>. QED BY <1>2, <3>1
    <2>3. q \in Seq(Bytes) /\ Len(q) = d
      BY <2>1, <2>2, HeadTailProperties
    <2>4. \A i \in 1 .. d : q[i] = s[lo][i + 1]
      BY <2>1, <2>2, HeadTailProperties
    <2>5. d \in Nat
      BY <1>2
    <2>6. \A i \in 1 .. d : w[i] \in Bytes
      BY <1>12
    <2>7. \A i \in 1 .. d : w[i] = s[lo][i + 1]
      BY <1>12, <1>20
    <2>. HIDE DEF d, q
    <2>8. u \in Seq(Bytes) /\ Len(u) = (IF 1 <= d THEN d - 1 + 1 ELSE 0)
      BY <2>5, <2>6, SubSeqProperties
    <2>9. \A i \in 1 .. d - 1 + 1 : u[i] = w[1 + i - 1]
      BY <2>5, <2>6, SubSeqProperties
    <2>. HIDE DEF u
    <2>10. d - 1 + 1 = d /\ (~(1 <= d) => d = 0) /\ \A i \in 1 .. d : 1 + i - 1 = i
      BY <2>5
    <2>11. Len(u) = d
      BY <2>8, <2>10
    <2>12. \A i \in 1 .. d : u[i] = w[i]
      BY <2>9, <2>10
    <2>13. \A i \in 1 .. d : u[i] = q[i]
      BY <2>4, <2>7, <2>12
    <2>14. u = q
      BY <2>3, <2>8, <2>11, <2>13, SeqEqual
    <2>. QED BY <2>14 DEF u, d, q
  <1>21. \A i \in 1 .. z - 1 : w[i] \in Bytes
    BY <1>12
  <1>22. Rest(w, s, D, lo)
    BY <1>11, <1>19, <1>20, <1>21 DEF z, Rest
  <1>. QED BY <1>15, <1>18, <1>22 DEF z

(* The invariant: the bridge is at the packet lo, in its rest or before it,  *)
(* and has passed on those before it.                                       *)
Record == [bytes : Seq(OnLine), wrapped : BOOLEAN]

At(t, p, lo) ==
    /\ Layout(t, b_sent, damaged, lo, p)
    /\ b_pc = "rest" => /\ lo <= Len(b_sent) /\ Len(b_sent[lo]) > 1 /\ length = Len(b_sent[lo])
                        /\ Carries(wire, t, p[lo], p[Len(b_sent) + 1] - 1)
    /\ b_pc # "rest" => Carries(wire, t, p[lo] - 1, p[Len(b_sent) + 1] - 1)

InOrder ==
    \E t \in [Int -> OnLine], p \in [Int -> Int], lo \in 1 .. Len(b_sent) + 1 :
        At(t, p, lo) /\ Passed(forwarded, b_sent, damaged, lo)

OrderInv ==
    /\ Shape(b_sent) /\ forwarded \in Seq(Record)
    /\ damaged \subseteq 1 .. Len(b_sent) /\ (faults = 0 => damaged = {})
    /\ separated => Apart(b_sent, damaged) /\ InOrder

LEMMA OrderBegins == ASSUME Serial!Init PROVE OrderInv
  <1>1. /\ b_pc # "rest" /\ wire = <<>> /\ b_sent = <<>> /\ forwarded = <<>> /\ damaged = {}
    BY DEF Serial!Init
  <1>2. Shape(b_sent) /\ Apart(b_sent, damaged) /\ forwarded \in Seq(Record) /\ Len(b_sent) = 0
    BY <1>1, EmptySeq DEF Shape, Apart
  <1>. DEFINE t == [j \in Int |-> Serial!Gap]
              p == [j \in Int |-> 1]
  <1>3. t \in [Int -> OnLine] /\ p \in [Int -> Int] /\ p[1] = 1
    BY DEF OnLine
  <1>. HIDE DEF t, p
  <1>4. Layout(t, b_sent, damaged, 1, p)
    <2>1. 1 .. Len(b_sent) = {} /\ \A k \in 1 .. Len(b_sent) + 1 : k = 1 /\ Len(b_sent) + 1 = 1
      BY <1>2
    <2>. QED BY <1>3, <2>1 DEF Layout
  <1>5. Carries(wire, t, p[1] - 1, p[Len(b_sent) + 1] - 1)
    <2>1. Len(wire) = 0
      BY <1>1
    <2>. QED BY <1>2, <1>3, <2>1 DEF Carries
  <1>6. Passed(forwarded, b_sent, damaged, 1)
    <2>1. DOMAIN forwarded = {} /\ ProperOf(b_sent, damaged) = {}
      BY <1>1 DEF ProperOf
    <2>. QED BY <2>1 DEF Passed
  <1>7. 1 \in 1 .. Len(b_sent) + 1
    BY <1>2
  <1>8. InOrder
    BY <1>1, <1>3, <1>4, <1>5, <1>6, <1>7 DEF InOrder, At
  <1>. QED BY <1>1, <1>2, <1>8 DEF OrderInv

LEMMA ReadLengthOrder == ASSUME BridgeInv, OrderInv, Serial!serial_read_length PROVE OrderInv'
  <1>1. /\ b_pc = "select" /\ wire # <<>> /\ length' = Head(wire).value /\ wire' = Serial!Line(Tail(wire))
        /\ b_pc' = (IF length' \in {0, 1} THEN "select" ELSE "rest")
        /\ UNCHANGED <<b_sent, faults, damaged, separated, forwarded>>
    BY DEF Serial!serial_read_length, Serial!NoRest
  <1>2. ASSUME separated PROVE InOrder'
    <2>1. Shape(b_sent) /\ Apart(b_sent, damaged)
      BY <1>2 DEF OrderInv
    <2>2. PICK t \in [Int -> OnLine], p \in [Int -> Int], lo \in 1 .. Len(b_sent) + 1 :
              At(t, p, lo) /\ Passed(forwarded, b_sent, damaged, lo)
      BY <1>2 DEF OrderInv, InOrder
    <2>. DEFINE e == p[Len(b_sent) + 1] - 1
    <2>3. Layout(t, b_sent, damaged, lo, p) /\ Carries(wire, t, p[lo] - 1, e) /\ wire \in Seq(OnLine)
      BY <1>1, <2>2 DEF At, BridgeInv
    <2>4. /\ lo \in 1 .. Len(b_sent) /\ Head(wire) = b_sent[lo][1] /\ Head(wire) \in Bytes
          /\ Tail(wire) \in Seq(OnLine) /\ Carries(Tail(wire), t, p[lo], e)
      BY <1>1, <2>1, <2>3, LengthIs
    <2>5. length' = Len(b_sent[lo]) \/ (Len(b_sent[lo]) = 1 /\ length' = 0)
      BY <1>1, <2>1, <2>4 DEF Shape
    <2>. DEFINE n == Len(b_sent[lo])
    <2>6. n \in Nat \ {0} /\ Size(b_sent, damaged, lo) \in Nat \ {0} /\ (lo \in damaged => n > 2)
      BY <2>1, <2>4, SizeIs
    <2>7. CASE length' \in {0, 1}
      <3>1. n = 1
        <4>1. length' = n \/ n = 1
          BY <2>5
        <4>. HIDE DEF n
        <4>. QED BY <2>6, <2>7, <4>1
      <3>2. lo \notin damaged /\ ~(n > 1)
        <4>. HIDE DEF n
        <4>. QED BY <2>6, <3>1
      <3>3. Size(b_sent, damaged, lo) = 1
        BY <3>1, <3>2 DEF Size
      <3>4. Carries(Tail(wire), t, p[lo] + Size(b_sent, damaged, lo) - 1, e)
        <4>1. p[lo] \in Int
          BY <2>4
        <4>2. p[lo] + 1 - 1 = p[lo]
          BY <4>1
        <4>. QED BY <2>4, <3>3, <4>2
      <3>5. Carries(wire', t, p[lo + 1] - 1, e)
        BY <1>1, <2>1, <2>3, <2>4, <3>4, NextBlock
      <3>6. Layout(t, b_sent, damaged, lo + 1, p)
        BY <2>1, <2>3, <2>4, LayoutLater
      <3>7. Passed(forwarded, b_sent, damaged, lo + 1)
        <4>1. lo \notin ProperOf(b_sent, damaged)
          BY <3>2 DEF ProperOf
        <4>. QED BY <2>1, <2>2, <2>4, <4>1, PassedBy
      <3>8. lo + 1 \in 1 .. Len(b_sent) + 1
        BY <2>1, <2>4 DEF Shape
      <3>9. b_pc' # "rest"
        BY <1>1, <2>7
      <3>10. At(t, p, lo + 1)'
        BY <1>1, <3>5, <3>6, <3>9 DEF At
      <3>. QED BY <1>1, <2>2, <3>7, <3>8, <3>10 DEF InOrder
    <2>8. CASE length' \notin {0, 1}
      <3>1. length' = Len(b_sent[lo]) /\ Len(b_sent[lo]) > 1
        <4>1. length' = n
          BY <2>5, <2>8
        <4>2. n > 1
          <5>. HIDE DEF n
          <5>. QED BY <2>6, <2>8, <4>1
        <4>. QED BY <4>1, <4>2
      <3>2. Size(b_sent, damaged, lo) > 1
        <4>1. CASE lo \in damaged
          <5>. DEFINE m == Len(b_sent[lo])
          <5>1. Size(b_sent, damaged, lo) = m - 1 /\ m > 2 /\ m \in Nat
            BY <2>1, <2>4, <4>1, SizeIs
          <5>2. m - 1 > 1
            <6>1. m > 2 /\ m \in Nat
              BY <5>1
            <6>. HIDE DEF m
            <6>. QED BY <6>1
          <5>. QED BY <5>1, <5>2
        <4>2. CASE lo \notin damaged
          BY <2>1, <2>4, <3>1, <4>2, SizeIs
        <4>. QED BY <4>1, <4>2
      <3>3. t[p[lo] + 1] \in Bytes
        BY <2>1, <2>3, <2>4, <3>2, BlockBegins DEF Begins
      <3>4. Tail(wire) # <<>> => Tail(wire)[1] # Serial!Gap
        <4>. DEFINE v == Tail(wire)
        <4>0. v \in Seq(OnLine)
          BY <2>4
        <4>. HIDE DEF v
        <4>1. v # <<>> => 1 \in 1 .. Len(v)
          BY <4>0, EmptySeq
        <4>. USE DEF v
        <4>2. 1 \in 1 .. Len(Tail(wire)) => Tail(wire)[1] = t[p[lo] + 1]
          BY <2>4 DEF Carries
        <4>. QED BY <3>3, <4>1, <4>2, GapIsNoByte
      <3>5. Len(wire') = Len(Tail(wire)) /\ \A i \in 1 .. Len(Tail(wire)) : wire'[i] = Tail(wire)[i]
        BY <1>1, <2>4, <3>4, LineStays
      <3>6. Carries(wire', t, p[lo], e)
        BY <2>4, <3>5 DEF Carries
      <3>7. b_pc' = "rest" /\ lo <= Len(b_sent)
        BY <1>1, <2>4, <2>8
      <3>8. At(t, p, lo)'
        BY <1>1, <2>3, <3>1, <3>6, <3>7 DEF At
      <3>. QED BY <1>1, <2>2, <3>8 DEF InOrder
    <2>. QED BY <2>7, <2>8
  <1>. QED BY <1>1, <1>2 DEF OrderInv

(* The second read stops where the block ends.                              *)
LEMMA AvailableInBlock ==
    ASSUME BridgeInv, Shape(b_sent), Apart(b_sent, damaged), NEW t, NEW p \in [Int -> Int], NEW lo \in 1 .. Len(b_sent),
           Layout(t, b_sent, damaged, lo, p), Carries(wire, t, p[lo], p[Len(b_sent) + 1] - 1),
           length = Len(b_sent[lo]), length > 1, Serial!Complete
    PROVE  Serial!Available = Size(b_sent, damaged, lo) - 1
  <1>. DEFINE z == Size(b_sent, damaged, lo)
              g == FirstGap(wire)
              m == Len(wire)
              n == length
              run == Serial!Before(wire, g)
              a == Serial!Available
  <1>1. z \in Nat \ {0} /\ (lo \in damaged => z = n - 1 /\ n > 2) /\ (lo \notin damaged => z = n)
    BY SizeIs
  <1>2. wire \in Seq(OnLine) /\ m \in Nat /\ n \in Nat /\ n > 1
    <2>1. wire \in Seq(OnLine) /\ length \in Nat
      BY DEF BridgeInv, Serial!TypeOK
    <2>2. Len(wire) \in Nat
      BY <2>1
    <2>. QED BY <2>1, <2>2
  <1>3. z - 1 <= m /\ \A i \in 1 .. z - 1 : wire[i] \in Bytes
    <2>1. Rest(wire, b_sent, damaged, lo)
      BY <1>2, RestIs
    <2>. QED BY <2>1 DEF Rest
  <1>4. lo \in damaged => (z <= m /\ wire[z] = Serial!Gap) \/ m = z - 1
    <2>1. Rest(wire, b_sent, damaged, lo)
      BY <1>2, RestIs
    <2>. QED BY <2>1 DEF Rest
  <1>5. /\ g \in 0 .. m
        /\ g = 0 => \A i \in 1 .. m : wire[i] # Serial!Gap
        /\ g # 0 => wire[g] = Serial!Gap /\ \A i \in 1 .. g - 1 : wire[i] # Serial!Gap
    BY <1>2, FirstGapIs
  <1>6. a = IF run < n - 1 THEN run ELSE n - 1
    BY DEF Serial!Available, FirstGap
  <1>7. run = IF g = 0 THEN m ELSE g - 1
    BY DEF Serial!Before
  <1>8. a = n - 1 \/ \E i \in 1 .. m : wire[i] = Serial!Gap
    <2>1. DOMAIN wire = 1 .. m
      BY <1>2
    <2>. QED BY <2>1 DEF Serial!Complete
  <1>. HIDE DEF z, g, n, m, run, a
  <1>9. \A i \in 1 .. z - 1 : wire[i] # Serial!Gap
    BY <1>3, GapIsNoByte
  <1>10. g # 0 => ~(g \in 1 .. z - 1)
    BY <1>5, <1>9
  <1>11. run >= z - 1 /\ run \in Int
    BY <1>1, <1>2, <1>3, <1>5, <1>7, <1>10
  <1>12. ASSUME lo \notin damaged PROVE a = z - 1
    <2>1. z = n
      BY <1>1, <1>12
    <2>. QED BY <1>2, <1>6, <1>11, <2>1
  <1>13. ASSUME lo \in damaged PROVE a = z - 1
    <2>1. z = n - 1
      BY <1>1, <1>13
    <2>2. CASE z <= m /\ wire[z] = Serial!Gap
      <3>1. g # 0
        <4>1. z \in 1 .. m
          BY <1>1, <1>2, <2>2
        <4>. QED BY <1>5, <2>2, <4>1
      <3>2. ~(z \in 1 .. g - 1)
        BY <1>5, <2>2, <3>1
      <3>3. g = z
        <4>1. g \in Nat /\ z \in Nat /\ g # 0 /\ z # 0
          BY <1>1, <1>2, <1>5, <3>1
        <4>2. ~(g \in 1 .. z - 1)
          BY <1>10, <3>1
        <4>. QED BY <3>2, <4>1, <4>2
      <3>4. run = z - 1
        BY <1>7, <3>1, <3>3
      <3>. QED BY <1>1, <1>2, <1>6, <2>1, <3>4
    <2>3. CASE m = z - 1
      <3>1. \A i \in 1 .. m : wire[i] # Serial!Gap
        BY <1>9, <2>3
      <3>2. g = 0
        <4>1. g # 0 => g \in 1 .. m /\ wire[g] = Serial!Gap
          BY <1>2, <1>5
        <4>. QED BY <3>1, <4>1
      <3>3. run = z - 1
        BY <1>7, <2>3, <3>2
      <3>. QED BY <1>1, <1>2, <1>6, <2>1, <3>3
    <2>. QED BY <1>4, <1>13, <2>2, <2>3
  <1>14. a = z - 1
    BY <1>12, <1>13
  <1>. QED BY <1>14 DEF a, z

LEMMA AvailableFits == ASSUME BridgeInv, b_pc = "rest" PROVE Serial!Available <= Len(wire)
  <1>. DEFINE g == FirstGap(wire)
              m == Len(wire)
              n == length
              run == Serial!Before(wire, g)
              a == Serial!Available
  <1>1. wire \in Seq(OnLine) /\ n \in Nat
    BY DEF BridgeInv, Serial!TypeOK
  <1>2. m \in Nat
    BY <1>1
  <1>3. g \in 0 .. m
    BY <1>1, FirstGapIs
  <1>4. a = IF run < n - 1 THEN run ELSE n - 1
    BY DEF Serial!Available, FirstGap
  <1>5. run = IF g = 0 THEN m ELSE g - 1
    BY DEF Serial!Before
  <1>. HIDE DEF g, n, m, run, a
  <1>6. run \in Int /\ run <= m
    BY <1>2, <1>3, <1>5
  <1>7. a <= m
    BY <1>1, <1>2, <1>4, <1>6
  <1>. QED BY <1>7 DEF a, m

LEMMA ReadRestOrder == ASSUME BridgeInv, OrderInv, Serial!serial_read_rest PROVE OrderInv'
  <1>. DEFINE a == Serial!Available
              r == [bytes |-> SubSeq(wire, 1, a), wrapped |-> frwdencap]
  <1>1. /\ b_pc = "rest" /\ b_pc' = "select" /\ Serial!Complete
        /\ wire' = Serial!Line(SubSeq(wire, a + 1, Len(wire)))
        /\ forwarded' = (IF a + 1 = length THEN Append(forwarded, r) ELSE forwarded)
        /\ UNCHANGED <<b_sent, faults, damaged, separated>>
    BY DEF Serial!serial_read_rest, Serial!validate_packet
  <1>2. wire \in Seq(OnLine) /\ frwdencap \in BOOLEAN /\ length \in Nat /\ length > 1
    BY <1>1 DEF BridgeInv, Serial!TypeOK
  <1>3. r \in Record
    <2>1. a \in Int /\ a <= Len(wire)
      BY <1>1, AvailableIs, AvailableFits
    <2>2. SubSeq(wire, 1, a) \in Seq(OnLine)
      BY <1>2, <2>1, Part
    <2>. QED BY <1>2, <2>2 DEF Record
  <1>4. forwarded' \in Seq(Record)
    <2>. HIDE DEF r, a
    <2>. QED BY <1>1, <1>3, AppendProperties DEF OrderInv
  <1>5. ASSUME separated PROVE InOrder'
    <2>1. Shape(b_sent) /\ Apart(b_sent, damaged)
      BY <1>5 DEF OrderInv
    <2>2. PICK t \in [Int -> OnLine], p \in [Int -> Int], lo \in 1 .. Len(b_sent) + 1 :
              At(t, p, lo) /\ Passed(forwarded, b_sent, damaged, lo)
      BY <1>5 DEF OrderInv, InOrder
    <2>. DEFINE e == p[Len(b_sent) + 1] - 1
                z == Size(b_sent, damaged, lo)
                n == Len(b_sent[lo])
    <2>3. /\ Layout(t, b_sent, damaged, lo, p) /\ Carries(wire, t, p[lo], e)
          /\ lo <= Len(b_sent) /\ n > 1 /\ length = n
      BY <1>1, <2>2 DEF At
    <2>4. lo \in 1 .. Len(b_sent) /\ lo + 1 \in 1 .. Len(b_sent) + 1
      <3>1. Len(b_sent) \in Nat
        BY <2>1 DEF Shape
      <3>. QED BY <2>3, <3>1
    <2>5. z \in Nat \ {0} /\ n \in Nat /\ (lo \in damaged => z = n - 1) /\ (lo \notin damaged => z = n)
      BY <2>1, <2>4, SizeIs
    <2>6. a = z - 1
      BY <1>1, <1>2, <2>1, <2>3, <2>4, AvailableInBlock
    <2>7. a + 1 = z
      <3>. HIDE DEF a, z
      <3>. QED BY <2>5, <2>6
    <2>8. /\ SubSeq(wire, z, Len(wire)) \in Seq(OnLine)
          /\ Carries(SubSeq(wire, z, Len(wire)), t, p[lo] + z - 1, e)
      BY <1>2, <2>1, <2>3, <2>4, RestIs
    <2>9. Carries(wire', t, p[lo + 1] - 1, e)
      <3>1. wire' = Serial!Line(SubSeq(wire, z, Len(wire)))
        BY <1>1, <2>7
      <3>. QED BY <2>1, <2>3, <2>4, <2>8, <3>1, NextBlock
    <2>10. Layout(t, b_sent, damaged, lo + 1, p)
      BY <2>1, <2>3, <2>4, LayoutLater
    <2>11. At(t, p, lo + 1)'
      BY <1>1, <2>9, <2>10 DEF At
    <2>12. Passed(forwarded', b_sent, damaged, lo + 1)
      <3>1. CASE lo \in damaged
        <4>1. a + 1 # length
          <5>1. z # n
            <6>. HIDE DEF z, n
            <6>. QED BY <2>5, <3>1
          <5>. QED BY <2>3, <2>7, <5>1
        <4>2. lo \notin ProperOf(b_sent, damaged)
          BY <3>1 DEF ProperOf
        <4>3. forwarded' = forwarded
          BY <1>1, <4>1
        <4>. QED BY <2>1, <2>2, <2>4, <4>2, <4>3, PassedBy
      <3>2. CASE lo \notin damaged
        <4>1. a + 1 = length
          BY <2>3, <2>5, <2>7, <3>2
        <4>2. lo \in ProperOf(b_sent, damaged)
          BY <2>1, <2>3, <2>4, <3>2 DEF ProperOf, Shape
        <4>3. SubSeq(wire, 1, a) = Tail(b_sent[lo])
          <5>1. SubSeq(wire, 1, z - 1) = Tail(b_sent[lo])
            <6>1. Rest(wire, b_sent, damaged, lo)
              BY <1>2, <2>1, <2>3, <2>4, RestIs
            <6>. QED BY <3>2, <6>1 DEF Rest
          <5>. QED BY <2>6, <5>1
        <4>. HIDE DEF a
        <4>4. forwarded' = Append(forwarded, r) /\ r.bytes = Tail(b_sent[lo])
          BY <1>1, <4>1, <4>3
        <4>. HIDE DEF r
        <4>5. forwarded \in Seq(Record)
          BY DEF OrderInv
        <4>. QED BY <1>3, <2>1, <2>2, <4>2, <4>4, <4>5, PassedOn
      <3>. QED BY <3>1, <3>2
    <2>. QED BY <1>1, <2>2, <2>4, <2>11, <2>12 DEF InOrder
  <1>. QED BY <1>1, <1>4, <1>5 DEF OrderInv

(* The line grows: m comes after e.                                         *)
More(t, e, m) == [j \in Int |-> IF j \in e + 1 .. e + Len(m) THEN m[j - e] ELSE t[j]]

LEMMA MoreIs ==
    ASSUME NEW t \in [Int -> OnLine], NEW e \in Int, NEW m \in Seq(OnLine)
    PROVE  /\ More(t, e, m) \in [Int -> OnLine]
           /\ \A j \in Int : j <= e => More(t, e, m)[j] = t[j]
           /\ \A i \in 1 .. Len(m) : More(t, e, m)[e + i] = m[i]
  <1>. DEFINE d == Len(m)
  <1>1. d \in Nat /\ \A i \in 1 .. d : m[i] \in OnLine
    OBVIOUS
  <1>. HIDE DEF d
  <1>2. ASSUME NEW j \in Int
        PROVE  /\ j \in e + 1 .. e + d => j - e \in 1 .. d
               /\ j <= e => ~(j \in e + 1 .. e + d)
    BY <1>1
  <1>3. ASSUME NEW i \in 1 .. d PROVE e + i \in Int /\ e + i \in e + 1 .. e + d /\ e + i - e = i
    BY <1>1
  <1>4. More(t, e, m) = [j \in Int |-> IF j \in e + 1 .. e + d THEN m[j - e] ELSE t[j]]
    BY DEF More, d
  <1>5. More(t, e, m) \in [Int -> OnLine]
    BY <1>1, <1>2, <1>4
  <1>6. \A j \in Int : j <= e => More(t, e, m)[j] = t[j]
    BY <1>2, <1>4
  <1>7. \A i \in 1 .. d : More(t, e, m)[e + i] = m[i]
    BY <1>3, <1>4
  <1>. QED BY <1>5, <1>6, <1>7 DEF d

LEMMA CarriesMore ==
    ASSUME NEW t \in [Int -> OnLine], NEW r \in Int, NEW e \in Int, NEW m \in Seq(OnLine), NEW w \in Seq(OnLine),
           Carries(w, t, r, e)
    PROVE  Carries(w \o m, More(t, e, m), r, e + Len(m))
  <1>. DEFINE T == More(t, e, m)
              a == Len(w)
              d == Len(m)
              v == w \o m
  <1>1. a \in Nat /\ d \in Nat
    OBVIOUS
  <1>2. a = e - r /\ \A i \in 1 .. a : w[i] = t[r + i]
    BY DEF Carries
  <1>3. Len(v) = a + d
    BY ConcatProperties
  <1>4. \A i \in 1 .. a + d : v[i] = IF i <= a THEN w[i] ELSE m[i - a]
    BY ConcatProperties
  <1>5. \A j \in Int : j <= e => T[j] = t[j]
    BY MoreIs
  <1>6. \A i \in 1 .. d : T[e + i] = m[i]
    BY MoreIs
  <1>. HIDE DEF T, a, d, v
  <1>7. ASSUME NEW i \in 1 .. a + d PROVE v[i] = T[r + i]
    <2>1. CASE i <= a
      <3>1. i \in 1 .. a /\ r + i \in Int /\ r + i <= e
        BY <1>1, <1>2, <2>1
      <3>. QED BY <1>2, <1>4, <1>5, <2>1, <3>1
    <2>2. CASE ~(i <= a)
      <3>1. i - a \in 1 .. d /\ e + (i - a) = r + i
        BY <1>1, <1>2, <2>2
      <3>. QED BY <1>4, <1>6, <2>2, <3>1
    <2>. QED BY <2>1, <2>2
  <1>8. a + d = (e + d) - r
    BY <1>1, <1>2
  <1>9. Carries(v, T, r, e + d)
    <2>1. Len(v) = (e + d) - r
      BY <1>3, <1>8
    <2>2. \A i \in 1 .. Len(v) : v[i] = T[r + i]
      BY <1>3, <1>7
    <2>. QED BY <2>1, <2>2 DEF Carries
  <1>. QED BY <1>9 DEF T, d, v

(* What comes later leaves the blocks as they are.                          *)
LEMMA LayoutMore ==
    ASSUME NEW s, NEW D, Shape(s), Apart(s, D), NEW t \in [Int -> OnLine], NEW p \in [Int -> Int],
           NEW lo \in 1 .. Len(s) + 1, Layout(t, s, D, lo, p), NEW m \in Seq(OnLine),
           NEW T, T = More(t, p[Len(s) + 1] - 1, m)
    PROVE  Layout(T, s, D, lo, p)
  <1>. DEFINE n == Len(s)
              e == p[n + 1] - 1
  <1>1. n \in Nat /\ lo \in 1 .. n + 1
    BY DEF Shape
  <1>2. e \in Int /\ p[n + 1] \in Int /\ p[n + 1] = e + 1
    <2>. DEFINE y == p[n + 1]
    <2>1. y \in Int
      BY <1>1
    <2>2. y - 1 \in Int /\ y = y - 1 + 1
      <3>. HIDE DEF y
      <3>. QED BY <2>1
    <2>. QED BY <2>1, <2>2
  <1>3. \A j \in Int : j <= e => T[j] = t[j]
    BY <1>2, MoreIs
  <1>4. ASSUME NEW k \in lo .. n PROVE Follows(T, s, D, k, p) /\ On(T, s, D, k, p[k])
    <2>. DEFINE z == Size(s, D, k)
                a == p[k]
                b == p[k + 1]
    <2>1. k \in 1 .. Len(s) /\ k \in lo .. Len(s) /\ k + 1 \in lo .. Len(s) + 1 /\ k \in Int /\ k + 1 \in Int
      BY <1>1
    <2>2. Follows(t, s, D, k, p) /\ On(t, s, D, k, p[k]) /\ b <= p[n + 1]
      BY <2>1 DEF Layout
    <2>3. z \in Nat \ {0}
      BY <2>1, SizeIs
    <2>4. a \in Int /\ b \in Int
      BY <2>1
    <2>5. /\ b = a + z \/ (b = a + z + 1 /\ t[a + z] = Serial!Gap)
          /\ k \in D /\ k < Len(s) => b = a + z + 1
      BY <2>2 DEF Follows
    <2>6. \A i \in 1 .. z : t[a + i - 1] \in Bytes /\ (k \notin D \/ i = 1 => t[a + i - 1] = s[k][i])
      BY <2>2 DEF On
    <2>. HIDE DEF z, a, b, n, e
    <2>7. b <= e + 1
      BY <1>2, <2>2
    <2>8. ASSUME NEW i \in 1 .. z PROVE T[a + i - 1] = t[a + i - 1]
      <3>1. a + i - 1 \in Int /\ a + i - 1 <= e
        <4>1. a + z <= b
          BY <2>3, <2>4, <2>5
        <4>. QED BY <1>2, <2>3, <2>4, <2>7, <4>1
      <3>. QED BY <1>3, <3>1
    <2>9. b = a + z + 1 => T[a + z] = t[a + z]
      <3>1. b = a + z + 1 => a + z \in Int /\ a + z <= e
        BY <1>2, <2>3, <2>4, <2>7
      <3>. QED BY <1>3, <3>1
    <2>10. Follows(T, s, D, k, p)
      BY <2>5, <2>9 DEF Follows, z, a, b
    <2>11. On(T, s, D, k, p[k])
      BY <2>6, <2>8 DEF On, z, a
    <2>. QED BY <2>10, <2>11
  <1>5. \A k \in lo .. Len(s) + 1 : p[k] <= p[Len(s) + 1]
    BY DEF Layout
  <1>. QED BY <1>4, <1>5 DEF Layout

(* A packet comes, whole or less a byte: a block more.                      *)
LEMMA LayoutGrows ==
    ASSUME NEW s, NEW D, Shape(s), Apart(s, D), NEW t \in [Int -> OnLine], NEW p \in [Int -> Int],
           NEW lo \in 1 .. Len(s) + 1, Layout(t, s, D, lo, p),
           lo <= Len(s) /\ Len(s) \in D => p[Len(s) + 1] = p[Len(s)] + Size(s, D, Len(s)) + 1,
           NEW q \in Seq(Bytes), NEW m \in Seq(Bytes), NEW E,
           \/ E = D /\ m = q
           \/ E = D \cup {Len(s) + 1} /\ Len(m) = Len(q) - 1 /\ m[1] = q[1],
           NEW T, T = More(t, p[Len(s) + 1] - 1, m),
           NEW P, P = [p EXCEPT ![Len(s) + 2] = p[Len(s) + 1] + Len(m)]
    PROVE  Layout(T, Append(s, q), E, lo, P)
  <1>. DEFINE n == Len(s)
              u == Append(s, q)
              d == Len(m)
              e == p[n + 1] - 1
  <1>1. n \in Nat /\ lo \in 1 .. n + 1 /\ d \in Nat
    <2>1. Len(s) \in Nat
      BY DEF Shape
    <2>2. Len(m) \in Nat
      OBVIOUS
    <2>. QED BY <2>1, <2>2
  <1>2. m \in Seq(OnLine)
    BY SeqMonotonic DEF OnLine
  <1>3. Layout(T, s, D, lo, p)
    BY <1>2, LayoutMore
  <1>4. e \in Int /\ p[n + 1] \in Int /\ p[n + 1] = e + 1
    <2>. DEFINE y == p[n + 1]
    <2>1. y \in Int
      BY <1>1
    <2>2. y - 1 \in Int /\ y = y - 1 + 1
      <3>. HIDE DEF y
      <3>. QED BY <2>1
    <2>. QED BY <2>1, <2>2
  <1>5. \A i \in 1 .. d : T[e + i] = m[i]
    BY <1>2, <1>4, MoreIs
  <1>6. \A i \in 1 .. d : m[i] \in Bytes
    BY ElementOfSeq
  <1>7. n + 2 \in Int /\ P[n + 2] = p[n + 1] + d /\ \A k \in Int : k # n + 2 => P[k] = p[k]
    BY <1>1
  <1>8. /\ Len(u) = n + 1 /\ u[n + 1] = q /\ \A k \in 1 .. n : u[k] = s[k]
    BY AppendProperties DEF Shape
  <1>9. (E = D /\ m = q) \/ (E = D \cup {n + 1} /\ d = Len(q) - 1 /\ m[1] = q[1])
    OBVIOUS
  <1>10. n + 1 \notin D /\ D \subseteq 1 .. n
    <2>1. D \subseteq 1 .. n
      BY DEF Apart
    <2>2. n + 1 \notin 1 .. n
      BY <1>1
    <2>. QED BY <2>1, <2>2
  <1>11. \A k \in 1 .. n : k # n + 1
    BY <1>1
  <1>12. ASSUME NEW k \in 1 .. n PROVE (k \in D <=> k \in E) /\ Size(u, E, k) = Size(s, D, k)
    <2>1. k \in D <=> k \in E
      BY <1>9, <1>11
    <2>2. u[k] = s[k]
      BY <1>8
    <2>. QED BY <2>1, <2>2 DEF Size
  <1>13. Size(u, E, n + 1) = d
    <2>1. CASE E = D /\ m = q
      BY <1>8, <1>10, <2>1 DEF Size
    <2>2. CASE E = D \cup {n + 1} /\ d = Len(q) - 1
      BY <1>8, <2>2 DEF Size
    <2>. QED BY <1>9, <2>1, <2>2
  <1>14. lo <= n /\ n \in D => p[n + 1] = p[n] + Size(s, D, n) + 1
    OBVIOUS
  <1>. HIDE DEF u, d, e
  <1>15. ASSUME NEW k \in lo .. n PROVE Follows(T, u, E, k, P) /\ On(T, u, E, k, P[k])
    <2>1. k \in 1 .. n /\ k \in lo .. Len(s) /\ k \in Int /\ k + 1 \in Int /\ k # n + 2 /\ k + 1 # n + 2
      <3>1. k \in lo .. Len(s)
        OBVIOUS
      <3>. HIDE DEF n
      <3>. QED BY <1>1, <3>1
    <2>2. P[k] = p[k] /\ P[k + 1] = p[k + 1]
      BY <1>7, <2>1
    <2>3. Follows(T, s, D, k, p) /\ On(T, s, D, k, p[k])
      BY <1>3, <2>1 DEF Layout
    <2>4. k \in E /\ k < n + 1 => p[k + 1] = p[k] + Size(s, D, k) + 1
      <3>1. CASE k < n
        BY <1>12, <2>1, <2>3, <3>1 DEF Follows
      <3>2. CASE k = n
        <4>1. lo <= n
          BY <1>1, <2>1
        <4>. QED BY <1>12, <1>14, <2>1, <3>2, <4>1
      <3>3. k < n \/ k = n
        BY <1>1, <2>1
      <3>. QED BY <3>1, <3>2, <3>3
    <2>5. p[k + 1] = p[k] + Size(s, D, k) \/ (p[k + 1] = p[k] + Size(s, D, k) + 1 /\ T[p[k] + Size(s, D, k)] = Serial!Gap)
      BY <2>3 DEF Follows
    <2>6. Follows(T, u, E, k, P)
      BY <1>8, <1>12, <2>1, <2>2, <2>4, <2>5 DEF Follows
    <2>7. On(T, u, E, k, P[k])
      <3>1. Size(u, E, k) = Size(s, D, k) /\ (k \in D <=> k \in E) /\ u[k] = s[k]
        BY <1>8, <1>12, <2>1
      <3>. QED BY <2>2, <2>3, <3>1 DEF On
    <2>. QED BY <2>6, <2>7
  <1>16. Follows(T, u, E, n + 1, P)
    <2>1. P[n + 1] = p[n + 1] /\ n + 1 + 1 = n + 2
      BY <1>1, <1>7
    <2>2. P[n + 1 + 1] = P[n + 1] + Size(u, E, n + 1)
      BY <1>7, <1>13, <2>1
    <2>3. ~(n + 1 < Len(u))
      BY <1>1, <1>8
    <2>. QED BY <2>2, <2>3 DEF Follows
  <1>17. On(T, u, E, n + 1, P[n + 1])
    <2>1. P[n + 1] = e + 1
      BY <1>1, <1>4, <1>7
    <2>2. ASSUME NEW i \in 1 .. d
          PROVE  T[e + 1 + i - 1] \in Bytes /\ (n + 1 \notin E \/ i = 1 => T[e + 1 + i - 1] = u[n + 1][i])
      <3>1. e + 1 + i - 1 = e + i
        BY <1>4
      <3>2. T[e + 1 + i - 1] = m[i]
        BY <1>5, <3>1
      <3>3. n + 1 \notin E \/ i = 1 => m[i] = q[i]
        BY <1>9
      <3>. QED BY <1>6, <1>8, <3>2, <3>3
    <2>. QED BY <1>13, <2>1, <2>2 DEF On
  <1>18. ASSUME NEW k \in lo .. n + 2 PROVE P[k] <= P[n + 2]
    <2>1. CASE k = n + 2
      BY <1>1, <1>4, <1>7, <2>1
    <2>2. CASE k # n + 2
      <3>1. k \in lo .. Len(s) + 1 /\ k \in Int
        BY <1>1, <2>2
      <3>2. P[k] = p[k] /\ p[k] \in Int /\ p[k] <= p[n + 1]
        BY <1>3, <1>7, <2>2, <3>1 DEF Layout
      <3>3. P[n + 2] = p[n + 1] + d /\ p[n + 1] \in Int /\ d \in Nat
        BY <1>1, <1>4, <1>7
      <3>. DEFINE x == p[k]
                  y == p[n + 1]
      <3>4. x <= y + d
        <4>1. x \in Int /\ y \in Int /\ d \in Nat /\ x <= y
          BY <3>2, <3>3
        <4>. HIDE DEF x, y
        <4>. QED BY <4>1
      <3>. QED BY <3>2, <3>3, <3>4
    <2>. QED BY <2>1, <2>2
  <1>19. ASSUME NEW k \in lo .. n + 1 PROVE Follows(T, u, E, k, P) /\ On(T, u, E, k, P[k])
    <2>1. k \in lo .. n \/ k = n + 1
      <3>. HIDE DEF n
      <3>. QED BY <1>1
    <2>. QED BY <1>15, <1>16, <1>17, <2>1
  <1>20. n + 1 + 1 = n + 2
    BY <1>1
  <1>21. Layout(T, u, E, lo, P)
    BY <1>8, <1>18, <1>19, <1>20 DEF Layout
  <1>. QED BY <1>21 DEF u

(* A gap at the end of the line is the last packet's.                        *)
LEMMA LastIs ==
    ASSUME NEW s, NEW D, Shape(s), Apart(s, D), NEW t, NEW p \in [Int -> Int], NEW lo \in 1 .. Len(s),
           Layout(t, s, D, lo, p)
    PROVE  /\ t[p[Len(s) + 1] - 1] = Serial!Gap => p[Len(s) + 1] = p[Len(s)] + Size(s, D, Len(s)) + 1
           /\ t[p[Len(s) + 1] - 1] # Serial!Gap => p[Len(s) + 1] = p[Len(s)] + Size(s, D, Len(s))
  <1>. DEFINE n == Len(s)
              a == p[n]
              b == p[n + 1]
              z == Size(s, D, n)
  <1>1. n \in Nat /\ lo \in 1 .. n
    BY DEF Shape
  <1>2. n \in lo .. n /\ n \in 1 .. n /\ n \in Int /\ n + 1 \in Int
    <2>. HIDE DEF n
    <2>. QED BY <1>1
  <1>3. Follows(t, s, D, n, p) /\ On(t, s, D, n, p[n])
    BY <1>2 DEF Layout
  <1>4. z \in Nat \ {0}
    BY <1>2, SizeIs
  <1>5. a \in Int /\ b \in Int
    BY <1>2
  <1>6. b = a + z \/ (b = a + z + 1 /\ t[a + z] = Serial!Gap)
    BY <1>3 DEF Follows
  <1>7. \A i \in 1 .. z : t[a + i - 1] \in Bytes
    BY <1>3 DEF On
  <1>. HIDE DEF n, a, b, z
  <1>8. t[a + z - 1] # Serial!Gap
    <2>1. z \in 1 .. z
      BY <1>4
    <2>. QED BY <1>7, <2>1, GapIsNoByte
  <1>9. CASE b = a + z
    <2>1. b - 1 = a + z - 1 /\ b # a + z + 1
      BY <1>4, <1>5, <1>9
    <2>. QED BY <1>8, <1>9, <2>1 DEF n, a, b, z
  <1>10. CASE b = a + z + 1 /\ t[a + z] = Serial!Gap
    <2>1. b - 1 = a + z
      BY <1>4, <1>5, <1>10
    <2>. QED BY <1>10, <2>1 DEF n, a, b, z
  <1>. QED BY <1>6, <1>9, <1>10

(* The line is quiet after the last packet.                                 *)
LEMMA LayoutQuiet ==
    ASSUME NEW s, NEW D, Shape(s), Apart(s, D), NEW t \in [Int -> OnLine], NEW p \in [Int -> Int],
           NEW lo \in 1 .. Len(s), Layout(t, s, D, lo, p), t[p[Len(s) + 1] - 1] # Serial!Gap,
           NEW T, T = More(t, p[Len(s) + 1] - 1, <<Serial!Gap>>),
           NEW P, P = [p EXCEPT ![Len(s) + 1] = p[Len(s) + 1] + 1]
    PROVE  Layout(T, s, D, lo, P)
  <1>. DEFINE n == Len(s)
              m == <<Serial!Gap>>
              y == p[n + 1]
  <1>1. n \in Nat /\ lo \in 1 .. n
    BY DEF Shape
  <1>2. m \in Seq(OnLine) /\ Len(m) = 1 /\ m[1] = Serial!Gap
    BY DEF OnLine
  <1>3. lo \in 1 .. Len(s) + 1
    BY <1>1
  <1>4. Layout(T, s, D, lo, p)
    BY <1>2, <1>3, LayoutMore
  <1>5. y \in Int /\ y - 1 \in Int
    <2>1. y \in Int
      BY <1>1
    <2>. HIDE DEF y
    <2>. QED BY <2>1
  <1>6. T[y] = Serial!Gap
    <2>1. 1 \in 1 .. Len(m)
      BY <1>2
    <2>2. T[y - 1 + 1] = m[1]
      BY <1>2, <1>5, <2>1, MoreIs
    <2>3. y - 1 + 1 = y
      BY <1>5
    <2>. QED BY <1>2, <2>2, <2>3
  <1>7. P[n + 1] = y + 1 /\ \A k \in Int : k # n + 1 => P[k] = p[k]
    BY <1>1
  <1>8. p[n + 1] = p[n] + Size(s, D, n)
    BY LastIs
  <1>9. ASSUME NEW k \in lo .. n PROVE Follows(T, s, D, k, P) /\ On(T, s, D, k, P[k])
    <2>1. k \in lo .. Len(s)
      OBVIOUS
    <2>2. k \in Int /\ k + 1 \in Int /\ k # n + 1
      <3>. HIDE DEF n
      <3>. QED BY <1>1
    <2>3. Follows(T, s, D, k, p) /\ On(T, s, D, k, p[k])
      BY <1>4, <2>1 DEF Layout
    <2>4. P[k] = p[k]
      BY <1>7, <2>2
    <2>5. Follows(T, s, D, k, P)
      <3>1. CASE k = n
        <4>1. P[k] + Size(s, D, k) = y
          BY <1>8, <2>4, <3>1
        <4>2. P[k + 1] = P[k] + Size(s, D, k) + 1
          BY <1>7, <3>1, <4>1
        <4>3. T[P[k] + Size(s, D, k)] = Serial!Gap
          BY <1>6, <4>1
        <4>. QED BY <4>2, <4>3 DEF Follows
      <3>2. CASE k # n
        <4>1. k + 1 # n + 1
          <5>. HIDE DEF n
          <5>. QED BY <1>1, <2>2, <3>2
        <4>2. P[k + 1] = p[k + 1]
          BY <1>7, <2>2, <4>1
        <4>. QED BY <2>3, <2>4, <4>2 DEF Follows
      <3>. QED BY <3>1, <3>2
    <2>. QED BY <2>3, <2>4, <2>5
  <1>10. ASSUME NEW k \in lo .. n + 1 PROVE P[k] <= P[n + 1]
    <2>1. k \in lo .. Len(s) + 1
      OBVIOUS
    <2>2. p[k] <= y
      BY <1>4, <2>1 DEF Layout
    <2>3. k \in Int
      <3>. HIDE DEF n
      <3>. QED BY <1>1
    <2>. DEFINE x == p[k]
    <2>4. x \in Int
      BY <2>3
    <2>5. x <= y + 1 /\ y + 1 <= y + 1
      <3>. HIDE DEF x, y
      <3>. QED BY <1>5, <2>2, <2>4 DEF x
    <2>6. P[k] = x \/ P[k] = y + 1
      BY <1>7, <2>3
    <2>. QED BY <1>7, <2>5, <2>6
  <1>. QED BY <1>9, <1>10 DEF Layout

(* Where the line ends, and that a packet that lost a byte was followed by   *)
(* a gap when another comes.                                                *)
LEMMA LineEnds ==
    ASSUME BridgeInv, OrderInv, separated, NEW t \in [Int -> OnLine], NEW p \in [Int -> Int],
           NEW lo \in 1 .. Len(b_sent) + 1, At(t, p, lo)
    PROVE  /\ wire # <<>> => /\ lo \in 1 .. Len(b_sent)
                             /\ wire[Len(wire)] = t[p[Len(b_sent) + 1] - 1]
           /\ wire = <<>> => lo = Len(b_sent) + 1
  <1>. DEFINE n == Len(b_sent)
              e == p[n + 1] - 1
              y == p[n + 1]
              a == p[lo]
              r == IF b_pc = "rest" THEN p[lo] ELSE p[lo] - 1
              m == Len(wire)
  <1>1. Shape(b_sent) /\ Apart(b_sent, damaged) /\ Layout(t, b_sent, damaged, lo, p)
    BY DEF OrderInv, At
  <1>2. n \in Nat /\ lo \in 1 .. n + 1 /\ wire \in Seq(OnLine)
    BY <1>1 DEF Shape, BridgeInv
  <1>3. m \in Nat /\ (wire = <<>> <=> m = 0)
    BY <1>2, EmptySeq
  <1>4. Carries(wire, t, r, e)
    BY DEF At
  <1>5. y \in Int /\ a \in Int
    BY <1>2
  <1>6. m = e - r /\ \A i \in 1 .. m : wire[i] = t[r + i]
    BY <1>4 DEF Carries
  <1>7. b_pc = "rest" => lo \in 1 .. n
    <2>1. b_pc = "rest" => lo <= n
      BY DEF At
    <2>. HIDE DEF n
    <2>. QED BY <1>2, <2>1
  <1>8. r = a \/ r = a - 1
    OBVIOUS
  <1>9. b_pc # "rest" => r = a - 1
    OBVIOUS
  <1>10. lo = n + 1 => a = y
    OBVIOUS
  <1>11. e = y - 1
    OBVIOUS
  <1>12. m = e - r /\ r \in Int /\ e \in Int
    <2>1. m = e - r
      BY <1>6
    <2>. HIDE DEF e, y, a, r, m
    <2>2. e \in Int
      BY <1>5, <1>11
    <2>3. r \in Int
      BY <1>5, <1>8
    <2>. QED BY <2>1, <2>2, <2>3
  <1>13. ASSUME wire # <<>> PROVE lo \in 1 .. n /\ wire[m] = t[e]
    <2>1. lo \in 1 .. n
      <3>1. CASE b_pc = "rest"
        BY <1>7, <3>1
      <3>2. CASE b_pc # "rest"
        <4>1. m # 0 /\ r = a - 1
          BY <1>3, <1>9, <1>13, <3>2
        <4>. HIDE DEF n, e, y, a, r, m
        <4>2. lo # n + 1
          BY <1>3, <1>5, <1>6, <1>10, <1>11, <4>1
        <4>. QED BY <1>2, <4>2
      <3>. QED BY <3>1, <3>2
    <2>2. m \in 1 .. m /\ r + m = e
      <3>1. m # 0
        BY <1>3, <1>13
      <3>. HIDE DEF n, e, y, a, r, m
      <3>. QED BY <1>3, <1>12, <3>1
    <2>. QED BY <1>6, <2>1, <2>2
  <1>14. ASSUME wire = <<>>, lo \in 1 .. n PROVE FALSE
    <2>. DEFINE z == Size(b_sent, damaged, lo)
    <2>1. z \in Nat \ {0}
      BY <1>1, <1>14, SizeIs
    <2>2. p[lo] + z <= p[lo + 1] /\ p[lo + 1] <= y /\ p[lo + 1] \in Int
      BY <1>1, <1>14, BlockIs
    <2>3. b_pc = "rest" => z > 1
      <3>. DEFINE d == Len(b_sent[lo])
      <3>1. b_pc = "rest" => d > 1
        BY DEF At
      <3>2. d \in Nat /\ (lo \in damaged => z = d - 1 /\ d > 2) /\ (lo \notin damaged => z = d)
        BY <1>1, <1>14, SizeIs
      <3>3. ASSUME d > 1 PROVE z > 1
        <4>1. (z = d - 1 /\ d > 2) \/ z = d
          BY <3>2
        <4>2. d \in Nat
          BY <3>2
        <4>3. CASE z = d
          BY <3>3, <4>3
        <4>4. CASE z = d - 1 /\ d > 2
          <5>. HIDE DEF d
          <5>1. d - 1 > 1
            BY <4>2, <4>4
          <5>. QED BY <4>4, <5>1
        <4>. QED BY <4>1, <4>3, <4>4
      <3>. QED BY <3>1, <3>3
    <2>4. m = 0
      BY <1>3, <1>14
    <2>. DEFINE b == p[lo + 1]
    <2>5. a + z <= b /\ b <= y /\ b \in Int
      BY <2>2
    <2>. HIDE DEF n, e, y, a, r, m, z, b
    <2>6. a + z <= y
      BY <1>5, <2>1, <2>5
    <2>7. y - 1 = r
      BY <1>11, <1>12, <2>4
    <2>8. CASE r = a - 1
      BY <1>5, <2>1, <2>6, <2>7, <2>8
    <2>9. CASE r # a - 1
      <3>1. z > 1 /\ r = a
        BY <1>8, <1>9, <2>3, <2>9
      <3>. QED BY <1>5, <2>1, <2>6, <2>7, <3>1
    <2>. QED BY <2>8, <2>9
  <1>15. wire = <<>> => lo = n + 1
    <2>1. ~(lo \in 1 .. n) => lo = n + 1
      <3>. HIDE DEF n
      <3>. QED BY <1>2
    <2>. QED BY <1>14, <2>1
  <1>. QED BY <1>13, <1>15

LEMMA GrowsOrder ==
    ASSUME BridgeInv, OrderInv, separated, Serial!AfterGap, NEW q \in Seq(Bytes), NEW m \in Seq(Bytes), NEW E,
           \/ E = damaged /\ m = q
           \/ E = damaged \cup {Len(b_sent) + 1} /\ Len(m) = Len(q) - 1 /\ m[1] = q[1],
           b_sent' = Append(b_sent, q), wire' = wire \o m, damaged' = E,
           UNCHANGED <<b_pc, length, forwarded>>
    PROVE  InOrder'
  <1>. DEFINE n == Len(b_sent)
  <1>1. Shape(b_sent) /\ Apart(b_sent, damaged) /\ n \in Nat /\ wire \in Seq(OnLine)
    BY DEF OrderInv, Shape, BridgeInv
  <1>2. PICK t \in [Int -> OnLine], p \in [Int -> Int], lo \in 1 .. Len(b_sent) + 1 :
            At(t, p, lo) /\ Passed(forwarded, b_sent, damaged, lo)
    BY DEF OrderInv, InOrder
  <1>. DEFINE e == p[n + 1] - 1
              T == More(t, e, m)
              P == [p EXCEPT ![n + 2] = p[n + 1] + Len(m)]
              r == IF b_pc = "rest" THEN p[lo] ELSE p[lo] - 1
  <1>3. Layout(t, b_sent, damaged, lo, p) /\ Carries(wire, t, r, e)
    BY <1>2 DEF At
  <1>4. m \in Seq(OnLine) /\ Len(m) \in Nat
    <2>1. m \in Seq(OnLine)
      BY SeqMonotonic DEF OnLine
    <2>2. Len(m) \in Nat
      BY <2>1
    <2>. QED BY <2>1, <2>2
  <1>5. n + 1 \in Int /\ n + 2 \in Int /\ lo \in Int /\ lo # n + 2 /\ lo \in 1 .. n + 2 /\ n + 1 + 1 = n + 2
    <2>1. lo \in 1 .. n + 1
      OBVIOUS
    <2>. HIDE DEF n
    <2>. QED BY <1>1, <2>1
  <1>6. p[n + 1] \in Int /\ p[lo] \in Int
    BY <1>5
  <1>7. e \in Int /\ r \in Int /\ p[n + 1] + Len(m) \in Int /\ (p[n + 1] + Len(m)) - 1 = e + Len(m)
    <2>. DEFINE x == p[n + 1]
                a == p[lo]
                d == Len(m)
    <2>1. x \in Int /\ a \in Int /\ d \in Nat
      BY <1>4, <1>6
    <2>. HIDE DEF x, a, d
    <2>2. x - 1 \in Int /\ a - 1 \in Int /\ x + d \in Int /\ (x + d) - 1 = (x - 1) + d
      BY <2>1
    <2>. QED BY <2>1, <2>2 DEF x, a, d
  <1>8. T \in [Int -> OnLine]
    BY <1>4, <1>7, MoreIs
  <1>9. P \in [Int -> Int] /\ P[n + 2] = p[n + 1] + Len(m) /\ P[lo] = p[lo]
    BY <1>5, <1>7
  <1>10. Len(b_sent') = n + 1
    BY <1>1, AppendProperties DEF Shape
  <1>11. lo <= n /\ n \in damaged => p[n + 1] = p[n] + Size(b_sent, damaged, n) + 1
    <2>. SUFFICES ASSUME lo <= n, n \in damaged PROVE p[n + 1] = p[n] + Size(b_sent, damaged, n) + 1
      OBVIOUS
    <2>1. lo \in 1 .. n /\ lo # n + 1
      <3>1. lo \in 1 .. n + 1
        OBVIOUS
      <3>. HIDE DEF n
      <3>. QED BY <1>1, <3>1
    <2>2. faults # 0
      BY DEF OrderInv
    <2>3. wire # <<>> /\ wire[Len(wire)] = t[e]
      BY <1>2, <2>1, LineEnds
    <2>4. Serial!Last(wire) = Serial!Gap
      BY <2>2, <2>3 DEF Serial!AfterGap
    <2>5. t[e] = Serial!Gap
      BY <2>3, <2>4 DEF Serial!Last
    <2>. QED BY <1>1, <1>3, <2>1, <2>5, LastIs
  <1>12. Layout(T, b_sent', E, lo, P)
    BY <1>1, <1>3, <1>11, LayoutGrows
  <1>13. Carries(wire', T, r, e + Len(m))
    BY <1>1, <1>3, <1>4, <1>7, CarriesMore
  <1>14. Passed(forwarded, b_sent', E, lo)
    BY <1>1, <1>2, PassedGrows
  <1>15. b_pc = "rest" => lo <= n + 1 /\ b_sent'[lo] = b_sent[lo] /\ Len(b_sent[lo]) > 1 /\ length = Len(b_sent[lo])
    <2>. SUFFICES ASSUME b_pc = "rest"
                  PROVE  lo <= n + 1 /\ b_sent'[lo] = b_sent[lo] /\ Len(b_sent[lo]) > 1 /\ length = Len(b_sent[lo])
      OBVIOUS
    <2>1. lo <= n /\ Len(b_sent[lo]) > 1 /\ length = Len(b_sent[lo])
      BY <1>2 DEF At
    <2>2. lo \in 1 .. n /\ lo <= n + 1
      <3>. HIDE DEF n
      <3>1. lo \in 1 .. n + 1
        BY DEF n
      <3>. QED BY <1>1, <2>1, <3>1
    <2>3. Append(b_sent, q)[lo] = b_sent[lo]
      BY <1>1, <2>2, AppendProperties DEF Shape
    <2>. QED BY <2>1, <2>2, <2>3
  <1>. HIDE DEF T, P
  <1>16. P[Len(b_sent') + 1] - 1 = e + Len(m)
    <2>1. Len(b_sent') + 1 = n + 2
      BY <1>5, <1>10
    <2>. QED BY <1>7, <1>9, <2>1
  <1>17. b_pc = "rest" => Carries(wire', T, P[lo], P[Len(b_sent') + 1] - 1)
    BY <1>9, <1>13, <1>16
  <1>18. b_pc # "rest" => Carries(wire', T, P[lo] - 1, P[Len(b_sent') + 1] - 1)
    BY <1>9, <1>13, <1>16
  <1>19. PICK U \in [Int -> OnLine], V \in [Int -> Int] : U = T /\ V = P
    BY <1>8, <1>9
  <1>20. At(U, V, lo)'
    <2>1. b_pc' = b_pc /\ length' = length /\ damaged' = E
      OBVIOUS
    <2>2. Layout(U, b_sent', damaged', lo, V)
      BY <1>12, <1>19, <2>1
    <2>3. b_pc' = "rest" => /\ lo <= Len(b_sent') /\ Len(b_sent'[lo]) > 1 /\ length' = Len(b_sent'[lo])
                            /\ Carries(wire', U, V[lo], V[Len(b_sent') + 1] - 1)
      BY <1>10, <1>15, <1>17, <1>19, <2>1
    <2>4. b_pc' # "rest" => Carries(wire', U, V[lo] - 1, V[Len(b_sent') + 1] - 1)
      BY <1>18, <1>19, <2>1
    <2>. QED BY <2>2, <2>3, <2>4 DEF At
  <1>21. lo \in 1 .. Len(b_sent') + 1
    BY <1>5, <1>10
  <1>22. Passed(forwarded', b_sent', damaged', lo)
    BY <1>14
  <1>. QED BY <1>19, <1>20, <1>21, <1>22 DEF InOrder

LEMMA ShapeGrows ==
    ASSUME BridgeInv, OrderInv, NEW n \in Nat, NEW c \in Nat
    PROVE  /\ Serial!Packet(n, c) \in Seq(Bytes)
           /\ Shape(Append(b_sent, Serial!Packet(n, c)))
           /\ n > 0 => Len(Serial!Packet(n, c)) = n
           /\ Len(Append(b_sent, Serial!Packet(n, c))) = Len(b_sent) + 1
           /\ Append(b_sent, Serial!Packet(n, c))[Len(b_sent) + 1] = Serial!Packet(n, c)
           /\ \A k \in 1 .. Len(b_sent) : Append(b_sent, Serial!Packet(n, c))[k] = b_sent[k]
  <1>. DEFINE q == Serial!Packet(n, c)
              u == Append(b_sent, q)
              d == Len(b_sent)
  <1>1. Shape(b_sent) /\ d \in Nat
    <2>1. Shape(b_sent)
      BY DEF OrderInv
    <2>2. b_sent \in Seq(Seq(Bytes))
      BY <2>1 DEF Shape
    <2>. QED BY <2>1, <2>2
  <1>2. IsPacket(q, n, d + 1)
    BY PacketIs
  <1>. HIDE DEF q
  <1>3. u \in Seq(Seq(Bytes)) /\ Len(u) = d + 1 /\ u[d + 1] = q /\ \A k \in 1 .. d : u[k] = b_sent[k]
    BY <1>1, <1>2, AppendProperties DEF Shape, IsPacket
  <1>. HIDE DEF u, d
  <1>4. ASSUME NEW k \in 1 .. d + 1
        PROVE  /\ Len(u[k]) >= 1 /\ \A i \in 1 .. Len(u[k]) : u[k][i].packet = k
               /\ u[k][1].value = Len(u[k]) \/ (Len(u[k]) = 1 /\ u[k][1].value = 0)
    <2>1. CASE k \in 1 .. d
      BY <1>1, <1>3, <2>1 DEF Shape, d
    <2>2. CASE k = d + 1
      <3>1. n > 0 \/ n = 0
        OBVIOUS
      <3>2. CASE n > 0
        <4>1. u[k] = q /\ Len(q) = n /\ q[1].value = n
          BY <1>2, <1>3, <2>2, <3>2 DEF IsPacket
        <4>2. \A i \in 1 .. Len(q) : q[i].packet = k
          BY <1>2, <2>2 DEF IsPacket
        <4>. QED BY <3>2, <4>1, <4>2
      <3>3. CASE n = 0
        BY <1>2, <1>3, <2>2, <3>3 DEF IsPacket
      <3>. QED BY <3>1, <3>2, <3>3
    <2>. QED BY <1>1, <2>1, <2>2
  <1>5. Shape(u)
    BY <1>3, <1>4 DEF Shape
  <1>. QED BY <1>2, <1>3, <1>5 DEF IsPacket, q, u, d

LEMMA DeviceSendsOrder ==
    ASSUME BridgeInv, OrderInv, NEW n \in PacketLengths, NEW c \in Contents, Serial!device_sends(n, c)
    PROVE  OrderInv'
  <1>. DEFINE q == Serial!Packet(n, c)
  <1>1. /\ b_sent' = Append(b_sent, q) /\ wire' = wire \o q /\ separated' = (separated /\ Serial!AfterGap)
        /\ UNCHANGED <<b_pc, length, faults, damaged, forwarded>>
    BY DEF Serial!device_sends
  <1>2. n \in Nat /\ c \in Nat
    BY ProgramsAssumption DEF Serial!BridgeAssumption
  <1>3. q \in Seq(Bytes) /\ Shape(b_sent') /\ Len(b_sent') = Len(b_sent) + 1
    BY <1>1, <1>2, ShapeGrows
  <1>4. \A k \in 1 .. Len(b_sent) : b_sent'[k] = b_sent[k]
    BY <1>1, <1>2, ShapeGrows
  <1>5. damaged' \subseteq 1 .. Len(b_sent')
    <2>1. damaged \subseteq 1 .. Len(b_sent) /\ Len(b_sent) \in Nat
      BY DEF OrderInv, Shape
    <2>. QED BY <1>1, <1>3, <2>1
  <1>. HIDE DEF q
  <1>6. ASSUME separated' PROVE Apart(b_sent', damaged') /\ InOrder'
    <2>1. separated /\ Serial!AfterGap
      BY <1>1, <1>6
    <2>2. Apart(b_sent', damaged')
      <3>1. damaged' \subseteq 1 .. Len(b_sent) /\ \A k \in damaged' : Len(b_sent[k]) > 2
        BY <1>1, <2>1 DEF OrderInv, Apart
      <3>. QED BY <1>4, <1>5, <3>1 DEF Apart
    <2>3. InOrder'
      BY <1>1, <1>3, <2>1, GrowsOrder
    <2>. QED BY <2>2, <2>3
  <1>. QED BY <1>1, <1>3, <1>5, <1>6 DEF OrderInv

LEMMA LineFailsOrder ==
    ASSUME BridgeInv, OrderInv, NEW n \in PacketLengths, NEW c \in Contents, Serial!line_fails(n, c)
    PROVE  OrderInv'
  <1>. DEFINE q == Serial!Packet(n, c)
  <1>1. /\ b_sent' = Append(b_sent, q) /\ faults' = faults + 1 /\ damaged' = damaged \cup {Len(b_sent) + 1}
        /\ UNCHANGED <<b_pc, length, forwarded>>
    BY DEF Serial!line_fails
  <1>2. PICK i \in 1 .. n :
            \/ /\ wire' = wire \o Serial!RemoveAt(q, i)
               /\ separated' = (separated /\ Serial!AfterGap /\ i > 1 /\ n > 2)
            \/ separated' = FALSE
    BY DEF Serial!line_fails
  <1>3. n \in Nat /\ c \in Nat
    BY ProgramsAssumption DEF Serial!BridgeAssumption
  <1>4. n > 0 /\ i \in Nat /\ i >= 1 /\ i <= n
    BY <1>2, <1>3
  <1>5. q \in Seq(Bytes) /\ Shape(b_sent') /\ Len(b_sent') = Len(b_sent) + 1 /\ Len(q) = n
    BY <1>1, <1>3, <1>4, ShapeGrows
  <1>6. b_sent'[Len(b_sent) + 1] = q /\ \A k \in 1 .. Len(b_sent) : b_sent'[k] = b_sent[k]
    BY <1>1, <1>3, ShapeGrows
  <1>7. damaged' \subseteq 1 .. Len(b_sent')
    <2>1. damaged \subseteq 1 .. Len(b_sent) /\ Len(b_sent) \in Nat
      BY DEF OrderInv, Shape
    <2>2. Len(b_sent) + 1 \in 1 .. Len(b_sent) + 1 /\ 1 .. Len(b_sent) \subseteq 1 .. Len(b_sent) + 1
      BY <2>1
    <2>. QED BY <1>1, <1>5, <2>1, <2>2
  <1>8. faults' # 0
    BY <1>1 DEF BridgeInv, Serial!TypeOK
  <1>. HIDE DEF q
  <1>9. ASSUME separated' PROVE Apart(b_sent', damaged') /\ InOrder'
    <2>1. separated /\ Serial!AfterGap /\ i > 1 /\ n > 2 /\ wire' = wire \o Serial!RemoveAt(q, i)
      BY <1>2, <1>9
    <2>2. Apart(b_sent', damaged')
      <3>1. damaged \subseteq 1 .. Len(b_sent) /\ \A k \in damaged : Len(b_sent[k]) > 2
        BY <2>1 DEF OrderInv, Apart
      <3>2. \A k \in damaged' : Len(b_sent'[k]) > 2
        BY <1>1, <1>5, <1>6, <2>1, <3>1
      <3>. QED BY <1>7, <3>2 DEF Apart
    <2>. DEFINE m == Serial!RemoveAt(q, i)
                f == SubSeq(q, 1, i - 1)
                g == SubSeq(q, i + 1, n)
    <2>3. m = f \o g
      BY <1>5 DEF Serial!RemoveAt
    <2>4. i - 1 \in Int /\ 1 <= i - 1 /\ i + 1 \in Int /\ n \in Int
      BY <1>3, <1>4, <2>1
    <2>5. \A j \in 1 .. n : q[j] \in Bytes
      BY <1>5, ElementOfSeq
    <2>6. (\A j \in 1 .. i - 1 : q[j] \in Bytes) /\ (\A j \in i + 1 .. n : q[j] \in Bytes)
      BY <1>3, <1>4, <2>5
    <2>7. f \in Seq(Bytes) /\ Len(f) = i - 1 - 1 + 1
      BY <2>4, <2>6, SubSeqProperties
    <2>8. f[1] = q[1]
      <3>1. 1 \in 1 .. i - 1 - 1 + 1 /\ 1 + 1 - 1 = 1
        BY <2>4
      <3>2. f[1] = q[1 + 1 - 1]
        BY <2>4, <2>6, <3>1, SubSeqProperties
      <3>. QED BY <3>1, <3>2
    <2>9. g \in Seq(Bytes) /\ Len(g) = (IF i + 1 <= n THEN n - (i + 1) + 1 ELSE 0)
      BY <2>4, <2>6, SubSeqProperties
    <2>. HIDE DEF f, g, m
    <2>10. m \in Seq(Bytes) /\ Len(m) = Len(f) + Len(g)
      BY <2>3, <2>7, <2>9, ConcatProperties
    <2>11. m[1] = f[1]
      <3>1. 1 \in 1 .. Len(f) + Len(g) /\ 1 <= Len(f)
        BY <1>3, <1>4, <2>4, <2>7, <2>9
      <3>. QED BY <2>3, <2>7, <2>9, <3>1, ConcatProperties
    <2>12. Len(m) = Len(q) - 1
      <3>1. CASE i + 1 <= n
        BY <1>3, <1>4, <1>5, <2>7, <2>9, <2>10, <3>1
      <3>2. CASE ~(i + 1 <= n)
        <4>1. i = n
          BY <1>3, <1>4, <3>2
        <4>. QED BY <1>3, <1>4, <1>5, <2>7, <2>9, <2>10, <3>2, <4>1
      <3>. QED BY <3>1, <3>2
    <2>13. wire' = wire \o m
      BY <2>1 DEF m
    <2>14. InOrder'
      BY <1>1, <1>5, <2>1, <2>8, <2>10, <2>11, <2>12, <2>13, GrowsOrder
    <2>. QED BY <2>2, <2>14
  <1>. QED BY <1>1, <1>5, <1>7, <1>8, <1>9 DEF OrderInv

LEMMA LineQuietOrder == ASSUME BridgeInv, OrderInv, Serial!line_quiet PROVE OrderInv'
  <1>. DEFINE m == <<Serial!Gap>>
              n == Len(b_sent)
  <1>1. /\ wire # <<>> /\ Serial!Last(wire) # Serial!Gap /\ wire' = Append(wire, Serial!Gap)
        /\ UNCHANGED <<b_pc, length, b_sent, faults, damaged, separated, forwarded>>
    BY DEF Serial!line_quiet
  <1>2. ASSUME separated PROVE InOrder'
    <2>1. Shape(b_sent) /\ Apart(b_sent, damaged) /\ n \in Nat /\ wire \in Seq(OnLine)
      BY <1>2 DEF OrderInv, Shape, BridgeInv
    <2>2. PICK t \in [Int -> OnLine], p \in [Int -> Int], lo \in 1 .. Len(b_sent) + 1 :
              At(t, p, lo) /\ Passed(forwarded, b_sent, damaged, lo)
      BY <1>2 DEF OrderInv, InOrder
    <2>. DEFINE e == p[n + 1] - 1
                T == More(t, e, m)
                P == [p EXCEPT ![n + 1] = p[n + 1] + 1]
                r == IF b_pc = "rest" THEN p[lo] ELSE p[lo] - 1
    <2>3. Layout(t, b_sent, damaged, lo, p) /\ Carries(wire, t, r, e)
      BY <2>2 DEF At
    <2>4. m \in Seq(OnLine) /\ Len(m) = 1 /\ wire' = wire \o m
      <3>1. Serial!Gap \in OnLine
        BY DEF OnLine
      <3>2. m \in Seq(OnLine) /\ Len(m) = 1
        BY <3>1
      <3>3. wire' = wire \o m
        BY <1>1, <2>1, <3>1, AppendIsConcat
      <3>. QED BY <3>2, <3>3
    <2>5. lo \in 1 .. n /\ wire[Len(wire)] = t[e]
      BY <1>1, <1>2, <2>2, LineEnds
    <2>6. t[e] # Serial!Gap
      BY <1>1, <2>5 DEF Serial!Last
    <2>7. n + 1 \in Int /\ lo \in Int /\ lo # n + 1
      <3>. HIDE DEF n
      <3>. QED BY <2>1, <2>5
    <2>8. p[n + 1] \in Int /\ p[lo] \in Int
      BY <2>7
    <2>9. e \in Int /\ r \in Int /\ p[n + 1] + 1 \in Int /\ (p[n + 1] + 1) - 1 = e + 1
      <3>. DEFINE x == p[n + 1]
                  a == p[lo]
      <3>1. x \in Int /\ a \in Int
        BY <2>8
      <3>. HIDE DEF x, a
      <3>2. x - 1 \in Int /\ a - 1 \in Int /\ x + 1 \in Int /\ (x + 1) - 1 = (x - 1) + 1
        BY <3>1
      <3>. QED BY <3>1, <3>2 DEF x, a
    <2>10. T \in [Int -> OnLine]
      BY <2>4, <2>9, MoreIs
    <2>11. P \in [Int -> Int] /\ P[n + 1] = p[n + 1] + 1 /\ P[lo] = p[lo]
      BY <2>7, <2>9
    <2>12. Layout(T, b_sent, damaged, lo, P)
      BY <2>1, <2>3, <2>5, <2>6, LayoutQuiet
    <2>13. Carries(wire', T, r, e + 1)
      BY <2>1, <2>3, <2>4, <2>9, CarriesMore
    <2>. HIDE DEF T, P
    <2>14. b_pc = "rest" => Carries(wire', T, P[lo], P[Len(b_sent) + 1] - 1)
      <3>1. P[Len(b_sent) + 1] - 1 = e + 1
        BY <2>9, <2>11
      <3>. QED BY <2>11, <2>13, <3>1
    <2>15. b_pc # "rest" => Carries(wire', T, P[lo] - 1, P[Len(b_sent) + 1] - 1)
      <3>1. P[Len(b_sent) + 1] - 1 = e + 1
        BY <2>9, <2>11
      <3>. QED BY <2>11, <2>13, <3>1
    <2>16. b_pc = "rest" => lo <= Len(b_sent) /\ Len(b_sent[lo]) > 1 /\ length = Len(b_sent[lo])
      BY <2>2 DEF At
    <2>17. PICK U \in [Int -> OnLine], V \in [Int -> Int] : U = T /\ V = P
      BY <2>10, <2>11
    <2>18. Layout(U, b_sent, damaged, lo, V)
      BY <2>12, <2>17
    <2>19. b_pc = "rest" => Carries(wire', U, V[lo], V[Len(b_sent) + 1] - 1)
      BY <2>14, <2>17
    <2>20. b_pc # "rest" => Carries(wire', U, V[lo] - 1, V[Len(b_sent) + 1] - 1)
      BY <2>15, <2>17
    <2>21. At(U, V, lo)'
      BY <1>1, <2>16, <2>18, <2>19, <2>20 DEF At
    <2>. QED BY <1>1, <2>2, <2>21 DEF InOrder
  <1>. QED BY <1>1, <1>2 DEF OrderInv

LEMMA RestOrder ==
    ASSUME BridgeInv, OrderInv,
           \/ Serial!serial_write_packet \/ Serial!termination_handler \/ Serial!stops \/ Serial!gateway_sends
           \/ UNCHANGED Serial!vars
    PROVE  OrderInv'
  <1>1. UNCHANGED <<wire, b_sent, length, forwarded, faults, damaged, separated>>
    BY DEF Serial!serial_write_packet, Serial!termination_handler, Serial!stops, Serial!gateway_sends, Serial!vars,
           Serial!line
  <1>2. b_pc' = "rest" <=> b_pc = "rest"
    BY DEF Serial!serial_write_packet, Serial!termination_handler, Serial!stops, Serial!gateway_sends, Serial!vars
  <1>3. ASSUME separated PROVE InOrder'
    <2>1. PICK t \in [Int -> OnLine], p \in [Int -> Int], lo \in 1 .. Len(b_sent) + 1 :
              At(t, p, lo) /\ Passed(forwarded, b_sent, damaged, lo)
      BY <1>3 DEF OrderInv, InOrder
    <2>2. At(t, p, lo)'
      BY <1>1, <1>2, <2>1 DEF At
    <2>. QED BY <1>1, <2>1, <2>2 DEF InOrder
  <1>. QED BY <1>1, <1>3 DEF OrderInv

LEMMA OrderStep == ASSUME BridgeInv, OrderInv, [Serial!Next]_(Serial!vars) PROVE OrderInv'
  <1>1. CASE Serial!Bridge
    BY <1>1, ReadLengthOrder, ReadRestOrder, RestOrder DEF Serial!Bridge
  <1>2. CASE \E n \in PacketLengths, c \in Contents : Serial!device_sends(n, c) \/ Serial!line_fails(n, c)
    BY <1>2, DeviceSendsOrder, LineFailsOrder
  <1>3. CASE Serial!line_quiet
    BY <1>3, LineQuietOrder
  <1>4. CASE Serial!serial_write_packet \/ Serial!termination_handler \/ Serial!gateway_sends \/ UNCHANGED Serial!vars
    BY <1>4, RestOrder
  <1>. QED BY <1>1, <1>2, <1>3, <1>4 DEF Serial!Next

(* A line read to its end has no packet that was not passed on.             *)
LEMMA OrderedIsWhole == BridgeInv /\ OrderInv => Serial!WholePackets
  <1>. SUFFICES ASSUME BridgeInv, OrderInv, separated
                PROVE  /\ \A i \in DOMAIN forwarded : /\ Serial!Number(i) \in Serial!Proper
                                                      /\ forwarded[i].bytes = Tail(b_sent[Serial!Number(i)])
                       /\ \A i, j \in DOMAIN forwarded : i < j => Serial!Number(i) < Serial!Number(j)
                       /\ \A k \in Serial!Proper :
                              \/ b_pc = "select" /\ wire = <<>>
                              \/ \E i \in DOMAIN forwarded : k < Serial!Number(i)
                              => \E i \in DOMAIN forwarded : Serial!Number(i) = k
    BY DEF Serial!WholePackets
  <1>1. Shape(b_sent) /\ Len(b_sent) \in Nat
    BY DEF OrderInv, Shape
  <1>2. PICK t \in [Int -> OnLine], p \in [Int -> Int], lo \in 1 .. Len(b_sent) + 1 :
            At(t, p, lo) /\ Passed(forwarded, b_sent, damaged, lo)
    BY DEF OrderInv, InOrder
  <1>3. Serial!Proper = ProperOf(b_sent, damaged) /\ \A i : Serial!Number(i) = NumberOf(forwarded[i])
    BY DEF Serial!Proper, ProperOf, Serial!Number, NumberOf
  <1>4. ASSUME NEW k \in Serial!Proper,
               (b_pc = "select" /\ wire = <<>>) \/ \E i \in DOMAIN forwarded : k < Serial!Number(i)
        PROVE  \E i \in DOMAIN forwarded : Serial!Number(i) = k
    <2>1. k \in 1 .. Len(b_sent)
      BY <1>1, <1>3, ProperIs
    <2>2. k < lo
      <3>1. CASE b_pc = "select" /\ wire = <<>>
        <4>1. lo = Len(b_sent) + 1
          BY <1>2, <3>1, LineEnds
        <4>. QED BY <1>1, <2>1, <4>1
      <3>2. ASSUME NEW i \in DOMAIN forwarded, k < Serial!Number(i) PROVE k < lo
        <4>1. Serial!Number(i) \in ProperOf(b_sent, damaged) /\ Serial!Number(i) < lo
          BY <1>2, <1>3 DEF Passed
        <4>2. Serial!Number(i) \in 1 .. Len(b_sent)
          BY <1>1, <4>1, ProperIs
        <4>. QED BY <1>1, <2>1, <3>2, <4>1, <4>2
      <3>. QED BY <1>4, <3>1, <3>2
    <2>. QED BY <1>2, <1>3, <2>2 DEF Passed
  <1>. QED BY <1>2, <1>3, <1>4 DEF Passed

-----------------------------------------------------------------------------
(* The programs side by side: each keeps its own invariant, which a step of *)
(* another program does not touch.                                          *)
AllInv ==
    /\ ToolsInv
    /\ program = "mosquitto" => Mosquitto!MosquittoInv /\ Mosquitto!ProxyAsGiven
    /\ program = "mqtt-sn-serial-bridge" => BridgeInv /\ OrderInv
    /\ program = "mqtt-demo" => Demo!DemoInv

LEMMA NoToolsInv == ASSUME NoTools PROVE ToolsInv
  <1>1. opts \in Options
    BY ProgramsAssumption DEF NoTools
  <1>2. TypeOK
    <2>1. DOMAIN topic_map = {}
      BY DEF NoTools
    <2>2. /\ keep_alive \in Nat /\ timeout \in Nat
          /\ idle \in 0 .. MaxAge /\ silence \in 0 .. MaxAge /\ slept \in 0 .. timeout + ForwardTime
          /\ signals \in 0 .. MaxSignals
      BY ToolsAssumption DEF NoTools
    <2>3. /\ forwarder_encapsulation \in BOOLEAN /\ keep_running \in BOOLEAN /\ noise \in BOOLEAN
          /\ topic_id \in Ids /\ owed = NotOwed
      BY DEF NoTools, Ids
    <2>. QED BY <1>1, <2>1, <2>2, <2>3 DEF NoTools, TypeOK
  <1>3. Settled /\ Reached
    BY <1>1, OptionsAre DEF NoTools, Settled, Reached
  <1>4. MapAgrees /\ SilenceKnown /\ PingDue
    BY DEF NoTools, MapAgrees, SilenceKnown, PingDue
  <1>5. ExitHonest /\ NoFalseAlarm /\ NameKept
    BY DEF NoTools, ExitHonest, NoFalseAlarm, NameKept
  <1>. QED BY <1>2, <1>3, <1>4, <1>5 DEF ToolsInv

LEMMA MosquittoBegins == ASSUME Mosquitto!Init PROVE Mosquitto!MosquittoInv /\ Mosquitto!ProxyAsGiven
  BY ProgramsAssumption, Mosquitto!MosquittoInit, Mosquitto!NoProxyYet

LEMMA MosquittoGoesOn ==
    ASSUME Mosquitto!MosquittoInv, Mosquitto!ProxyAsGiven, [Mosquitto!Next]_(Mosquitto!vars)
    PROVE  Mosquitto!MosquittoInv' /\ Mosquitto!ProxyAsGiven'
  BY ProgramsAssumption, Mosquitto!MosquittoStep, Mosquitto!ProxyKept

LEMMA DemoBegins == ASSUME Demo!Init PROVE Demo!DemoInv
  BY ProgramsAssumption, Demo!DemoInit

LEMMA DemoGoesOn == ASSUME Demo!DemoInv, [Demo!Next]_(Demo!vars) PROVE Demo!DemoInv'
  BY ProgramsAssumption, Demo!DemoStep

LEMMA AllBegin == AllInit => AllInv
  BY ToolsInit, NoToolsInv, MosquittoBegins, BridgeInit, OrderBegins, DemoBegins DEF AllInit, AllInv

LEMMA OthersRest ==
    /\ UNCHANGED mosquitto => UNCHANGED Mosquitto!vars
    /\ UNCHANGED serial => UNCHANGED Serial!vars
    /\ UNCHANGED demo => UNCHANGED Demo!vars
  BY DEF mosquitto, serial, demo, Serial!vars, Serial!line, Mosquitto!vars, Mosquitto!config, Mosquitto!pubvars, Mosquitto!stdin, Mosquitto!subvars,
         Mosquitto!history, Demo!vars, Demo!build, Demo!library, Demo!history

LEMMA AllStep == AllInv /\ [AllNext]_allvars => AllInv'
  <1>. SUFFICES ASSUME AllInv, [AllNext]_allvars PROVE AllInv'
    OBVIOUS
  <1>1. program' = program
    BY DEF AllNext, allvars
  <1>2. [Next]_vars /\ ToolsInv
    BY DEF AllNext, allvars, AllInv
  <1>3. program = "mosquitto" => [Mosquitto!Next]_(Mosquitto!vars) /\ Mosquitto!MosquittoInv /\ Mosquitto!ProxyAsGiven
    BY OthersRest DEF AllNext, allvars, AllInv
  <1>4. program = "mqtt-sn-serial-bridge" => [Serial!Next]_(Serial!vars) /\ BridgeInv /\ OrderInv
    BY OthersRest DEF AllNext, allvars, AllInv
  <1>5. program = "mqtt-demo" => [Demo!Next]_(Demo!vars) /\ Demo!DemoInv
    BY OthersRest DEF AllNext, allvars, AllInv
  <1>. QED BY <1>1, <1>2, <1>3, <1>4, <1>5, ToolsStep, MosquittoGoesOn, BridgeStep, OrderStep, DemoGoesOn DEF AllInv

THEOREM ProgramsInvariance == AllSpec => []AllInv
  BY AllBegin, AllStep, PTL DEF AllSpec

(* Every variable of the programs has its type; mosquitto_sub has            *)
(* subscribed on every connection; the serial bridge takes no gap for the    *)
(* length of a packet; the demo's state, timer and connection agree.         *)
THEOREM StatesAreConsistent == AllSpec => []StatesConsistent
  <1>1. ASSUME AllInv, program = "mosquitto" PROVE Mosquitto!TypeOK /\ Mosquitto!Resubscribed
    BY <1>1 DEF AllInv, Mosquitto!MosquittoInv
  <1>2. ASSUME AllInv, program = "mqtt-demo" PROVE Demo!StateConsistent
    BY <1>2 DEF AllInv, Demo!DemoInv, Demo!StateConsistent, Demo!Agreed
  <1>3. AllInv => StatesConsistent
    BY <1>1, <1>2 DEF AllInv, ToolsInv, BridgeInv, StatesConsistent
  <1>. QED BY <1>3, ProgramsInvariance, PTL

(* What the clients tell their user is true, whatever the gateway, the       *)
(* broker, signals and the clock do: mqtt-sn-pub's, mqtt-sn-sub's and        *)
(* mosquitto_pub's exit status, the error that the gateway is silent, and    *)
(* the topic name printed with a message.                                    *)
THEOREM TheTruthIsTold == AllSpec => []ToldTheTruth
  <1>1. ASSUME AllInv, program = "mosquitto" PROVE Mosquitto!ExitHonest
    BY <1>1 DEF AllInv, Mosquitto!MosquittoInv
  <1>2. AllInv => ToldTheTruth
    BY <1>1 DEF AllInv, ToolsInv, ToldTheTruth
  <1>. QED BY <1>2, ProgramsInvariance, PTL

(* A connected client of mqtt-sn-tools is never silent for longer than one   *)
(* and a half of the keep-alive period it announced.                         *)
THEOREM ProgramsKeepAlive == AllSpec => []KeepsAlive
  <1>1. AllInv => KeepsAlive
    BY KeepsAliveFollows DEF AllInv
  <1>. QED BY <1>1, ProgramsInvariance, PTL

(* A made-up id of mosquitto_pub or mosquitto_sub names its process.         *)
LEMMA IdsName == Mosquitto!IdNamesProcess
  <1>. SUFFICES ASSUME NEW pid \in 1 .. 7, NEW hostname \in 0 .. 255
                PROVE  LET id == Mosquitto!client_id_generate(7, pid, hostname)
                       IN  /\ id.length <= Mosquitto!MOSQ_MQTT_ID_MAX_LENGTH
                           /\ pid < 7 \/ hostname > 0 => id.length >= id.whole
    BY Zenon DEF Mosquitto!IdNamesProcess
  <1>1. 7 \in Nat /\ pid \in Nat /\ hostname \in Nat
    OBVIOUS
  <1>2. 7 + 1 + pid <= Mosquitto!MOSQ_MQTT_ID_MAX_LENGTH
    BY DEF Mosquitto!MOSQ_MQTT_ID_MAX_LENGTH
  <1>3. CASE pid < 7 \/ hostname > 0
    <2>1. pid <= 6 \/ (pid = 7 /\ hostname > 0)
      BY <1>3
    <2>. QED BY <1>1, <1>2, <2>1, Mosquitto!IdNames
  <1>4. CASE ~(pid < 7 \/ hostname > 0)
    BY <1>4 DEF Mosquitto!client_id_generate, Mosquitto!Least, Mosquitto!MOSQ_MQTT_ID_MAX_LENGTH
  <1>. QED BY <1>3, <1>4

(* What a command line gives is used as it is, or refused: names and data    *)
(* of any length in the packets of mqtt-sn-tools; options of mosquitto_pub   *)
(* and mosquitto_sub in any order; proxy URLs of any user, password, host    *)
(* and port, in each of the six forms; and the ids the programs make up.     *)
THEOREM ArgumentsAreAsGiven == AllSpec => []ArgumentsAsGiven
  <1>1. ASSUME AllInv, program = "mosquitto" PROVE Mosquitto!OptionsAsGiven
    <2>1. Mosquitto!ConsistentOptions
      BY <1>1, Mosquitto!OptionsConsistent DEF AllInv
    <2>. QED BY <1>1, <2>1, IdsName DEF AllInv, Mosquitto!OptionsAsGiven
  <1>2. AllInv => (program = "mosquitto" => Mosquitto!OptionsAsGiven)
    BY <1>1
  <1>3. LengthsFit /\ AllInv => ArgumentsAsGiven
    BY <1>2 DEF ArgumentsAsGiven
  <1>. QED BY <1>3, BytesFit, ProgramsInvariance, PTL

(* mosquitto_pub -l publishes lines as they are, for every size of its       *)
(* buffer and all lengths of lines, but for a long line after a long line.   *)
THEOREM LinesAreWhole == AllSpec => []LinesWhole
  <1>1. ASSUME AllInv, program = "mosquitto" PROVE Mosquitto!LinesWhole
    BY <1>1 DEF AllInv, Mosquitto!MosquittoInv
  <1>2. AllInv => LinesWhole
    BY <1>1 DEF LinesWhole
  <1>. QED BY <1>2, ProgramsInvariance, PTL

(* mosquitto_pub disconnects when everything is published and reported and   *)
(* not before, whichever of main and the library's thread finds out;         *)
(* mosquitto_sub -C when it has printed that many messages.                  *)
THEOREM DisconnectedWhenDone == AllSpec => []DisconnectsWhenDone
  <1>1. ASSUME AllInv, program = "mosquitto" PROVE Mosquitto!DisconnectsWhenDone
    BY <1>1, ProgramsAssumption, Mosquitto!DoneWhenDisconnecting DEF AllInv
  <1>2. AllInv => DisconnectsWhenDone
    BY <1>1 DEF DisconnectsWhenDone
  <1>. QED BY <1>2, ProgramsInvariance, PTL

(* The serial bridge passes on every packet of the device that is longer     *)
(* than its length byte, whole, once and in order, whatever the lengths of   *)
(* the packets, with or without gaps between them; a byte lost after the     *)
(* length costs that packet alone when a gap follows.                        *)
THEOREM PacketsAreWhole == AllSpec => []WholePackets
  <1>1. ASSUME AllInv, program = "mqtt-sn-serial-bridge" PROVE Serial!WholePackets
    BY <1>1, OrderedIsWhole DEF AllInv
  <1>2. AllInv => WholePackets
    BY <1>1 DEF WholePackets
  <1>. QED BY <1>2, ProgramsInvariance, PTL

(* The demo makes as many attempts as it is built for and pauses between     *)
(* them as long as it announces, unless an old timer event or a button       *)
(* hurried it.                                                               *)
THEOREM RetriesAreAsConfigured == AllSpec => []RetriesAsConfigured
  <1>1. ASSUME AllInv, program = "mqtt-demo" PROVE Demo!RetriesAsConfigured
    BY <1>1, ProgramsAssumption, Demo!DemoRetries DEF AllInv
  <1>2. AllInv => RetriesAsConfigured
    BY <1>1 DEF RetriesAsConfigured
  <1>. QED BY <1>2, ProgramsInvariance, PTL
=============================================================================
