-------------------------- MODULE MosquittoClients --------------------------
(* mosquitto_pub and mosquitto_sub, src/mosquitto/client/pub_client.c and   *)
(* sub_client.c: one process, from its options to its exit.  libmosquitto   *)
(* and the broker behind it are external: the library calls the callbacks,  *)
(* from a thread of its own when mosquitto_pub reads lines (option -l) and  *)
(* inside mosquitto_loop otherwise, and reports messages in the order they  *)
(* were published.                                                          *)
EXTENDS MosquittoConfig

CONSTANTS
    Options,        \* the options tried, of AllOptions
    MaxOptions,     \* bound: options given, in the file and on the command line
    Characters,     \* the characters of a proxy URL
    Usernames, Passwords, Hosts, Ports,   \* its parts, after decoding
    Lengths,        \* lengths of the lines of the standard input
    MaxLines,       \* bound: lines of the standard input
    Chunk,          \* the buffer for a line, and what it grows by (1024)
    Count,          \* the argument of -C
    MaxConnects,    \* bound: connections of mosquitto_sub
    MaxMessages     \* bound: messages printed without -C

MosquittoAssumption ==
    /\ Options \subseteq AllOptions /\ MaxOptions \in Nat /\ MaxLines \in Nat
    /\ Lengths \subseteq Nat /\ Chunk \in Nat \ {0, 1}
    /\ {"%", ":", "@", "2", "3", "5", "a"} \subseteq Characters
    /\ Usernames \cup Passwords \subseteq Seq(Characters \ {"@"}) \ {Null}
    /\ Hosts \cup Ports \subseteq Seq(Characters \ {":", "@"}) \ {Null}
    /\ \A port \in Ports : Len(port) < 10          \* what atoi is defined for
    /\ Count \in Nat \ {0} /\ MaxConnects \in Nat \ {0} /\ MaxMessages \in Nat

VARIABLES
    tool, given,          \* the program and its options
    proxy, wanted,        \* the proxy parsed, and the one that was meant
    pc, rc,               \* where main is; what it returned
    read,                 \* options read so far
    link,                 \* the library's connection to the broker
    inflight,             \* publications not yet reported, oldest first
    status, mid_sent, last_mid, last_mid_sent, connected, disconnect_sent,
    thread,               \* the library's thread, in my_publish_callback
    input, newline, buf_len,   \* lines still to read; does the last one end
    process_messages, msg_count, subscribed, connects,   \* of mosquitto_sub
    \* History
    failed,               \* mosquitto_publish returned an error
    published,            \* the messages: which characters of which line
    printed               \* messages printed by mosquitto_sub

config == <<tool, given, proxy, wanted, read>>
pubvars == <<status, mid_sent, last_mid, last_mid_sent, disconnect_sent>>
stdin == <<input, newline, buf_len>>
subvars == <<process_messages, msg_count, subscribed, connects>>
history == <<failed, published, printed>>
vars == <<config, pc, rc, link, inflight, pubvars, connected, thread, stdin, subvars, history>>

Running == "running"
Lines == "-l" \in given

(* A proxy URL for what is meant.                                           *)
Encoded(c) ==
    CASE c = ":"             -> <<"%", "3", "a">>
      [] c = "%"             -> <<"%", "2", "5">>
      [] c \notin {":", "%"} -> <<c>>

Encode(s) ==
    LET url[i \in 0 .. Len(s)] == IF i = 0 THEN <<>> ELSE url[i - 1] \o Encoded(s[i])
    IN  url[Len(s)]

Url(f) == (IF f.username = Null THEN <<>>
           ELSE Encode(f.username) \o (IF f.password = Null THEN <<>> ELSE <<":">> \o Encode(f.password))
                \o <<"@">>)
          \o f.host \o (IF f.port = Null THEN <<>> ELSE <<":">> \o f.port)

ProxyForms == {f \in [username : Usernames \cup {Null}, password : Passwords \cup {Null},
                      host : Hosts, port : Ports \cup {Null}] :
                   f.username = Null => f.password = Null}

-----------------------------------------------------------------------------
Init ==
    /\ tool \in {"pub", "sub"} /\ given = {} /\ proxy = NoProxy /\ wanted = NoProxy
    /\ pc = "load" /\ rc = Running /\ read = 0
    /\ link = "none" /\ inflight = <<>>
    /\ status = "CONNECTING" /\ mid_sent = 0 /\ last_mid = -1 /\ last_mid_sent = -1
    /\ connected = TRUE /\ disconnect_sent = FALSE /\ thread = "loop"
    /\ input = <<>> /\ newline = TRUE /\ buf_len = Chunk
    /\ process_messages = TRUE /\ msg_count = 0 /\ subscribed = FALSE /\ connects = 0
    /\ failed = FALSE /\ published = <<>> /\ printed = 0

Exit(code) == pc' = "exited" /\ rc' = code

(* Every option, in the file and on the command line, goes through          *)
(* client_config_line_proc; --help ends it.                                 *)
option(o) ==
    /\ pc = "load" /\ read < MaxOptions /\ read' = read + 1
    /\ IF line_proc_refuses(tool, given, o) THEN Exit("1") /\ UNCHANGED given
       ELSE given' = given \cup {o.name} /\ UNCHANGED <<pc, rc>>
    /\ UNCHANGED <<tool, proxy, wanted, link, inflight, pubvars, connected, thread, stdin, subvars,
                   history>>

help ==
    /\ pc = "load" /\ Exit("1")
    /\ UNCHANGED <<config, link, inflight, pubvars, connected, thread, stdin, subvars, history>>

(* Option --proxy; it is tried on its own.                                  *)
proxy_option(f) ==
    /\ pc = "load" /\ read = 0 /\ read' = MaxOptions
    /\ proxy' = parse_socks_url(Url(f))
    /\ wanted' = [f EXCEPT !.port = IF f.port = Null THEN 1080 ELSE atoi(f.port)]
    /\ IF proxy' = NoProxy THEN Exit("1") ELSE UNCHANGED <<pc, rc>>
    /\ UNCHANGED <<tool, given, link, inflight, pubvars, connected, thread, stdin, subvars, history>>

client_config_load ==
    /\ pc = "load"
    /\ \/ config_load_refuses(tool, given) /\ Exit("1")
       \/ tool = "pub" /\ pub_refuses(given) /\ Exit("1")
       \/ ~config_load_refuses(tool, given) /\ ~(tool = "pub" /\ pub_refuses(given))
              /\ pc' = "set" /\ UNCHANGED rc
    /\ UNCHANGED <<config, link, inflight, pubvars, connected, thread, stdin, subvars, history>>

(* load_file and load_stdin may fail; client_id_generate and                *)
(* mosquitto_new make the client; client_opts_set passes the options on.    *)
(* The options that matter no more are forgotten.                           *)
load_and_set ==
    /\ pc = "set"
    /\ \/ /\ given \cap {"-f", "-s"} # {} \/ opts_set_may_refuse(given)
          /\ Exit("1") /\ UNCHANGED given
       \/ pc' = "connect" /\ given' = given \cap (Modes \cup {"-C", "-R", "-T"}) /\ UNCHANGED rc
    /\ UNCHANGED <<tool, proxy, wanted, read, link, inflight, pubvars, connected, thread, stdin, subvars,
                   history>>

(* The lines the program will find on its standard input are chosen here.   *)
client_connect ==
    /\ pc = "connect"
    /\ \/ Exit("error") /\ UNCHANGED <<link, input, newline, connects>>
       \/ /\ pc' = "main" /\ link' = "connecting" /\ connects' = 1 /\ UNCHANGED rc
          /\ \E n \in 0 .. (IF Lines THEN MaxLines ELSE 0) : input' \in [1 .. n -> Lengths]
          /\ newline' \in (IF input' = <<>> THEN {TRUE} ELSE BOOLEAN)
    /\ UNCHANGED <<config, inflight, pubvars, connected, thread, buf_len, process_messages, msg_count,
                   subscribed, history>>

-----------------------------------------------------------------------------
(* The library: mosquitto_publish and mosquitto_disconnect.                 *)
mosquitto_disconnect == link' = IF link = "up" THEN "disconnecting" ELSE link

mosquitto_publish_ok(m) ==
    /\ mid_sent' = mid_sent + 1 /\ inflight' = Append(inflight, mid_sent + 1)
    /\ published' = Append(published, m)
    /\ UNCHANGED failed

(* A message the library refuses may have got an id.                        *)
mosquitto_publish_fails ==
    /\ mid_sent' \in {mid_sent, mid_sent + 1} /\ failed' = TRUE
    /\ UNCHANGED <<inflight, published>>

-----------------------------------------------------------------------------
(* my_connect_callback of mosquitto_pub, and of mosquitto_sub.              *)
pub_connect_callback ==
    /\ IF Lines THEN status' = "CONNACK_RECVD" /\ link' = "up"
                     /\ UNCHANGED <<mid_sent, inflight, failed, published>>
       ELSE /\ status' = status
            /\ \/ mosquitto_publish_ok(<<>>) /\ link' = "up"
               \/ mosquitto_publish_fails /\ link' = "disconnecting"
    /\ UNCHANGED subscribed

sub_connect_callback ==
    /\ link' = "up" /\ subscribed' = TRUE
    /\ UNCHANGED <<status, mid_sent, inflight, failed, published>>

(* The broker accepts; when it refuses, the callback only prints, and the   *)
(* library gives the connection up.                                         *)
connect_callback ==
    /\ pc = "main" /\ link = "connecting"
    /\ IF tool = "pub" THEN pub_connect_callback ELSE sub_connect_callback
    /\ UNCHANGED <<config, pc, rc, last_mid, last_mid_sent, disconnect_sent, connected, thread, stdin,
                   process_messages, msg_count, connects, printed>>

(* my_publish_callback, for the oldest message not yet reported.            *)
publish_callback ==
    /\ pc # "exited" /\ link = "up" /\ thread = "loop" /\ inflight # <<>>
    /\ last_mid_sent' = Head(inflight) /\ inflight' = Tail(inflight)
    /\ thread' = "compare"
    /\ UNCHANGED <<config, pc, rc, link, status, mid_sent, last_mid, disconnect_sent, connected, stdin,
                   subvars, history>>

(* Mutant: any report ends the program.                                     *)
Bug_publish_callback_compare ==
    /\ pc # "exited" /\ thread = "compare"
    /\ thread' = IF disconnect_sent THEN "loop" ELSE "disconnect"
    /\ UNCHANGED <<config, pc, rc, link, inflight, pubvars, connected, stdin, subvars, history>>

publish_callback_compare ==
    /\ pc # "exited" /\ thread = "compare"
    /\ thread' = IF IF Lines THEN last_mid_sent = last_mid ELSE ~disconnect_sent
                 THEN "disconnect" ELSE "loop"
    /\ UNCHANGED <<config, pc, rc, link, inflight, pubvars, connected, stdin, subvars, history>>

publish_callback_disconnect ==
    /\ pc # "exited" /\ thread \in {"disconnect", "flag"}
    /\ IF thread = "disconnect" THEN thread' = "flag" /\ mosquitto_disconnect /\ UNCHANGED disconnect_sent
       ELSE thread' = "loop" /\ disconnect_sent' = TRUE /\ UNCHANGED link
    /\ UNCHANGED <<config, pc, rc, inflight, status, mid_sent, last_mid, last_mid_sent, connected, stdin,
                   subvars, history>>

(* mosquitto_loop's result when a connection ends that was not disconnected. *)
loop_result == IF link = "disconnecting" THEN "0" ELSE "error"

(* The connection ends: my_disconnect_callback.  mosquitto_loop returns, and *)
(* with it main; with -l main has yet to notice.  mosquitto_loop_forever of *)
(* mosquitto_sub connects again or returns; its "no connection" counts as   *)
(* success with -C.                                                         *)
disconnect_callback ==
    /\ pc # "exited" /\ link \in {"connecting", "up", "disconnecting"} /\ thread = "loop"
    /\ IF tool = "pub"
       THEN /\ connected' = FALSE /\ link' = "closed"
            /\ IF Lines THEN UNCHANGED <<pc, rc>> ELSE Exit(loop_result)
            /\ UNCHANGED <<subscribed, connects>>
       ELSE /\ \/ /\ link # "disconnecting" /\ connects < MaxConnects
                  /\ link' = "connecting" /\ connects' = connects + 1 /\ subscribed' = FALSE
                  /\ UNCHANGED <<pc, rc>>
               \/ /\ link' = "closed" /\ UNCHANGED <<connects, subscribed>>
                  /\ Exit(loop_result) \/ ("-C" \in given /\ Exit("0"))
            /\ UNCHANGED connected
    /\ UNCHANGED <<config, inflight, pubvars, thread, stdin, process_messages, msg_count, history>>

-----------------------------------------------------------------------------
(* main of mosquitto_pub with -l.  One line is read with fgets in pieces,   *)
(* the first of up to buf_len - 1 characters.  A piece that does not end the *)
(* line is kept, the buffer grows by Chunk, and up to Chunk - 1 characters  *)
(* more are read to pos, which is Chunk - 1 further on each time: behind the *)
(* last piece, but over the end of a first one that was longer, because the *)
(* buffer had grown for an earlier line.  A line without a newline, at the  *)
(* end of the input, is not published.  text has the numbers of the line's  *)
(* characters that are.                                                     *)
(* Mutant: a piece is published although the line goes on.                  *)
Bug_fgets_line ==
    [text |-> [i \in 1 .. Least(Head(input), buf_len - 1) |-> i], size |-> buf_len, published |-> TRUE]

fgets_line ==
    LET ends == newline \/ Len(input) > 1
        last == Head(input) + (IF ends THEN 1 ELSE 0)
        more == IF last < buf_len THEN 0 ELSE (last - buf_len + Chunk - 1) \div (Chunk - 1)
        pieces == IF last = 0 THEN 0 ELSE 1 + more
        lost == IF more = 0 THEN 0 ELSE buf_len - Chunk
    IN  [text |-> [c \in 1 .. Head(input) - lost |-> IF c < Chunk THEN c ELSE c + lost],
         size |-> buf_len + Chunk * (IF ends THEN pieces - 1 ELSE pieces), published |-> ends]

read_line ==
    /\ pc = "main" /\ Lines /\ status = "CONNACK_RECVD" /\ connected /\ input # <<>>
    /\ input' = Tail(input) /\ buf_len' = fgets_line.size
    /\ IF fgets_line.published
       THEN /\ \/ link = "up" /\ mosquitto_publish_ok([line |-> Head(input), text |-> fgets_line.text])
                  /\ UNCHANGED link
               \/ mosquitto_publish_fails /\ mosquitto_disconnect
       ELSE UNCHANGED <<link, mid_sent, inflight, failed, published>>
    /\ UNCHANGED <<config, pc, rc, status, last_mid, last_mid_sent, connected, disconnect_sent, thread,
                   newline, subvars, printed>>

end_of_file ==
    /\ Lines /\ connected /\ status = "CONNACK_RECVD" /\ input = <<>>
    /\ IF pc = "main" THEN pc' = "eof" /\ last_mid' = mid_sent /\ UNCHANGED status
       ELSE pc = "eof" /\ pc' = "main" /\ status' = "WAITING" /\ UNCHANGED last_mid
    /\ UNCHANGED <<config, rc, link, inflight, mid_sent, last_mid_sent, connected, disconnect_sent, thread,
                   stdin, subvars, history>>

(* Mutant: the end is left to my_publish_callback.                          *)
Bug_waiting == FALSE /\ UNCHANGED vars

waiting ==
    /\ Lines /\ status = "WAITING"
    /\ \/ /\ pc = "main" /\ connected /\ last_mid_sent = last_mid /\ ~disconnect_sent
          /\ pc' = "disconnect" /\ UNCHANGED <<link, disconnect_sent>>
       \/ pc = "disconnect" /\ pc' = "flag" /\ mosquitto_disconnect /\ UNCHANGED disconnect_sent
       \/ pc = "flag" /\ pc' = "main" /\ disconnect_sent' = TRUE /\ UNCHANGED link
    /\ UNCHANGED <<config, rc, inflight, status, mid_sent, last_mid, last_mid_sent, connected, thread,
                   stdin, subvars, history>>

not_connected ==
    /\ pc = "main" /\ Lines /\ ~connected /\ Exit("0")
    /\ UNCHANGED <<config, link, inflight, pubvars, connected, thread, stdin, subvars, history>>

-----------------------------------------------------------------------------
(* my_message_callback: a message that is retained or not, and whose topic  *)
(* a filter of -T matches or not.                                           *)
Shown(retained, filtered) ==
    process_messages /\ ~(retained /\ "-R" \in given) /\ ~(filtered /\ "-T" \in given)

message_callback(retained, filtered) ==
    /\ tool = "sub" /\ pc = "main" /\ link \in {"up", "disconnecting"} /\ subscribed
    /\ "-C" \in given \/ printed < MaxMessages
    /\ IF ~Shown(retained, filtered)
       THEN UNCHANGED <<link, process_messages, msg_count, printed>>
       ELSE /\ printed' = printed + 1
            /\ msg_count' = IF "-C" \in given THEN msg_count + 1 ELSE msg_count
            /\ IF "-C" \in given /\ msg_count' = Count
               THEN process_messages' = FALSE /\ mosquitto_disconnect
               ELSE UNCHANGED <<process_messages, link>>
    /\ UNCHANGED <<config, pc, rc, inflight, pubvars, connected, thread, stdin, subscribed, connects,
                   failed, published>>

Start == help \/ client_config_load \/ load_and_set \/ client_connect
Main == read_line \/ end_of_file \/ waiting \/ not_connected
Callback == publish_callback \/ publish_callback_compare \/ publish_callback_disconnect

Next ==
    \/ \E o \in Options : option(o)
    \/ \E f \in ProxyForms : proxy_option(f)
    \/ Start \/ Main \/ Callback \/ connect_callback \/ disconnect_callback
    \/ \E retained, filtered \in BOOLEAN : message_callback(retained, filtered)

Spec == Init /\ [][Next]_vars

(* main and the library's thread are scheduled; the broker goes on          *)
(* acknowledging; a DISCONNECT closes the connection.                       *)
Fairness == /\ WF_vars(Main) /\ WF_vars(Callback)
            /\ WF_vars(disconnect_callback /\ link = "disconnecting")
FairSpec == Spec /\ Fairness

-----------------------------------------------------------------------------
(* Every variable has its type.                                             *)
TypeOK ==
    /\ tool \in {"pub", "sub"} /\ given \subseteq {o.name : o \in AllOptions}
    /\ pc \in {"load", "set", "connect", "main", "eof", "disconnect", "flag", "exited"}
    /\ rc \in {Running, "0", "1", "error"} /\ (rc = Running) = (pc # "exited")
    /\ link \in {"none", "connecting", "up", "disconnecting", "closed"}
    /\ inflight \in Seq(1 .. MaxLines + 1)
    /\ status \in {"CONNECTING", "CONNACK_RECVD", "WAITING"} /\ (status # "CONNECTING" => Lines)
    /\ mid_sent \in 0 .. MaxLines + 1 /\ last_mid \in -1 .. mid_sent /\ last_mid_sent \in -1 .. mid_sent
    /\ thread \in {"loop", "compare", "disconnect", "flag"}
    /\ connects \in 0 .. MaxConnects /\ msg_count \in 0 .. Count /\ read \in 0 .. MaxOptions

(* Whatever the order of the options in the file and on the command line,   *)
(* a program that gets as far as its client has settings that go together.  *)
ConsistentOptions ==
    pc = "set" =>
        /\ ~({"-i", "-I"} \subseteq given)
        /\ tool = "pub" => Cardinality(given \cap Modes) = 1 /\ given \cap SubOnly = {}
        /\ tool = "sub" => given \cap PubOnly = {} /\ ("-c" \in given => "-I" \notin given)
        /\ "--psk" \in given => given \cap {"--cafile", "--capath"} = {}

(* A proxy URL of one of the six forms in the code's comment is parsed into *)
(* the user, password, host and port it was written for, the characters %   *)
(* and : escaped, and refused exactly when its port is not one.             *)
ProxyAsGiven ==
    wanted # NoProxy =>
        proxy = IF wanted.port \in PortNumbers THEN wanted ELSE NoProxy

(* A generated id has at most 23 bytes and contains the process id, so that *)
(* two programs on a host do not share one.                                 *)
IdNamesProcess ==
    pc = "connect" =>
        \A pid \in 1 .. 7, hostname \in 0 .. 255 :
            LET id == client_id_generate(7, pid, hostname)
            IN  id.length <= MOSQ_MQTT_ID_MAX_LENGTH /\ (pid < 7 \/ hostname > 0 => id.length >= id.whole)

(* A message is the line that was read, unless the line is too long for a   *)
(* buffer that had to grow before.                                          *)
LinesWhole ==
    \A i \in DOMAIN published :
        /\ Lines
        /\ \/ published[i].line < Chunk - 1
           \/ \A j \in 1 .. i - 1 : published[j].line < Chunk - 1
        => published[i].text = [c \in 1 .. published[i].line |-> c]

(* mosquitto_pub disconnects when everything is published and reported, and *)
(* not before, whichever of its threads finds out.  mosquitto_sub with -C   *)
(* disconnects when it has printed so many messages and prints no more,     *)
(* even when more of them have arrived already.                             *)
DisconnectsWhenDone ==
    /\ tool = "pub" /\ link = "disconnecting" /\ ~failed => inflight = <<>> /\ input = <<>>
    /\ "-C" \in given => printed <= Count /\ (link = "disconnecting" => printed = Count)

(* Without -l, status 0 says that the one message was published and         *)
(* reported, unless the library refused it.                                 *)
ExitHonest ==
    tool = "pub" /\ ~Lines /\ rc = "0" /\ ~failed => Len(published) = 1 /\ inflight = <<>>

(* mosquitto_sub has subscribed on every connection it has.                 *)
Resubscribed == tool = "sub" /\ link = "up" => subscribed

(* What the file and the command line say is what the client is made with.  *)
OptionsAsGiven == ConsistentOptions /\ ProxyAsGiven /\ IdNamesProcess

(* The programs end: mosquitto_pub once its input is published, the check   *)
(* of one thread catching what the other thread's missed; mosquitto_sub     *)
(* once it has counted its messages.                                        *)
Ends ==
    \/ tool = "pub" /\ published # <<>> /\ (Lines => status = "WAITING")
    \/ tool = "sub" /\ ~process_messages
    ~> pc = "exited"
=============================================================================
