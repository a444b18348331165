--------------------------- MODULE MosquittoConfig ---------------------------
(* The command lines and configuration files of mosquitto_pub and           *)
(* mosquitto_sub, src/mosquitto/client/client_shared.c: which options a     *)
(* program takes, which it takes together, the id it makes up for itself,   *)
(* and the URL of its proxy.  Operators only; the programs are in           *)
(* MosquittoClients.                                                        *)
EXTENDS Integers, FiniteSets, Sequences, SequencesExt

(* The operators named Bug... are not part of the model: each is a plausible *)
(* mistake in the definition that follows it, and a property notices.       *)
-----------------------------------------------------------------------------
Modes == {"-f", "-l", "-m", "-n", "-s"}                  \* pub_mode
PubOnly == Modes \cup {"-r"}
SubOnly == {"-C", "-T", "-c", "-N", "-R", "-v"}

(* Options whose argument is checked, options with any argument, flags.     *)
Checked == {"-p", "-k", "-q", "-V", "-C", "-t", "-T", "--will-qos", "--will-topic"}
Free == {"-f", "-m", "-A", "-h", "-i", "-I", "-M", "-u", "-P", "--will-payload", "--cafile",
         "--capath", "--cert", "--key", "--ciphers", "--tls-version", "--psk", "--psk-identity"}
Flags == {"-l", "-n", "-s", "-r", "-c", "-N", "-R", "-v", "-d", "-S", "--quiet", "--insecure",
          "--will-retain"}

(* An option is given with a good argument, a bad one, or none, because it  *)
(* is the last word of the command line or alone on its line of the file.   *)
AllOptions == [name : Checked, argument : {"good", "bad", "missing"}]
              \cup [name : Free, argument : {"good", "missing"}]
              \cup [name : Flags \cup {"unknown"}, argument : {"good"}]

(* client_config_line_proc on one option, after the options given before.   *)
line_proc_refuses(tool, given, o) ==
    \/ o.name = "unknown" \/ o.argument # "good"
    \/ tool = "pub" /\ o.name \in SubOnly
    \/ tool = "sub" /\ o.name \in PubOnly
    \/ o.name \in Modes /\ given \cap Modes # {}
    \/ o.name = "-i" /\ "-I" \in given
    \/ o.name = "-I" /\ "-i" \in given

(* client_config_load, after the file and the command line.                 *)
config_load_refuses(tool, given) ==
    \/ "--will-payload" \in given /\ "--will-topic" \notin given
    \/ "--will-retain" \in given /\ "--will-topic" \notin given
    \/ ("--cert" \in given) # ("--key" \in given)
    \/ given \cap {"--cafile", "--capath"} # {} /\ "--psk" \in given
    \/ "--psk" \in given /\ "--psk-identity" \notin given
    \/ tool = "sub" /\ "-c" \in given /\ "-i" \notin given
    \/ tool = "sub" /\ "-t" \notin given

(* mosquitto_pub's own condition.                                           *)
pub_refuses(given) == "-t" \notin given \/ given \cap Modes = {}

(* What of the configuration the library may refuse.                        *)
opts_set_may_refuse(given) ==
    given \cap {"--will-topic", "-u", "--cafile", "--capath", "--insecure", "--psk", "--tls-version"} # {}

-----------------------------------------------------------------------------
(* The id a program without -i and -I gives itself: base/pid-hostname, cut   *)
(* first by the buffer, which has room for six digits, then to 23 bytes.     *)
(* Lengths only: how much of base/pid remains, and of the whole.             *)
MOSQ_MQTT_ID_MAX_LENGTH == 23
Least(a, b) == IF a < b THEN a ELSE b

client_id_generate(base, pid, hostname) ==
    LET len == base + 2 + 6 + hostname
        id == Least(len - 1, base + 1 + pid + 1 + hostname)
    IN  [length |-> Least(id, MOSQ_MQTT_ID_MAX_LENGTH), whole |-> base + 1 + pid]

-----------------------------------------------------------------------------
(* Proxy URLs, after "socks5h://": sequences of characters.                  *)
Null == <<>>           \* no token: tokens have at least one character

(* Mutant: username_or_host is not reset when it proves to be a username.     *)
Bug_socks_char(str, p, i) ==
    LET token == SubSeq(str, p.start, i - 1)
    IN  IF str[i] \notin {":", "@"} \/ p.bad THEN p
        ELSE IF i = p.start THEN [p EXCEPT !.bad = TRUE]
        ELSE IF str[i] = ":"
        THEN IF p.auth
             THEN IF p.host # Null THEN [p EXCEPT !.bad = TRUE]
                  ELSE [p EXCEPT !.host = token, !.start = i + 1]
             ELSE IF p.first = Null THEN [p EXCEPT !.first = token, !.start = i + 1]
             ELSE p
        ELSE IF p.first # Null
        THEN [p EXCEPT !.auth = TRUE, !.username = p.first,
                       !.password = token, !.start = i + 1]
        ELSE IF p.username # Null THEN [p EXCEPT !.auth = TRUE, !.bad = TRUE]
        ELSE [p EXCEPT !.auth = TRUE, !.username = token, !.start = i + 1]

(* One turn of the loop over the characters; p.first is username_or_host.    *)
socks_char(str, p, i) ==
    LET token == SubSeq(str, p.start, i - 1)
    IN  IF str[i] \notin {":", "@"} \/ p.bad THEN p
        ELSE IF i = p.start THEN [p EXCEPT !.bad = TRUE]
        ELSE IF str[i] = ":"
        THEN IF p.auth
             THEN IF p.host # Null THEN [p EXCEPT !.bad = TRUE]
                  ELSE [p EXCEPT !.host = token, !.start = i + 1]
             ELSE IF p.first = Null THEN [p EXCEPT !.first = token, !.start = i + 1]
             ELSE p
        ELSE IF p.first # Null
        THEN [p EXCEPT !.auth = TRUE, !.username = p.first, !.first = Null,
                       !.password = token, !.start = i + 1]
        ELSE IF p.username # Null THEN [p EXCEPT !.auth = TRUE, !.bad = TRUE]
        ELSE [p EXCEPT !.auth = TRUE, !.username = token, !.start = i + 1]

(* %25, %3a and %40, each decoded as the code does it: what the characters   *)
(* so far give, the escape they end within, and whether one was none.        *)
Escapes == {<<"%", "2", "5">>, <<"%", "3", "A">>, <<"%", "3", "a">>, <<"%", "4", "0">>}
Undecoded == [text |-> <<>>, escape |-> <<>>, bad |-> FALSE]

decode_char(t, c) ==
    IF t.escape = <<>> /\ c # "%" THEN [t EXCEPT !.text = Append(t.text, c)]
    ELSE IF Len(t.escape) < 2 THEN [t EXCEPT !.escape = Append(t.escape, c)]
    ELSE [text   |-> Append(t.text, IF c = "5" THEN "%" ELSE ":"), escape |-> <<>>,
          bad    |-> t.bad \/ Append(t.escape, c) \notin Escapes]

urldecode(s) ==
    LET after[i \in 0 .. Len(s)] == IF i = 0 THEN Undecoded ELSE decode_char(after[i - 1], s[i])
        t == after[Len(s)]
    IN  [text |-> t.text, refused |-> t.bad \/ t.escape # <<>>]

(* atoi: the digits a token begins with.                                     *)
Digits == <<"1", "2", "3", "4", "5", "6", "7", "8", "9">>
DigitOf(c) == IF c = "0" THEN 0 ELSE CHOOSE d \in 1 .. 9 : Digits[d] = c
IsDigit(c) == c = "0" \/ \E d \in 1 .. 9 : Digits[d] = c
atoi(s) ==
    LET most == CHOOSE n \in 0 .. Len(s) :
                    /\ \A i \in 1 .. n : IsDigit(s[i])
                    /\ n < Len(s) => ~IsDigit(s[n + 1])
    IN  FoldLeft(LAMBDA value, c : 10 * value + DigitOf(c), 0, SubSeq(s, 1, most))

PortNumbers == 1 .. 65535
NoProxy == [username |-> Null, password |-> Null, host |-> Null, port |-> 0]

(* The loop over the characters, and what remains after it.                  *)
NothingSeen == [start |-> 1, auth |-> FALSE, bad |-> FALSE, first |-> Null,
                username |-> Null, password |-> Null, host |-> Null]

socks_chars(str) ==
    LET after[i \in 0 .. Len(str)] == IF i = 0 THEN NothingSeen ELSE socks_char(str, after[i - 1], i)
    IN  after[Len(str)]

parse_socks_url(str) ==
    LET p == socks_chars(str)
        rest == SubSeq(str, p.start, Len(str))
        host == IF p.host # Null THEN p.host
                ELSE IF rest # Null /\ p.first # Null THEN p.first ELSE rest
        port == IF p.host # Null \/ p.first # Null THEN rest ELSE Null
        number == IF port = Null THEN 1080 ELSE atoi(port)
        username == urldecode(p.username)
        password == urldecode(p.password)
    IN  IF p.bad \/ host = Null \/ number \notin PortNumbers \/ username.refused \/ password.refused
        THEN NoProxy
        ELSE [username |-> username.text, password |-> password.text, host |-> host, port |-> number]
=============================================================================
