--------------------------- MODULE MosquittoProofs ---------------------------
(***************************************************************************)
(* Safety of mosquitto_pub and mosquitto_sub for any input, any size of    *)
(* the buffer for a line, any number of messages and connections, and every *)
(* interleaving of main with the library's thread; and the parser of proxy  *)
(* URLs, for any user, password, host and port.                             *)
(***************************************************************************)
EXTENDS MosquittoClients, FiniteSetTheorems, SequenceTheorems, WellFoundedInduction, TLAPS

(* The messages there may be: an empty one, or characters of a line.        *)
Texts == {[c \in 1 .. m |-> IF c < Chunk THEN c ELSE c + k] : m \in Int, k \in Int}
Messages == {<<>>} \cup [line : Lengths, text : Texts]

(* The parts of the state TypeOK leaves out.                                *)
InputTyped ==
    /\ input \in Seq(Lengths) /\ buf_len \in Nat /\ buf_len >= Chunk
    /\ published \in Seq(Messages) /\ printed \in Nat

(* The options go together, whatever their order.                           *)
OptionsAgree ==
    /\ tool = "pub" => given \cap SubOnly = {}
    /\ tool = "sub" => given \cap PubOnly = {}
    /\ ~({"-i", "-I"} \subseteq given)
    /\ \A a, b \in given \cap Modes : a = b
    /\ pc = "set" => ~config_load_refuses(tool, given) /\ ~(tool = "pub" /\ pub_refuses(given))

(* Before its CONNACK, mosquitto_pub has published nothing.                 *)
Untouched ==
    /\ status = "CONNECTING" /\ mid_sent = 0 /\ last_mid = -1 /\ last_mid_sent = -1
    /\ inflight = <<>> /\ published = <<>> /\ ~failed /\ ~disconnect_sent /\ thread = "loop"
    /\ buf_len = Chunk

Begun ==
    /\ pc \in {"load", "set", "connect"} => link = "none"
    /\ link = "none" =>
           /\ Untouched /\ input = <<>> /\ printed = 0 /\ msg_count = 0 /\ process_messages
           /\ pc \in {"load", "set", "connect", "exited"}
    /\ link = "connecting" => Untouched

(* mosquitto_sub publishes nothing, and counts what it prints.              *)
Subscriber ==
    tool = "sub" =>
        /\ Untouched /\ input = <<>> /\ pc \notin {"eof", "disconnect", "flag"}
        /\ IF "-C" \in given
           THEN /\ msg_count = printed
                /\ process_messages => printed < Count
                /\ ~process_messages => printed = Count
                /\ link = "disconnecting" => ~process_messages
           ELSE msg_count = 0

(* Messages are reported in the order of their ids.                         *)
Reported ==
    /\ \A i \in DOMAIN inflight : last_mid_sent < inflight[i] /\ inflight[i] <= mid_sent
    /\ \A i, j \in DOMAIN inflight : i < j => inflight[i] < inflight[j]

(* Without -l there is one message.                                         *)
OneMessage ==
    tool = "pub" /\ ~Lines =>
        /\ input = <<>> /\ status = "CONNECTING" /\ last_mid = -1
        /\ pc \notin {"eof", "disconnect", "flag"}
        /\ mid_sent <= 1 /\ Len(inflight) <= 1
        /\ thread # "loop" => inflight = <<>>
        /\ ~failed /\ link \in {"up", "disconnecting"} => Len(published) = 1
        /\ ~failed /\ link = "disconnecting" => inflight = <<>>

(* With -l, last_mid is known when the input is at its end; each thread      *)
(* that disconnects has seen the report of that message.                    *)
LineWise ==
    tool = "pub" /\ Lines =>
        /\ mid_sent + Len(input) <= MaxLines
        /\ last_mid # -1 => last_mid = mid_sent /\ input = <<>>
        /\ pc = "eof" \/ status = "WAITING" => last_mid = mid_sent
        /\ pc \in {"disconnect", "flag"} => inflight = <<>> /\ input = <<>>
        /\ thread # "loop" => last_mid_sent >= 1
        /\ thread = "disconnect" => inflight = <<>> /\ input = <<>>
        /\ ~failed /\ link = "disconnecting" => inflight = <<>> /\ input = <<>>

(* The buffer has only grown for a line that was published.                 *)
Grown ==
    /\ failed => link \notin {"none", "connecting", "up"}
    /\ link = "up" /\ input # <<>> /\ buf_len # Chunk =>
           \E j \in DOMAIN published : published[j].line \in Nat /\ published[j].line >= Chunk - 1

MosquittoInv ==
    /\ TypeOK /\ InputTyped /\ OptionsAgree /\ Begun /\ Subscriber
    /\ Reported /\ OneMessage /\ LineWise /\ Grown
    /\ Resubscribed /\ ExitHonest /\ LinesWhole
-----------------------------------------------------------------------------

LEMMA NoLines == ASSUME NEW S, NEW f \in [1 .. 0 -> S] PROVE f = <<>>
  OBVIOUS

LEMMA SomeLines == ASSUME NEW S, NEW n \in Nat, NEW f \in [1 .. n -> S] PROVE f \in Seq(S) /\ Len(f) = n
  OBVIOUS

LEMMA One == ASSUME NEW S, NEW x \in S PROVE <<x>> \in Seq(S) /\ Len(<<x>>) = 1
  OBVIOUS

LEMMA None == Len(<<>>) = 0
  OBVIOUS

LEMMA First ==
    ASSUME NEW S, NEW s \in Seq(S), s # <<>>
    PROVE  Head(s) \in S /\ s[1] \in S /\ Head(s) = s[1] /\ Len(s) \in Nat /\ Len(s) >= 1 /\ 1 \in DOMAIN s
  OBVIOUS

LEMMA Rest ==
    ASSUME NEW S, NEW s \in Seq(S), s # <<>>
    PROVE  Tail(s) \in Seq(S) /\ Len(Tail(s)) = Len(s) - 1 /\ (Len(s) <= 1 => Tail(s) = <<>>)
  OBVIOUS

LEMMA Longer ==
    ASSUME NEW S, NEW s \in Seq(S), NEW x \in S
    PROVE  /\ Append(s, x) \in Seq(S) /\ DOMAIN Append(s, x) = DOMAIN s \cup {Len(s) + 1}
           /\ Len(s) \in Nat /\ DOMAIN s = 1 .. Len(s) /\ Append(s, x)[Len(s) + 1] = x
           /\ \A i \in DOMAIN s : Append(s, x)[i] = s[i]
  OBVIOUS

LEMMA MosquittoInit == ASSUME MosquittoAssumption, Init PROVE MosquittoInv
  <1>1. TypeOK
    BY DEF MosquittoAssumption, Init, TypeOK, Running
  <1>2. InputTyped /\ OptionsAgree
    BY DEF MosquittoAssumption, Init, InputTyped, OptionsAgree
  <1>3. Begun /\ Subscriber
    BY DEF MosquittoAssumption, Init, Begun, Untouched, Subscriber
  <1>4. Reported /\ OneMessage /\ LineWise /\ Grown
    BY DEF MosquittoAssumption, Init, Reported, OneMessage, LineWise, Grown, Lines
  <1>5. Resubscribed /\ ExitHonest /\ LinesWhole
    BY DEF Init, Resubscribed, ExitHonest, Running, LinesWhole
  <1>. QED BY <1>1, <1>2, <1>3, <1>4, <1>5 DEF MosquittoInv

(* Whatever the options do, nothing else has happened before the client is  *)
(* connected.                                                               *)
LEMMA BeforeConnect ==
    ASSUME MosquittoAssumption, MosquittoInv, OptionsAgree', pc \in {"load", "set", "connect"},
           UNCHANGED <<tool, link, inflight, pubvars, connected, thread, stdin, subvars, history>>,
           given' \subseteq {o.name : o \in AllOptions}, read' \in 0 .. MaxOptions,
           \/ pc' \in {"load", "set", "connect"} /\ rc' = rc
           \/ pc' = "exited" /\ rc' = "1"
    PROVE  MosquittoInv'
  <1>0. /\ link = "none" /\ Untouched /\ input = <<>> /\ printed = 0 /\ msg_count = 0 /\ process_messages
        /\ rc = Running
    BY DEF MosquittoInv, TypeOK, Begun
  <1>1. UNCHANGED <<tool, link, inflight, status, mid_sent, last_mid, last_mid_sent, disconnect_sent, connected,
                    thread, input, newline, buf_len, process_messages, msg_count, subscribed, connects,
                    failed, published, printed>>
    BY DEF pubvars, stdin, subvars, history
  <1>2. Untouched'
    BY <1>0, <1>1 DEF Untouched
  <1>3. TypeOK'
    BY <1>0, <1>1 DEF MosquittoInv, TypeOK, Running, Untouched
  <1>4. InputTyped'
    BY <1>1 DEF MosquittoInv, InputTyped, Messages, Texts
  <1>5. Begun' /\ Subscriber'
    BY <1>0, <1>1, <1>2 DEF MosquittoInv, Begun, Subscriber, MosquittoAssumption
  <1>6. Reported'
    BY <1>0, <1>1 DEF Untouched, Reported
  <1>7. OneMessage' /\ LineWise'
    BY <1>0, <1>1 DEF Untouched, OneMessage, LineWise, MosquittoAssumption
  <1>8. Grown' /\ Resubscribed'
    BY <1>0, <1>1 DEF Untouched, Grown, Resubscribed
  <1>9. ExitHonest' /\ LinesWhole'
    BY <1>0, <1>1 DEF Untouched, ExitHonest, LinesWhole, Running
  <1>. QED BY <1>3, <1>4, <1>5, <1>6, <1>7, <1>8, <1>9 DEF MosquittoInv

LEMMA OptionSafe ==
    ASSUME MosquittoAssumption, MosquittoInv, NEW o \in Options, option(o) PROVE MosquittoInv'
  <1>0. /\ pc = "load" /\ tool' = tool /\ read' = read + 1 /\ read < MaxOptions
        /\ UNCHANGED <<tool, link, inflight, pubvars, connected, thread, stdin, subvars, history>>
        /\ o \in AllOptions
    BY DEF option, MosquittoAssumption
  <1>1. read' \in 0 .. MaxOptions
    BY <1>0 DEF MosquittoInv, TypeOK, MosquittoAssumption
  <1>2. CASE line_proc_refuses(tool, given, o)
    <2>1. given' = given /\ pc' = "exited" /\ rc' = "1"
      BY <1>2 DEF option, Exit
    <2>2. OptionsAgree'
      BY <1>0, <2>1 DEF MosquittoInv, OptionsAgree
    <2>. QED BY <1>0, <1>1, <2>1, <2>2, BeforeConnect DEF MosquittoInv, TypeOK
  <1>3. CASE ~line_proc_refuses(tool, given, o)
    <2>1. given' = given \cup {o.name} /\ UNCHANGED <<pc, rc>>
      BY <1>3 DEF option
    <2>2. given' \subseteq {x.name : x \in AllOptions}
      BY <1>0, <2>1 DEF MosquittoInv, TypeOK
    <2>3. OptionsAgree'
      BY <1>0, <1>3, <2>1 DEF MosquittoInv, OptionsAgree, line_proc_refuses, Modes
    <2>. QED BY <1>0, <1>1, <2>1, <2>2, <2>3, BeforeConnect
  <1>. QED BY <1>2, <1>3

LEMMA ProxySafe ==
    ASSUME MosquittoAssumption, MosquittoInv, NEW f, proxy_option(f) PROVE MosquittoInv'
  <1>0. /\ pc = "load" /\ read' = MaxOptions /\ given' = given
        /\ UNCHANGED <<tool, link, inflight, pubvars, connected, thread, stdin, subvars, history>>
        /\ \/ pc' = "exited" /\ rc' = "1"
           \/ UNCHANGED <<pc, rc>>
    BY DEF proxy_option, Exit
  <1>1. OptionsAgree'
    BY <1>0 DEF MosquittoInv, OptionsAgree
  <1>. QED BY <1>0, <1>1, BeforeConnect DEF MosquittoInv, TypeOK, MosquittoAssumption

LEMMA LoadSafe ==
    ASSUME MosquittoAssumption, MosquittoInv, help \/ client_config_load \/ load_and_set PROVE MosquittoInv'
  <1>0. /\ pc \in {"load", "set"} /\ given' \subseteq given
        /\ UNCHANGED <<tool, read, link, inflight, pubvars, connected, thread, stdin, subvars, history>>
        /\ \/ pc' \in {"set", "connect"} /\ rc' = rc
           \/ pc' = "exited" /\ rc' = "1"
    BY DEF help, client_config_load, load_and_set, Exit, config
  <1>1. pc' = "set" =>
            given' = given /\ ~config_load_refuses(tool, given) /\ ~(tool = "pub" /\ pub_refuses(given))
    BY DEF help, client_config_load, load_and_set, Exit, config
  <1>2. OptionsAgree'
    BY <1>0, <1>1 DEF MosquittoInv, OptionsAgree
  <1>. QED BY <1>0, <1>2, BeforeConnect DEF MosquittoInv, TypeOK

-----------------------------------------------------------------------------
(* The client is connected: the input is there.                             *)
LEMMA ClientConnectSafe ==
    ASSUME MosquittoAssumption, MosquittoInv, client_connect PROVE MosquittoInv'
  <1>0. /\ pc = "connect" /\ link = "none" /\ Untouched /\ input = <<>> /\ printed = 0 /\ msg_count = 0
        /\ process_messages /\ rc = Running
    BY DEF MosquittoInv, TypeOK, Begun, client_connect
  <1>1. UNCHANGED <<tool, given, read, inflight, status, mid_sent, last_mid, last_mid_sent, disconnect_sent,
                    connected, thread, buf_len, process_messages, msg_count, subscribed, failed, published,
                    printed>>
    BY DEF client_connect, config, pubvars, history
  <1>2. Untouched'
    BY <1>0, <1>1 DEF Untouched
  <1>3. \/ pc' = "exited" /\ rc' = "error" /\ UNCHANGED <<link, input, connects>>
        \/ pc' = "main" /\ link' = "connecting" /\ connects' = 1 /\ rc' = rc
    BY DEF client_connect, Exit
  <1>4. input' \in Seq(Lengths) /\ Len(input') <= MaxLines /\ (~Lines => input' = <<>>)
    <2>1. CASE UNCHANGED input
      BY <1>0, <2>1 DEF MosquittoAssumption
    <2>2. CASE \E n \in 0 .. (IF Lines THEN MaxLines ELSE 0) : input' \in [1 .. n -> Lengths]
      <3>1. PICK n \in 0 .. (IF Lines THEN MaxLines ELSE 0) : input' \in [1 .. n -> Lengths]
        BY <2>2
      <3>2. n \in Nat /\ n <= MaxLines /\ (~Lines => n = 0)
        BY <3>1 DEF MosquittoAssumption
      <3>. QED BY <3>1, <3>2, NoLines, SomeLines
    <2>. QED BY <2>1, <2>2 DEF client_connect
  <1>5. TypeOK'
    BY <1>0, <1>1, <1>2, <1>3 DEF MosquittoInv, TypeOK, Running, Untouched, MosquittoAssumption
  <1>6. InputTyped'
    BY <1>1, <1>4 DEF MosquittoInv, InputTyped, Messages, Texts
  <1>7. OptionsAgree'
    BY <1>1, <1>3 DEF MosquittoInv, OptionsAgree
  <1>8. Begun'
    BY <1>0, <1>1, <1>2, <1>3 DEF Begun
  <1>9. Subscriber'
    BY <1>0, <1>1, <1>2, <1>3, <1>4 DEF MosquittoInv, Subscriber, OptionsAgree, PubOnly, Modes, Lines
  <1>10. Reported'
    BY <1>0, <1>1 DEF Untouched, Reported
  <1>11. OneMessage' /\ LineWise'
    BY <1>0, <1>1, <1>3, <1>4 DEF Untouched, OneMessage, LineWise, Lines
  <1>12. Grown' /\ Resubscribed'
    BY <1>0, <1>1, <1>3 DEF Untouched, Grown, Resubscribed
  <1>13. ExitHonest' /\ LinesWhole'
    BY <1>0, <1>1, <1>3 DEF Untouched, ExitHonest, LinesWhole, Running
  <1>. QED BY <1>5, <1>6, <1>7, <1>8, <1>9, <1>10, <1>11, <1>12, <1>13 DEF MosquittoInv

(* The broker accepts the connection.                                       *)
LEMMA ConnectCallbackSafe ==
    ASSUME MosquittoAssumption, MosquittoInv, connect_callback PROVE MosquittoInv'
  <1>0. pc = "main" /\ link = "connecting" /\ Untouched /\ rc = Running
    BY DEF MosquittoInv, TypeOK, Begun, connect_callback
  <1>1. UNCHANGED <<tool, given, read, pc, rc, last_mid, last_mid_sent, disconnect_sent, connected, thread,
                    input, newline, buf_len, process_messages, msg_count, connects, printed>>
    BY DEF connect_callback, config, stdin
  <1>2. CASE tool = "sub"
    <2>1. /\ link' = "up" /\ subscribed' = TRUE
          /\ UNCHANGED <<status, mid_sent, inflight, failed, published>>
      BY <1>2 DEF connect_callback, sub_connect_callback
    <2>2. Untouched'
      BY <1>0, <1>1, <2>1 DEF Untouched
    <2>3. TypeOK' /\ InputTyped' /\ OptionsAgree'
      BY <1>1, <2>1 DEF MosquittoInv, TypeOK, InputTyped, Messages, Texts, OptionsAgree, Lines
    <2>4. Begun' /\ Subscriber'
      BY <1>0, <1>1, <1>2, <2>1, <2>2 DEF MosquittoInv, Begun, Subscriber
    <2>5. Reported' /\ OneMessage' /\ LineWise' /\ Grown'
      BY <1>0, <1>1, <1>2, <2>1, <2>2 DEF MosquittoInv, Reported, OneMessage, LineWise, Grown, Untouched
    <2>6. Resubscribed' /\ ExitHonest' /\ LinesWhole'
      BY <1>0, <1>1, <1>2, <2>1 DEF Untouched, Resubscribed, ExitHonest, LinesWhole
    <2>. QED BY <2>3, <2>4, <2>5, <2>6 DEF MosquittoInv
  <1>3. CASE tool = "pub"
    <2>0. pub_connect_callback
      BY <1>3 DEF connect_callback
    <2>1. CASE Lines
      <3>1. /\ status' = "CONNACK_RECVD" /\ link' = "up"
            /\ UNCHANGED <<mid_sent, inflight, failed, published, subscribed>>
        BY <2>0, <2>1 DEF pub_connect_callback
      <3>2. TypeOK' /\ InputTyped' /\ OptionsAgree'
        BY <1>1, <2>1, <3>1 DEF MosquittoInv, TypeOK, InputTyped, Messages, Texts, OptionsAgree, Lines
      <3>3. Begun' /\ Subscriber' /\ Reported' /\ OneMessage'
        BY <1>0, <1>1, <1>3, <2>1, <3>1 DEF Begun, Subscriber, Reported, OneMessage, Untouched, Lines
      <3>4. LineWise' /\ Grown'
        BY <1>0, <1>1, <1>3, <2>1, <3>1 DEF MosquittoInv, LineWise, Grown, Untouched, Lines
      <3>5. Resubscribed' /\ ExitHonest' /\ LinesWhole'
        BY <1>0, <1>1, <1>3, <2>1, <3>1 DEF Untouched, Resubscribed, ExitHonest, LinesWhole, Lines
      <3>. QED BY <3>2, <3>3, <3>4, <3>5 DEF MosquittoInv
    <2>2. CASE ~Lines
      <3>1. /\ UNCHANGED <<status, subscribed>>
            /\ \/ /\ mid_sent' = 1 /\ inflight' = <<1>> /\ published' = <<<<>>>> /\ UNCHANGED failed
                  /\ link' = "up"
               \/ /\ mid_sent' \in {0, 1} /\ failed' = TRUE /\ link' = "disconnecting"
                  /\ UNCHANGED <<inflight, published>>
        BY <1>0, <2>0, <2>2 DEF pub_connect_callback, mosquitto_publish_ok, mosquitto_publish_fails, Untouched
      <3>2. TypeOK'
        <4>1. inflight' \in Seq(1 .. MaxLines + 1)
          <5>1. 1 \in 1 .. MaxLines + 1 /\ inflight = <<>>
            BY <1>0 DEF Untouched, MosquittoAssumption
          <5>2. <<1>> \in Seq(1 .. MaxLines + 1)
            BY <5>1, One
          <5>3. CASE inflight' = <<1>>
            BY <5>2, <5>3
          <5>4. CASE inflight' = inflight
            BY <5>1, <5>4
          <5>. QED BY <3>1, <5>3, <5>4
        <4>2. mid_sent' \in 0 .. MaxLines + 1
          BY <1>0, <3>1 DEF Untouched, MosquittoAssumption
        <4>3. last_mid' \in -1 .. mid_sent' /\ last_mid_sent' \in -1 .. mid_sent'
          BY <1>0, <1>1, <3>1 DEF Untouched
        <4>4. UNCHANGED status /\ link' \in {"up", "disconnecting"} /\ (Lines' = Lines)
          BY <1>1, <3>1 DEF Lines
        <4>. QED BY <1>1, <4>1, <4>2, <4>3, <4>4 DEF MosquittoInv, TypeOK
      <3>3. InputTyped' /\ OptionsAgree'
        <4>1. <<>> \in Messages
          BY DEF Messages
        <4>2. published' \in Seq(Messages)
          BY <3>1, <4>1, One DEF MosquittoInv, InputTyped
        <4>. QED BY <1>1, <4>2 DEF MosquittoInv, InputTyped, Messages, Texts, OptionsAgree
      <3>4. Begun' /\ Subscriber' /\ LineWise'
        BY <1>0, <1>1, <1>3, <2>2, <3>1 DEF Begun, Subscriber, LineWise, Untouched, Lines
      <3>5. Reported'
        BY <1>0, <1>1, <3>1 DEF Reported, Untouched
      <3>6. OneMessage'
        <4>1. Len(inflight') <= 1 /\ mid_sent' <= 1 /\ (~failed' => Len(published') = 1)
          <5>0. 1 \in {1} /\ <<>> \in {<<>>}
            OBVIOUS
          <5>1. Len(<<1>>) = 1 /\ Len(<<<<>>>>) = 1
            BY <5>0, One
          <5>2. Len(inflight) = 0
            <6>1. inflight = <<>> /\ 1 \in {1}
              BY <1>0 DEF Untouched
            <6>. QED BY <6>1, None
          <5>3. CASE mid_sent' = 1 /\ inflight' = <<1>> /\ published' = <<<<>>>>
            <6>1. Len(inflight') = 1 /\ Len(published') = 1
              BY <5>1, <5>3, Zenon
            <6>. QED BY <5>3, <6>1
          <5>4. CASE mid_sent' \in {0, 1} /\ failed' = TRUE /\ inflight' = inflight
            <6>1. Len(inflight') = 0
              BY <5>2, <5>4, Zenon
            <6>. QED BY <5>4, <6>1
          <5>. QED BY <3>1, <5>3, <5>4
        <4>2. input' = <<>> /\ status' = "CONNECTING" /\ last_mid' = -1 /\ thread' = "loop" /\ pc' = "main"
          BY <1>0, <1>1, <1>3, <2>2, <3>1 DEF MosquittoInv, OneMessage, Untouched
        <4>3. ~failed' => link' = "up"
          BY <1>0, <3>1 DEF Untouched
        <4>. QED BY <4>1, <4>2, <4>3 DEF OneMessage
      <3>7. Grown'
        BY <1>0, <1>1, <3>1 DEF Grown, Untouched
      <3>8. Resubscribed' /\ ExitHonest' /\ LinesWhole'
        BY <1>0, <1>1, <1>3, <2>2, <3>1 DEF Untouched, Resubscribed, ExitHonest, LinesWhole, Lines, Running
      <3>. QED BY <3>2, <3>3, <3>4, <3>5, <3>6, <3>7, <3>8 DEF MosquittoInv
    <2>. QED BY <2>1, <2>2
  <1>. QED BY <1>2, <1>3 DEF MosquittoInv, TypeOK

-----------------------------------------------------------------------------
(* The oldest message is reported to the library's thread.                  *)
LEMMA PublishCallbackSafe ==
    ASSUME MosquittoAssumption, MosquittoInv, publish_callback PROVE MosquittoInv'
  <1>0. /\ pc # "exited" /\ link = "up" /\ thread = "loop" /\ inflight # <<>>
        /\ last_mid_sent' = Head(inflight) /\ inflight' = Tail(inflight) /\ thread' = "compare"
        /\ UNCHANGED <<tool, given, read, pc, rc, link, status, mid_sent, last_mid, disconnect_sent, connected,
                       input, newline, buf_len, process_messages, msg_count, subscribed, connects, failed,
                       published, printed>>
    BY DEF publish_callback, config, stdin, subvars, history
  <1>1. /\ inflight \in Seq(1 .. MaxLines + 1) /\ mid_sent \in 0 .. MaxLines + 1
        /\ last_mid_sent \in -1 .. mid_sent /\ MaxLines \in Nat
    BY DEF MosquittoInv, TypeOK, MosquittoAssumption
  <1>2. /\ Head(inflight) = inflight[1] /\ inflight[1] \in 1 .. MaxLines + 1 /\ 1 \in DOMAIN inflight
        /\ Tail(inflight) \in Seq(1 .. MaxLines + 1) /\ Len(Tail(inflight)) = Len(inflight) - 1
        /\ \A i \in DOMAIN Tail(inflight) : i + 1 \in DOMAIN inflight /\ 1 < i + 1
                                            /\ Tail(inflight)[i] = inflight[i + 1]
    BY <1>0, <1>1
  <1>3. last_mid_sent' \in 1 .. mid_sent
    BY <1>0, <1>1, <1>2 DEF MosquittoInv, Reported
  <1>4. TypeOK'
    BY <1>0, <1>2, <1>3 DEF MosquittoInv, TypeOK, Lines
  <1>5. InputTyped' /\ OptionsAgree'
    BY <1>0 DEF MosquittoInv, InputTyped, Messages, Texts, OptionsAgree
  <1>6. tool = "pub"
    BY <1>0 DEF MosquittoInv, TypeOK, Subscriber, Untouched
  <1>7. Begun' /\ Subscriber'
    BY <1>0, <1>6 DEF MosquittoInv, Begun, Subscriber
  <1>8. Reported'
    <2>1. \A i \in DOMAIN inflight' : inflight[1] < inflight[i + 1] /\ inflight'[i] = inflight[i + 1]
                                      /\ inflight[i + 1] <= mid_sent
      BY <1>0, <1>2 DEF MosquittoInv, Reported
    <2>2. \A i, j \in DOMAIN inflight' : i < j => inflight[i + 1] < inflight[j + 1]
      <3>. SUFFICES ASSUME NEW i \in DOMAIN inflight', NEW j \in DOMAIN inflight', i < j
                    PROVE  inflight[i + 1] < inflight[j + 1]
        OBVIOUS
      <3>1. i \in Nat /\ j \in Nat /\ i + 1 \in DOMAIN inflight /\ j + 1 \in DOMAIN inflight
        BY <1>0, <1>2
      <3>. QED BY <3>1 DEF MosquittoInv, Reported
    <2>. QED BY <1>0, <1>2, <2>1, <2>2 DEF Reported
  <1>9. OneMessage'
    <2>. SUFFICES ASSUME ~Lines PROVE OneMessage'
      BY <1>0 DEF OneMessage, Lines
    <2>1. Len(inflight) = 1
      BY <1>0, <1>1, <1>6 DEF MosquittoInv, OneMessage
    <2>2. inflight' = <<>>
      BY <1>0, <1>1, <2>1
    <2>. QED BY <1>0, <1>6, <2>2 DEF MosquittoInv, OneMessage, Lines
  <1>10. LineWise'
    BY <1>0, <1>3, <1>6 DEF MosquittoInv, LineWise, Lines
  <1>11. Grown' /\ Resubscribed' /\ LinesWhole'
    BY <1>0 DEF MosquittoInv, Grown, Resubscribed, LinesWhole, Lines
  <1>12. ExitHonest'
    BY <1>0 DEF MosquittoInv, TypeOK, ExitHonest, Running
  <1>. QED BY <1>4, <1>5, <1>7, <1>8, <1>9, <1>10, <1>11, <1>12 DEF MosquittoInv

(* A message is the last one.                                               *)
LEMMA LastReported ==
    ASSUME MosquittoInv, last_mid_sent = last_mid, last_mid # -1, tool = "pub", Lines
    PROVE  inflight = <<>> /\ input = <<>>
  <1>1. last_mid_sent = mid_sent /\ input = <<>>
    BY DEF MosquittoInv, LineWise
  <1>2. inflight \in Seq(1 .. MaxLines + 1) /\ mid_sent \in Int
    BY DEF MosquittoInv, TypeOK
  <1>3. 1 \notin DOMAIN inflight
    <2>. SUFFICES ASSUME 1 \in DOMAIN inflight PROVE FALSE
      OBVIOUS
    <2>0. inflight # <<>>
      OBVIOUS
    <2>1. inflight[1] \in 1 .. MaxLines + 1
      BY <1>2, <2>0, First
    <2>2. mid_sent < inflight[1] /\ inflight[1] <= mid_sent
      BY <1>1 DEF MosquittoInv, Reported
    <2>. QED BY <1>2, <2>1, <2>2
  <1>. QED BY <1>1, <1>2, <1>3

LEMMA CompareSafe ==
    ASSUME MosquittoAssumption, MosquittoInv, publish_callback_compare PROVE MosquittoInv'
  <1>0. /\ pc # "exited" /\ thread = "compare" /\ thread' \in {"loop", "disconnect"}
        /\ thread' = "disconnect" /\ Lines => last_mid_sent = last_mid
        /\ UNCHANGED <<tool, given, read, pc, rc, link, inflight, status, mid_sent, last_mid, last_mid_sent,
                       disconnect_sent, connected, input, newline, buf_len, process_messages, msg_count,
                       subscribed, connects, failed, published, printed>>
    BY DEF publish_callback_compare, config, pubvars, stdin, subvars, history
  <1>1. tool = "pub" /\ link \notin {"none", "connecting"}
    BY <1>0 DEF MosquittoInv, TypeOK, Subscriber, Begun, Untouched
  <1>2. TypeOK'
    BY <1>0 DEF MosquittoInv, TypeOK, Lines
  <1>3. InputTyped' /\ OptionsAgree'
    BY <1>0 DEF MosquittoInv, InputTyped, Messages, Texts, OptionsAgree
  <1>4. Begun' /\ Subscriber'
    BY <1>0, <1>1 DEF MosquittoInv, Begun, Subscriber
  <1>5. Reported' /\ OneMessage'
    BY <1>0 DEF MosquittoInv, Reported, OneMessage, Lines
  <1>6. LineWise'
    <2>. SUFFICES ASSUME Lines PROVE LineWise'
      BY <1>0 DEF LineWise, Lines
    <2>1. last_mid_sent >= 1
      BY <1>0, <1>1 DEF MosquittoInv, LineWise
    <2>2. thread' = "disconnect" => inflight = <<>> /\ input = <<>>
      BY <1>0, <1>1, <2>1, LastReported
    <2>. QED BY <1>0, <1>1, <2>1, <2>2 DEF MosquittoInv, LineWise, Lines
  <1>7. Grown' /\ Resubscribed' /\ ExitHonest' /\ LinesWhole'
    BY <1>0 DEF MosquittoInv, Grown, Resubscribed, ExitHonest, LinesWhole, Lines
  <1>. QED BY <1>2, <1>3, <1>4, <1>5, <1>6, <1>7 DEF MosquittoInv

LEMMA CallbackDisconnectSafe ==
    ASSUME MosquittoAssumption, MosquittoInv, publish_callback_disconnect PROVE MosquittoInv'
  <1>0. /\ pc # "exited" /\ thread \in {"disconnect", "flag"} /\ thread' \in {"loop", "flag"}
        /\ link' \in {link, "disconnecting"} /\ (link' # link => thread = "disconnect" /\ link = "up")
        /\ UNCHANGED <<tool, given, read, pc, rc, inflight, status, mid_sent, last_mid, last_mid_sent,
                       connected, input, newline, buf_len, process_messages, msg_count,
                       subscribed, connects, failed, published, printed>>
    BY DEF publish_callback_disconnect, mosquitto_disconnect, config, stdin, subvars, history
  <1>1. tool = "pub" /\ link \notin {"none", "connecting"}
    BY <1>0 DEF MosquittoInv, TypeOK, Subscriber, Begun, Untouched
  <1>2. TypeOK'
    BY <1>0 DEF MosquittoInv, TypeOK, Lines
  <1>3. InputTyped' /\ OptionsAgree'
    BY <1>0 DEF MosquittoInv, InputTyped, Messages, Texts, OptionsAgree
  <1>4. Begun' /\ Subscriber'
    BY <1>0, <1>1 DEF MosquittoInv, Begun, Subscriber
  <1>5. Reported' /\ OneMessage' /\ LineWise'
    BY <1>0 DEF MosquittoInv, Reported, OneMessage, LineWise, Lines
  <1>6. Grown' /\ Resubscribed' /\ ExitHonest' /\ LinesWhole'
    BY <1>0, <1>1 DEF MosquittoInv, Grown, Resubscribed, ExitHonest, LinesWhole, Lines
  <1>. QED BY <1>2, <1>3, <1>4, <1>5, <1>6 DEF MosquittoInv

(* The connection ends.                                                     *)
LEMMA DisconnectCallbackSafe ==
    ASSUME MosquittoAssumption, MosquittoInv, disconnect_callback PROVE MosquittoInv'
  <1>0. /\ pc # "exited" /\ link \in {"connecting", "up", "disconnecting"} /\ thread = "loop"
        /\ UNCHANGED <<tool, given, read, inflight, status, mid_sent, last_mid, last_mid_sent, disconnect_sent,
                       thread, input, newline, buf_len, process_messages, msg_count, failed, published, printed>>
    BY DEF disconnect_callback, config, pubvars, stdin, history
  <1>1. /\ link' \in {"closed", "connecting"} /\ connects' \in 0 .. MaxConnects
        /\ \/ UNCHANGED <<pc, rc>>
           \/ pc' = "exited" /\ rc' \in {"0", "error"}
        /\ tool = "pub" => link' = "closed" /\ (Lines => pc' = pc) /\ (rc' = "0" => link = "disconnecting" \/ rc = "0")
        /\ tool = "sub" /\ link' = "connecting" => link # "disconnecting" /\ UNCHANGED <<pc, rc>>
    BY DEF disconnect_callback, loop_result, Exit, MosquittoInv, TypeOK, MosquittoAssumption
  <1>2. rc = Running /\ pc \notin {"load", "set", "connect"}
    BY <1>0 DEF MosquittoInv, TypeOK, Begun
  <1>3. TypeOK'
    BY <1>0, <1>1, <1>2 DEF MosquittoInv, TypeOK, Lines, Running
  <1>4. InputTyped' /\ OptionsAgree'
    BY <1>0, <1>1, <1>2 DEF MosquittoInv, InputTyped, Messages, Texts, OptionsAgree
  <1>5. Begun' /\ Subscriber'
    BY <1>0, <1>1, <1>2 DEF MosquittoInv, TypeOK, Begun, Subscriber, Untouched
  <1>6. Reported' /\ OneMessage' /\ LineWise'
    BY <1>0, <1>1, <1>2 DEF MosquittoInv, TypeOK, Reported, OneMessage, LineWise, Lines, Running
  <1>7. Grown' /\ Resubscribed' /\ LinesWhole'
    BY <1>0, <1>1, <1>2 DEF MosquittoInv, TypeOK, Grown, Resubscribed, LinesWhole, Lines, Subscriber, Untouched
  <1>8. ExitHonest'
    BY <1>0, <1>1, <1>2 DEF MosquittoInv, OneMessage, ExitHonest, Lines, Running
  <1>. QED BY <1>3, <1>4, <1>5, <1>6, <1>7, <1>8 DEF MosquittoInv

-----------------------------------------------------------------------------
LEMMA DivNat == ASSUME NEW a \in Nat, NEW b \in Nat \ {0} PROVE a \div b \in Nat
  OBVIOUS

LEMMA TimesNat == ASSUME NEW a \in Nat, NEW b \in Nat PROVE a * b \in Nat
  OBVIOUS

LEMMA TimesZero == ASSUME NEW a \in Nat PROVE a * 0 = 0
  OBVIOUS

(* What fgets reads of a line: all of it, unless the line is too long and   *)
(* the buffer had grown before; the buffer grows for a long line only.      *)
LEMMA LineRead ==
    ASSUME MosquittoAssumption, InputTyped, input # <<>>
    PROVE  /\ Head(input) \in Lengths /\ Head(input) \in Nat
           /\ fgets_line.text \in Texts /\ fgets_line.size \in Nat /\ fgets_line.size >= Chunk
           /\ Head(input) < Chunk - 1 \/ buf_len = Chunk
                  => fgets_line.text = [c \in 1 .. Head(input) |-> c]
           /\ fgets_line.published /\ buf_len = Chunk /\ fgets_line.size # Chunk => Head(input) >= Chunk - 1
           /\ ~fgets_line.published => Len(input) <= 1
  <1>. DEFINE ends == newline \/ Len(input) > 1
              line == Head(input)
              last == line + (IF ends THEN 1 ELSE 0)
              more == IF last < buf_len THEN 0 ELSE (last - buf_len + Chunk - 1) \div (Chunk - 1)
              pieces == IF last = 0 THEN 0 ELSE 1 + more
              lost == IF more = 0 THEN 0 ELSE buf_len - Chunk
              grows == IF ends THEN pieces - 1 ELSE pieces
  <1>1. /\ line \in Lengths /\ line \in Nat /\ Chunk \in Nat /\ Chunk >= 2 /\ buf_len \in Nat /\ buf_len >= Chunk
        /\ Len(input) \in Nat
    <2>1. input \in Seq(Lengths) /\ input # <<>>
      BY DEF InputTyped
    <2>2. Head(input) \in Lengths
      BY <2>1, First
    <2>3. Len(input) \in Nat
      BY <2>1, First
    <2>4. Lengths \subseteq Nat /\ Chunk \in Nat \ {0, 1}
      BY DEF MosquittoAssumption
    <2>6. Chunk \in Nat /\ Chunk >= 2
      BY <2>4
    <2>7. Head(input) \in Nat
      BY <2>2, <2>4
    <2>5. buf_len \in Nat /\ buf_len >= Chunk
      BY DEF InputTyped
    <2>. QED BY <2>2, <2>3, <2>5, <2>6, <2>7 DEF line
  <1>. HIDE DEF ends, line
  <1>2. last \in Nat /\ (last = line \/ last = line + 1) /\ (ends => last = line + 1)
    <2>1. CASE ends
      BY <1>1, <2>1
    <2>2. CASE ~ends
      BY <1>1, <2>2
    <2>. QED BY <2>1, <2>2
  <1>. HIDE DEF last
  <1>3. more \in Nat
    <2>1. CASE last < buf_len
      BY <2>1
    <2>2. CASE ~(last < buf_len)
      <3>1. last - buf_len + Chunk - 1 \in Nat /\ Chunk - 1 \in Nat \ {0}
        BY <1>1, <1>2, <2>2
      <3>2. (last - buf_len + Chunk - 1) \div (Chunk - 1) \in Nat
        BY <3>1, DivNat
      <3>. QED BY <2>2, <3>2
    <2>. QED BY <2>1, <2>2
  <1>4. line < Chunk - 1 => more = 0
    BY <1>1, <1>2
  <1>5. lost \in Nat /\ (line < Chunk - 1 \/ buf_len = Chunk => lost = 0)
    BY <1>1, <1>3, <1>4
  <1>6. grows \in Nat /\ (ends => grows = more)
    <2>. HIDE DEF more
    <2>1. CASE ends
      BY <1>1, <1>2, <1>3, <2>1
    <2>2. CASE ~ends
      BY <1>3, <2>2
    <2>. QED BY <2>1, <2>2
  <1>7. /\ fgets_line.text = [c \in 1 .. line - lost |-> IF c < Chunk THEN c ELSE c + lost]
        /\ fgets_line.size = buf_len + Chunk * grows /\ fgets_line.published = ends
    BY DEF fgets_line, ends, line, last
  <1>. HIDE DEF more, pieces, lost, grows
  <1>8. fgets_line.text \in Texts
    <2>1. line - lost \in Int /\ lost \in Int
      BY <1>1, <1>5
    <2>. QED BY <1>7, <2>1 DEF Texts
  <1>9. fgets_line.size \in Nat /\ fgets_line.size >= Chunk /\ (grows = 0 => fgets_line.size = buf_len)
    <2>1. Chunk * grows \in Nat /\ Chunk * 0 = 0
      BY <1>1, <1>6, TimesNat, TimesZero
    <2>. QED BY <1>1, <1>7, <2>1
  <1>10. line < Chunk - 1 \/ buf_len = Chunk => fgets_line.text = [c \in 1 .. line |-> c]
    <2>. SUFFICES ASSUME lost = 0 PROVE fgets_line.text = [c \in 1 .. line |-> c]
      BY <1>5
    <2>1. 1 .. line - lost = 1 .. line /\ \A c \in 1 .. line : c + lost = c
      BY <1>1
    <2>. QED BY <1>7, <2>1
  <1>11. fgets_line.published /\ buf_len = Chunk /\ fgets_line.size # Chunk => line >= Chunk - 1
    BY <1>1, <1>4, <1>6, <1>7, <1>9
  <1>12. ~fgets_line.published => Len(input) <= 1
    <2>. SUFFICES ASSUME ~ends PROVE Len(input) <= 1
      BY <1>7
    <2>1. ~(Len(input) > 1)
      BY DEF ends
    <2>. QED BY <1>1, <2>1
  <1>. QED BY <1>1, <1>8, <1>9, <1>10, <1>11, <1>12 DEF line

(* One line is read: it is published whole, unless it is long and the        *)
(* buffer had grown for an earlier one.                                     *)
LEMMA ReadLineSafe ==
    ASSUME MosquittoAssumption, MosquittoInv, read_line PROVE MosquittoInv'
  <1>. DEFINE m == [line |-> Head(input), text |-> fgets_line.text]
  <1>0. /\ pc = "main" /\ Lines /\ status = "CONNACK_RECVD" /\ connected /\ input # <<>>
        /\ input' = Tail(input) /\ buf_len' = fgets_line.size
        /\ UNCHANGED <<tool, given, read, pc, rc, status, last_mid, last_mid_sent, connected, disconnect_sent,
                       thread, newline, process_messages, msg_count, subscribed, connects, printed>>
    BY DEF read_line, config, subvars
  <1>1. \/ /\ fgets_line.published /\ link = "up" /\ link' = "up" /\ mid_sent' = mid_sent + 1 /\ failed' = failed
           /\ inflight' = Append(inflight, mid_sent + 1) /\ published' = Append(published, m)
        \/ /\ fgets_line.published /\ mid_sent' \in {mid_sent, mid_sent + 1} /\ failed' = TRUE
           /\ link' = (IF link = "up" THEN "disconnecting" ELSE link) /\ UNCHANGED <<inflight, published>>
        \/ ~fgets_line.published /\ UNCHANGED <<link, mid_sent, inflight, failed, published>>
    BY DEF read_line, mosquitto_publish_ok, mosquitto_publish_fails, mosquitto_disconnect
  <1>. HIDE DEF m
  <1>2. /\ tool = "pub" /\ link \notin {"none", "connecting"} /\ rc = Running
    BY <1>0 DEF MosquittoInv, TypeOK, Subscriber, Begun, Untouched
  <1>3. /\ Head(input) \in Lengths /\ Head(input) \in Nat /\ fgets_line.text \in Texts /\ fgets_line.size \in Nat
        /\ fgets_line.size >= Chunk
    BY <1>0, LineRead DEF MosquittoInv
  <1>4. m \in Messages /\ m.line = Head(input) /\ m.text = fgets_line.text
    BY <1>3 DEF Messages, m
  <1>5. /\ Tail(input) \in Seq(Lengths) /\ Len(Tail(input)) = Len(input) - 1 /\ Len(input) \in Nat /\ Len(input) >= 1
    BY <1>0, First, Rest DEF MosquittoInv, InputTyped
  <1>6. /\ mid_sent \in 0 .. MaxLines + 1 /\ mid_sent + 1 <= MaxLines /\ MaxLines \in Nat
        /\ last_mid = -1 /\ last_mid_sent \in -1 .. mid_sent
        /\ inflight \in Seq(1 .. MaxLines + 1) /\ published \in Seq(Messages)
    <2>1. mid_sent + Len(input) <= MaxLines /\ last_mid = -1
      BY <1>0, <1>2 DEF MosquittoInv, LineWise
    <2>. QED BY <1>5, <2>1 DEF MosquittoInv, TypeOK, InputTyped, MosquittoAssumption
  <1>7. /\ mid_sent' \in 0 .. MaxLines + 1 /\ mid_sent' <= mid_sent + 1 /\ mid_sent <= mid_sent'
        /\ mid_sent + 1 \in 1 .. MaxLines + 1
    BY <1>1, <1>6
  <1>8. inflight' \in Seq(1 .. MaxLines + 1)
    <2>1. Append(inflight, mid_sent + 1) \in Seq(1 .. MaxLines + 1)
      BY <1>6, <1>7, Longer
    <2>. QED BY <1>1, <1>6, <2>1
  <1>9. TypeOK'
    <2>1. last_mid' \in -1 .. mid_sent' /\ last_mid_sent' \in -1 .. mid_sent'
      BY <1>0, <1>6, <1>7
    <2>2. link' \in {"none", "connecting", "up", "disconnecting", "closed"}
      BY <1>1 DEF MosquittoInv, TypeOK
    <2>. QED BY <1>0, <1>7, <1>8, <2>1, <2>2 DEF MosquittoInv, TypeOK, Lines
  <1>10. InputTyped'
    <2>1. published' \in Seq(Messages)
      <3>1. Append(published, m) \in Seq(Messages)
        BY <1>4, <1>6, Longer
      <3>. QED BY <1>1, <1>6, <3>1
    <2>2. printed' \in Nat
      BY <1>0 DEF MosquittoInv, InputTyped
    <2>. QED BY <1>0, <1>3, <1>5, <2>1, <2>2 DEF InputTyped, Messages, Texts
  <1>11. OptionsAgree' /\ Begun' /\ Subscriber'
    <2>1. link' \notin {"none", "connecting"}
      BY <1>1, <1>2
    <2>. QED BY <1>0, <1>2, <2>1 DEF MosquittoInv, OptionsAgree, Begun, Subscriber
  <1>12. Reported'
    <2>1. CASE UNCHANGED inflight
      <3>1. \A i \in DOMAIN inflight : inflight[i] \in Int
        BY <1>6
      <3>. QED BY <1>0, <1>6, <1>7, <2>1, <3>1 DEF MosquittoInv, Reported
    <2>2. CASE inflight' = Append(inflight, mid_sent + 1) /\ mid_sent' = mid_sent + 1
      <3>1. /\ DOMAIN inflight' = DOMAIN inflight \cup {Len(inflight) + 1} /\ Len(inflight) \in Nat
            /\ DOMAIN inflight = 1 .. Len(inflight) /\ inflight'[Len(inflight) + 1] = mid_sent + 1
            /\ \A i \in DOMAIN inflight : inflight'[i] = inflight[i]
        BY <1>6, <1>7, <2>2, Longer
      <3>2. \A i \in DOMAIN inflight : inflight[i] \in Int
        BY <1>6
      <3>3. \A i \in DOMAIN inflight' : last_mid_sent' < inflight'[i] /\ inflight'[i] <= mid_sent'
        BY <1>0, <1>6, <2>2, <3>1, <3>2 DEF MosquittoInv, Reported
      <3>4. ASSUME NEW i \in DOMAIN inflight', NEW j \in DOMAIN inflight', i < j PROVE inflight'[i] < inflight'[j]
        <4>1. i \in DOMAIN inflight
          BY <3>1, <3>4
        <4>2. CASE j \in DOMAIN inflight
          BY <3>1, <3>4, <4>1, <4>2 DEF MosquittoInv, Reported
        <4>3. CASE j = Len(inflight) + 1
          <5>1. inflight[i] <= mid_sent
            BY <4>1 DEF MosquittoInv, Reported
          <5>. QED BY <1>6, <3>1, <3>2, <4>1, <4>3, <5>1
        <4>. QED BY <3>1, <4>2, <4>3
      <3>. QED BY <3>3, <3>4 DEF Reported
    <2>. QED BY <1>1, <2>1, <2>2
  <1>13. OneMessage' /\ Resubscribed' /\ ExitHonest'
    BY <1>0, <1>2 DEF OneMessage, Resubscribed, ExitHonest, Lines
  <1>14. LineWise'
    <2>1. mid_sent' + Len(input') <= MaxLines
      <3>1. mid_sent + Len(input) <= MaxLines
        BY <1>0, <1>2 DEF MosquittoInv, LineWise
      <3>. QED BY <1>0, <1>5, <1>6, <1>7, <3>1
    <2>2. thread # "disconnect" /\ (thread # "loop" => last_mid_sent >= 1)
      BY <1>0, <1>2 DEF MosquittoInv, LineWise
    <2>3. ~failed' => link' # "disconnecting"
      BY <1>0, <1>1, <1>2 DEF MosquittoInv, LineWise
    <2>. QED BY <1>0, <1>6, <2>1, <2>2, <2>3 DEF LineWise
  <1>15. fgets_line.published /\ buf_len = Chunk /\ fgets_line.size # Chunk => Head(input) >= Chunk - 1
    BY <1>0, LineRead DEF MosquittoInv
  <1>16. ~fgets_line.published => Tail(input) = <<>>
    BY <1>0, LineRead, Rest DEF MosquittoInv, InputTyped
  <1>17. published' = Append(published, m) =>
             /\ DOMAIN published' = DOMAIN published \cup {Len(published) + 1} /\ Len(published) \in Nat
             /\ DOMAIN published = 1 .. Len(published) /\ published'[Len(published) + 1] = m
             /\ \A i \in DOMAIN published : published'[i] = published[i]
    BY <1>4, <1>6, Longer
  <1>18. Grown'
    <2>1. failed' => link' \notin {"none", "connecting", "up"}
      BY <1>1, <1>2 DEF MosquittoInv, Grown
    <2>2. ASSUME link' = "up", input' # <<>>, buf_len' # Chunk
          PROVE  \E j \in DOMAIN published' : published'[j].line \in Nat /\ published'[j].line >= Chunk - 1
      <3>1. fgets_line.published /\ link = "up" /\ published' = Append(published, m)
        BY <1>0, <1>1, <1>16, <2>2
      <3>2. CASE buf_len # Chunk
        <4>1. PICK j \in DOMAIN published : published[j].line \in Nat /\ published[j].line >= Chunk - 1
          BY <1>0, <3>1, <3>2 DEF MosquittoInv, Grown
        <4>. QED BY <1>17, <3>1, <4>1
      <3>3. CASE buf_len = Chunk
        <4>1. Head(input) >= Chunk - 1
          BY <1>0, <1>15, <2>2, <3>1, <3>3
        <4>. QED BY <1>3, <1>4, <1>17, <3>1, <4>1
      <3>. QED BY <3>2, <3>3
    <2>. QED BY <2>1, <2>2 DEF Grown
  <1>19. LinesWhole'
    <2>1. CASE UNCHANGED published
      BY <1>0, <2>1 DEF MosquittoInv, LinesWhole, Lines
    <2>2. CASE published' = Append(published, m) /\ link = "up"
      <3>. DEFINE Whole(p) == p.text = [c \in 1 .. p.line |-> c]
      <3>1. ASSUME NEW i \in DOMAIN published',
                   \/ published'[i].line < Chunk - 1
                   \/ \A j \in 1 .. i - 1 : published'[j].line < Chunk - 1
            PROVE  Whole(published'[i])
        <4>1. CASE i \in DOMAIN published
          <5>1. 1 .. i - 1 \subseteq DOMAIN published
            BY <1>17, <2>2, <4>1
          <5>2. \/ published[i].line < Chunk - 1
                \/ \A j \in 1 .. i - 1 : published[j].line < Chunk - 1
            BY <1>17, <2>2, <3>1, <4>1, <5>1
          <5>3. Whole(published[i])
            BY <1>0, <4>1, <5>2 DEF MosquittoInv, LinesWhole
          <5>. QED BY <1>17, <2>2, <4>1, <5>3
        <4>2. CASE i = Len(published) + 1
          <5>1. published'[i] = m
            BY <1>17, <2>2, <4>2
          <5>2. Head(input) < Chunk - 1 \/ buf_len = Chunk
            <6>1. CASE m.line < Chunk - 1
              BY <1>4, <6>1
            <6>2. CASE \A j \in DOMAIN published : published[j].line < Chunk - 1
              <7>1. SUFFICES ASSUME buf_len # Chunk PROVE FALSE
                OBVIOUS
              <7>2. PICK j \in DOMAIN published : published[j].line \in Nat /\ published[j].line >= Chunk - 1
                BY <1>0, <2>2, <7>1 DEF MosquittoInv, Grown
              <7>3. published[j].line < Chunk - 1
                BY <6>2
              <7>4. Chunk \in Nat
                BY DEF MosquittoAssumption
              <7>. QED BY <7>2, <7>3, <7>4
            <6>. QED BY <1>17, <2>2, <3>1, <4>2, <5>1, <6>1, <6>2
          <5>3. fgets_line.text = [c \in 1 .. Head(input) |-> c]
            BY <1>0, <5>2, LineRead DEF MosquittoInv
          <5>. QED BY <1>4, <5>1, <5>3
        <4>. QED BY <1>17, <2>2, <4>1, <4>2
      <3>. QED BY <1>0, <3>1 DEF LinesWhole, Lines
    <2>. QED BY <1>1, <2>1, <2>2
  <1>. QED BY <1>9, <1>10, <1>11, <1>12, <1>13, <1>14, <1>18, <1>19 DEF MosquittoInv

(* The end of the input: from here on the last id is known.                 *)
LEMMA EndOfFileSafe ==
    ASSUME MosquittoAssumption, MosquittoInv, end_of_file PROVE MosquittoInv'
  <1>0. /\ Lines /\ connected /\ status = "CONNACK_RECVD" /\ input = <<>> /\ pc \in {"main", "eof"}
        /\ UNCHANGED <<tool, given, read, rc, link, inflight, mid_sent, last_mid_sent, connected, disconnect_sent,
                       thread, input, newline, buf_len, process_messages, msg_count, subscribed, connects,
                       failed, published, printed>>
        /\ \/ pc' = "eof" /\ last_mid' = mid_sent /\ UNCHANGED status
           \/ pc = "eof" /\ pc' = "main" /\ status' = "WAITING" /\ UNCHANGED last_mid
    BY DEF end_of_file, config, stdin, subvars, history
  <1>1. tool = "pub" /\ link \notin {"none", "connecting"} /\ rc = Running
    BY <1>0 DEF MosquittoInv, TypeOK, Subscriber, Begun, Untouched
  <1>2. mid_sent \in 0 .. MaxLines + 1 /\ (pc = "eof" => last_mid = mid_sent) /\ mid_sent \in Int
    BY <1>0, <1>1 DEF MosquittoInv, TypeOK, LineWise
  <1>3. last_mid' = mid_sent /\ mid_sent \in -1 .. mid_sent
    BY <1>0, <1>2
  <1>4. TypeOK'
    <2>1. last_mid' \in -1 .. mid_sent' /\ last_mid_sent' \in -1 .. mid_sent'
      BY <1>0, <1>3 DEF MosquittoInv, TypeOK
    <2>. QED BY <1>0, <1>1, <2>1 DEF MosquittoInv, TypeOK, Lines, Running
  <1>5. InputTyped' /\ OptionsAgree'
    BY <1>0 DEF MosquittoInv, InputTyped, Messages, Texts, OptionsAgree
  <1>6. Begun' /\ Subscriber'
    BY <1>0, <1>1 DEF MosquittoInv, Begun, Subscriber
  <1>7. Reported' /\ OneMessage'
    BY <1>0 DEF MosquittoInv, Reported, OneMessage, Lines
  <1>8. LineWise'
    BY <1>0, <1>1, <1>3 DEF MosquittoInv, LineWise, Lines
  <1>9. Grown' /\ Resubscribed' /\ ExitHonest' /\ LinesWhole'
    BY <1>0 DEF MosquittoInv, Grown, Resubscribed, ExitHonest, LinesWhole, Lines
  <1>. QED BY <1>4, <1>5, <1>6, <1>7, <1>8, <1>9 DEF MosquittoInv

(* main disconnects when the last message has been reported.                *)
LEMMA WaitingSafe ==
    ASSUME MosquittoAssumption, MosquittoInv, waiting PROVE MosquittoInv'
  <1>0. /\ Lines /\ status = "WAITING" /\ pc \in {"main", "disconnect", "flag"}
        /\ pc' \in {"main", "disconnect", "flag"}
        /\ UNCHANGED <<tool, given, read, rc, inflight, status, mid_sent, last_mid, last_mid_sent, connected,
                       thread, input, newline, buf_len, process_messages, msg_count, subscribed, connects,
                       failed, published, printed>>
        /\ pc' = "disconnect" => last_mid_sent = last_mid
        /\ pc' = "flag" => pc = "disconnect"
        /\ link' \in {link, "disconnecting"}
        /\ link' # link => pc = "disconnect" /\ link = "up"
    BY DEF waiting, mosquitto_disconnect, config, stdin, subvars, history
  <1>1. tool = "pub" /\ link \notin {"none", "connecting"} /\ rc = Running
    BY <1>0 DEF MosquittoInv, TypeOK, Subscriber, Begun, Untouched
  <1>2. mid_sent \in 0 .. MaxLines + 1 /\ last_mid = mid_sent
    BY <1>0, <1>1 DEF MosquittoInv, TypeOK, LineWise
  <1>3. last_mid # -1
    BY <1>2
  <1>4. pc' \in {"disconnect", "flag"} \/ link' # link => inflight = <<>> /\ input = <<>>
    <2>1. CASE pc' = "disconnect"
      BY <1>0, <1>1, <1>3, <2>1, LastReported
    <2>2. CASE pc = "disconnect"
      BY <1>0, <1>1, <2>2 DEF MosquittoInv, LineWise
    <2>. QED BY <1>0, <2>1, <2>2
  <1>5. TypeOK'
    BY <1>0, <1>1 DEF MosquittoInv, TypeOK, Lines, Running
  <1>6. InputTyped' /\ OptionsAgree'
    BY <1>0 DEF MosquittoInv, InputTyped, Messages, Texts, OptionsAgree
  <1>7. Begun' /\ Subscriber'
    BY <1>0, <1>1 DEF MosquittoInv, Begun, Subscriber
  <1>8. Reported' /\ OneMessage'
    BY <1>0 DEF MosquittoInv, Reported, OneMessage, Lines
  <1>9. LineWise'
    BY <1>0, <1>1, <1>2, <1>4 DEF MosquittoInv, LineWise, Lines
  <1>10. Grown' /\ Resubscribed' /\ ExitHonest' /\ LinesWhole'
    BY <1>0, <1>1 DEF MosquittoInv, Grown, Resubscribed, ExitHonest, LinesWhole, Lines
  <1>. QED BY <1>5, <1>6, <1>7, <1>8, <1>9, <1>10 DEF MosquittoInv

LEMMA NotConnectedSafe ==
    ASSUME MosquittoAssumption, MosquittoInv, not_connected PROVE MosquittoInv'
  <1>0. /\ pc = "main" /\ Lines /\ pc' = "exited" /\ rc' = "0"
        /\ UNCHANGED <<tool, given, read, link, inflight, status, mid_sent, last_mid, last_mid_sent,
                       disconnect_sent, connected, thread, input, newline, buf_len, process_messages, msg_count,
                       subscribed, connects, failed, published, printed>>
    BY DEF not_connected, Exit, config, pubvars, stdin, subvars, history
  <1>1. TypeOK'
    BY <1>0 DEF MosquittoInv, TypeOK, Lines, Running
  <1>2. InputTyped' /\ OptionsAgree'
    BY <1>0 DEF MosquittoInv, InputTyped, Messages, Texts, OptionsAgree
  <1>3. Begun' /\ Subscriber'
    BY <1>0 DEF MosquittoInv, Begun, Subscriber, Untouched
  <1>4. Reported' /\ OneMessage' /\ LineWise'
    BY <1>0 DEF MosquittoInv, Reported, OneMessage, LineWise, Lines
  <1>5. Grown' /\ Resubscribed' /\ ExitHonest' /\ LinesWhole'
    BY <1>0 DEF MosquittoInv, Grown, Resubscribed, ExitHonest, LinesWhole, Lines
  <1>. QED BY <1>1, <1>2, <1>3, <1>4, <1>5 DEF MosquittoInv

(* mosquitto_sub counts a message, and disconnects after the last.          *)
LEMMA MessageCallbackSafe ==
    ASSUME MosquittoAssumption, MosquittoInv, NEW retained, NEW filtered, message_callback(retained, filtered)
    PROVE  MosquittoInv'
  <1>0. /\ tool = "sub" /\ pc = "main" /\ link \in {"up", "disconnecting"} /\ subscribed
        /\ UNCHANGED <<tool, given, read, pc, rc, inflight, status, mid_sent, last_mid, last_mid_sent,
                       disconnect_sent, connected, thread, input, newline, buf_len, subscribed, connects,
                       failed, published>>
        /\ \/ UNCHANGED <<link, process_messages, msg_count, printed>>
           \/ process_messages /\ printed' = printed + 1 /\ "-C" \notin given
                  /\ UNCHANGED <<msg_count, process_messages, link>>
           \/ process_messages /\ printed' = printed + 1 /\ "-C" \in given /\ msg_count' = msg_count + 1
                  /\ \/ msg_count' = Count /\ process_messages' = FALSE
                            /\ link' = (IF link = "up" THEN "disconnecting" ELSE link)
                     \/ msg_count' # Count /\ UNCHANGED <<process_messages, link>>
    BY DEF message_callback, Shown, mosquitto_disconnect, config, pubvars, stdin
  <1>1. /\ printed \in Nat /\ msg_count \in 0 .. Count /\ Count \in Nat
        /\ Untouched /\ input = <<>>
    BY <1>0 DEF MosquittoInv, InputTyped, TypeOK, Subscriber, MosquittoAssumption
  <1>2. "-C" \in given => msg_count = printed /\ (process_messages => printed < Count)
    BY <1>0 DEF MosquittoInv, Subscriber
  <1>3. /\ msg_count' \in 0 .. Count /\ printed' \in Nat
    BY <1>0, <1>1, <1>2
  <1>4. /\ link' \in {"up", "disconnecting"}
    BY <1>0
  <1>5. Untouched'
    BY <1>0, <1>1 DEF Untouched
  <1>6. TypeOK'
    BY <1>0, <1>3, <1>4 DEF MosquittoInv, TypeOK, Lines
  <1>7. InputTyped' /\ OptionsAgree'
    BY <1>0, <1>3 DEF MosquittoInv, InputTyped, Messages, Texts, OptionsAgree
  <1>8. Begun'
    BY <1>0, <1>4, <1>5 DEF Begun
  <1>9. Subscriber'
    <2>1. CASE "-C" \notin given
      <3>1. msg_count' = 0
        BY <1>0, <2>1 DEF MosquittoInv, Subscriber
      <3>. QED BY <1>0, <1>1, <1>5, <2>1, <3>1 DEF Subscriber
    <2>2. CASE "-C" \in given /\ UNCHANGED <<link, process_messages, msg_count, printed>>
      BY <1>0, <1>1, <1>5, <2>2 DEF MosquittoInv, Subscriber
    <2>3. CASE /\ "-C" \in given /\ msg_count' = msg_count + 1 /\ printed' = printed + 1 /\ process_messages
               /\ \/ msg_count' = Count /\ process_messages' = FALSE
                  \/ msg_count' # Count /\ UNCHANGED <<process_messages, link>>
      <3>1. msg_count' = printed' /\ printed' <= Count /\ printed' \in Nat
        BY <1>1, <1>2, <1>0, <2>3
      <3>2. CASE msg_count' = Count /\ process_messages' = FALSE
        BY <1>0, <1>1, <1>5, <2>3, <3>1, <3>2 DEF Subscriber
      <3>3. CASE msg_count' # Count /\ process_messages /\ UNCHANGED <<process_messages, link>>
        <4>1. printed' < Count
          BY <1>1, <3>1, <3>3
        <4>2. link # "disconnecting"
          BY <1>0, <2>3, <3>3 DEF MosquittoInv, Subscriber
        <4>3. process_messages' /\ link' # "disconnecting"
          BY <3>3, <4>2
        <4>4. pc' = "main" /\ input' = <<>> /\ given' = given
          BY <1>0, <1>1
        <4>5. "-C" \in given' /\ msg_count' = printed'
          BY <2>3, <3>1, <4>4
        <4>6. Untouched' /\ input' = <<>> /\ pc' \notin {"eof", "disconnect", "flag"}
          BY <1>5, <4>4
        <4>7. /\ process_messages' => printed' < Count
              /\ ~process_messages' => printed' = Count
              /\ link' = "disconnecting" => ~process_messages'
          BY <4>1, <4>3, Zenon
        <4>. QED BY <4>5, <4>6, <4>7, Zenon DEF Subscriber
      <3>. QED BY <2>3, <3>2, <3>3
    <2>. QED BY <1>0, <2>1, <2>2, <2>3
  <1>10. Reported' /\ OneMessage' /\ LineWise' /\ Grown'
    BY <1>0, <1>5 DEF Untouched, Reported, OneMessage, LineWise, Grown
  <1>11. Resubscribed' /\ ExitHonest' /\ LinesWhole'
    BY <1>0, <1>1 DEF Untouched, Resubscribed, ExitHonest, LinesWhole
  <1>. QED BY <1>6, <1>7, <1>8, <1>9, <1>10, <1>11 DEF MosquittoInv

LEMMA MosquittoStutter ==
    ASSUME MosquittoInv, UNCHANGED vars PROVE MosquittoInv'
  <1>0. UNCHANGED <<tool, given, proxy, wanted, pc, rc, read, link, inflight, status, mid_sent, last_mid,
                    last_mid_sent, connected, disconnect_sent, thread, input, newline, buf_len,
                    process_messages, msg_count, subscribed, connects, failed, published, printed>>
    BY DEF vars, config, pubvars, stdin, subvars, history
  <1>1. TypeOK' /\ InputTyped' /\ OptionsAgree' /\ Begun' /\ Subscriber'
    BY <1>0 DEF MosquittoInv, TypeOK, Lines, InputTyped, Messages, Texts, OptionsAgree, Begun, Subscriber, Untouched
  <1>2. Reported' /\ OneMessage' /\ LineWise' /\ Grown' /\ Resubscribed' /\ ExitHonest' /\ LinesWhole'
    BY <1>0 DEF MosquittoInv, Reported, OneMessage, LineWise, Grown, Resubscribed, ExitHonest, LinesWhole, Lines
  <1>. QED BY <1>1, <1>2 DEF MosquittoInv

(* Every step keeps the invariant.                                          *)
LEMMA MosquittoStep ==
    ASSUME MosquittoAssumption, MosquittoInv, [Next]_vars PROVE MosquittoInv'
  <1>1. CASE \E o \in Options : option(o)
    BY <1>1, OptionSafe
  <1>2. CASE \E f \in ProxyForms : proxy_option(f)
    BY <1>2, ProxySafe
  <1>3. CASE Start
    BY <1>3, LoadSafe, ClientConnectSafe DEF Start
  <1>4. CASE Main
    BY <1>4, ReadLineSafe, EndOfFileSafe, WaitingSafe, NotConnectedSafe DEF Main
  <1>5. CASE Callback
    BY <1>5, PublishCallbackSafe, CompareSafe, CallbackDisconnectSafe DEF Callback
  <1>6. CASE connect_callback \/ disconnect_callback
    BY <1>6, ConnectCallbackSafe, DisconnectCallbackSafe
  <1>7. CASE \E retained, filtered \in BOOLEAN : message_callback(retained, filtered)
    BY <1>7, MessageCallbackSafe
  <1>8. CASE UNCHANGED vars
    BY <1>8, MosquittoStutter
  <1>. QED BY <1>1, <1>2, <1>3, <1>4, <1>5, <1>6, <1>7, <1>8 DEF Next

-----------------------------------------------------------------------------
(* Every behaviour of the programs keeps the invariant.                     *)
THEOREM MosquittoInvariance == ASSUME MosquittoAssumption PROVE Spec => []MosquittoInv
  <1>1. Init => MosquittoInv
    BY MosquittoInit
  <1>2. MosquittoInv /\ [Next]_vars => MosquittoInv'
    BY MosquittoStep
  <1>. QED BY <1>1, <1>2, PTL DEF Spec

(* Every variable of mosquitto_pub and mosquitto_sub has its type, whatever  *)
(* the options, the lines read and the answers of the library.              *)
THEOREM MosquittoTyped == ASSUME MosquittoAssumption PROVE Spec => []TypeOK
  BY MosquittoInvariance, PTL DEF MosquittoInv

(* Without -l, mosquitto_pub's exit status 0 says that its one message was   *)
(* published and reported, unless the library refused it.                   *)
THEOREM ExitHonestHolds == ASSUME MosquittoAssumption PROVE Spec => []ExitHonest
  BY MosquittoInvariance, PTL DEF MosquittoInv

(* mosquitto_sub has subscribed on every connection it has, the later ones   *)
(* as well.                                                                 *)
THEOREM ResubscribedHolds == ASSUME MosquittoAssumption PROVE Spec => []Resubscribed
  BY MosquittoInvariance, PTL DEF MosquittoInv

(* mosquitto_pub -l publishes the lines as they are, for every size of the   *)
(* buffer and every length, unless a long one is read to a buffer that had   *)
(* grown before.                                                            *)
THEOREM LinesWholeHolds == ASSUME MosquittoAssumption PROVE Spec => []LinesWhole
  BY MosquittoInvariance, PTL DEF MosquittoInv

LEMMA DoneWhenDisconnecting == ASSUME MosquittoAssumption, MosquittoInv PROVE DisconnectsWhenDone
  <1>1. ASSUME tool = "pub", link = "disconnecting", ~failed PROVE inflight = <<>> /\ input = <<>>
    <2>1. CASE Lines
      BY <1>1, <2>1 DEF MosquittoInv, LineWise
    <2>2. CASE ~Lines
      BY <1>1, <2>2 DEF MosquittoInv, OneMessage
    <2>. QED BY <2>1, <2>2
  <1>2. ASSUME "-C" \in given PROVE printed <= Count /\ (link = "disconnecting" => printed = Count)
    <2>1. tool = "sub"
      BY <1>2 DEF MosquittoInv, TypeOK, OptionsAgree, SubOnly
    <2>2. printed \in Nat /\ Count \in Nat
      BY DEF MosquittoInv, InputTyped, MosquittoAssumption
    <2>3. CASE process_messages
      <3>1. printed < Count /\ link # "disconnecting"
        BY <1>2, <2>1, <2>3 DEF MosquittoInv, Subscriber
      <3>. QED BY <2>2, <3>1
    <2>4. CASE ~process_messages
      <3>1. printed = Count
        BY <1>2, <2>1, <2>4 DEF MosquittoInv, Subscriber
      <3>. QED BY <2>2, <3>1
    <2>. QED BY <2>3, <2>4
  <1>. QED BY <1>1, <1>2 DEF DisconnectsWhenDone

(* mosquitto_pub disconnects when everything is published and reported and  *)
(* not before, whichever of main and the library's thread finds out;        *)
(* mosquitto_sub -C disconnects when it has printed that many messages, and  *)
(* prints no more.                                                          *)
THEOREM DisconnectsWhenDoneHolds == ASSUME MosquittoAssumption PROVE Spec => []DisconnectsWhenDone
  <1>1. MosquittoInv => DisconnectsWhenDone
    BY DoneWhenDisconnecting
  <1>. QED BY <1>1, MosquittoInvariance, PTL

LEMMA OptionsConsistent == ASSUME MosquittoInv PROVE ConsistentOptions
  <1>. SUFFICES ASSUME pc = "set" PROVE ConsistentOptions
    BY DEF ConsistentOptions
  <1>1. ~config_load_refuses(tool, given) /\ ~(tool = "pub" /\ pub_refuses(given))
    BY DEF MosquittoInv, OptionsAgree
  <1>2. tool = "pub" => Cardinality(given \cap Modes) = 1
    <2>. SUFFICES ASSUME tool = "pub" PROVE Cardinality(given \cap Modes) = 1
      OBVIOUS
    <2>1. PICK a \in given \cap Modes : TRUE
      BY <1>1 DEF pub_refuses
    <2>2. given \cap Modes = {a}
      BY <2>1 DEF MosquittoInv, OptionsAgree
    <2>. QED BY <2>2, FS_Singleton
  <1>. QED BY <1>1, <1>2 DEF MosquittoInv, OptionsAgree, ConsistentOptions, config_load_refuses

(* Whatever the order of the options, those of a program that makes its      *)
(* client go together.                                                      *)
THEOREM ConsistentOptionsHold == ASSUME MosquittoAssumption PROVE Spec => []ConsistentOptions
  <1>1. MosquittoInv => ConsistentOptions
    BY OptionsConsistent
  <1>. QED BY <1>1, MosquittoInvariance, PTL

(* The id a program makes up has at most 23 bytes; it contains the process   *)
(* id when the base, the longest process id the buffer has room for and the  *)
(* separators fit, and there is a host name if the process id is longer.     *)
LEMMA IdNames ==
    ASSUME NEW base \in Nat, NEW pid \in Nat, NEW hostname \in Nat,
           base + 1 + pid <= MOSQ_MQTT_ID_MAX_LENGTH, pid <= 6 \/ (pid = 7 /\ hostname > 0)
    PROVE  LET id == client_id_generate(base, pid, hostname)
           IN  id.length <= MOSQ_MQTT_ID_MAX_LENGTH /\ id.length >= id.whole
  <1>. DEFINE size == base + 2 + 6 + hostname
              id == Least(size - 1, base + 1 + pid + 1 + hostname)
  <1>1. size - 1 >= base + 1 + pid /\ base + 1 + pid + 1 + hostname >= base + 1 + pid /\ size - 1 \in Int
    OBVIOUS
  <1>2. id >= base + 1 + pid /\ id \in Int
    BY <1>1 DEF Least
  <1>3. Least(id, MOSQ_MQTT_ID_MAX_LENGTH) <= MOSQ_MQTT_ID_MAX_LENGTH
        /\ Least(id, MOSQ_MQTT_ID_MAX_LENGTH) >= base + 1 + pid
    <2>. HIDE DEF id
    <2>. QED BY <1>2 DEF Least, MOSQ_MQTT_ID_MAX_LENGTH
  <1>. QED BY <1>3 DEF client_id_generate

-----------------------------------------------------------------------------
(* Proxy URLs.  The provers have no induction over data: a set with 0 and   *)
(* the successors of its members has all numbers up to a given one.          *)
LEMMA Upto ==
    ASSUME NEW n \in Nat, NEW T, 0 \in T, \A i \in 1 .. n : i - 1 \in T => i \in T
    PROVE  \A i \in 0 .. n : i \in T
  <1>. DEFINE Less == {pair \in Nat \X Nat : pair[1] < pair[2]}
              Missing == {i \in 0 .. n : i \notin T}
  <1>1. IsWellFoundedOn(Less, Nat)
    BY NatLessThanWellFounded DEF OpToRel
  <1>. SUFFICES ASSUME Missing # {} PROVE FALSE
    OBVIOUS
  <1>. HIDE DEF Less
  <1>2. PICK least \in Missing : \A i \in Missing : ~(<<i, least>> \in Less)
    BY <1>1, WFMin, Missing \in SUBSET Nat
  <1>3. least \in 1 .. n
    BY <1>2
  <1>4. least - 1 \in Missing /\ <<least - 1, least>> \in Less
    BY <1>2, <1>3 DEF Less
  <1>. QED BY <1>2, <1>4

(* What Encode makes of the first i characters.                             *)
Codes(u, s) == u = [i \in 0 .. Len(s) |-> IF i = 0 THEN <<>> ELSE u[i - 1] \o Encoded(s[i])]

LEMMA EncodeIs ==
    ASSUME NEW s \in Seq(Characters)
    PROVE  \E u : Codes(u, s) /\ Encode(s) = u[Len(s)]
  <1>. DEFINE Until(u, n) == u = [i \in 0 .. n |-> IF i = 0 THEN <<>> ELSE u[i - 1] \o Encoded(s[i])]
              T == {n \in 0 .. Len(s) : \E u : Until(u, n)}
  <1>1. Len(s) \in Nat
    OBVIOUS
  <1>2. 0 \in T
    <2>. DEFINE none == [i \in 0 .. 0 |-> <<>>]
    <2>1. \A i \in 0 .. 0 : i = 0
      OBVIOUS
    <2>2. none = [i \in 0 .. 0 |-> IF i = 0 THEN <<>> ELSE none[i - 1] \o Encoded(s[i])]
      BY <2>1, Zenon
    <2>3. 0 \in 0 .. Len(s)
      BY <1>1
    <2>. HIDE DEF none
    <2>. QED BY <2>2, <2>3, Zenon
  <1>3. ASSUME NEW n \in 1 .. Len(s), n - 1 \in T PROVE n \in T
    <2>1. PICK u : Until(u, n - 1)
      BY <1>3, Zenon
    <2>. DEFINE w == [i \in 0 .. n |-> IF i = n THEN u[n - 1] \o Encoded(s[n]) ELSE u[i]]
                next(i) == IF i = 0 THEN <<>> ELSE w[i - 1] \o Encoded(s[i])
    <2>2. n \in Nat /\ n # 0 /\ n \in 0 .. n /\ n \in 0 .. Len(s)
      BY <1>1
    <2>3. \A i \in 0 .. n - 1 : u[i] = IF i = 0 THEN <<>> ELSE u[i - 1] \o Encoded(s[i])
      BY <2>1, Zenon
    <2>4. ASSUME NEW i \in 0 .. n PROVE w[i] = next(i)
      <3>1. CASE i = 0
        <4>1. i \in 0 .. n - 1 /\ i # n
          BY <2>2, <3>1
        <4>. QED BY <2>3, <3>1, <4>1, Zenon
      <3>2. CASE i # 0
        <4>1. i - 1 \in 0 .. n /\ i - 1 # n /\ (i # n => i \in 0 .. n - 1)
          BY <2>2, <3>2
        <4>2. w[i - 1] = u[i - 1]
          BY <4>1, Zenon
        <4>3. w[i] = u[i - 1] \o Encoded(s[i])
          <5>1. CASE i = n
            BY <5>1, Zenon
          <5>2. CASE i # n
            BY <2>3, <3>2, <4>1, <5>2, Zenon
          <5>. QED BY <5>1, <5>2
        <4>. QED BY <3>2, <4>2, <4>3, Zenon
      <3>. QED BY <3>1, <3>2
    <2>5. w = [i \in 0 .. n |-> w[i]]
      OBVIOUS
    <2>. HIDE DEF w
    <2>6. Until(w, n)
      BY <2>4, <2>5, Zenon
    <2>. QED BY <2>2, <2>6, Zenon
  <1>4. Len(s) \in T
    <2>1. \A n \in 1 .. Len(s) : n - 1 \in T => n \in T
      BY <1>3
    <2>. HIDE DEF T
    <2>2. \A n \in 0 .. Len(s) : n \in T
      BY <1>1, <1>2, <2>1, Upto
    <2>. QED BY <1>1, <2>2
  <1>5. \E u : Codes(u, s)
    BY <1>4, Zenon DEF Codes
  <1>. QED BY <1>5, Zenon DEF Encode, Codes

-----------------------------------------------------------------------------
(* What urldecode makes of the first i characters, and of all.              *)
Decodes(r, s) == r = [i \in 0 .. Len(s) |-> IF i = 0 THEN Undecoded ELSE decode_char(r[i - 1], s[i])]
Gives(s, t) == \E r : Decodes(r, s) /\ t = r[Len(s)]

LEMMA NothingGives == Gives(<<>>, Undecoded)
  <1>. DEFINE none == [i \in 0 .. 0 |-> Undecoded]
  <1>1. \A i \in 0 .. 0 : i = 0
    OBVIOUS
  <1>2. none = [i \in 0 .. 0 |-> IF i = 0 THEN Undecoded ELSE decode_char(none[i - 1], <<>>[i])]
    BY <1>1, Zenon
  <1>3. Len(<<>>) = 0 /\ 0 \in 0 .. 0
    OBVIOUS
  <1>4. none[0] = Undecoded
    BY <1>3, Zenon
  <1>. HIDE DEF none
  <1>. QED BY <1>2, <1>3, <1>4, Zenon DEF Gives, Decodes

LEMMA OneMoreGives ==
    ASSUME NEW s \in Seq(Characters), NEW c \in Characters, NEW t, Gives(s, t)
    PROVE  Gives(Append(s, c), decode_char(t, c))
  <1>1. PICK r : Decodes(r, s) /\ t = r[Len(s)]
    BY DEF Gives
  <1>2. PICK n \in Nat : n = Len(s)
    OBVIOUS
  <1>3. PICK z : z = Append(s, c)
    OBVIOUS
  <1>4. Len(z) = n + 1 /\ z[n + 1] = c /\ \A i \in 1 .. n : z[i] = s[i]
    BY <1>2, <1>3
  <1>. DEFINE w == [i \in 0 .. n + 1 |-> IF i = n + 1 THEN decode_char(t, c) ELSE r[i]]
              next(i) == IF i = 0 THEN Undecoded ELSE decode_char(w[i - 1], z[i])
  <1>5. \A i \in 0 .. n : r[i] = IF i = 0 THEN Undecoded ELSE decode_char(r[i - 1], s[i])
    BY <1>1, <1>2, Zenon DEF Decodes
  <1>6. ASSUME NEW i \in 0 .. n + 1 PROVE w[i] = next(i)
    <2>1. CASE i = 0
      <3>1. i \in 0 .. n /\ i # n + 1
        BY <2>1
      <3>. QED BY <1>5, <2>1, <3>1, Zenon
    <2>2. CASE i # 0
      <3>1. i - 1 \in 0 .. n + 1 /\ i - 1 # n + 1 /\ (i # n + 1 => i \in 0 .. n /\ i \in 1 .. n)
            /\ (i = n + 1 => i - 1 = n)
        BY <2>2
      <3>2. w[i - 1] = r[i - 1]
        BY <3>1, Zenon
      <3>3. CASE i = n + 1
        <4>1. r[i - 1] = t /\ z[i] = c
          BY <1>1, <1>2, <1>4, <3>1, <3>3, Zenon
        <4>. QED BY <2>2, <3>2, <3>3, <4>1, Zenon
      <3>4. CASE i # n + 1
        <4>1. z[i] = s[i]
          BY <1>4, <3>1, <3>4, Zenon
        <4>. QED BY <1>5, <2>2, <3>1, <3>2, <3>4, <4>1, Zenon
      <3>. QED BY <3>3, <3>4
    <2>. QED BY <2>1, <2>2
  <1>7. w = [i \in 0 .. n + 1 |-> w[i]] /\ w[n + 1] = decode_char(t, c)
    OBVIOUS
  <1>. HIDE DEF w
  <1>8. w = [i \in 0 .. n + 1 |-> next(i)]
    BY <1>6, <1>7, Zenon
  <1>9. Decodes(w, z) /\ decode_char(t, c) = w[Len(z)]
    BY <1>4, <1>7, <1>8, Zenon DEF Decodes
  <1>. QED BY <1>3, <1>9, Zenon DEF Gives

LEMMA urldecodeIs ==
    ASSUME NEW s \in Seq(Characters), NEW t, Gives(s, t)
    PROVE  urldecode(s) = [text |-> t.text, refused |-> t.bad \/ t.escape # <<>>]
  <1>1. PICK r : Decodes(r, s) /\ t = r[Len(s)]
    BY DEF Gives
  <1>2. ASSUME NEW q, Decodes(q, s) PROVE q = r
    <2>. DEFINE T == {i \in 0 .. Len(s) : q[i] = r[i]}
    <2>1. /\ \A i \in 0 .. Len(s) : r[i] = IF i = 0 THEN Undecoded ELSE decode_char(r[i - 1], s[i])
          /\ \A i \in 0 .. Len(s) : q[i] = IF i = 0 THEN Undecoded ELSE decode_char(q[i - 1], s[i])
      BY <1>1, <1>2, Zenon DEF Decodes
    <2>2. 0 \in 0 .. Len(s) /\ Len(s) \in Nat /\ \A i \in 1 .. Len(s) : i \in 0 .. Len(s) /\ i # 0
      OBVIOUS
    <2>3. 0 \in T
      BY <2>1, <2>2, Zenon
    <2>4. ASSUME NEW i \in 1 .. Len(s), i - 1 \in T PROVE i \in T
      <3>1. q[i - 1] = r[i - 1]
        BY <2>4, Zenon
      <3>2. q[i] = decode_char(q[i - 1], s[i]) /\ r[i] = decode_char(r[i - 1], s[i])
        BY <2>1, <2>2, Zenon
      <3>. QED BY <2>2, <3>1, <3>2, Zenon
    <2>5. \A i \in 1 .. Len(s) : i - 1 \in T => i \in T
      BY <2>4, Zenon
    <2>. HIDE DEF T
    <2>6. \A i \in 0 .. Len(s) : i \in T
      BY <2>2, <2>3, <2>5, Upto
    <2>. USE DEF T
    <2>7. \A i \in 0 .. Len(s) : q[i] = r[i]
      BY <2>6, Zenon
    <2>8. r = [i \in 0 .. Len(s) |-> r[i]] /\ q = [i \in 0 .. Len(s) |-> q[i]]
      BY <1>1, <1>2 DEF Decodes
    <2>. QED BY <2>7, <2>8, Zenon
  <1>3. (CHOOSE q : q = [i \in 0 .. Len(s) |-> IF i = 0 THEN Undecoded ELSE decode_char(q[i - 1], s[i])]) = r
    BY <1>1, <1>2, Zenon DEF Decodes
  <1>. QED BY <1>1, <1>3, Zenon DEF urldecode


-----------------------------------------------------------------------------
(* What Encode makes of a name has neither of the separators, and is the    *)
(* name again when it is decoded.                                           *)
Token == Characters \ {":", "@"}
Plain(y) == [text |-> y, escape |-> <<>>, bad |-> FALSE]
Within(y, e) == [text |-> y, escape |-> e, bad |-> FALSE]

LEMMA EncodedIs ==
    ASSUME MosquittoAssumption, NEW c \in Characters \ {"@"}
    PROVE  Encoded(c) \in Seq(Token) /\ Encoded(c) # <<>>
  <1>1. {"%", "2", "3", "5", "a"} \subseteq Token
    BY DEF MosquittoAssumption, Token
  <1>2. CASE c = ":"
    <2>1. Encoded(c) = <<"%", "3", "a">>
      BY <1>2 DEF Encoded
    <2>. QED BY <1>1, <2>1
  <1>3. CASE c = "%"
    <2>1. Encoded(c) = <<"%", "2", "5">>
      BY <1>3 DEF Encoded
    <2>. QED BY <1>1, <2>1
  <1>4. CASE c \notin {":", "%"}
    <2>1. Encoded(c) = <<c>> /\ c \in Token
      BY <1>4 DEF Encoded, Token
    <2>. QED BY <2>1
  <1>. QED BY <1>2, <1>3, <1>4

LEMMA AppendIs ==
    ASSUME NEW C, NEW s \in Seq(C), NEW t \in Seq(C), NEW c \in C,
           Len(t) = Len(s) + 1, t[Len(s) + 1] = c, \A i \in 1 .. Len(s) : t[i] = s[i]
    PROVE  Append(s, c) = t
  OBVIOUS

LEMMA Appends ==
    ASSUME NEW C, NEW a \in C, NEW b \in C, NEW c \in C
    PROVE  /\ Append(<<>>, a) = <<a>> /\ Append(<<a>>, b) = <<a, b>> /\ Append(<<a, b>>, c) = <<a, b, c>>
           /\ Len(<<>>) = 0 /\ Len(<<a>>) = 1 /\ Len(<<a, b>>) = 2 /\ <<a>> # <<>> /\ <<a, b>> # <<>>
  <1>1. <<>> \in Seq(C) /\ <<a>> \in Seq(C) /\ <<a, b>> \in Seq(C) /\ <<a, b, c>> \in Seq(C)
    OBVIOUS
  <1>2. Len(<<>>) = 0 /\ Len(<<a>>) = 1 /\ Len(<<a, b>>) = 2 /\ <<a>> # <<>> /\ <<a, b>> # <<>>
    OBVIOUS
  <1>3. PICK s1 \in Seq(C) : s1 = <<a>>
    BY <1>1, Zenon
  <1>4. PICK s2 \in Seq(C) : s2 = <<a, b>>
    BY <1>1, Zenon
  <1>5. PICK s3 \in Seq(C) : s3 = <<a, b, c>>
    BY <1>1, Zenon
  <1>6. /\ Len(s1) = 1 /\ s1[1] = a /\ Len(s2) = 2 /\ s2[1] = a /\ s2[2] = b
        /\ Len(s3) = 3 /\ s3[1] = a /\ s3[2] = b /\ s3[3] = c
    BY <1>3, <1>4, <1>5
  <1>7. Append(<<>>, a) = s1
    <2>1. PICK s0 \in Seq(C) : s0 = <<>> /\ Len(s0) = 0
      BY <1>1, <1>2, Zenon
    <2>2. Append(s0, a) = s1
      BY <1>6, <2>1
    <2>. QED BY <2>1, <2>2, Zenon
  <1>8. Append(s1, b) = s2
    <2>1. Len(s2) = Len(s1) + 1 /\ s2[Len(s1) + 1] = b /\ \A i \in 1 .. Len(s1) : s2[i] = s1[i]
      BY <1>6
    <2>. QED BY <2>1, AppendIs
  <1>9. Append(s2, c) = s3
    <2>1. Len(s3) = Len(s2) + 1 /\ s3[Len(s2) + 1] = c /\ \A i \in 1 .. Len(s2) : s3[i] = s2[i]
      BY <1>6
    <2>. QED BY <2>1, AppendIs
  <1>. QED BY <1>8, <1>9, <1>2, <1>3, <1>4, <1>5, <1>7, Zenon

LEMMA DecodesOther ==
    ASSUME NEW y, NEW c, c # "%"
    PROVE  decode_char(Plain(y), c) = Plain(Append(y, c))
  BY DEF decode_char, Plain

LEMMA DecodesBegun ==
    ASSUME NEW y, NEW e, NEW c, e # <<>> \/ c = "%", Len(e) < 2
    PROVE  decode_char(Within(y, e), c) = Within(y, Append(e, c))
  BY DEF decode_char, Within

LEMMA DecodesLast ==
    ASSUME NEW y, NEW e, NEW c, e # <<>>, ~(Len(e) < 2), Append(e, c) \in Escapes
    PROVE  decode_char(Within(y, e), c) = Plain(Append(y, IF c = "5" THEN "%" ELSE ":"))
  BY DEF decode_char, Within, Plain

LEMMA DecodesWithin ==
    ASSUME MosquittoAssumption, NEW y \in Seq(Characters), NEW c \in Characters
    PROVE  /\ decode_char(Plain(y), "%") = Within(y, <<"%">>)
           /\ decode_char(Within(y, <<"%">>), c) = Within(y, <<"%", c>>)
  <1>0. "%" \in Characters
    BY DEF MosquittoAssumption
  <1>1. 0 < 2 /\ 1 < 2 /\ Plain(y) = Within(y, <<>>)
    BY DEF Plain, Within
  <1>2. decode_char(Within(y, <<>>), "%") = Within(y, Append(<<>>, "%"))
    BY <1>1, DecodesBegun, Len(<<>>) = 0
  <1>3. decode_char(Within(y, <<"%">>), c) = Within(y, Append(<<"%">>, c))
    <2>1. Len(<<"%">>) < 2 /\ <<"%">> # <<>>
      BY <1>0, <1>1, Appends, Zenon
    <2>. QED BY <2>1, DecodesBegun, Zenon
  <1>. QED BY <1>0, <1>1, <1>2, <1>3, Appends, Zenon

LEMMA DecodesEscape ==
    ASSUME MosquittoAssumption, NEW y \in Seq(Characters)
    PROVE  /\ decode_char(Within(y, <<"%", "3">>), "a") = Plain(Append(y, ":"))
           /\ decode_char(Within(y, <<"%", "2">>), "5") = Plain(Append(y, "%"))
  <1>1. {"%", "2", "3", "5", "a"} \subseteq Characters
    BY DEF MosquittoAssumption
  <1>2. <<"%", "3", "a">> \in Escapes /\ <<"%", "2", "5">> \in Escapes
    BY Zenon DEF Escapes
  <1>3. "a" # "5" /\ ~(2 < 2) /\ \A z : Plain(z) = Within(z, <<>>)
    BY DEF Plain, Within
  <1>4. ASSUME NEW d \in Characters, NEW c \in Characters, <<"%", d, c>> \in Escapes
        PROVE  decode_char(Within(y, <<"%", d>>), c) = Plain(Append(y, IF c = "5" THEN "%" ELSE ":"))
    <2>1. Append(<<"%", d>>, c) = <<"%", d, c>> /\ Len(<<"%", d>>) = 2 /\ <<"%", d>> # <<>>
      BY <1>1, Appends
    <2>2. ~(Len(<<"%", d>>) < 2) /\ Append(<<"%", d>>, c) \in Escapes
      BY <1>3, <1>4, <2>1, Zenon
    <2>. QED BY <1>3, <2>1, <2>2, DecodesLast, Zenon
  <1>5. "a" \in Characters /\ "3" \in Characters /\ "2" \in Characters /\ "5" \in Characters
    BY <1>1
  <1>6. decode_char(Within(y, <<"%", "3">>), "a") = Plain(Append(y, IF "a" = "5" THEN "%" ELSE ":"))
    BY <1>2, <1>4, <1>5, Zenon
  <1>7. decode_char(Within(y, <<"%", "2">>), "5") = Plain(Append(y, IF "5" = "5" THEN "%" ELSE ":"))
    BY <1>2, <1>4, <1>5, Zenon
  <1>. QED BY <1>3, <1>6, <1>7, Zenon

LEMMA DecodesEncoded ==
    ASSUME MosquittoAssumption, NEW s \in Seq(Characters), NEW y \in Seq(Characters), NEW c \in Characters,
           Gives(s, Plain(y))
    PROVE  Gives(s \o Encoded(c), Plain(Append(y, c)))
  <1>1. {"%", "2", "3", "5", "a"} \subseteq Characters
    BY DEF MosquittoAssumption
  <1>2. ASSUME NEW d \in Characters, NEW e \in Characters,
               decode_char(Within(y, <<"%", d>>), e) = Plain(Append(y, c))
        PROVE  Gives(s \o <<"%", d, e>>, Plain(Append(y, c)))
    <2>1. PICK s1 \in Seq(Characters) : s1 = Append(s, "%")
      <3>1. Append(s, "%") \in Seq(Characters)
        BY <1>1
      <3>. QED BY <3>1
    <2>2. PICK s2 \in Seq(Characters) : s2 = Append(s1, d)
      <3>1. Append(s1, d) \in Seq(Characters)
        OBVIOUS
      <3>. QED BY <3>1
    <2>3. Gives(s1, Within(y, <<"%">>))
      BY <1>1, <2>1, OneMoreGives, DecodesWithin, Zenon
    <2>4. Gives(s2, Within(y, <<"%", d>>))
      BY <2>2, <2>3, OneMoreGives, DecodesWithin, Zenon
    <2>5. Gives(Append(s2, e), Plain(Append(y, c)))
      BY <1>2, <2>4, OneMoreGives, Zenon
    <2>6. Append(s2, e) = s \o <<"%", d, e>>
      BY <1>1, <2>1, <2>2
    <2>. QED BY <2>5, <2>6, Zenon
  <1>3. CASE c = ":"
    <2>1. Encoded(c) = <<"%", "3", "a">>
      BY <1>3 DEF Encoded
    <2>. QED BY <1>1, <1>2, <1>3, <2>1, DecodesEscape, Zenon
  <1>4. CASE c = "%"
    <2>1. Encoded(c) = <<"%", "2", "5">>
      BY <1>4 DEF Encoded
    <2>. QED BY <1>1, <1>2, <1>4, <2>1, DecodesEscape, Zenon
  <1>5. CASE c \notin {":", "%"}
    <2>1. Encoded(c) = <<c>>
      BY <1>5 DEF Encoded
    <2>2. s \o <<c>> = Append(s, c)
      OBVIOUS
    <2>3. Gives(Append(s, c), Plain(Append(y, c)))
      BY <1>5, OneMoreGives, DecodesOther, Zenon
    <2>. QED BY <2>1, <2>2, <2>3, Zenon
  <1>. QED BY <1>3, <1>4, <1>5

LEMMA EncodeDecodes ==
    ASSUME MosquittoAssumption, NEW x \in Seq(Characters \ {"@"}) \ {Null}
    PROVE  /\ Encode(x) \in Seq(Token) \ {Null}
           /\ urldecode(Encode(x)) = [text |-> x, refused |-> FALSE]
  <1>1. x \in Seq(Characters) /\ Len(x) \in Nat \ {0}
    BY DEF Null
  <1>2. PICK u : Codes(u, x) /\ Encode(x) = u[Len(x)]
    BY <1>1, EncodeIs
  <1>. DEFINE T == {i \in 0 .. Len(x) : /\ u[i] \in Seq(Token) /\ (i # 0 => u[i] # <<>>)
                                        /\ Gives(u[i], Plain(SubSeq(x, 1, i)))}
  <1>3. \A i \in 0 .. Len(x) : u[i] = IF i = 0 THEN <<>> ELSE u[i - 1] \o Encoded(x[i])
    BY <1>2, Zenon DEF Codes
  <1>4. 0 \in T
    <2>1. 0 \in 0 .. Len(x) /\ SubSeq(x, 1, 0) = <<>> /\ <<>> \in Seq(Token)
      BY <1>1, SubSeqEmpty
    <2>2. u[0] = <<>> /\ Plain(<<>>) = Undecoded
      BY <1>3, <2>1 DEF Plain, Undecoded
    <2>. QED BY <2>1, <2>2, NothingGives, Zenon
  <1>5. ASSUME NEW i \in 1 .. Len(x), i - 1 \in T PROVE i \in T
    <2>1. i \in 0 .. Len(x) /\ i # 0 /\ i - 1 \in 0 .. Len(x) /\ x[i] \in Characters \ {"@"}
      BY <1>1
    <2>2. PICK y \in Seq(Characters) : y = SubSeq(x, 1, i - 1)
      <3>1. \A j \in 1 .. i - 1 : x[j] \in Characters
        BY <1>1
      <3>2. SubSeq(x, 1, i - 1) \in Seq(Characters)
        BY <3>1, SubSeqProperties
      <3>. QED BY <3>2
    <2>3. SubSeq(x, 1, i) = Append(y, x[i])
      <3>1. SubSeq(x, 1, i) = y \o <<x[i]>>
        BY <1>1, <2>2, SubSeqRecursiveSecond
      <3>. QED BY <2>1, <2>2, <3>1
    <2>4. PICK s \in Seq(Token) : s = u[i - 1]
      BY <1>5, Zenon
    <2>5. Gives(s, Plain(y))
      BY <1>5, <2>2, <2>4, Zenon
    <2>6. u[i] = s \o Encoded(x[i])
      BY <1>3, <2>1, <2>4, Zenon
    <2>7. s \in Seq(Characters)
      BY <2>4 DEF Token
    <2>8. Gives(u[i], Plain(SubSeq(x, 1, i)))
      BY <2>1, <2>2, <2>3, <2>5, <2>6, <2>7, DecodesEncoded, Zenon
    <2>9. u[i] \in Seq(Token) /\ u[i] # <<>>
      <3>1. PICK e \in Seq(Token) : e = Encoded(x[i]) /\ e # <<>>
        BY <2>1, EncodedIs
      <3>2. s \o e \in Seq(Token) /\ s \o e # <<>>
        BY <3>1
      <3>. QED BY <2>6, <3>1, <3>2, Zenon
    <2>. QED BY <2>1, <2>8, <2>9, Zenon
  <1>6. Len(x) \in T
    <2>1. \A i \in 1 .. Len(x) : i - 1 \in T => i \in T
      BY <1>5, Zenon
    <2>. HIDE DEF T
    <2>2. \A i \in 0 .. Len(x) : i \in T
      BY <1>1, <1>4, <2>1, Upto
    <2>. QED BY <1>1, <2>2
  <1>7. SubSeq(x, 1, Len(x)) = x
    BY <1>1, SubSeqFull
  <1>8. Encode(x) \in Seq(Token) /\ Encode(x) # <<>> /\ Gives(Encode(x), Plain(x))
    BY <1>1, <1>2, <1>6, <1>7, Zenon
  <1>9. urldecode(Encode(x)) = [text |-> x, refused |-> FALSE]
    <2>1. Encode(x) \in Seq(Characters)
      BY <1>8 DEF Token
    <2>2. urldecode(Encode(x)) = [text |-> Plain(x).text, refused |-> Plain(x).bad \/ Plain(x).escape # <<>>]
      BY <1>8, <2>1, urldecodeIs, Zenon
    <2>. QED BY <2>2 DEF Plain
  <1>. QED BY <1>8, <1>9, Zenon DEF Null

(* A part that is not there is decoded to nothing.                          *)
LEMMA NullDecodes == urldecode(Null) = [text |-> Null, refused |-> FALSE]
  <1>1. urldecode(<<>>) = [text |-> Undecoded.text, refused |-> Undecoded.bad \/ Undecoded.escape # <<>>]
    <2>1. <<>> \in Seq(Characters)
      OBVIOUS
    <2>. QED BY <2>1, NothingGives, urldecodeIs, Zenon
  <1>. QED BY <1>1 DEF Null, Undecoded


-----------------------------------------------------------------------------
(* The loop of parse_socks_url: only separators change what it has seen, and *)
(* a URL has at most three.                                                 *)
Seen(start, auth, first, username, password, host) ==
    [start |-> start, auth |-> auth, bad |-> FALSE, first |-> first,
     username |-> username, password |-> password, host |-> host]

LEMMA OtherSkipped ==
    ASSUME NEW str, NEW p, NEW i, str[i] \notin {":", "@"} PROVE socks_char(str, p, i) = p
  BY DEF socks_char

(* The separators are at a, b and c, or there is none from n + 1 on.         *)
Separated(str, n, a, b, c, s1, s2, s3) ==
    /\ n = Len(str) /\ a \in 1 .. n + 1 /\ b \in a .. n + 1 /\ c \in b .. n + 1
    /\ \A i \in 1 .. n : i \notin {a, b, c} => str[i] \notin {":", "@"}
    /\ a <= n => a < b /\ socks_char(str, NothingSeen, a) = s1
    /\ b <= n => b < c /\ socks_char(str, s1, b) = s2
    /\ c <= n => socks_char(str, s2, c) = s3

LEMMA SocksCharsAre ==
    ASSUME NEW str \in Seq(Characters), NEW n, NEW a, NEW b, NEW c, NEW s1, NEW s2, NEW s3,
           Separated(str, n, a, b, c, s1, s2, s3)
    PROVE  socks_chars(str) = IF n < a THEN NothingSeen ELSE IF n < b THEN s1 ELSE IF n < c THEN s2 ELSE s3
  <1>. /\ n \in Nat /\ n = Len(str) /\ a \in 1 .. n + 1 /\ b \in a .. n + 1 /\ c \in b .. n + 1
       /\ \A i \in 1 .. n : i \notin {a, b, c} => str[i] \notin {":", "@"}
       /\ a <= n => a < b /\ socks_char(str, NothingSeen, a) = s1
       /\ b <= n => b < c /\ socks_char(str, s1, b) = s2
       /\ c <= n => socks_char(str, s2, c) = s3
    BY DEF Separated
  <1>. DEFINE r == [i \in 0 .. n |-> IF i < a THEN NothingSeen
                                     ELSE IF i < b THEN s1 ELSE IF i < c THEN s2 ELSE s3]
              next(q, i) == IF i = 0 THEN NothingSeen ELSE socks_char(str, q[i - 1], i)
  <1>0. r = [i \in 0 .. n |-> r[i]]
    OBVIOUS
  <1>1. ASSUME NEW i \in 0 .. n
        PROVE  r[i] = IF i < a THEN NothingSeen ELSE IF i < b THEN s1 ELSE IF i < c THEN s2 ELSE s3
    OBVIOUS
  <1>. HIDE DEF r
  <1>2. ASSUME NEW i \in 0 .. n PROVE r[i] = next(r, i)
    <2>1. CASE i = 0
      BY <1>1, <2>1
    <2>2. CASE i # 0
      <3>0. i - 1 \in 0 .. n /\ i \in 1 .. n
        BY <2>2
      <3>1. CASE i = a
        <4>1. r[i - 1] = NothingSeen /\ r[i] = s1
          BY <1>1, <3>0, <3>1
        <4>. QED BY <2>2, <3>0, <3>1, <4>1
      <3>2. CASE i = b /\ i # a
        <4>1. r[i - 1] = s1 /\ r[i] = s2
          BY <1>1, <3>0, <3>2
        <4>. QED BY <2>2, <3>0, <3>2, <4>1
      <3>3. CASE i = c /\ i # b
        <4>1. r[i - 1] = s2 /\ r[i] = s3
          BY <1>1, <3>0, <3>3
        <4>. QED BY <2>2, <3>0, <3>3, <4>1
      <3>4. CASE i \notin {a, b, c}
        <4>1. r[i - 1] = r[i]
          BY <1>1, <3>0, <3>4
        <4>2. socks_char(str, r[i - 1], i) = r[i - 1]
          BY <3>0, <3>4, OtherSkipped
        <4>. QED BY <2>2, <4>1, <4>2
      <3>. QED BY <3>1, <3>2, <3>3, <3>4
    <2>. QED BY <2>1, <2>2
  <1>3. r = [i \in 0 .. Len(str) |-> IF i = 0 THEN NothingSeen ELSE socks_char(str, r[i - 1], i)]
    BY <1>0, <1>2, Zenon
  <1>4. ASSUME NEW q, q = [i \in 0 .. Len(str) |-> IF i = 0 THEN NothingSeen ELSE socks_char(str, q[i - 1], i)]
        PROVE  q = r
    <2>. DEFINE T == {i \in 0 .. n : q[i] = r[i]}
    <2>1. 0 \in 0 .. n /\ \A i \in 1 .. n : i \in 0 .. n /\ i # 0
      OBVIOUS
    <2>2. \A i \in 0 .. n : q[i] = next(q, i)
      BY <1>4, Zenon
    <2>3. 0 \in T
      BY <1>2, <2>1, <2>2, Zenon
    <2>4. ASSUME NEW i \in 1 .. n, i - 1 \in T PROVE i \in T
      <3>1. q[i - 1] = r[i - 1]
        BY <2>4, Zenon
      <3>. QED BY <1>2, <2>1, <2>2, <3>1, Zenon
    <2>5. \A i \in 1 .. n : i - 1 \in T => i \in T
      BY <2>4, Zenon
    <2>. HIDE DEF T
    <2>6. \A i \in 0 .. n : i \in T
      BY <2>1, <2>3, <2>5, Upto
    <2>. USE DEF T
    <2>7. \A i \in 0 .. n : q[i] = r[i]
      BY <2>6, Zenon
    <2>8. q = [i \in 0 .. n |-> q[i]]
      BY <1>4
    <2>. QED BY <1>0, <2>7, <2>8, Zenon
  <1>5. socks_chars(str) = r[n]
    BY <1>3, <1>4, Zenon DEF socks_chars
  <1>. QED BY <1>1, <1>5

LEMMA Refused ==
    ASSUME NEW A, NEW B, NEW C, NEW D, NEW E, ~A, ~B, ~D, ~E, NEW x, NEW y
    PROVE  (IF A \/ B \/ ~C \/ D \/ E THEN x ELSE y) = (IF C THEN y ELSE x)
  BY Zenon


-----------------------------------------------------------------------------
(* A URL is made of up to four tokens, with a separator between two.        *)
Tokens == Seq(Token) \ {Null}

LEMMA TokensAre ==
    ASSUME NEW w \in Tokens
    PROVE  /\ w \in Seq(Characters) /\ Len(w) \in Nat \ {0} /\ SubSeq(w, 1, Len(w)) = w
           /\ \A i \in 1 .. Len(w) : w[i] \notin {":", "@"}
  <1>1. w \in Seq(Token) /\ w # <<>>
    BY DEF Tokens, Null
  <1>2. w \in Seq(Characters) /\ Len(w) \in Nat \ {0}
    BY <1>1 DEF Token
  <1>3. \A i \in 1 .. Len(w) : w[i] \in Token
    BY <1>1
  <1>. QED BY <1>2, <1>3, SubSeqFull DEF Token

(* str is s, the separator c at a, and the token w.                         *)
Joined(str, s, a, c, w) ==
    /\ str \in Seq(Characters) /\ a \in Nat /\ a < Len(str) /\ str[a] = c
    /\ \A i \in 1 .. a - 1 : str[i] = s[i]
    /\ \A i \in a + 1 .. Len(str) : str[i] \notin {":", "@"}
    /\ SubSeq(str, a + 1, Len(str)) = w
    /\ \A i, j \in 1 .. a - 1 : SubSeq(str, i, j) = SubSeq(s, i, j)

Two(str, w1, a, c1, w2) ==
    /\ str \in Seq(Characters) /\ 1 < a /\ a < Len(str) /\ str[a] = c1
    /\ \A i \in 1 .. Len(str) : i # a => str[i] \notin {":", "@"}
    /\ SubSeq(str, 1, a - 1) = w1 /\ SubSeq(str, a + 1, Len(str)) = w2

Three(str, w1, a, c1, w2, b, c2, w3) ==
    /\ str \in Seq(Characters) /\ 1 < a /\ a + 1 < b /\ b < Len(str) /\ str[a] = c1 /\ str[b] = c2
    /\ \A i \in 1 .. Len(str) : i \notin {a, b} => str[i] \notin {":", "@"}
    /\ SubSeq(str, 1, a - 1) = w1 /\ SubSeq(str, a + 1, b - 1) = w2
    /\ SubSeq(str, b + 1, Len(str)) = w3

Four(str, w1, a, c1, w2, b, c2, w3, c, c3, w4) ==
    /\ str \in Seq(Characters) /\ 1 < a /\ a + 1 < b /\ b + 1 < c /\ c < Len(str)
    /\ str[a] = c1 /\ str[b] = c2 /\ str[c] = c3
    /\ \A i \in 1 .. Len(str) : i \notin {a, b, c} => str[i] \notin {":", "@"}
    /\ SubSeq(str, 1, a - 1) = w1 /\ SubSeq(str, a + 1, b - 1) = w2
    /\ SubSeq(str, b + 1, c - 1) = w3 /\ SubSeq(str, c + 1, Len(str)) = w4

LEMMA OneMoreToken ==
    ASSUME NEW s \in Seq(Characters), NEW c \in Characters, NEW w \in Tokens,
           NEW str, str = (s \o <<c>>) \o w, NEW a, a = Len(s) + 1
    PROVE  Joined(str, s, a, c, w)
  <1>1. w \in Seq(Characters) /\ Len(w) \in Nat \ {0}
    BY TokensAre
  <1>2. PICK t \in Seq(Characters) : t = s \o <<c>>
    <2>1. s \o <<c>> \in Seq(Characters)
      OBVIOUS
    <2>. QED BY <2>1
  <1>3. a \in Nat /\ Len(t) = a /\ t[a] = c /\ \A i \in 1 .. a - 1 : t[i] = s[i]
    BY <1>2
  <1>4. /\ str = t \o w /\ str \in Seq(Characters) /\ Len(str) = a + Len(w)
        /\ \A i \in 1 .. a : str[i] = t[i]
        /\ \A i \in a + 1 .. Len(str) : str[i] = w[i - a]
    BY <1>1, <1>2, <1>3
  <1>5. \A i \in a + 1 .. Len(str) : str[i] \notin {":", "@"}
    <2>1. \A i \in a + 1 .. Len(str) : i - a \in 1 .. Len(w)
      BY <1>1, <1>3, <1>4
    <2>. QED BY <1>4, <2>1, TokensAre, Zenon
  <1>6. SubSeq(str, a + 1, Len(str)) = w
    <2>1. a + 1 \in Len(t) + 1 .. Len(t) + Len(w) /\ Len(str) \in Len(t) + 1 .. Len(t) + Len(w)
          /\ a + 1 - Len(t) = 1 /\ Len(str) - Len(t) = Len(w)
      BY <1>1, <1>3, <1>4
    <2>2. SubSeq(t \o w, a + 1, Len(str)) = SubSeq(w, a + 1 - Len(t), Len(str) - Len(t))
      BY <1>1, <2>1, SubSeqOfConcat2
    <2>. QED BY <1>4, <2>1, <2>2, TokensAre, Zenon
  <1>7. ASSUME NEW i \in 1 .. a - 1, NEW j \in 1 .. a - 1
        PROVE  SubSeq(str, i, j) = SubSeq(s, i, j)
    <2>1. i \in 1 .. Len(s) /\ j \in 1 .. Len(s) /\ i \in 1 .. Len(t) /\ j \in 1 .. Len(t)
      BY <1>3
    <2>2. SubSeq(t \o w, i, j) = SubSeq(t, i, j)
      BY <1>1, <2>1, SubSeqOfConcat1
    <2>3. <<c>> \in Seq(Characters)
      OBVIOUS
    <2>4. SubSeq(s \o <<c>>, i, j) = SubSeq(s, i, j)
      BY <2>1, <2>3, SubSeqOfConcat1
    <2>. QED BY <1>2, <1>4, <2>2, <2>4, Zenon
  <1>. QED BY <1>1, <1>3, <1>4, <1>5, <1>6, <1>7 DEF Joined

LEMMA TwoTokens ==
    ASSUME NEW w1 \in Tokens, NEW c1 \in Characters, NEW w2 \in Tokens,
           NEW str, str = (w1 \o <<c1>>) \o w2
    PROVE  \E a \in Nat : Two(str, w1, a, c1, w2)
  <1>1. w1 \in Seq(Characters) /\ Len(w1) \in Nat \ {0}
    BY TokensAre
  <1>2. PICK a \in Nat : a = Len(w1) + 1
    BY <1>1
  <1>3. /\ str \in Seq(Characters) /\ a < Len(str) /\ str[a] = c1
        /\ \A i \in 1 .. a - 1 : str[i] = w1[i]
        /\ \A i \in a + 1 .. Len(str) : str[i] \notin {":", "@"}
        /\ SubSeq(str, a + 1, Len(str)) = w2
        /\ \A i, j \in 1 .. a - 1 : SubSeq(str, i, j) = SubSeq(w1, i, j)
    <2>1. Joined(str, w1, a, c1, w2)
      BY <1>1, <1>2, OneMoreToken, Zenon
    <2>. QED BY <2>1, Zenon DEF Joined
  <1>4. 1 < a /\ 1 \in 1 .. a - 1 /\ a - 1 \in 1 .. a - 1 /\ a - 1 = Len(w1)
    BY <1>1, <1>2
  <1>5. SubSeq(str, 1, a - 1) = w1
    BY <1>3, <1>4, TokensAre, Zenon
  <1>6. \A i \in 1 .. a - 1 : str[i] \notin {":", "@"}
    BY <1>3, <1>4, TokensAre, Zenon
  <1>7. \A i \in 1 .. Len(str) : i # a => i \in 1 .. a - 1 \/ i \in a + 1 .. Len(str)
    BY <1>3
  <1>8. \A i \in 1 .. Len(str) : i # a => str[i] \notin {":", "@"}
    BY <1>3, <1>6, <1>7, Zenon
  <1>. QED BY <1>3, <1>4, <1>5, <1>8, Zenon DEF Two

LEMMA ThreeTokens ==
    ASSUME NEW w1 \in Tokens, NEW c1 \in Characters, NEW w2 \in Tokens, NEW c2 \in Characters,
           NEW w3 \in Tokens, NEW str, str = (((w1 \o <<c1>>) \o w2) \o <<c2>>) \o w3
    PROVE  \E a, b \in Nat : Three(str, w1, a, c1, w2, b, c2, w3)
  <1>1. PICK s : s = (w1 \o <<c1>>) \o w2
    OBVIOUS
  <1>2. PICK a \in Nat : Two(s, w1, a, c1, w2)
    BY <1>1, TwoTokens
  <1>3. PICK b \in Nat : b = Len(s) + 1
    BY <1>2 DEF Two
  <1>4. /\ str \in Seq(Characters) /\ b < Len(str) /\ str[b] = c2
        /\ \A i \in 1 .. b - 1 : str[i] = s[i]
        /\ \A i \in b + 1 .. Len(str) : str[i] \notin {":", "@"}
        /\ SubSeq(str, b + 1, Len(str)) = w3
        /\ \A i, j \in 1 .. b - 1 : SubSeq(str, i, j) = SubSeq(s, i, j)
    <2>1. Joined(str, s, b, c2, w3)
      BY <1>1, <1>2, <1>3, OneMoreToken DEF Two
    <2>. QED BY <2>1 DEF Joined
  <1>5. /\ a + 1 < b /\ b - 1 = Len(s) /\ a \in 1 .. b - 1
        /\ 1 \in 1 .. b - 1 /\ a - 1 \in 1 .. b - 1 /\ a + 1 \in 1 .. b - 1 /\ b - 1 \in 1 .. b - 1
    BY <1>2, <1>3 DEF Two
  <1>6. SubSeq(str, 1, a - 1) = w1 /\ SubSeq(str, a + 1, b - 1) = w2 /\ str[a] = c1
    <2>1. SubSeq(s, 1, a - 1) = w1 /\ SubSeq(s, a + 1, b - 1) = w2 /\ s[a] = c1
      BY <1>2, <1>5, Zenon DEF Two
    <2>. QED BY <1>4, <1>5, <2>1, Zenon
  <1>7. \A i \in 1 .. b - 1 : i # a => str[i] \notin {":", "@"}
    BY <1>2, <1>4, <1>5, Zenon DEF Two
  <1>8. \A i \in 1 .. Len(str) : i \notin {a, b} => i # a /\ (i \in 1 .. b - 1 \/ i \in b + 1 .. Len(str))
    BY <1>4
  <1>9. \A i \in 1 .. Len(str) : i \notin {a, b} => str[i] \notin {":", "@"}
    BY <1>4, <1>7, <1>8, Zenon
  <1>. QED BY <1>2, <1>4, <1>5, <1>6, <1>9, Zenon DEF Two, Three

LEMMA FourTokens ==
    ASSUME NEW w1 \in Tokens, NEW c1 \in Characters, NEW w2 \in Tokens, NEW c2 \in Characters,
           NEW w3 \in Tokens, NEW c3 \in Characters, NEW w4 \in Tokens,
           NEW str, str = (((((w1 \o <<c1>>) \o w2) \o <<c2>>) \o w3) \o <<c3>>) \o w4
    PROVE  \E a, b, c \in Nat : Four(str, w1, a, c1, w2, b, c2, w3, c, c3, w4)
  <1>1. PICK s : s = (((w1 \o <<c1>>) \o w2) \o <<c2>>) \o w3
    OBVIOUS
  <1>2. PICK a, b \in Nat : Three(s, w1, a, c1, w2, b, c2, w3)
    BY <1>1, ThreeTokens
  <1>3. PICK c \in Nat : c = Len(s) + 1
    BY <1>2 DEF Three
  <1>4. /\ str \in Seq(Characters) /\ c < Len(str) /\ str[c] = c3
        /\ \A i \in 1 .. c - 1 : str[i] = s[i]
        /\ \A i \in c + 1 .. Len(str) : str[i] \notin {":", "@"}
        /\ SubSeq(str, c + 1, Len(str)) = w4
        /\ \A i, j \in 1 .. c - 1 : SubSeq(str, i, j) = SubSeq(s, i, j)
    <2>1. Joined(str, s, c, c3, w4)
      BY <1>1, <1>2, <1>3, OneMoreToken DEF Three
    <2>. QED BY <2>1 DEF Joined
  <1>5. /\ b + 1 < c /\ c - 1 = Len(s) /\ a \in 1 .. c - 1 /\ b \in 1 .. c - 1
        /\ 1 \in 1 .. c - 1 /\ a - 1 \in 1 .. c - 1 /\ a + 1 \in 1 .. c - 1
        /\ b - 1 \in 1 .. c - 1 /\ b + 1 \in 1 .. c - 1 /\ c - 1 \in 1 .. c - 1
    BY <1>2, <1>3 DEF Three
  <1>6. /\ SubSeq(str, 1, a - 1) = w1 /\ SubSeq(str, a + 1, b - 1) = w2 /\ SubSeq(str, b + 1, c - 1) = w3
        /\ str[a] = c1 /\ str[b] = c2
    <2>1. /\ SubSeq(s, 1, a - 1) = w1 /\ SubSeq(s, a + 1, b - 1) = w2 /\ SubSeq(s, b + 1, c - 1) = w3
          /\ s[a] = c1 /\ s[b] = c2
      BY <1>2, <1>5, Zenon DEF Three
    <2>2. SubSeq(str, 1, a - 1) = w1
      BY <1>4, <1>5, <2>1, Zenon
    <2>3. SubSeq(str, a + 1, b - 1) = w2
      BY <1>4, <1>5, <2>1, Zenon
    <2>4. SubSeq(str, b + 1, c - 1) = w3
      BY <1>4, <1>5, <2>1, Zenon
    <2>. QED BY <1>4, <1>5, <2>1, <2>2, <2>3, <2>4, Zenon
  <1>7. \A i \in 1 .. c - 1 : i \notin {a, b} => str[i] \notin {":", "@"}
    BY <1>2, <1>4, <1>5, Zenon DEF Three
  <1>8. \A i \in 1 .. Len(str) : i \notin {a, b, c} =>
            i \notin {a, b} /\ (i \in 1 .. c - 1 \/ i \in c + 1 .. Len(str))
    BY <1>4
  <1>9. \A i \in 1 .. Len(str) : i \notin {a, b, c} => str[i] \notin {":", "@"}
    BY <1>4, <1>7, <1>8, Zenon
  <1>10. 1 < a /\ a + 1 < b
    BY <1>2, Zenon DEF Three
  <1>11. Four(str, w1, a, c1, w2, b, c2, w3, c, c3, w4)
    BY <1>4, <1>5, <1>6, <1>9, <1>10, Zenon DEF Four
  <1>. QED BY <1>11


-----------------------------------------------------------------------------
(* What parse_socks_url makes of what the loop has seen: the host is what   *)
(* remains, or comes before the port that remains.                          *)
Parsed(username, password, host, number) ==
    IF number \in PortNumbers
    THEN [username |-> username, password |-> password, host |-> host, port |-> number]
    ELSE NoProxy

SocksSeen(str, start, auth, first, username, password, host) ==
    socks_chars(str) = Seen(start, auth, first, username, password, host)

DecodesTo(code, name) == urldecode(code) = [text |-> name, refused |-> FALSE]

SocksParsed(rest, first, host, username, password) ==
    LET h == IF host # Null THEN host ELSE IF rest # Null /\ first # Null THEN first ELSE rest
        port == IF host # Null \/ first # Null THEN rest ELSE Null
        number == IF port = Null THEN 1080 ELSE atoi(port)
    IN  IF h # Null THEN Parsed(username, password, h, number) ELSE NoProxy

LEMMA SeenParsed ==
    ASSUME NEW str, NEW start, NEW auth, NEW first, NEW username, NEW password, NEW host,
           SocksSeen(str, start, auth, first, username, password, host),
           NEW user, DecodesTo(username, user), NEW pass, DecodesTo(password, pass)
    PROVE  parse_socks_url(str) = SocksParsed(SubSeq(str, start, Len(str)), first, host, user, pass)
  <1>1. PICK p : p = socks_chars(str)
    BY Zenon
  <1>2. /\ p.start = start /\ ~p.bad /\ p.first = first /\ p.username = username
        /\ p.password = password /\ p.host = host
    BY <1>1 DEF Seen, SocksSeen
  <1>3. PICK u : u = urldecode(username)
    BY Zenon
  <1>4. PICK w : w = urldecode(password)
    BY Zenon
  <1>5. u.text = user /\ ~u.refused /\ w.text = pass /\ ~w.refused
    BY <1>3, <1>4 DEF DecodesTo
  <1>6. PICK rest : rest = SubSeq(str, start, Len(str))
    BY Zenon
  <1>7. PICK h : h = IF host # Null THEN host ELSE IF rest # Null /\ first # Null THEN first ELSE rest
    BY Zenon
  <1>8. PICK port : port = IF host # Null \/ first # Null THEN rest ELSE Null
    BY Zenon
  <1>9. PICK number : number = IF port = Null THEN 1080 ELSE atoi(port)
    OBVIOUS
  <1>10. PICK y : y = [username |-> u.text, password |-> w.text, host |-> h, port |-> number]
    OBVIOUS
  <1>11. parse_socks_url(str) = IF p.bad \/ h = Null \/ ~(number \in PortNumbers) \/ u.refused \/ w.refused
                                THEN NoProxy ELSE y
    BY <1>1, <1>2, <1>3, <1>4, <1>6, <1>7, <1>8, <1>9, <1>10 DEF parse_socks_url
  <1>12. parse_socks_url(str) = IF h # Null THEN IF number \in PortNumbers THEN y ELSE NoProxy ELSE NoProxy
    <2>1. CASE h = Null
      BY <1>11, <2>1, Zenon
    <2>2. CASE ~(h = Null)
      <3>1. ~p.bad /\ ~u.refused /\ ~w.refused
        BY <1>2, <1>5, Zenon
      <3>. QED BY <1>11, <2>2, <3>1, Refused, Zenon
    <2>. QED BY <2>1, <2>2, Zenon
  <1>13. y = [username |-> user, password |-> pass, host |-> h, port |-> number]
    BY <1>5, <1>10, Zenon
  <1>14. (IF number \in PortNumbers THEN y ELSE NoProxy) = Parsed(user, pass, h, number)
    BY <1>13, Zenon DEF Parsed
  <1>15. SocksParsed(rest, first, host, user, pass) = IF h # Null THEN Parsed(user, pass, h, number) ELSE NoProxy
    BY <1>7, <1>8, <1>9 DEF SocksParsed
  <1>. QED BY <1>6, <1>12, <1>14, <1>15, Zenon

LEMMA HostOnly ==
    ASSUME NEW h, h # Null, NEW username, NEW password
    PROVE  SocksParsed(h, Null, Null, username, password) = Parsed(username, password, h, 1080)
  BY Zenon DEF SocksParsed

LEMMA HostThenPort ==
    ASSUME NEW h, h # Null, NEW port, port # Null, NEW username, NEW password
    PROVE  /\ SocksParsed(port, Null, h, username, password) = Parsed(username, password, h, atoi(port))
           /\ SocksParsed(port, h, Null, username, password) = Parsed(username, password, h, atoi(port))
  BY Zenon DEF SocksParsed

LEMMA NullDecodesTo == DecodesTo(Null, Null)
  BY NullDecodes, Zenon DEF DecodesTo

LEMMA NothingIsSeen == NothingSeen = Seen(1, FALSE, Null, Null, Null, Null)
  BY DEF NothingSeen, Seen

(* The six forms.                                                           *)
LEMMA HostForm ==
    ASSUME NEW h \in Tokens
    PROVE  parse_socks_url(h) = Parsed(Null, Null, h, 1080)
  <1>1. h \in Seq(Characters) /\ h # Null /\ SubSeq(h, 1, Len(h)) = h
    BY TokensAre DEF Tokens
  <1>2. PICK n \in Nat : n = Len(h)
    BY TokensAre
  <1>3. n + 1 \in 1 .. n + 1 /\ n + 1 \in n + 1 .. n + 1 /\ ~(n + 1 <= n) /\ n < n + 1
    BY <1>2
  <1>4. socks_chars(h) = NothingSeen
    <2>1. \A i \in 1 .. n : i \notin {n + 1, n + 1, n + 1} => h[i] \notin {":", "@"}
      BY <1>2, TokensAre
    <2>2. Separated(h, n, n + 1, n + 1, n + 1, NothingSeen, NothingSeen, NothingSeen)
      BY <1>1, <1>2, <1>3, <2>1 DEF Separated
    <2>. QED BY <1>1, <1>3, <2>2, SocksCharsAre, Zenon
  <1>5. SocksSeen(h, 1, FALSE, Null, Null, Null, Null)
    BY <1>4, NothingIsSeen, Zenon DEF SocksSeen
  <1>6. parse_socks_url(h) = SocksParsed(SubSeq(h, 1, Len(h)), Null, Null, Null, Null)
    BY <1>5, NullDecodesTo, SeenParsed, Zenon
  <1>7. parse_socks_url(h) = SocksParsed(h, Null, Null, Null, Null)
    BY <1>1, <1>6, Zenon
  <1>8. SocksParsed(h, Null, Null, Null, Null) = Parsed(Null, Null, h, 1080)
    BY <1>1, HostOnly
  <1>. QED BY <1>7, <1>8, Zenon

LEMMA HostPortForm ==
    ASSUME NEW h \in Tokens, NEW q \in Tokens, NEW str, NEW a \in Nat, Two(str, h, a, ":", q)
    PROVE  parse_socks_url(str) = Parsed(Null, Null, h, atoi(q))
  <1>1. h # Null /\ q # Null
    BY DEF Tokens
  <1>2. PICK n \in Nat : n = Len(str)
    BY DEF Two
  <1>. DEFINE s1 == Seen(a + 1, FALSE, h, Null, Null, Null)
  <1>3. socks_char(str, NothingSeen, a) = s1
    <2>1. a # 1 /\ 1 \in Nat /\ str[a] = ":" /\ SubSeq(str, 1, a - 1) = h
      BY DEF Two
    <2>2. socks_char(str, Seen(1, FALSE, Null, Null, Null, Null), a)
              = Seen(a + 1, FALSE, SubSeq(str, 1, a - 1), Null, Null, Null)
      BY <2>1 DEF socks_char, Seen
    <2>. QED BY <2>1, <2>2, NothingIsSeen, Zenon
  <1>. HIDE DEF s1
  <1>4. socks_chars(str) = s1
    <2>1. /\ a \in 1 .. n + 1 /\ n + 1 \in a .. n + 1 /\ n + 1 \in n + 1 .. n + 1 /\ a < n + 1
          /\ ~(n < a) /\ n < n + 1 /\ ~(n + 1 <= n) /\ str \in Seq(Characters)
          /\ \A i \in 1 .. n : i \notin {a, n + 1, n + 1} => str[i] \notin {":", "@"}
      BY <1>2 DEF Two
    <2>2. Separated(str, n, a, n + 1, n + 1, s1, s1, s1)
      BY <1>2, <1>3, <2>1 DEF Separated
    <2>. QED BY <2>1, <2>2, SocksCharsAre, Zenon
  <1>5. SubSeq(str, a + 1, Len(str)) = q
    BY DEF Two
  <1>6. SocksSeen(str, a + 1, FALSE, h, Null, Null, Null)
    BY <1>4, Zenon DEF SocksSeen, s1
  <1>7. parse_socks_url(str) = SocksParsed(SubSeq(str, a + 1, Len(str)), h, Null, Null, Null)
    BY <1>6, NullDecodesTo, SeenParsed, Zenon
  <1>. QED BY <1>1, <1>5, <1>7, HostThenPort, Zenon

LEMMA UserHostForm ==
    ASSUME NEW w \in Tokens, NEW h \in Tokens, NEW str, NEW a \in Nat, Two(str, w, a, "@", h),
           NEW user, DecodesTo(w, user)
    PROVE  parse_socks_url(str) = Parsed(user, Null, h, 1080)
  <1>1. w # Null /\ h # Null
    BY DEF Tokens
  <1>2. PICK n \in Nat : n = Len(str)
    BY DEF Two
  <1>. DEFINE s1 == Seen(a + 1, TRUE, Null, w, Null, Null)
  <1>3. socks_char(str, NothingSeen, a) = s1
    <2>1. a # 1 /\ 1 \in Nat /\ str[a] = "@" /\ SubSeq(str, 1, a - 1) = w
      BY DEF Two
    <2>2. socks_char(str, Seen(1, FALSE, Null, Null, Null, Null), a)
              = Seen(a + 1, TRUE, Null, SubSeq(str, 1, a - 1), Null, Null)
      BY <2>1 DEF socks_char, Seen
    <2>. QED BY <2>1, <2>2, NothingIsSeen, Zenon
  <1>. HIDE DEF s1
  <1>4. socks_chars(str) = s1
    <2>1. /\ a \in 1 .. n + 1 /\ n + 1 \in a .. n + 1 /\ n + 1 \in n + 1 .. n + 1 /\ a < n + 1
          /\ ~(n < a) /\ n < n + 1 /\ ~(n + 1 <= n) /\ str \in Seq(Characters)
          /\ \A i \in 1 .. n : i \notin {a, n + 1, n + 1} => str[i] \notin {":", "@"}
      BY <1>2 DEF Two
    <2>2. Separated(str, n, a, n + 1, n + 1, s1, s1, s1)
      BY <1>2, <1>3, <2>1 DEF Separated
    <2>. QED BY <2>1, <2>2, SocksCharsAre, Zenon
  <1>5. SubSeq(str, a + 1, Len(str)) = h
    BY DEF Two
  <1>6. SocksSeen(str, a + 1, TRUE, Null, w, Null, Null)
    BY <1>4, Zenon DEF SocksSeen, s1
  <1>7. parse_socks_url(str) = SocksParsed(SubSeq(str, a + 1, Len(str)), Null, Null, user, Null)
    BY <1>6, NullDecodesTo, SeenParsed, Zenon
  <1>8. parse_socks_url(str) = SocksParsed(h, Null, Null, user, Null)
    BY <1>5, <1>7, Zenon
  <1>9. SocksParsed(h, Null, Null, user, Null) = Parsed(user, Null, h, 1080)
    BY <1>1, HostOnly
  <1>. QED BY <1>8, <1>9, Zenon


LEMMA UserHostPortForm ==
    ASSUME NEW w \in Tokens, NEW h \in Tokens, NEW q \in Tokens, NEW str, NEW a \in Nat, NEW b \in Nat,
           Three(str, w, a, "@", h, b, ":", q), NEW user, DecodesTo(w, user)
    PROVE  parse_socks_url(str) = Parsed(user, Null, h, atoi(q))
  <1>1. h # Null /\ q # Null
    BY DEF Tokens
  <1>2. PICK n \in Nat : n = Len(str)
    BY DEF Three
  <1>. DEFINE s1 == Seen(a + 1, TRUE, Null, w, Null, Null)
              s2 == Seen(b + 1, TRUE, Null, w, Null, h)
  <1>3. socks_char(str, NothingSeen, a) = s1
    <2>1. a # 1 /\ 1 \in Nat /\ str[a] = "@" /\ SubSeq(str, 1, a - 1) = w
      BY DEF Three
    <2>2. socks_char(str, Seen(1, FALSE, Null, Null, Null, Null), a)
              = Seen(a + 1, TRUE, Null, SubSeq(str, 1, a - 1), Null, Null)
      BY <2>1 DEF socks_char, Seen
    <2>. QED BY <2>1, <2>2, NothingIsSeen, Zenon
  <1>4. socks_char(str, s1, b) = s2
    <2>1. b # a + 1 /\ a + 1 \in Nat /\ str[b] = ":" /\ SubSeq(str, a + 1, b - 1) = h
      BY DEF Three
    <2>2. socks_char(str, Seen(a + 1, TRUE, Null, w, Null, Null), b)
              = Seen(b + 1, TRUE, Null, w, Null, SubSeq(str, a + 1, b - 1))
      BY <2>1 DEF socks_char, Seen
    <2>. QED BY <2>1, <2>2, Zenon
  <1>. HIDE DEF s1, s2
  <1>5. socks_chars(str) = s2
    <2>1. /\ a \in 1 .. n + 1 /\ b \in a .. n + 1 /\ n + 1 \in b .. n + 1 /\ a < b /\ b < n + 1
          /\ ~(n < a) /\ ~(n < b) /\ n < n + 1 /\ ~(n + 1 <= n) /\ str \in Seq(Characters)
          /\ \A i \in 1 .. n : i \notin {a, b, n + 1} => str[i] \notin {":", "@"}
      BY <1>2 DEF Three
    <2>2. Separated(str, n, a, b, n + 1, s1, s2, s2)
      BY <1>2, <1>3, <1>4, <2>1 DEF Separated
    <2>. QED BY <2>1, <2>2, SocksCharsAre, Zenon
  <1>6. SubSeq(str, b + 1, Len(str)) = q
    BY DEF Three
  <1>7. SocksSeen(str, b + 1, TRUE, Null, w, Null, h)
    BY <1>5, Zenon DEF SocksSeen, s2
  <1>8. parse_socks_url(str) = SocksParsed(SubSeq(str, b + 1, Len(str)), Null, h, user, Null)
    BY <1>7, NullDecodesTo, SeenParsed, Zenon
  <1>. QED BY <1>1, <1>6, <1>8, HostThenPort, Zenon

LEMMA UserPasswordHostForm ==
    ASSUME NEW w \in Tokens, NEW p \in Tokens, NEW h \in Tokens, NEW str, NEW a \in Nat, NEW b \in Nat,
           Three(str, w, a, ":", p, b, "@", h), NEW user, DecodesTo(w, user), NEW pass, DecodesTo(p, pass)
    PROVE  parse_socks_url(str) = Parsed(user, pass, h, 1080)
  <1>1. w # Null /\ h # Null
    BY DEF Tokens
  <1>2. PICK n \in Nat : n = Len(str)
    BY DEF Three
  <1>. DEFINE s1 == Seen(a + 1, FALSE, w, Null, Null, Null)
              s2 == Seen(b + 1, TRUE, Null, w, p, Null)
  <1>3. socks_char(str, NothingSeen, a) = s1
    <2>1. a # 1 /\ 1 \in Nat /\ str[a] = ":" /\ SubSeq(str, 1, a - 1) = w
      BY DEF Three
    <2>2. socks_char(str, Seen(1, FALSE, Null, Null, Null, Null), a)
              = Seen(a + 1, FALSE, SubSeq(str, 1, a - 1), Null, Null, Null)
      BY <2>1 DEF socks_char, Seen
    <2>. QED BY <2>1, <2>2, NothingIsSeen, Zenon
  <1>4. socks_char(str, s1, b) = s2
    <2>1. b # a + 1 /\ a + 1 \in Nat /\ str[b] = "@" /\ SubSeq(str, a + 1, b - 1) = p
      BY DEF Three
    <2>2. socks_char(str, Seen(a + 1, FALSE, w, Null, Null, Null), b)
              = Seen(b + 1, TRUE, Null, w, SubSeq(str, a + 1, b - 1), Null)
      BY <1>1, <2>1 DEF socks_char, Seen
    <2>. QED BY <2>1, <2>2, Zenon
  <1>. HIDE DEF s1, s2
  <1>5. socks_chars(str) = s2
    <2>1. /\ a \in 1 .. n + 1 /\ b \in a .. n + 1 /\ n + 1 \in b .. n + 1 /\ a < b /\ b < n + 1
          /\ ~(n < a) /\ ~(n < b) /\ n < n + 1 /\ ~(n + 1 <= n) /\ str \in Seq(Characters)
          /\ \A i \in 1 .. n : i \notin {a, b, n + 1} => str[i] \notin {":", "@"}
      BY <1>2 DEF Three
    <2>2. Separated(str, n, a, b, n + 1, s1, s2, s2)
      BY <1>2, <1>3, <1>4, <2>1 DEF Separated
    <2>. QED BY <2>1, <2>2, SocksCharsAre, Zenon
  <1>6. SubSeq(str, b + 1, Len(str)) = h
    BY DEF Three
  <1>7. SocksSeen(str, b + 1, TRUE, Null, w, p, Null)
    BY <1>5, Zenon DEF SocksSeen, s2
  <1>8. parse_socks_url(str) = SocksParsed(SubSeq(str, b + 1, Len(str)), Null, Null, user, pass)
    BY <1>7, SeenParsed, Zenon
  <1>9. parse_socks_url(str) = SocksParsed(h, Null, Null, user, pass)
    BY <1>6, <1>8, Zenon
  <1>10. SocksParsed(h, Null, Null, user, pass) = Parsed(user, pass, h, 1080)
    BY <1>1, HostOnly
  <1>. QED BY <1>9, <1>10, Zenon

LEMMA UserPasswordHostPortForm ==
    ASSUME NEW w \in Tokens, NEW p \in Tokens, NEW h \in Tokens, NEW q \in Tokens, NEW str,
           NEW a \in Nat, NEW b \in Nat, NEW c \in Nat, Four(str, w, a, ":", p, b, "@", h, c, ":", q),
           NEW user, DecodesTo(w, user), NEW pass, DecodesTo(p, pass)
    PROVE  parse_socks_url(str) = Parsed(user, pass, h, atoi(q))
  <1>1. w # Null /\ h # Null /\ q # Null
    BY DEF Tokens
  <1>2. PICK n \in Nat : n = Len(str)
    BY DEF Four
  <1>. DEFINE s1 == Seen(a + 1, FALSE, w, Null, Null, Null)
              s2 == Seen(b + 1, TRUE, Null, w, p, Null)
              s3 == Seen(c + 1, TRUE, Null, w, p, h)
  <1>3. socks_char(str, NothingSeen, a) = s1
    <2>1. a # 1 /\ 1 \in Nat /\ str[a] = ":" /\ SubSeq(str, 1, a - 1) = w
      BY DEF Four
    <2>2. socks_char(str, Seen(1, FALSE, Null, Null, Null, Null), a)
              = Seen(a + 1, FALSE, SubSeq(str, 1, a - 1), Null, Null, Null)
      BY <2>1 DEF socks_char, Seen
    <2>. QED BY <2>1, <2>2, NothingIsSeen, Zenon
  <1>4. socks_char(str, s1, b) = s2
    <2>1. b # a + 1 /\ a + 1 \in Nat /\ str[b] = "@" /\ SubSeq(str, a + 1, b - 1) = p
      BY DEF Four
    <2>2. socks_char(str, Seen(a + 1, FALSE, w, Null, Null, Null), b)
              = Seen(b + 1, TRUE, Null, w, SubSeq(str, a + 1, b - 1), Null)
      BY <1>1, <2>1 DEF socks_char, Seen
    <2>. QED BY <2>1, <2>2, Zenon
  <1>5. socks_char(str, s2, c) = s3
    <2>1. c # b + 1 /\ b + 1 \in Nat /\ str[c] = ":" /\ SubSeq(str, b + 1, c - 1) = h
      BY DEF Four
    <2>2. socks_char(str, Seen(b + 1, TRUE, Null, w, p, Null), c)
              = Seen(c + 1, TRUE, Null, w, p, SubSeq(str, b + 1, c - 1))
      BY <2>1 DEF socks_char, Seen
    <2>. QED BY <2>1, <2>2, Zenon
  <1>. HIDE DEF s1, s2, s3
  <1>6. socks_chars(str) = s3
    <2>1. /\ a \in 1 .. n + 1 /\ b \in a .. n + 1 /\ c \in b .. n + 1 /\ a < b /\ b < c
          /\ ~(n < a) /\ ~(n < b) /\ ~(n < c) /\ str \in Seq(Characters)
          /\ \A i \in 1 .. n : i \notin {a, b, c} => str[i] \notin {":", "@"}
      BY <1>2 DEF Four
    <2>2. Separated(str, n, a, b, c, s1, s2, s3)
      BY <1>2, <1>3, <1>4, <1>5, <2>1 DEF Separated
    <2>. QED BY <2>1, <2>2, SocksCharsAre, Zenon
  <1>7. SubSeq(str, c + 1, Len(str)) = q
    BY DEF Four
  <1>8. SocksSeen(str, c + 1, TRUE, Null, w, p, h)
    BY <1>6, Zenon DEF SocksSeen, s3
  <1>9. parse_socks_url(str) = SocksParsed(SubSeq(str, c + 1, Len(str)), Null, h, user, pass)
    BY <1>8, SeenParsed, Zenon
  <1>. QED BY <1>1, <1>7, <1>9, HostThenPort, Zenon


-----------------------------------------------------------------------------
(* Url puts the parts of a form together.                                   *)
LEMMA PartsAre ==
    ASSUME MosquittoAssumption, NEW f \in ProxyForms
    PROVE  /\ f.host \in Tokens
           /\ f.port # Null => f.port \in Tokens
           /\ f.username # Null => Encode(f.username) \in Tokens /\ DecodesTo(Encode(f.username), f.username)
           /\ f.password # Null => Encode(f.password) \in Tokens /\ DecodesTo(Encode(f.password), f.password)
           /\ f.username = Null => f.password = Null
  <1>1. /\ f.host \in Hosts /\ (f.port # Null => f.port \in Ports)
        /\ (f.username # Null => f.username \in Usernames) /\ (f.password # Null => f.password \in Passwords)
        /\ (f.username = Null => f.password = Null)
    BY DEF ProxyForms
  <1>2. Hosts \cup Ports \subseteq Tokens
    BY DEF MosquittoAssumption, Tokens, Token
  <1>3. ASSUME NEW x \in Usernames \cup Passwords
        PROVE  Encode(x) \in Tokens /\ DecodesTo(Encode(x), x)
    <2>1. x \in Seq(Characters \ {"@"}) \ {Null}
      BY DEF MosquittoAssumption
    <2>. QED BY <2>1, EncodeDecodes, Zenon DEF Tokens, DecodesTo
  <1>. QED BY <1>1, <1>2, <1>3

(* The part before the host, and that behind it.                            *)
Userinfo(f) == IF f.username = Null THEN <<>>
               ELSE Encode(f.username) \o (IF f.password = Null THEN <<>> ELSE <<":">> \o Encode(f.password))
                    \o <<"@">>

BeforePort(f) ==
    IF f.username = Null THEN f.host
    ELSE IF f.password = Null THEN (Encode(f.username) \o <<"@">>) \o f.host
    ELSE (((Encode(f.username) \o <<":">>) \o Encode(f.password)) \o <<"@">>) \o f.host

LEMMA BeforePortIs ==
    ASSUME MosquittoAssumption, NEW f \in ProxyForms
    PROVE  Userinfo(f) \o f.host = BeforePort(f)
  <1>1. CASE f.username = Null
    <2>1. PICK h \in Tokens : h = f.host
      BY PartsAre, Zenon
    <2>2. <<>> \o h = h
      BY TokensAre
    <2>. QED BY <1>1, <2>1, <2>2, Zenon DEF Userinfo, BeforePort
  <1>2. CASE f.username # Null /\ f.password = Null
    <2>1. Encode(f.username) \o <<>> = Encode(f.username)
      BY <1>2, PartsAre, TokensAre, ConcatEmptySeq
    <2>. QED BY <1>2, <2>1, Zenon DEF Userinfo, BeforePort
  <1>3. CASE f.username # Null /\ f.password # Null
    <2>1. PICK w \in Tokens : w = Encode(f.username)
      BY <1>3, PartsAre, Zenon
    <2>2. PICK p \in Tokens : p = Encode(f.password)
      BY <1>3, PartsAre, Zenon
    <2>3. PICK s \in Seq(Characters) : s = <<":">>
      BY <<":">> \in Seq(Characters) DEF MosquittoAssumption
    <2>4. w \o (s \o p) = (w \o s) \o p
      BY TokensAre, ConcatAssociative
    <2>. QED BY <1>3, <2>1, <2>2, <2>3, <2>4, Zenon DEF Userinfo, BeforePort
  <1>. QED BY <1>1, <1>2, <1>3, Zenon

LEMMA Back ==
    ASSUME MosquittoAssumption, NEW f \in ProxyForms, NEW s \in Seq(Characters)
    PROVE  s \o (IF f.port = Null THEN <<>> ELSE <<":">> \o f.port)
           = IF f.port = Null THEN s ELSE (s \o <<":">>) \o f.port
  <1>1. CASE f.port = Null
    <2>1. s \o <<>> = s
      OBVIOUS
    <2>. QED BY <1>1, <2>1, Zenon
  <1>2. CASE f.port # Null
    <2>1. PICK q \in Tokens : q = f.port
      BY <1>2, PartsAre, Zenon
    <2>2. PICK t \in Seq(Characters) : t = <<":">>
      BY <<":">> \in Seq(Characters) DEF MosquittoAssumption
    <2>3. s \o (t \o q) = (s \o t) \o q
      BY TokensAre, ConcatAssociative
    <2>. QED BY <1>2, <2>1, <2>2, <2>3, Zenon
  <1>. QED BY <1>1, <1>2, Zenon

Number(port) == IF port = Null THEN 1080 ELSE atoi(port)

LEMMA UrlParsed ==
    ASSUME MosquittoAssumption, NEW f \in ProxyForms
    PROVE  parse_socks_url(Url(f)) = Parsed(f.username, f.password, f.host, Number(f.port))
  <1>0. ":" \in Characters /\ "@" \in Characters
    BY DEF MosquittoAssumption
  <1>1. PICK h \in Tokens : h = f.host
    BY PartsAre, Zenon
  <1>10. (f.port = Null => Number(f.port) = 1080) /\ (f.port # Null => Number(f.port) = atoi(f.port))
    BY Zenon DEF Number
  <1>2. PICK front : front = BeforePort(f)
    OBVIOUS
  <1>3. Url(f) = front \o (IF f.port = Null THEN <<>> ELSE <<":">> \o f.port)
    BY <1>2, BeforePortIs, Zenon DEF Url, Userinfo
  <1>4. front \in Seq(Characters) => Url(f) = IF f.port = Null THEN front ELSE (front \o <<":">>) \o f.port
    BY <1>3, Back, Zenon
  <1>5. CASE f.username = Null
    <2>1. front = h /\ f.password = Null /\ front \in Seq(Characters)
      BY <1>1, <1>2, <1>5, PartsAre, TokensAre, Zenon DEF BeforePort
    <2>2. CASE f.port = Null
      <3>1. Url(f) = h
        BY <1>4, <2>1, <2>2, Zenon
      <3>2. parse_socks_url(h) = Parsed(Null, Null, h, 1080)
        BY HostForm
      <3>. QED BY <1>1, <1>5, <1>10, <2>1, <2>2, <3>1, <3>2
    <2>3. CASE f.port # Null
      <3>1. PICK q \in Tokens : q = f.port
        BY <2>3, PartsAre, Zenon
      <3>2. PICK str : str = (h \o <<":">>) \o q
        OBVIOUS
      <3>3. Url(f) = str
        BY <1>4, <2>1, <2>3, <3>1, <3>2, Zenon
      <3>4. PICK a \in Nat : Two(str, h, a, ":", q)
        BY <1>0, <3>2, TwoTokens
      <3>5. parse_socks_url(str) = Parsed(Null, Null, h, atoi(q))
        BY <3>4, HostPortForm
      <3>. QED BY <1>10, <1>1, <1>5, <2>1, <2>3, <3>1, <3>3, <3>5
    <2>. QED BY <2>2, <2>3
  <1>6. CASE f.username # Null /\ f.password = Null
    <2>1. PICK w \in Tokens : w = Encode(f.username) /\ DecodesTo(w, f.username)
      BY <1>6, PartsAre, Zenon
    <2>2. front = (w \o <<"@">>) \o h
      BY <1>1, <1>2, <1>6, <2>1, Zenon DEF BeforePort
    <2>3. PICK a \in Nat : Two(front, w, a, "@", h)
      BY <1>0, <2>2, TwoTokens
    <2>4. front \in Seq(Characters)
      BY <2>3, Zenon DEF Two
    <2>5. CASE f.port = Null
      <3>1. Url(f) = front
        BY <1>4, <2>4, <2>5, Zenon
      <3>2. parse_socks_url(front) = Parsed(f.username, Null, h, 1080)
        BY <2>1, <2>3, UserHostForm
      <3>. QED BY <1>10, <1>1, <1>6, <2>5, <3>1, <3>2
    <2>6. CASE f.port # Null
      <3>1. PICK q \in Tokens : q = f.port
        BY <2>6, PartsAre, Zenon
      <3>2. PICK str : str = (front \o <<":">>) \o q
        OBVIOUS
      <3>3. Url(f) = str
        BY <1>4, <2>4, <2>6, <3>1, <3>2, Zenon
      <3>4. str = (((w \o <<"@">>) \o h) \o <<":">>) \o q
        BY <2>2, <3>2, Zenon
      <3>5. PICK b, c \in Nat : Three(str, w, b, "@", h, c, ":", q)
        BY <1>0, <3>4, ThreeTokens
      <3>6. parse_socks_url(str) = Parsed(f.username, Null, h, atoi(q))
        BY <2>1, <3>5, UserHostPortForm
      <3>. QED BY <1>10, <1>1, <1>6, <2>6, <3>1, <3>3, <3>6
    <2>. QED BY <2>5, <2>6
  <1>7. CASE f.username # Null /\ f.password # Null
    <2>1. PICK w \in Tokens : w = Encode(f.username) /\ DecodesTo(w, f.username)
      BY <1>7, PartsAre, Zenon
    <2>2. PICK p \in Tokens : p = Encode(f.password) /\ DecodesTo(p, f.password)
      BY <1>7, PartsAre, Zenon
    <2>3. front = (((w \o <<":">>) \o p) \o <<"@">>) \o h
      BY <1>1, <1>2, <1>7, <2>1, <2>2, Zenon DEF BeforePort
    <2>4. PICK a, b \in Nat : Three(front, w, a, ":", p, b, "@", h)
      BY <1>0, <2>3, ThreeTokens
    <2>5. front \in Seq(Characters)
      BY <2>4, Zenon DEF Three
    <2>6. CASE f.port = Null
      <3>1. Url(f) = front
        BY <1>4, <2>5, <2>6, Zenon
      <3>2. parse_socks_url(front) = Parsed(f.username, f.password, h, 1080)
        BY <2>1, <2>2, <2>4, UserPasswordHostForm
      <3>. QED BY <1>10, <1>1, <2>6, <3>1, <3>2
    <2>7. CASE f.port # Null
      <3>1. PICK q \in Tokens : q = f.port
        BY <2>7, PartsAre, Zenon
      <3>2. PICK str : str = (front \o <<":">>) \o q
        OBVIOUS
      <3>3. Url(f) = str
        BY <1>4, <2>5, <2>7, <3>1, <3>2, Zenon
      <3>4. str = (((((w \o <<":">>) \o p) \o <<"@">>) \o h) \o <<":">>) \o q
        BY <2>3, <3>2, Zenon
      <3>5. PICK c, d, e \in Nat : Four(str, w, c, ":", p, d, "@", h, e, ":", q)
        BY <1>0, <3>4, FourTokens
      <3>6. parse_socks_url(str) = Parsed(f.username, f.password, h, atoi(q))
        BY <2>1, <2>2, <3>5, UserPasswordHostPortForm
      <3>. QED BY <1>10, <1>1, <2>7, <3>1, <3>3, <3>6
    <2>. QED BY <2>6, <2>7
  <1>. QED BY <1>5, <1>6, <1>7, Zenon

(* ProxyAsGiven: only proxy_option changes what is parsed and what is meant. *)
LEMMA FormParsed ==
    ASSUME MosquittoAssumption, NEW f \in ProxyForms,
           NEW w, w = [f EXCEPT !.port = Number(f.port)]
    PROVE  parse_socks_url(Url(f)) = IF w.port \in PortNumbers THEN w ELSE NoProxy
  <1>1. PICK number : number = Number(f.port)
    OBVIOUS
  <1>2. w = [username |-> f.username, password |-> f.password, host |-> f.host, port |-> number]
    <2>1. w = [f EXCEPT !.port = number]
      BY <1>1
    <2>. QED BY <2>1 DEF ProxyForms
  <1>3. w.port = number
    BY <1>2
  <1>4. parse_socks_url(Url(f)) = Parsed(f.username, f.password, f.host, number)
    BY <1>1, UrlParsed, Zenon
  <1>5. Parsed(f.username, f.password, f.host, number) = IF number \in PortNumbers THEN w ELSE NoProxy
    BY <1>2, Zenon DEF Parsed
  <1>. QED BY <1>3, <1>4, <1>5, Zenon

LEMMA ProxyKept == MosquittoAssumption /\ ProxyAsGiven /\ [Next]_vars => ProxyAsGiven'
  <1>. SUFFICES ASSUME MosquittoAssumption, ProxyAsGiven, [Next]_vars PROVE ProxyAsGiven'
    OBVIOUS
  <1>1. ASSUME NEW f \in ProxyForms, proxy_option(f) PROVE ProxyAsGiven'
    <2>1. /\ proxy' = parse_socks_url(Url(f))
          /\ wanted' = [f EXCEPT !.port = Number(f.port)]
      BY <1>1, Zenon DEF proxy_option, Number
    <2>2. proxy' = IF wanted'.port \in PortNumbers THEN wanted' ELSE NoProxy
      <3>1. PICK w : w = [f EXCEPT !.port = Number(f.port)]
        OBVIOUS
      <3>2. parse_socks_url(Url(f)) = IF w.port \in PortNumbers THEN w ELSE NoProxy
        BY <3>1, FormParsed
      <3>. QED BY <2>1, <3>1, <3>2, Zenon
    <2>. QED BY <2>2, Zenon DEF ProxyAsGiven
  <1>2. CASE UNCHANGED <<proxy, wanted>>
    BY <1>2, Zenon DEF ProxyAsGiven
  <1>3. (\E f \in ProxyForms : proxy_option(f)) \/ UNCHANGED <<proxy, wanted>>
    BY DEF Next, vars, config, option, Start, help, client_config_load, load_and_set, client_connect,
           Main, read_line, end_of_file, waiting, not_connected, Callback, publish_callback,
           publish_callback_compare, publish_callback_disconnect, connect_callback, disconnect_callback,
           message_callback
  <1>. QED BY <1>1, <1>2, <1>3, Zenon


LEMMA NoProxyYet == Init => ProxyAsGiven
  BY DEF Init, ProxyAsGiven

(* A proxy URL of any user, password, host and port is parsed into them,     *)
(* whichever of them it has, and refused exactly when its port is not one.  *)
THEOREM ProxyAsGivenHolds == ASSUME MosquittoAssumption PROVE Spec => []ProxyAsGiven
  <1>1. ProxyAsGiven /\ [Next]_vars => ProxyAsGiven'
    BY ProxyKept
  <1>. QED BY <1>1, NoProxyYet, PTL DEF Spec
=============================================================================
