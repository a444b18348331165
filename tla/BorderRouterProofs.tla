------------------------- MODULE BorderRouterProofs -------------------------
(***************************************************************************)
(* Safety of BorderRouter for any number of places for callbacks on the    *)
(* host and for packets on the radio, and any number of packets: a report  *)
(* of the radio calls the callback of its packet, once, as long as neither *)
(* side has used its place again; and the host keeps its address.          *)
(***************************************************************************)
EXTENDS BorderRouter, SequenceTheorems, TLAPS

Places == 0 .. MAX_CALLBACKS - 1
RadioPlaces == 0 .. RadioSlots - 1
Numbers == 1 .. MaxPackets

ToRadio == [type : {"?M", "?C"}] \cup [type : {"!S"}, sid : Places, packet : Numbers]
ToHost == [type : {"!M", "!C", "packet"}] \cup [type : {"!D"}, parts : 1 .. MaxSegments]
          \cup [type : {"!R"}, sid : Places, packet : Numbers]

(* The parts of the state TypeOK leaves out.                               *)
LinesTyped ==
    /\ requests \in Seq(ToRadio) /\ reports \in Seq(ToHost)
    /\ transmitting \subseteq [packet : Numbers, ptr : RadioPlaces]
    /\ called \subseteq [packet : Numbers, ptr : 0 .. MaxPackets, sent : 0 .. MaxPackets]

-----------------------------------------------------------------------------
(* How often the host has set up a callback since place s was used, and the *)
(* radio has taken a packet since its place r was, while neither came       *)
(* round to the place again.                                                *)
age(s) == IF s < callback_pos THEN callback_pos - 1 - s ELSE callback_pos - 1 - s + MAX_CALLBACKS
turns(r) == IF r < packet_pos THEN packet_pos - 1 - r ELSE packet_pos - 1 - r + RadioSlots

(* Enough packets were sent after p for a place of p to be used again.     *)
Old(p) == packets - p >= MAX_CALLBACKS \/ packets - p >= RadioSlots
Named(p, sid) == callbacks[sid] = p \/ Old(p)

Sent(i) == requests[i].type = "!S"
Answered(i) == reports[i].type = "!R"

(* Every set-up since one at place s belongs to a packet of its own.       *)
Aged == \A s \in Places : callbacks[s] # None => packets - callbacks[s] >= age(s)

(* Wherever a packet is, its session id leads to its callback.             *)
Linked ==
    /\ \A i \in DOMAIN requests : Sent(i) =>
          Named(requests[i].packet, requests[i].sid) /\ requests[i].packet <= packets
    /\ \A t \in transmitting : Named(t.packet, packet_ids[t.ptr])
    /\ \A i \in DOMAIN reports : Answered(i) =>
          Named(reports[i].packet, reports[i].sid) /\ reports[i].packet <= packets

(* The radio takes the packets in the order in which they were sent.       *)
InTurn ==
    /\ \A i, j \in DOMAIN requests : i < j /\ Sent(i) /\ Sent(j) => requests[i].packet < requests[j].packet
    /\ \A t \in transmitting :
          /\ packets - t.packet >= turns(t.ptr)
          /\ \A i \in DOMAIN requests : Sent(i) => requests[i].packet - t.packet > turns(t.ptr)

(* A packet is in one place at a time, and nowhere once it was reported.   *)
Once ==
    /\ \A t, u \in transmitting : t.packet = u.packet => t = u
    /\ \A i \in DOMAIN reports : Answered(i) =>
          /\ \A j \in DOMAIN reports : Answered(j) /\ reports[i].packet = reports[j].packet => i = j
          /\ \A j \in DOMAIN requests : Sent(j) => reports[i].packet # requests[j].packet
          /\ \A t \in transmitting : reports[i].packet # t.packet
    /\ \A r \in called :
          /\ r.packet <= packets
          /\ \A j \in DOMAIN requests : Sent(j) => r.packet # requests[j].packet
          /\ \A t \in transmitting : r.packet # t.packet
          /\ \A i \in DOMAIN reports : Answered(i) => r.packet # reports[i].packet

Tracked == Aged /\ Linked /\ InTurn /\ Once /\ OwnCallback
IInv == TypeOK /\ LinesTyped /\ Tracked

USE DEF Places, RadioPlaces, Numbers, None

-----------------------------------------------------------------------------
(* Lines: what is put at the end or taken from the head.                   *)
LEMMA LineEnd ==
    ASSUME NEW S, NEW s \in Seq(S), NEW e \in S
    PROVE  /\ Append(s, e) \in Seq(S) /\ Len(s) \in Nat
           /\ DOMAIN s = 1 .. Len(s) /\ DOMAIN Append(s, e) = 1 .. Len(s) + 1
           /\ \A i \in DOMAIN Append(s, e) :
                 \/ i \in DOMAIN s /\ Append(s, e)[i] = s[i]
                 \/ i = Len(s) + 1 /\ Append(s, e)[i] = e
<1>1. /\ Append(s, e) \in Seq(S) /\ Len(Append(s, e)) = Len(s) + 1 /\ Len(s) \in Nat
      /\ \A i \in 1 .. Len(s) : Append(s, e)[i] = s[i]
      /\ Append(s, e)[Len(s) + 1] = e
  BY AppendProperties, LenProperties
<1>2. DOMAIN s = 1 .. Len(s) /\ DOMAIN Append(s, e) = 1 .. Len(s) + 1
  BY <1>1, LenProperties
<1> QED
  BY <1>1, <1>2

LEMMA LineHead ==
    ASSUME NEW S, NEW s \in Seq(S), s # <<>>
    PROVE  /\ Tail(s) \in Seq(S) /\ Head(s) \in S /\ Head(s) = s[1] /\ 1 \in DOMAIN s
           /\ \A i \in DOMAIN s : i \in Nat /\ i >= 1
           /\ \A i \in DOMAIN Tail(s) : i \in Nat /\ i + 1 \in DOMAIN s /\ Tail(s)[i] = s[i + 1]
<1>1. /\ Head(s) \in S /\ Tail(s) \in Seq(S) /\ Len(Tail(s)) = Len(s) - 1
      /\ \A i \in 1 .. Len(Tail(s)) : Tail(s)[i] = s[i + 1]
  BY HeadTailProperties
<1>2. Len(s) \in Nat /\ DOMAIN s = 1 .. Len(s) /\ DOMAIN Tail(s) = 1 .. Len(Tail(s)) /\ Len(s) > 0
  BY <1>1, LenProperties, EmptySeq
<1>3. Head(s) = s[1]
  OBVIOUS
<1> QED
  BY <1>1, <1>2, <1>3

LEMMA InitIInv == ASSUME RouterAssumption PROVE Init => IInv
<1> SUFFICES ASSUME Init PROVE IInv
  OBVIOUS
<1>1. TypeOK
  BY DEF RouterAssumption, Init, TypeOK
<1>2. LinesTyped
  BY DEF Init, LinesTyped
<1>3. Tracked
  BY DEF Init, Tracked, Aged, Linked, InTurn, Once, OwnCallback
<1> QED
  BY <1>1, <1>2, <1>3 DEF IInv

-----------------------------------------------------------------------------
(* A step that brings no packet anywhere: a line may lose its head, or get *)
(* something else; packets may get lost in the radio.                      *)
LEMMA LessTracked ==
    ASSUME IInv, UNCHANGED rdc,
           \/ transmitting' \subseteq transmitting /\ UNCHANGED <<packet_ids, packet_pos>>
           \/ transmitting' = {},
           NEW d \in {0, 1}, NEW e \in {0, 1},
           \A i \in DOMAIN requests' : requests'[i].type = "!S" =>
              i \in Nat /\ i + d \in DOMAIN requests /\ requests'[i] = requests[i + d],
           \A i \in DOMAIN reports' : reports'[i].type = "!R" =>
              i \in Nat /\ i + e \in DOMAIN reports /\ reports'[i] = reports[i + e]
    PROVE  Tracked'
<1> USE DEF rdc, IInv, Tracked
<1>1. Aged' /\ OwnCallback'
  BY DEF Aged, age, OwnCallback
<1>2. Linked'
  BY DEF Linked, Sent, Answered, Named, Old
<1>3. InTurn'
  <2>1. ASSUME NEW i \in DOMAIN requests', NEW j \in DOMAIN requests', i < j, Sent(i)', Sent(j)'
        PROVE  requests'[i].packet < requests'[j].packet
    <3>1. i + d \in DOMAIN requests /\ j + d \in DOMAIN requests /\ i + d < j + d
          /\ requests'[i] = requests[i + d] /\ requests'[j] = requests[j + d]
      BY <2>1 DEF Sent
    <3> QED
      BY <2>1, <3>1 DEF InTurn, Sent
  <2>2. \A t \in transmitting' :
          /\ packets' - t.packet >= turns(t.ptr)'
          /\ \A i \in DOMAIN requests' : Sent(i)' => requests'[i].packet - t.packet > turns(t.ptr)'
    BY DEF InTurn, Sent, turns
  <2> QED
    BY <2>1, <2>2 DEF InTurn
<1>4. Once'
  <2>1. transmitting' \subseteq transmitting /\ packets' = packets /\ called' = called
    OBVIOUS
  <2>2. \A i \in DOMAIN requests' : Sent(i)' => Sent(i + d) /\ i + d \in DOMAIN requests
                                                /\ requests'[i] = requests[i + d]
    BY DEF Sent
  <2>3. \A i \in DOMAIN reports' : Answered(i)' => i \in Nat /\ Answered(i + e) /\ i + e \in DOMAIN reports
                                                  /\ reports'[i] = reports[i + e]
    BY DEF Answered
  <2>4. \A i, j \in DOMAIN reports' :
          Answered(i)' /\ Answered(j)' /\ reports'[i].packet = reports'[j].packet => i = j
    <3>1. \A i, j \in DOMAIN reports' : Answered(i)' /\ Answered(j)'
              /\ reports'[i].packet = reports'[j].packet => i + e = j + e
      BY <2>3 DEF Once
    <3> QED
      BY <2>3, <3>1
  <2> QED
    BY <2>1, <2>2, <2>3, <2>4 DEF Once
<1> QED
  BY <1>1, <1>2, <1>3, <1>4

(* The lines of such a step.                                               *)
LEMMA SameLine ==
    ASSUME NEW S, NEW s \in Seq(S), NEW s1, s1 = s
    PROVE  \A i \in DOMAIN s1 : i \in Nat /\ i + 0 \in DOMAIN s /\ s1[i] = s[i + 0]
  BY LenProperties

LEMMA HeadGone ==
    ASSUME NEW S, NEW s \in Seq(S), s # <<>>
    PROVE  \A i \in DOMAIN Tail(s) : i \in Nat /\ i + 1 \in DOMAIN s /\ Tail(s)[i] = s[i + 1]
  BY LineHead

LEMMA OtherAdded ==
    ASSUME NEW S, NEW s \in Seq(S), NEW e \in S, NEW type, e.type # type
    PROVE  \A i \in DOMAIN Append(s, e) : Append(s, e)[i].type = type =>
              i \in Nat /\ i + 0 \in DOMAIN s /\ Append(s, e)[i] = s[i + 0]
<1>1. /\ DOMAIN s = 1 .. Len(s) /\ Len(s) \in Nat
      /\ \A i \in DOMAIN Append(s, e) :
            \/ i \in DOMAIN s /\ Append(s, e)[i] = s[i]
            \/ i = Len(s) + 1 /\ Append(s, e)[i] = e
  BY LineEnd
<1> QED
  BY <1>1

LEMMA SilentStep ==
    ASSUME IInv, UNCHANGED rdc,
           \/ transmitting' \subseteq transmitting /\ UNCHANGED <<packet_ids, packet_pos>>
           \/ transmitting' = {},
           \/ UNCHANGED requests
           \/ requests # <<>> /\ requests' = Tail(requests)
           \/ \E m \in ToRadio : m.type # "!S" /\ requests' = Append(requests, m),
           \/ UNCHANGED reports
           \/ reports # <<>> /\ reports' = Tail(reports)
           \/ \E m \in ToHost : m.type # "!R" /\ reports' = Append(reports, m)
    PROVE  Tracked'
<1>1. requests \in Seq(ToRadio) /\ reports \in Seq(ToHost)
  BY DEF IInv, LinesTyped
<1>2. PICK d \in {0, 1} : \A i \in DOMAIN requests' : requests'[i].type = "!S" =>
          i \in Nat /\ i + d \in DOMAIN requests /\ requests'[i] = requests[i + d]
  <2>1. CASE UNCHANGED requests
    BY <1>1, <2>1, SameLine
  <2>2. CASE requests # <<>> /\ requests' = Tail(requests)
    BY <1>1, <2>2, HeadGone
  <2>3. CASE \E m \in ToRadio : m.type # "!S" /\ requests' = Append(requests, m)
    BY <1>1, <2>3, OtherAdded
  <2> QED
    BY <2>1, <2>2, <2>3
<1>3. PICK e \in {0, 1} : \A i \in DOMAIN reports' : reports'[i].type = "!R" =>
          i \in Nat /\ i + e \in DOMAIN reports /\ reports'[i] = reports[i + e]
  <2>1. CASE UNCHANGED reports
    BY <1>1, <2>1, SameLine
  <2>2. CASE reports # <<>> /\ reports' = Tail(reports)
    BY <1>1, <2>2, HeadGone
  <2>3. CASE \E m \in ToHost : m.type # "!R" /\ reports' = Append(reports, m)
    BY <1>1, <2>3, OtherAdded
  <2> QED
    BY <2>1, <2>2, <2>3
<1> QED
  BY <1>2, <1>3, LessTracked

-----------------------------------------------------------------------------
(* What an age and a number of turns are when a place is used.             *)
LEMMA AgeBounds ==
    ASSUME RouterAssumption, TypeOK
    PROVE  /\ \A s \in Places : age(s) \in 0 .. MAX_CALLBACKS - 1
           /\ age(callback_pos) = MAX_CALLBACKS - 1
           /\ \A r \in RadioPlaces : turns(r) \in 0 .. RadioSlots - 1
           /\ turns(packet_pos) = RadioSlots - 1
<1>1. callback_pos \in Places /\ packet_pos \in RadioPlaces
  BY DEF TypeOK
<1>2. MAX_CALLBACKS \in Nat \ {0} /\ RadioSlots \in Nat \ {0}
  BY DEF RouterAssumption
<1> QED
  BY <1>1, <1>2 DEF age, turns

LEMMA Older ==
    ASSUME RouterAssumption, TypeOK, callback_pos' = (IF callback_pos + 1 >= MAX_CALLBACKS THEN 0 ELSE callback_pos + 1)
    PROVE  \A s \in Places : (age(s))' = IF s = callback_pos THEN 0 ELSE age(s) + 1
<1>1. callback_pos \in Places
  BY DEF TypeOK
<1>2. MAX_CALLBACKS \in Nat \ {0}
  BY DEF RouterAssumption
<1> QED
  BY <1>1, <1>2 DEF age

LEMMA Turned ==
    ASSUME RouterAssumption, TypeOK, packet_pos' = (IF packet_pos + 1 >= RadioSlots THEN 0 ELSE packet_pos + 1)
    PROVE  \A r \in RadioPlaces : (turns(r))' = IF r = packet_pos THEN 0 ELSE turns(r) + 1
<1>1. packet_pos \in RadioPlaces
  BY DEF TypeOK
<1>2. RadioSlots \in Nat \ {0}
  BY DEF RouterAssumption
<1> QED
  BY <1>1, <1>2 DEF turns

(* What every packet under way and every call has below it.                *)
LEMMA Below ==
    ASSUME RouterAssumption, IInv
    PROVE  /\ packets \in Nat /\ MAX_CALLBACKS \in Nat \ {0} /\ RadioSlots \in Nat \ {0}
           /\ \A i \in DOMAIN requests : Sent(i) =>
                 requests[i].packet \in 1 .. packets /\ requests[i].sid \in Places /\ i \in Nat
           /\ \A i \in DOMAIN reports : Answered(i) =>
                 reports[i].packet \in 1 .. packets /\ reports[i].sid \in Places /\ i \in Nat
           /\ \A t \in transmitting : t.packet \in 1 .. packets /\ t.ptr \in RadioPlaces
           /\ \A r \in called : r.packet \in 1 .. packets /\ r.ptr \in Nat /\ r.sent \in Nat
           /\ \A s \in Places : callbacks[s] \in Nat
           /\ \A r \in RadioPlaces : packet_ids[r] \in Places
<1> USE DEF IInv, Tracked
<1>1. /\ packets \in Nat /\ MAX_CALLBACKS \in Nat \ {0} /\ RadioSlots \in Nat \ {0} /\ MaxPackets \in Nat
      /\ \A s \in Places : callbacks[s] \in Nat
      /\ \A r \in RadioPlaces : packet_ids[r] \in Places
  BY DEF TypeOK, RouterAssumption
<1>2. \A i \in DOMAIN requests : Sent(i) =>
          requests[i].packet \in 1 .. packets /\ requests[i].sid \in Places /\ i \in Nat
  <2>1. ASSUME NEW i \in DOMAIN requests, Sent(i)
        PROVE  requests[i].packet \in 1 .. packets /\ requests[i].sid \in Places /\ i \in Nat
    <3>1. requests[i] \in ToRadio /\ i \in Nat
      BY ElementOfSeq, LenProperties DEF LinesTyped
    <3>2. requests[i].packet \in Numbers /\ requests[i].sid \in Places
      BY <2>1, <3>1 DEF ToRadio, Sent
    <3>3. requests[i].packet <= packets
      BY <2>1 DEF Linked
    <3> QED
      BY <1>1, <3>1, <3>2, <3>3
  <2> QED
    BY <2>1
<1>3. \A i \in DOMAIN reports : Answered(i) =>
          reports[i].packet \in 1 .. packets /\ reports[i].sid \in Places /\ i \in Nat
  <2>1. ASSUME NEW i \in DOMAIN reports, Answered(i)
        PROVE  reports[i].packet \in 1 .. packets /\ reports[i].sid \in Places /\ i \in Nat
    <3>1. reports[i] \in ToHost /\ i \in Nat
      BY ElementOfSeq, LenProperties DEF LinesTyped
    <3>2. reports[i].packet \in Numbers /\ reports[i].sid \in Places
      BY <2>1, <3>1 DEF ToHost, Answered
    <3>3. reports[i].packet <= packets
      BY <2>1 DEF Linked
    <3> QED
      BY <1>1, <3>1, <3>2, <3>3
  <2> QED
    BY <2>1
<1>4. \A t \in transmitting : t.packet \in 1 .. packets /\ t.ptr \in RadioPlaces
  <2>1. \A t \in transmitting : t.packet \in Numbers /\ t.ptr \in RadioPlaces
    BY DEF LinesTyped
  <2>2. \A t \in transmitting : packets - t.packet >= turns(t.ptr) /\ turns(t.ptr) >= 0 /\ turns(t.ptr) \in Int
    BY <2>1, AgeBounds DEF InTurn, RouterAssumption
  <2> QED
    BY <1>1, <2>1, <2>2
<1>5. \A r \in called : r.packet \in 1 .. packets /\ r.ptr \in Nat /\ r.sent \in Nat
  <2>1. \A r \in called : r.packet \in Numbers /\ r.ptr \in 0 .. MaxPackets /\ r.sent \in 0 .. MaxPackets
    BY DEF LinesTyped
  <2> QED
    BY <1>1, <2>1 DEF Once
<1> QED
  BY <1>1, <1>2, <1>3, <1>4, <1>5

-----------------------------------------------------------------------------
(* The host sends a packet: its number is above all that are under way.    *)
LEMMA TooLarge ==
    ASSUME RouterAssumption, IInv, packets' = packets + 1, too_large, UNCHANGED <<firmware, reports>>
    PROVE  Tracked'
<1> USE DEF IInv, Tracked, too_large, firmware
<1>0. UNCHANGED <<callbacks, callback_pos, requests, reports, transmitting, packet_ids, packet_pos>>
  OBVIOUS
<1>1. Aged'
  <2>1. \A s \in Places : age(s) \in Int
    BY AgeBounds DEF RouterAssumption
  <2> QED
    BY <1>0, <2>1, Below DEF Aged, age
<1>2. Linked'
  BY <1>0, Below DEF Linked, Sent, Answered, Named, Old
<1>3. InTurn'
  <2>1. \A r \in RadioPlaces : turns(r) \in Int
    BY AgeBounds DEF RouterAssumption
  <2> QED
    BY <1>0, <2>1, Below DEF InTurn, Sent, turns
<1>4. Once'
  <2>1. \A r \in called' : r \in called \/ r.packet = packets + 1
    BY DEF Report
  <2> QED
    BY <1>0, <2>1, Below DEF Once, Sent, Answered
<1>5. OwnCallback'
  <2>1. \A r \in called' : r \in called \/ r = [packet |-> packets + 1, ptr |-> packets + 1, sent |-> packets + 1]
    BY DEF Report
  <2> QED
    BY <2>1, Below DEF OwnCallback
<1> QED
  BY <1>1, <1>2, <1>3, <1>4, <1>5

(* A place used again belonged to a packet that is old by now.             *)
LEMMA NamedStays ==
    ASSUME NEW p \in 1 .. packets, NEW s \in Places, Named(p, s),
           packets \in Nat, MAX_CALLBACKS \in Nat \ {0}, RadioSlots \in Nat \ {0}, packets' = packets + 1,
           callbacks[s] # None => packets - callbacks[s] >= age(s), age(callback_pos) = MAX_CALLBACKS - 1,
           DOMAIN callbacks = Places, setup_callback
    PROVE  Named(p, s)'
<1>1. CASE s = callback_pos /\ callbacks[s] = p
  <2>1. packets + 1 - p >= MAX_CALLBACKS
    BY <1>1
  <2> QED
    BY <2>1 DEF Named, Old
<1>2. CASE s # callback_pos /\ callbacks[s] = p
  <2>1. callbacks'[s] = p
    BY <1>2 DEF setup_callback
  <2> QED
    BY <2>1 DEF Named
<1>3. CASE Old(p)
  <2>1. packets + 1 - p >= MAX_CALLBACKS \/ packets + 1 - p >= RadioSlots
    BY <1>3 DEF Old
  <2> QED
    BY <2>1 DEF Named, Old
<1> QED
  BY <1>1, <1>2, <1>3 DEF Named

SendPacket ==
    /\ packets < MaxPackets /\ packets' = packets + 1
    /\ setup_callback /\ UNCHANGED <<called, firmware, reports>>
    /\ requests' = Append(requests, [type |-> "!S", sid |-> callback_pos, packet |-> packets'])

LEMMA SetUp == ASSUME RouterAssumption, IInv, SendPacket PROVE Tracked'
<1> USE DEF IInv, Tracked
<1> DEFINE m == [type |-> "!S", sid |-> callback_pos, packet |-> packets + 1]
<1>0. UNCHANGED <<called, reports, transmitting, packet_ids, packet_pos>> /\ packets' = packets + 1
  BY DEF SendPacket, firmware
<1>1. /\ callback_pos \in Places /\ packets + 1 \in Numbers /\ DOMAIN callbacks = Places
      /\ callbacks' = [callbacks EXCEPT ![callback_pos] = packets + 1]
  BY <1>0, Below DEF TypeOK, SendPacket, setup_callback, RouterAssumption
<1>2. m \in ToRadio /\ requests' = Append(requests, m)
  BY <1>0, <1>1 DEF ToRadio, SendPacket
<1>3. /\ DOMAIN requests = 1 .. Len(requests) /\ Len(requests) \in Nat
      /\ \A i \in DOMAIN requests' :
            \/ i \in DOMAIN requests /\ requests'[i] = requests[i]
            \/ i = Len(requests) + 1 /\ requests'[i] = m
  BY <1>2, LineEnd DEF LinesTyped
<1>4. \A s \in Places : (age(s))' = IF s = callback_pos THEN 0 ELSE age(s) + 1
  BY Older DEF SendPacket, setup_callback
<1>5. \A s \in Places : age(s) \in 0 .. MAX_CALLBACKS - 1
  BY AgeBounds
<1> HIDE DEF m
<1>6. Aged'
  <2>1. ASSUME NEW s \in Places, callbacks'[s] # None
        PROVE  packets' - callbacks'[s] >= (age(s))'
    <3>1. CASE s = callback_pos
      BY <1>0, <1>1, <1>4, <3>1, Below
    <3>2. CASE s # callback_pos
      <4>1. callbacks'[s] = callbacks[s] /\ packets - callbacks[s] >= age(s)
        BY <1>1, <2>1, <3>2 DEF Aged
      <4>2. callbacks[s] \in Nat /\ packets \in Nat /\ age(s) \in Int /\ (age(s))' = age(s) + 1
        BY <1>4, <1>5, <3>2, Below
      <4> QED
        BY <1>0, <4>1, <4>2
    <3> QED
      BY <3>1, <3>2
  <2> QED
    BY <2>1 DEF Aged
<1>7. \A p \in 1 .. packets, s \in Places : Named(p, s) =>
          callbacks'[s] = p \/ packets' - p >= MAX_CALLBACKS \/ packets' - p >= RadioSlots
  <2>1. \A p \in 1 .. packets, s \in Places : Named(p, s) => Named(p, s)'
    BY <1>0, <1>1, Below, AgeBounds, NamedStays DEF Aged, SendPacket
  <2> QED
    BY <2>1 DEF Named, Old
<1>8. Linked'
  <2>1. ASSUME NEW i \in DOMAIN requests', Sent(i)'
        PROVE  Named(requests[i].packet, requests[i].sid)' /\ requests'[i].packet <= packets'
    <3>1. CASE i \in DOMAIN requests /\ requests'[i] = requests[i]
      <4>1. /\ Named(requests[i].packet, requests[i].sid)
            /\ requests[i].packet \in 1 .. packets /\ requests[i].sid \in Places /\ packets \in Nat
        BY <2>1, <3>1, Below DEF Linked, Sent
      <4>2. /\ callbacks'[requests[i].sid] = requests[i].packet \/ packets' - requests[i].packet >= MAX_CALLBACKS
                \/ packets' - requests[i].packet >= RadioSlots
            /\ requests[i].packet <= packets'
        BY <1>0, <1>7, <4>1
      <4> QED
        BY <3>1, <4>2 DEF Named, Old
    <3>2. CASE requests'[i] = m
      <4>1. requests'[i].packet = packets + 1 /\ callbacks'[requests'[i].sid] = packets + 1
        BY <1>1, <3>2 DEF m
      <4> QED
        BY <1>0, <4>1, Below DEF Named
    <3> QED
      BY <1>3, <3>1, <3>2
  <2>2. \A t \in transmitting' : Named(t.packet, packet_ids[t.ptr])'
    <3>1. \A t \in transmitting : /\ t.packet \in 1 .. packets /\ packet_ids[t.ptr] \in Places
                                   /\ Named(t.packet, packet_ids[t.ptr])
      BY Below DEF Linked
    <3> QED
      BY <1>0, <1>7, <3>1 DEF Named, Old
  <2>3. ASSUME NEW i \in DOMAIN reports', Answered(i)'
        PROVE  Named(reports[i].packet, reports[i].sid)' /\ reports'[i].packet <= packets'
    <3>1. reports'[i] = reports[i] /\ i \in DOMAIN reports /\ Answered(i)
      BY <1>0, <2>3 DEF Answered
    <3>2. /\ Named(reports[i].packet, reports[i].sid)
          /\ reports[i].packet \in 1 .. packets /\ reports[i].sid \in Places /\ packets \in Nat
      BY <3>1, Below DEF Linked
    <3> QED
      BY <1>0, <1>7, <3>1, <3>2 DEF Named, Old
  <2> QED
    BY <2>1, <2>2, <2>3 DEF Linked
<1>9. InTurn'
  <2>1. ASSUME NEW i \in DOMAIN requests', NEW j \in DOMAIN requests', i < j, Sent(i)', Sent(j)'
        PROVE  requests'[i].packet < requests'[j].packet
    <3>1. i \in DOMAIN requests /\ requests'[i] = requests[i]
      BY <1>3, <2>1
    <3> QED
      <4>1. CASE j \in DOMAIN requests /\ requests'[j] = requests[j]
        BY <2>1, <3>1, <4>1 DEF InTurn, Sent
      <4>2. CASE requests'[j] = m
        <5>1. requests[i].packet \in 1 .. packets /\ packets \in Nat
          BY <2>1, <3>1, Below DEF Sent
        <5> QED
          BY <3>1, <4>2, <5>1 DEF m
      <4> QED
        BY <1>3, <4>1, <4>2
  <2>2. \A r \in RadioPlaces : turns(r) \in Int /\ (turns(r))' = turns(r)
    BY <1>0, AgeBounds DEF RouterAssumption, turns
  <2>3. \A t \in transmitting' :
          /\ packets' - t.packet >= turns(t.ptr)'
          /\ \A i \in DOMAIN requests' : Sent(i)' => requests'[i].packet - t.packet > turns(t.ptr)'
    BY <1>0, <1>3, <2>2, Below DEF InTurn, Sent, m
  <2> QED
    BY <2>1, <2>3 DEF InTurn
<1>10. Once'
  <2>1. ASSUME NEW i \in DOMAIN requests', Sent(i)'
        PROVE  \/ requests'[i].packet = packets + 1
               \/ i \in DOMAIN requests /\ Sent(i) /\ requests'[i] = requests[i]
    <3>1. CASE i \in DOMAIN requests /\ requests'[i] = requests[i]
      BY <2>1, <3>1 DEF Sent
    <3>2. CASE requests'[i] = m
      BY <3>2 DEF m
    <3> QED
      BY <1>3, <3>1, <3>2
  <2> QED
    BY <1>0, <2>1, Below DEF Once, Answered
<1>11. OwnCallback'
  BY <1>0 DEF OwnCallback
<1> QED
  BY <1>6, <1>8, <1>9, <1>10, <1>11

(* The report at the head of the line calls its callback.                  *)
LEMMA PacketSent == ASSUME RouterAssumption, IInv, packet_sent PROVE Tracked'
<1> USE DEF IInv, Tracked
<1>1. /\ UNCHANGED <<callbacks, callback_pos, packets, requests, transmitting, packet_ids, packet_pos>>
      /\ reports # <<>> /\ Answered(1) /\ reports' = Tail(reports)
  BY DEF packet_sent, FromRadio, firmware, Answered
<1>2. /\ 1 \in DOMAIN reports /\ Head(reports) = reports[1]
      /\ \A i \in DOMAIN reports' : i \in Nat /\ i >= 1 /\ i + 1 \in DOMAIN reports /\ reports'[i] = reports[i + 1]
  <2>1. reports \in Seq(ToHost)
    BY DEF LinesTyped
  <2> QED
    BY <1>1, <2>1, LineHead, LenProperties
<1> DEFINE p == reports[1].packet
           c == [packet |-> p, ptr |-> callbacks[reports[1].sid], sent |-> packets]
<1>3. called' = called \cup {c}
  <2>1. reports[1].sid \in Places /\ MAX_CALLBACKS \in Nat
    BY <1>1, <1>2, Below
  <2>2. reports[1].sid < MAX_CALLBACKS
    BY <2>1
  <2> QED
    BY <1>1, <1>2, <2>2 DEF packet_sent, Report
<1>4. /\ p \in 1 .. packets /\ packets \in Nat
      /\ \A r \in called : r.packet # p
      /\ c.ptr = p \/ packets - p >= MAX_CALLBACKS \/ packets - p >= RadioSlots
  BY <1>1, <1>2, Below DEF Once, Linked, Named, Old
<1>5. /\ \A j \in DOMAIN requests : Sent(j) => p # requests[j].packet
      /\ \A t \in transmitting : p # t.packet
      /\ \A i \in DOMAIN reports : Answered(i) /\ p = reports[i].packet => i = 1
  BY <1>1, <1>2 DEF Once
<1> HIDE DEF p
<1>6. Aged'
  BY <1>1 DEF Aged, age
<1>7. Linked'
  BY <1>1, <1>2 DEF Linked, Sent, Answered, Named, Old
<1>8. InTurn'
  BY <1>1 DEF InTurn, Sent, turns
<1>9. Once'
  <2>1. \A i \in DOMAIN reports' : Answered(i)' => /\ i \in Nat /\ i >= 1 /\ i + 1 \in DOMAIN reports
                                                   /\ Answered(i + 1) /\ reports'[i] = reports[i + 1]
    BY <1>2 DEF Answered
  <2>2. \A i \in DOMAIN requests' : Sent(i)' => Sent(i) /\ i \in DOMAIN requests /\ requests'[i] = requests[i]
    BY <1>1 DEF Sent
  <2>3. \A i, j \in DOMAIN reports' :
          Answered(i)' /\ Answered(j)' /\ reports'[i].packet = reports'[j].packet => i = j
    <3>1. \A i, j \in DOMAIN reports' : Answered(i)' /\ Answered(j)'
              /\ reports'[i].packet = reports'[j].packet => i + 1 = j + 1
      BY <2>1 DEF Once
    <3> QED
      BY <2>1, <3>1
  <2>4. \A r \in called' : r \in called \/ r = c
    BY <1>3
  <2>5. \A i \in DOMAIN reports' : Answered(i)' => p # reports'[i].packet
    <3>1. \A i \in DOMAIN reports' : Answered(i)' => i + 1 # 1
      BY <2>1
    <3> QED
      BY <1>5, <2>1, <3>1
  <2>6. \A r \in called' :
          /\ r.packet <= packets'
          /\ \A j \in DOMAIN requests' : Sent(j)' => r.packet # requests'[j].packet
          /\ \A t \in transmitting' : r.packet # t.packet
          /\ \A i \in DOMAIN reports' : Answered(i)' => r.packet # reports'[i].packet
    BY <1>1, <1>4, <1>5, <2>1, <2>2, <2>4, <2>5 DEF Once
  <2> QED
    BY <1>1, <2>1, <2>2, <2>3, <2>6 DEF Once
<1>10. OwnCallback'
  BY <1>3, <1>4 DEF OwnCallback
<1> QED
  BY <1>6, <1>7, <1>8, <1>9, <1>10

(* The MAC layer is done with a packet: its report is under its session id *)
(* unless its place on the radio was used again.                           *)
LEMMA RadioPacketSent ==
    ASSUME RouterAssumption, IInv, NEW t \in transmitting, radio_packet_sent(t)
    PROVE  Tracked'
<1> USE DEF IInv, Tracked
<1> DEFINE m == [type |-> "!R", sid |-> packet_ids[t.ptr], packet |-> t.packet]
<1>1. /\ UNCHANGED <<callbacks, callback_pos, packets, called, requests, packet_ids, packet_pos>>
      /\ transmitting' = transmitting \ {t}
  BY DEF radio_packet_sent, rdc
<1>2. /\ t.packet \in 1 .. packets /\ packets \in Nat /\ packet_ids[t.ptr] \in Places /\ t.packet \in Numbers
  BY Below DEF LinesTyped
<1>3. m \in ToHost /\ reports' = Append(reports, m)
  BY <1>2 DEF ToHost, radio_packet_sent
<1>4. /\ DOMAIN reports = 1 .. Len(reports) /\ Len(reports) \in Nat
      /\ \A i \in DOMAIN reports' :
            \/ i \in DOMAIN reports /\ reports'[i] = reports[i]
            \/ i = Len(reports) + 1 /\ reports'[i] = m
  BY <1>3, LineEnd DEF LinesTyped
<1>5. m.sid = packet_ids[t.ptr] /\ m.packet = t.packet
  OBVIOUS
<1> HIDE DEF m
<1>6. Aged' /\ OwnCallback'
  BY <1>1 DEF Aged, age, OwnCallback
<1>7. \A i \in DOMAIN reports' : Answered(i)' =>
          \/ i \in DOMAIN reports /\ Answered(i) /\ reports'[i] = reports[i]
          \/ i = Len(reports) + 1 /\ reports'[i] = m
  BY <1>4 DEF Answered
<1>8. Named(t.packet, packet_ids[t.ptr])
  BY DEF Linked
<1>9. Linked'
  <2>1. ASSUME NEW i \in DOMAIN reports', Answered(i)'
        PROVE  Named(reports[i].packet, reports[i].sid)' /\ reports'[i].packet <= packets'
    <3>1. CASE i \in DOMAIN reports /\ Answered(i) /\ reports'[i] = reports[i]
      BY <1>1, <3>1 DEF Linked, Named, Old
    <3>2. CASE reports'[i] = m
      BY <1>1, <1>2, <1>5, <1>8, <3>2 DEF Named, Old
    <3> QED
      BY <1>7, <2>1, <3>1, <3>2
  <2> QED
    BY <1>1, <2>1 DEF Linked, Sent, Named, Old
<1>10. InTurn'
  BY <1>1 DEF InTurn, Sent, turns
<1>11. Once'
  <2>1. \A u \in transmitting' : u \in transmitting /\ u.packet # t.packet
    BY <1>1 DEF Once
  <2>2. \A j \in DOMAIN requests' : Sent(j)' => /\ Sent(j) /\ j \in DOMAIN requests
                                                /\ requests'[j] = requests[j] /\ requests'[j].packet # t.packet
    <3>1. turns(t.ptr) \in Nat
      BY Below, AgeBounds DEF RouterAssumption
    <3>2. \A j \in DOMAIN requests : Sent(j) => requests[j].packet # t.packet
      BY <3>1, Below DEF InTurn
    <3> QED
      BY <1>1, <3>2 DEF Sent
  <2>3. \A i \in DOMAIN reports : Answered(i) => reports[i].packet # t.packet
    BY DEF Once
  <2>4. \A r \in called : r.packet # t.packet
    BY DEF Once
  <2>5. \A i, j \in DOMAIN reports' :
          Answered(i)' /\ Answered(j)' /\ reports'[i].packet = reports'[j].packet => i = j
    BY <1>5, <1>7, <2>3 DEF Once
  <2>6. \A i \in DOMAIN reports' : Answered(i)' =>
          /\ \A j \in DOMAIN requests' : Sent(j)' => reports'[i].packet # requests'[j].packet
          /\ \A u \in transmitting' : reports'[i].packet # u.packet
    BY <1>5, <1>7, <2>1, <2>2 DEF Once
  <2>7. \A r \in called' :
          /\ r.packet <= packets'
          /\ \A j \in DOMAIN requests' : Sent(j)' => r.packet # requests'[j].packet
          /\ \A u \in transmitting' : r.packet # u.packet
          /\ \A i \in DOMAIN reports' : Answered(i)' => r.packet # reports'[i].packet
    BY <1>1, <1>5, <1>7, <2>1, <2>2, <2>4 DEF Once
  <2> QED
    BY <2>1, <2>5, <2>6, <2>7 DEF Once
<1> QED
  BY <1>6, <1>9, <1>10, <1>11

(* The radio takes a packet: the one that had the place before is old.     *)
LEMMA RadioSend == ASSUME RouterAssumption, IInv, radio_send PROVE Tracked'
<1> USE DEF IInv, Tracked
<1> DEFINE p == requests[1].packet
           sid == requests[1].sid
           u == [packet |-> p, ptr |-> packet_pos]
           next == IF packet_pos + 1 >= RadioSlots THEN 0 ELSE packet_pos + 1
<1>1. /\ UNCHANGED <<callbacks, callback_pos, packets, called, reports>>
      /\ requests # <<>> /\ Sent(1) /\ requests' = Tail(requests)
  BY DEF radio_send, Received, rdc, Sent
<1>2. /\ 1 \in DOMAIN requests /\ Head(requests) = requests[1]
      /\ \A i \in DOMAIN requests' :
            i \in Nat /\ i >= 1 /\ i + 1 \in DOMAIN requests /\ requests'[i] = requests[i + 1]
  <2>1. requests \in Seq(ToRadio)
    BY DEF LinesTyped
  <2> QED
    BY <1>1, <2>1, LineHead, LenProperties
<1>3. /\ packet_pos \in RadioPlaces /\ packet_ids' = [packet_ids EXCEPT ![packet_pos] = sid]
      /\ DOMAIN packet_ids = RadioPlaces
      /\ \/ UNCHANGED <<transmitting, packet_pos>>
         \/ transmitting' = transmitting \cup {u} /\ packet_pos' = next
  BY <1>2 DEF radio_send, TypeOK
<1>4. /\ p \in 1 .. packets /\ packets \in Nat /\ RadioSlots \in Nat \ {0} /\ Named(p, sid)
      /\ \A t \in transmitting : /\ t.packet \in 1 .. packets /\ t.ptr \in RadioPlaces
                                 /\ turns(t.ptr) \in Nat /\ p - t.packet > turns(t.ptr)
      /\ turns(packet_pos) = RadioSlots - 1
  <2>1. \A r \in RadioPlaces : turns(r) \in Nat
    BY AgeBounds DEF RouterAssumption
  <2> QED
    BY <1>1, <1>2, <2>1, Below, AgeBounds DEF InTurn, Linked
<1>5. \A i \in DOMAIN requests' : Sent(i)' =>
          /\ i \in Nat /\ i + 1 \in DOMAIN requests /\ Sent(i + 1) /\ requests'[i] = requests[i + 1]
          /\ requests'[i].packet \in 1 .. packets /\ p < requests'[i].packet
  <2>1. \A i \in DOMAIN requests' : Sent(i)' =>
          i \in Nat /\ i >= 1 /\ i + 1 \in DOMAIN requests /\ Sent(i + 1) /\ requests'[i] = requests[i + 1]
    BY <1>2 DEF Sent
  <2>2. \A i \in DOMAIN requests : Sent(i) => requests[i].packet \in 1 .. packets
    BY Below
  <2>3. \A i \in DOMAIN requests : Sent(i) /\ 1 < i => p < requests[i].packet
    BY <1>1, <1>2 DEF InTurn
  <2>4. \A i \in DOMAIN requests' : Sent(i)' => 1 < i + 1
    BY <2>1
  <2> QED
    BY <2>1, <2>2, <2>3, <2>4
<1>6. /\ \A i \in DOMAIN reports : Answered(i) => reports[i].packet # p
      /\ \A r \in called : r.packet # p
  BY <1>1, <1>2 DEF Once
<1>7. u.packet = p /\ u.ptr = packet_pos
  OBVIOUS
<1> HIDE DEF p, sid, u
<1>8. Aged' /\ OwnCallback'
  BY <1>1 DEF Aged, age, OwnCallback
<1>9. \A t \in transmitting' : t \in transmitting \/ (t = u /\ transmitting' = transmitting \cup {u})
  BY <1>3
<1>10. Linked'
  <2>1. ASSUME NEW i \in DOMAIN requests', Sent(i)'
        PROVE  Named(requests[i].packet, requests[i].sid)' /\ requests'[i].packet <= packets'
    BY <1>1, <1>5, <2>1 DEF Linked, Named, Old
  <2>2. ASSUME NEW t \in transmitting' PROVE Named(t.packet, packet_ids[t.ptr])'
    <3>1. CASE t = u
      BY <1>1, <1>3, <1>4, <1>7, <3>1 DEF Named, Old
    <3>2. CASE t \in transmitting /\ t.ptr # packet_pos
      <4>1. packet_ids'[t.ptr] = packet_ids[t.ptr] /\ Named(t.packet, packet_ids[t.ptr])
        BY <1>3, <1>4, <3>2 DEF Linked
      <4> QED
        BY <1>1, <4>1 DEF Named, Old
    <3>3. CASE t \in transmitting /\ t.ptr = packet_pos
      <4>1. packets - t.packet >= RadioSlots
        <5>1. p - t.packet > RadioSlots - 1 /\ t.packet \in Nat /\ p \in Nat /\ p <= packets
          BY <1>4, <3>3
        <5> QED
          BY <1>4, <5>1
      <4> QED
        BY <1>1, <4>1 DEF Named, Old
    <3> QED
      BY <1>9, <3>1, <3>2, <3>3
  <2>3. \A i \in DOMAIN reports' : Answered(i)' =>
          Named(reports[i].packet, reports[i].sid)' /\ reports'[i].packet <= packets'
    BY <1>1 DEF Linked, Answered, Named, Old
  <2> QED
    BY <2>1, <2>2, <2>3 DEF Linked
<1>11. InTurn'
  <2>1. ASSUME NEW i \in DOMAIN requests', NEW j \in DOMAIN requests', i < j, Sent(i)', Sent(j)'
        PROVE  requests'[i].packet < requests'[j].packet
    <3>1. i \in Nat /\ j \in Nat /\ i + 1 \in DOMAIN requests /\ j + 1 \in DOMAIN requests
          /\ Sent(i + 1) /\ Sent(j + 1) /\ requests'[i] = requests[i + 1] /\ requests'[j] = requests[j + 1]
      BY <1>5, <2>1
    <3>2. i + 1 < j + 1
      BY <2>1, <3>1
    <3> QED
      BY <3>1, <3>2 DEF InTurn
  <2>2. ASSUME NEW t \in transmitting'
        PROVE  /\ turns(t.ptr)' \in Nat /\ turns(t.ptr)' <= p - t.packet
               /\ t.packet \in Nat
    <3>1. CASE UNCHANGED <<transmitting, packet_pos>>
      <4>1. t \in transmitting /\ turns(t.ptr)' = turns(t.ptr)
        BY <3>1 DEF turns
      <4>2. turns(t.ptr) \in Nat /\ p - t.packet > turns(t.ptr) /\ t.packet \in Nat /\ p \in Nat
        BY <1>4, <4>1
      <4> QED
        BY <4>1, <4>2
    <3>2. CASE transmitting' = transmitting \cup {u} /\ packet_pos' = next
      <4>1. \A r \in RadioPlaces : (turns(r))' = IF r = packet_pos THEN 0 ELSE turns(r) + 1
        BY <3>2, Turned
      <4>2. CASE t = u
        BY <1>3, <1>4, <1>7, <4>1, <4>2
      <4>3. CASE t \in transmitting
        <5>1. /\ turns(t.ptr) \in Nat /\ p - t.packet > turns(t.ptr) /\ t.packet \in Nat /\ p \in Nat
              /\ t.ptr \in RadioPlaces
          BY <1>4, <4>3
        <5>2. turns(t.ptr)' = 0 \/ turns(t.ptr)' = turns(t.ptr) + 1
          BY <4>1, <5>1
        <5> QED
          BY <5>1, <5>2
      <4> QED
        BY <1>9, <4>2, <4>3
    <3> QED
      BY <1>3, <3>1, <3>2
  <2>3. ASSUME NEW t \in transmitting'
        PROVE  /\ packets' - t.packet >= turns(t.ptr)'
               /\ \A i \in DOMAIN requests' : Sent(i)' => requests'[i].packet - t.packet > turns(t.ptr)'
    <3>1. p \in Nat /\ packets \in Nat /\ p <= packets /\ packets' = packets
      BY <1>1, <1>4
    <3>2. \A i \in DOMAIN requests' : Sent(i)' => requests'[i].packet \in Nat /\ p < requests'[i].packet
      BY <1>5
    <3> QED
      BY <2>2, <3>1, <3>2
  <2> QED
    BY <2>1, <2>3 DEF InTurn
<1>12. Once'
  <2>1. \A t \in transmitting : t.packet # p
    BY <1>4
  <2>2. \A t, v \in transmitting' : t.packet = v.packet => t = v
    BY <1>7, <1>9, <2>1 DEF Once
  <2>3. \A i \in DOMAIN reports' : Answered(i)' => /\ Answered(i) /\ i \in DOMAIN reports
                                                   /\ reports'[i] = reports[i]
    BY <1>1 DEF Answered
  <2>4. \A i \in DOMAIN reports' : Answered(i)' =>
          /\ \A j \in DOMAIN reports' : Answered(j)' /\ reports'[i].packet = reports'[j].packet => i = j
          /\ \A j \in DOMAIN requests' : Sent(j)' => reports'[i].packet # requests'[j].packet
          /\ \A t \in transmitting' : reports'[i].packet # t.packet
    BY <1>5, <1>6, <1>7, <1>9, <2>3 DEF Once
  <2>5. \A r \in called' :
          /\ r.packet <= packets'
          /\ \A j \in DOMAIN requests' : Sent(j)' => r.packet # requests'[j].packet
          /\ \A t \in transmitting' : r.packet # t.packet
          /\ \A i \in DOMAIN reports' : Answered(i)' => r.packet # reports'[i].packet
    BY <1>1, <1>5, <1>6, <1>7, <1>9, <2>3 DEF Once
  <2> QED
    BY <2>2, <2>4, <2>5 DEF Once
<1> QED
  BY <1>8, <1>10, <1>11, <1>12

-----------------------------------------------------------------------------
LEMMA Inhabited ==
    /\ [type |-> "?M"] \in ToRadio /\ [type |-> "?C"] \in ToRadio
    /\ [type |-> "!M"] \in ToHost /\ [type |-> "!C"] \in ToHost /\ [type |-> "packet"] \in ToHost
    /\ \A n \in 1 .. MaxSegments : [type |-> "!D", parts |-> n] \in ToHost
  BY DEF ToRadio, ToHost

LEMMA Longer ==
    ASSUME NEW S, NEW s \in Seq(S), NEW e \in S, NEW s1, s1 = s \/ s1 = Append(s, e)
    PROVE  s1 \in Seq(S)
  BY LineEnd

LEMMA TypedLines == IInv => requests \in Seq(ToRadio) /\ reports \in Seq(ToHost)
  BY DEF IInv, LinesTyped

LEMMA TypingHost ==
    ASSUME RouterAssumption, IInv,
           \/ second_passed \/ delay_passed \/ border_router_set_mac \/ packet_sent
           \/ border_router_set_sensors \/ channel_report \/ packet_input \/ console_command \/ sigcleanup
    PROVE  TypeOK' /\ LinesTyped'
<1> USE DEF IInv, rdc, firmware, host
<1>1. CASE second_passed
  <2>1. requests' = requests \/ requests' = Append(requests, [type |-> "?M"])
    BY <1>1 DEF second_passed, request_mac
  <2>2. /\ UNCHANGED <<mac_set, delaymsec, sensor_count, channel, rdc, reports, firmware, commands>>
        /\ pc' \in {"asking", "running", "exited"} /\ prefix_set' \in BOOLEAN /\ addressed' \in BOOLEAN
    BY <1>1 DEF second_passed, set_prefix_64, TypeOK
  <2>3. TypeOK'
    BY <2>2 DEF TypeOK
  <2>4. LinesTyped'
    <3>1. requests' \in Seq(ToRadio)
      BY <2>1, Inhabited, Longer, TypedLines
    <3> QED
      BY <2>2, <3>1 DEF LinesTyped
  <2> QED
    BY <2>3, <2>4
<1>2. CASE delay_passed
  BY <1>2 DEF delay_passed, TypeOK, LinesTyped
<1>3. CASE border_router_set_mac
  <2>1. /\ reports # <<>> /\ reports' = Tail(reports) /\ mac_set' = TRUE /\ addressed' = FALSE
        /\ UNCHANGED <<pc, prefix_set, delaymsec, sensor_count, channel, rdc, requests, firmware, commands>>
    BY <1>3 DEF border_router_set_mac, FromRadio
  <2>2. TypeOK'
    BY <2>1 DEF TypeOK
  <2>3. LinesTyped'
    BY <2>1, HeadTailProperties DEF LinesTyped
  <2> QED
    BY <2>2, <2>3
<1>4. CASE packet_sent
  <2>1. /\ reports # <<>> /\ reports' = Tail(reports) /\ Answered(1)
        /\ UNCHANGED <<host, callbacks, callback_pos, packets, requests, firmware, commands>>
    BY <1>4 DEF packet_sent, FromRadio, Answered
  <2>2. TypeOK'
    BY <2>1 DEF TypeOK
  <2>3. 1 \in DOMAIN reports /\ Head(reports) = reports[1]
    BY <2>1, LineHead DEF LinesTyped
  <2>4. Report(Head(reports).packet, callbacks[Head(reports).sid])
          \in [packet : Numbers, ptr : 0 .. MaxPackets, sent : 0 .. MaxPackets]
    <3>1. Head(reports).packet \in 1 .. packets /\ callbacks[Head(reports).sid] \in 0 .. MaxPackets
          /\ packets \in 0 .. MaxPackets /\ packets' = packets /\ MaxPackets \in Nat
      BY <2>1, <2>3, Below DEF TypeOK, RouterAssumption
    <3> QED
      BY <3>1 DEF Report
  <2>5. called' \subseteq called \cup {Report(Head(reports).packet, callbacks[Head(reports).sid])}
    BY <1>4 DEF packet_sent
  <2>6. reports' \in Seq(ToHost)
    BY <2>1, HeadTailProperties DEF LinesTyped
  <2> HIDE DEF host
  <2>7. LinesTyped'
    BY <2>1, <2>4, <2>5, <2>6 DEF LinesTyped
  <2> QED
    BY <2>2, <2>7
<1>5. CASE border_router_set_sensors
  <2>1. /\ reports # <<>> /\ reports' = Tail(reports) /\ Head(reports).type = "!D"
        /\ UNCHANGED <<pc, mac_set, prefix_set, addressed, delaymsec, channel, rdc, requests, firmware, commands>>
        /\ sensor_count' = IF Head(reports).parts > MAX_SENSORS THEN MAX_SENSORS ELSE Head(reports).parts
    BY <1>5 DEF border_router_set_sensors, FromRadio
  <2>2. Head(reports) \in ToHost /\ reports' \in Seq(ToHost)
    BY <2>1, HeadTailProperties DEF LinesTyped
  <2>3. Head(reports).parts \in 1 .. MaxSegments /\ MaxSegments \in Nat /\ MAX_SENSORS \in Nat
    BY <2>1, <2>2 DEF ToHost, RouterAssumption
  <2>4. sensor_count' \in 0 .. MAX_SENSORS
    BY <2>1, <2>3
  <2>5. TypeOK'
    BY <2>1, <2>4 DEF TypeOK
  <2>6. LinesTyped'
    BY <2>1, <2>2 DEF LinesTyped
  <2> QED
    BY <2>5, <2>6
<1>6. CASE channel_report \/ packet_input
  <2>1. /\ reports # <<>> /\ reports' = Tail(reports) /\ channel' \in {channel, "told"}
        /\ UNCHANGED <<pc, mac_set, prefix_set, addressed, delaymsec, sensor_count, rdc, requests, firmware, commands>>
    BY <1>6 DEF channel_report, packet_input, FromRadio
  <2>2. TypeOK'
    BY <2>1 DEF TypeOK
  <2>3. LinesTyped'
    BY <2>1, HeadTailProperties DEF LinesTyped
  <2> QED
    BY <2>2, <2>3
<1>7. CASE console_command
  <2>1. /\ commands < MaxCommands /\ commands' = commands + 1 /\ requests' = Append(requests, [type |-> "?C"])
        /\ UNCHANGED <<host, rdc, reports, firmware>>
    BY <1>7 DEF console_command, Command
  <2>2. TypeOK'
    BY <2>1 DEF TypeOK, RouterAssumption
  <2>3. LinesTyped'
    BY <2>1, Inhabited, AppendProperties DEF LinesTyped
  <2> QED
    BY <2>2, <2>3
<1>8. CASE sigcleanup
  BY <1>8 DEF sigcleanup, TypeOK, LinesTyped
<1> QED
  BY <1>1, <1>2, <1>3, <1>4, <1>5, <1>6, <1>7, <1>8

LEMMA TypingSend ==
    ASSUME RouterAssumption, IInv, NEW from_tun \in BOOLEAN, send_packet(from_tun)
    PROVE  TypeOK' /\ LinesTyped'
<1> USE DEF IInv
<1>1. /\ packets < MaxPackets /\ packets' = packets + 1 /\ packets' \in 1 .. MaxPackets /\ packets' \in 0 .. MaxPackets
      /\ delaymsec' \in BOOLEAN /\ callback_pos \in Places /\ DOMAIN callbacks = Places
      /\ UNCHANGED <<pc, mac_set, prefix_set, addressed, sensor_count, channel, reports, firmware, commands>>
  BY DEF send_packet, TypeOK, RouterAssumption
<1>2. /\ callbacks' \in [Places -> 0 .. MaxPackets] /\ callback_pos' \in Places
      /\ requests' \in Seq(ToRadio)
      /\ called' \subseteq [packet : Numbers, ptr : 0 .. MaxPackets, sent : 0 .. MaxPackets]
  <2>1. CASE too_large
    <3>1. called' = called \cup {Report(packets', packets')} /\ UNCHANGED <<callbacks, callback_pos, requests>>
      BY <2>1 DEF too_large
    <3>2. Report(packets', packets') \in [packet : Numbers, ptr : 0 .. MaxPackets, sent : 0 .. MaxPackets]
      BY <1>1 DEF Report
    <3>3. callbacks \in [Places -> 0 .. MaxPackets] /\ requests \in Seq(ToRadio)
          /\ called \subseteq [packet : Numbers, ptr : 0 .. MaxPackets, sent : 0 .. MaxPackets]
      BY DEF TypeOK, LinesTyped
    <3> QED
      BY <1>1, <3>1, <3>2, <3>3
  <2>2. CASE /\ setup_callback /\ UNCHANGED called
             /\ requests' = Append(requests, [type |-> "!S", sid |-> callback_pos, packet |-> packets'])
    <3>1. [type |-> "!S", sid |-> callback_pos, packet |-> packets'] \in ToRadio
      BY <1>1 DEF ToRadio
    <3>2. requests' \in Seq(ToRadio)
      BY <2>2, <3>1, AppendProperties DEF LinesTyped
    <3>3. callbacks' \in [Places -> 0 .. MaxPackets] /\ callback_pos' \in Places
      BY <1>1, <2>2 DEF setup_callback, TypeOK, RouterAssumption
    <3> QED
      BY <2>2, <3>2, <3>3 DEF LinesTyped
  <2> QED
    BY <2>1, <2>2 DEF send_packet
<1>3. TypeOK'
  BY <1>1, <1>2 DEF TypeOK, firmware
<1>4. LinesTyped'
  BY <1>1, <1>2 DEF LinesTyped, firmware
<1> QED
  BY <1>3, <1>4

LEMMA TypingRadio ==
    ASSUME RouterAssumption, IInv,
           \/ radio_send \/ radio_mac \/ radio_channel \/ (\E t \in transmitting : radio_packet_sent(t))
           \/ radio_starts \/ radio_reports \/ nobody_listens
    PROVE  TypeOK' /\ LinesTyped'
<1> USE DEF IInv, rdc, firmware, host
<1>1. CASE radio_send
  <2>1. /\ requests # <<>> /\ requests' = Tail(requests) /\ Sent(1)
        /\ UNCHANGED <<host, rdc, radio, commands, reports>>
        /\ packet_ids' = [packet_ids EXCEPT ![packet_pos] = Head(requests).sid]
        /\ \/ UNCHANGED <<transmitting, packet_pos>>
           \/ /\ transmitting' = transmitting \cup {[packet |-> Head(requests).packet, ptr |-> packet_pos]}
              /\ packet_pos' = IF packet_pos + 1 >= RadioSlots THEN 0 ELSE packet_pos + 1
    BY <1>1 DEF radio_send, Received, Sent
  <2>2. 1 \in DOMAIN requests /\ Head(requests) = requests[1] /\ requests' \in Seq(ToRadio)
    BY <2>1, LineHead DEF LinesTyped
  <2>3. Head(requests).packet \in Numbers /\ Head(requests).sid \in Places
    <3>1. Head(requests).packet \in 1 .. packets /\ Head(requests).sid \in Places
          /\ packets \in 0 .. MaxPackets /\ MaxPackets \in Nat
      BY <2>1, <2>2, Below DEF TypeOK, RouterAssumption
    <3> QED
      BY <3>1
  <2>4. /\ packet_pos \in RadioPlaces /\ packet_ids \in [RadioPlaces -> Places] /\ RadioSlots \in Nat \ {0}
        /\ DOMAIN callbacks = Places /\ DOMAIN packet_ids = RadioPlaces
    BY DEF TypeOK, RouterAssumption
  <2>5. packet_ids' \in [RadioPlaces -> Places] /\ packet_pos' \in RadioPlaces
    BY <2>1, <2>3, <2>4
  <2>6. transmitting' \subseteq [packet : Numbers, ptr : RadioPlaces]
    BY <2>1, <2>3, <2>4 DEF LinesTyped
  <2>7. TypeOK'
    BY <2>1, <2>4, <2>5 DEF TypeOK
  <2>8. LinesTyped'
    BY <2>1, <2>2, <2>6 DEF LinesTyped
  <2> QED
    BY <2>7, <2>8
<1>2. CASE radio_mac \/ radio_channel
  <2>1. /\ requests # <<>> /\ requests' = Tail(requests)
        /\ reports' = Append(reports, [type |-> "!M"]) \/ reports' = Append(reports, [type |-> "!C"])
        /\ UNCHANGED <<host, rdc, radio, packet_ids, packet_pos, transmitting, commands>>
    BY <1>2 DEF radio_mac, radio_channel, Received
  <2>2. TypeOK'
    BY <2>1 DEF TypeOK
  <2>3. requests' \in Seq(ToRadio)
    BY <2>1, HeadTailProperties DEF LinesTyped
  <2>4. reports' \in Seq(ToHost)
    <3>1. CASE reports' = Append(reports, [type |-> "!M"])
      BY <3>1, Inhabited, Longer, TypedLines
    <3>2. CASE reports' = Append(reports, [type |-> "!C"])
      BY <3>2, Inhabited, Longer, TypedLines
    <3> QED
      BY <2>1, <3>1, <3>2
  <2>5. LinesTyped'
    BY <2>1, <2>3, <2>4 DEF LinesTyped
  <2> QED
    BY <2>2, <2>5
<1>3. ASSUME NEW t \in transmitting, radio_packet_sent(t)
      PROVE  TypeOK' /\ LinesTyped'
  <2>1. /\ transmitting' = transmitting \ {t}
        /\ reports' = Append(reports, [type |-> "!R", sid |-> packet_ids[t.ptr], packet |-> t.packet])
        /\ UNCHANGED <<host, rdc, requests, radio, packet_ids, packet_pos, commands>>
    BY <1>3 DEF radio_packet_sent
  <2>2. [type |-> "!R", sid |-> packet_ids[t.ptr], packet |-> t.packet] \in ToHost
    <3>1. t.packet \in Numbers /\ packet_ids[t.ptr] \in Places
      BY Below DEF LinesTyped
    <3> QED
      BY <3>1 DEF ToHost
  <2>3. reports' \in Seq(ToHost)
    BY <2>1, <2>2, AppendProperties DEF LinesTyped
  <2>4. TypeOK'
    BY <2>1 DEF TypeOK
  <2>5. LinesTyped'
    BY <2>1, <2>3 DEF LinesTyped
  <2> QED
    BY <2>4, <2>5
<1>4. CASE radio_starts
  <2>1. /\ commands < MaxCommands /\ commands' = commands + 1 /\ radio' = TRUE /\ packet_pos' = 0
        /\ transmitting' = {} /\ packet_ids' = [i \in RadioPlaces |-> 0]
        /\ UNCHANGED <<host, rdc, requests, reports>>
    BY <1>4 DEF radio_starts, Command
  <2>2. 0 \in RadioPlaces /\ 0 \in Places
    BY DEF RouterAssumption
  <2>3. TypeOK'
    BY <2>1, <2>2 DEF TypeOK, RouterAssumption
  <2>4. LinesTyped'
    BY <2>1 DEF LinesTyped
  <2> QED
    BY <2>3, <2>4
<1>5. CASE radio_reports
  <2>1. /\ commands < MaxCommands /\ commands' = commands + 1
        /\ \/ \E n \in 1 .. MaxSegments : reports' = Append(reports, [type |-> "!D", parts |-> n])
           \/ reports' = Append(reports, [type |-> "packet"])
        /\ UNCHANGED <<host, rdc, requests, firmware>>
    BY <1>5 DEF radio_reports, Command
  <2>2. TypeOK'
    BY <2>1 DEF TypeOK, RouterAssumption
  <2>3. reports' \in Seq(ToHost)
    <3>1. ASSUME NEW n \in 1 .. MaxSegments, reports' = Append(reports, [type |-> "!D", parts |-> n])
          PROVE  reports' \in Seq(ToHost)
      BY <3>1, Inhabited, Longer, TypedLines
    <3>2. CASE reports' = Append(reports, [type |-> "packet"])
      BY <3>2, Inhabited, Longer, TypedLines
    <3> QED
      BY <2>1, <3>1, <3>2
  <2>4. LinesTyped'
    BY <2>1, <2>3 DEF LinesTyped
  <2> QED
    BY <2>2, <2>4
<1>6. CASE nobody_listens
  <2>1. /\ requests # <<>> /\ requests' = Tail(requests)
        /\ UNCHANGED <<host, rdc, reports, firmware, commands>>
    BY <1>6 DEF nobody_listens
  <2>2. TypeOK'
    BY <2>1 DEF TypeOK
  <2>3. LinesTyped'
    BY <2>1, HeadTailProperties DEF LinesTyped
  <2> QED
    BY <2>2, <2>3
<1> QED
  BY <1>1, <1>2, <1>3, <1>4, <1>5, <1>6

LEMMA NextIInv == ASSUME RouterAssumption, IInv, [Next]_vars PROVE IInv'
<1>1. CASE UNCHANGED vars
  <2>1. TypeOK' /\ LinesTyped'
    BY <1>1 DEF IInv, vars, host, rdc, firmware, TypeOK, LinesTyped
  <2>2. Tracked'
    BY <1>1, SilentStep DEF vars, host, rdc, firmware
  <2> QED
    BY <2>1, <2>2 DEF IInv
<1>2. ASSUME NEW from_tun \in BOOLEAN, send_packet(from_tun)
      PROVE  IInv'
  <2>1. TypeOK' /\ LinesTyped'
    BY <1>2, TypingSend
  <2>2. CASE too_large
    <3>1. packets' = packets + 1 /\ UNCHANGED <<firmware, reports>>
      BY <1>2 DEF send_packet
    <3>2. Tracked'
      BY <2>2, <3>1, TooLarge
    <3> QED
      BY <2>1, <3>2 DEF IInv
  <2>3. CASE ~too_large
    <3>1. SendPacket
      BY <1>2, <2>3 DEF send_packet, SendPacket
    <3>2. Tracked'
      BY <3>1, SetUp
    <3> QED
      BY <2>1, <3>2 DEF IInv
  <2> QED
    BY <2>2, <2>3
<1>3. CASE packet_sent
  BY <1>3, TypingHost, PacketSent DEF IInv
<1>4. CASE radio_send
  BY <1>4, TypingRadio, RadioSend DEF IInv
<1>5. ASSUME NEW t \in transmitting, radio_packet_sent(t)
      PROVE  IInv'
  BY <1>5, TypingRadio, RadioPacketSent DEF IInv
<1>6. CASE \/ second_passed \/ delay_passed \/ border_router_set_mac
           \/ border_router_set_sensors \/ channel_report \/ packet_input \/ console_command \/ sigcleanup
  <2>1. TypeOK' /\ LinesTyped'
    BY <1>6, TypingHost
  <2>2. /\ UNCHANGED <<rdc, firmware>>
        /\ \/ UNCHANGED requests
           \/ requests' = Append(requests, [type |-> "?M"])
           \/ requests' = Append(requests, [type |-> "?C"])
        /\ UNCHANGED reports \/ (reports # <<>> /\ reports' = Tail(reports))
    BY <1>6 DEF second_passed, request_mac, delay_passed, border_router_set_mac, border_router_set_sensors,
                channel_report, packet_input, console_command, sigcleanup, FromRadio
  <2>3. \/ UNCHANGED requests
        \/ \E m \in ToRadio : m.type # "!S" /\ requests' = Append(requests, m)
    BY <2>2, Inhabited
  <2>4. Tracked'
    BY <2>2, <2>3, SilentStep DEF firmware
  <2> QED
    BY <2>1, <2>4 DEF IInv
<1>7. CASE radio_mac \/ radio_channel \/ radio_starts \/ radio_reports \/ nobody_listens
  <2>1. TypeOK' /\ LinesTyped'
    BY <1>7, TypingRadio
  <2>2. /\ UNCHANGED rdc
        /\ (transmitting' \subseteq transmitting /\ UNCHANGED <<packet_ids, packet_pos>>) \/ transmitting' = {}
        /\ UNCHANGED requests \/ (requests # <<>> /\ requests' = Tail(requests))
    BY <1>7 DEF radio_mac, radio_channel, radio_starts, radio_reports, nobody_listens, Received, firmware
  <2>3. \/ UNCHANGED reports
        \/ \E m \in ToHost : m.type # "!R" /\ reports' = Append(reports, m)
    <3>1. \/ UNCHANGED reports
          \/ reports' = Append(reports, [type |-> "!M"])
          \/ reports' = Append(reports, [type |-> "!C"])
          \/ \E n \in 1 .. MaxSegments : reports' = Append(reports, [type |-> "!D", parts |-> n])
          \/ reports' = Append(reports, [type |-> "packet"])
      BY <1>7 DEF radio_mac, radio_channel, radio_starts, radio_reports, nobody_listens
    <3> QED
      BY <3>1, Inhabited
  <2>4. Tracked'
    BY <2>2, <2>3, SilentStep
  <2> QED
    BY <2>1, <2>4 DEF IInv
<1> QED
  BY <1>1, <1>2, <1>3, <1>4, <1>5, <1>6, <1>7 DEF Next, Host, Radio

LEMMA Invariance == ASSUME RouterAssumption PROVE Spec => []IInv
<1>1. Init => IInv
  BY InitIInv
<1>2. IInv /\ [Next]_vars => IInv'
  BY NextIInv
<1> QED
  BY <1>1, <1>2, PTL DEF Spec

(* Every variable of both programs has its type; the report of the sensors *)
(* never exceeds MAX_SENSORS.                                              *)
THEOREM RouterTypeCorrect == ASSUME RouterAssumption PROVE Spec => []TypeOK
<1>1. IInv => TypeOK
  BY DEF IInv
<1> QED
  BY <1>1, Invariance, PTL

(* The report of a packet calls the callback of that packet, once, as long *)
(* as fewer packets were sent after it than the host and the radio have    *)
(* places for (packet_sent of border-router-rdc.c and slip-radio.c).       *)
THEOREM CallbackIsOwn == ASSUME RouterAssumption PROVE Spec => []OwnCallback
<1>1. IInv => OwnCallback
  BY DEF IInv, Tracked
<1> QED
  BY <1>1, Invariance, PTL

-----------------------------------------------------------------------------
(* Once the prefix is set no request for the address, and no answer to     *)
(* one, is under way.                                                      *)
Settled == Prompt => (prefix_set => addressed /\ pc # "asking" /\ Unanswered)

LEMMA Quiet ==
    ASSUME NEW S, NEW s \in Seq(S), NEW type, \A i \in DOMAIN s : s[i].type # type
    PROVE  /\ s # <<>> => \A i \in DOMAIN Tail(s) : Tail(s)[i].type # type
           /\ \A e \in S : e.type # type => \A i \in DOMAIN Append(s, e) : Append(s, e)[i].type # type
<1>1. ASSUME s # <<>>, NEW i \in DOMAIN Tail(s) PROVE Tail(s)[i].type # type
  BY <1>1, LineHead
<1>2. ASSUME NEW e \in S, e.type # type, NEW i \in DOMAIN Append(s, e) PROVE Append(s, e)[i].type # type
  BY <1>2, LineEnd
<1> QED
  BY <1>1, <1>2

Unasked == (\A i \in DOMAIN requests : requests[i].type # "?M") /\ (\A i \in DOMAIN reports : reports[i].type # "!M")

LEMMA StaysQuiet ==
    ASSUME IInv, Unanswered,
           \/ UNCHANGED requests
           \/ requests # <<>> /\ requests' = Tail(requests)
           \/ \E m \in ToRadio : m.type # "?M" /\ requests' = Append(requests, m),
           \/ UNCHANGED reports
           \/ reports # <<>> /\ reports' = Tail(reports)
           \/ \E n \in ToHost : n.type # "!M" /\ reports' = Append(reports, n)
    PROVE  Unanswered'
<1>1. Unasked
  BY DEF Unanswered, Unasked
<1>2. /\ requests # <<>> => \A i \in DOMAIN Tail(requests) : Tail(requests)[i].type # "?M"
      /\ \A m \in ToRadio : m.type # "?M" => \A i \in DOMAIN Append(requests, m) : Append(requests, m)[i].type # "?M"
  <2>1. requests \in Seq(ToRadio) /\ \A i \in DOMAIN requests : requests[i].type # "?M"
    BY <1>1, TypedLines DEF Unasked
  <2> QED
    BY <2>1, Quiet
<1>3. /\ reports # <<>> => \A i \in DOMAIN Tail(reports) : Tail(reports)[i].type # "!M"
      /\ \A n \in ToHost : n.type # "!M" => \A i \in DOMAIN Append(reports, n) : Append(reports, n)[i].type # "!M"
  <2>1. reports \in Seq(ToHost) /\ \A i \in DOMAIN reports : reports[i].type # "!M"
    BY <1>1, TypedLines DEF Unasked
  <2> QED
    BY <2>1, Quiet
<1>4. \A i \in DOMAIN requests' : requests'[i].type # "?M"
  <2>1. CASE UNCHANGED requests
    BY <1>1, <2>1 DEF Unasked
  <2>2. CASE requests # <<>> /\ requests' = Tail(requests)
    BY <1>2, <2>2
  <2>3. CASE \E m \in ToRadio : m.type # "?M" /\ requests' = Append(requests, m)
    BY <1>2, <2>3
  <2> QED
    BY <2>1, <2>2, <2>3
<1>5. \A i \in DOMAIN reports' : reports'[i].type # "!M"
  <2>1. CASE UNCHANGED reports
    BY <1>1, <2>1 DEF Unasked
  <2>2. CASE reports # <<>> /\ reports' = Tail(reports)
    BY <1>3, <2>2
  <2>3. CASE \E n \in ToHost : n.type # "!M" /\ reports' = Append(reports, n)
    BY <1>3, <2>3
  <2> QED
    BY <2>1, <2>2, <2>3
<1> QED
  BY <1>4, <1>5 DEF Unanswered

LEMMA SettledStutter == Settled /\ UNCHANGED vars => Settled'
  BY DEF Settled, Unanswered, vars, host

LEMMA SettledStep == ASSUME RouterAssumption, IInv, Settled, Next PROVE Settled'
<1> SUFFICES ASSUME Prompt, prefix_set' PROVE addressed' /\ pc' # "asking" /\ Unanswered'
  BY DEF Settled
<1> USE DEF Settled
<1>1. ASSUME NEW from_tun \in BOOLEAN, send_packet(from_tun)
      PROVE  addressed' /\ pc' # "asking" /\ Unanswered'
  <2>1. UNCHANGED <<prefix_set, addressed, pc, reports>>
    BY <1>1 DEF send_packet
  <2>2. \/ UNCHANGED requests
        \/ \E m \in ToRadio : m.type # "?M" /\ requests' = Append(requests, m)
    <3>1. CASE too_large
      BY <3>1 DEF too_large
    <3>2. CASE ~too_large
      <4>1. requests' = Append(requests, [type |-> "!S", sid |-> callback_pos, packet |-> packets'])
        BY <1>1, <3>2 DEF send_packet
      <4>2. callback_pos \in Places /\ packets' \in Numbers
        BY <1>1 DEF send_packet, IInv, TypeOK, RouterAssumption
      <4>3. [type |-> "!S", sid |-> callback_pos, packet |-> packets'] \in ToRadio
        BY <4>2 DEF ToRadio
      <4> QED
        BY <4>1, <4>3
    <3> QED
      BY <3>1, <3>2
  <2> QED
    BY <2>1, <2>2, StaysQuiet
<1>2. CASE second_passed
  <2>1. /\ pc = "asking" /\ Unanswered /\ UNCHANGED reports
        /\ mac_set => set_prefix_64 /\ UNCHANGED requests
        /\ ~mac_set => UNCHANGED prefix_set
    BY <1>2 DEF second_passed, request_mac
  <2>2. ~prefix_set
    BY <2>1
  <2>3. set_prefix_64 /\ UNCHANGED requests /\ Unanswered'
    BY <2>1, <2>2, StaysQuiet
  <2>4. CASE pc' = "running" /\ addressed' = TRUE
    BY <2>3, <2>4
  <2>5. CASE UNCHANGED prefix_set
    BY <2>2, <2>5, Zenon
  <2> QED
    BY <2>3, <2>4, <2>5, Zenon DEF set_prefix_64
<1>3. CASE border_router_set_mac
  <2>1. reports # <<>> /\ Head(reports).type = "!M" /\ UNCHANGED prefix_set
    BY <1>3 DEF border_router_set_mac, FromRadio
  <2>2. 1 \in DOMAIN reports /\ Head(reports) = reports[1]
    BY <2>1, LineHead, TypedLines
  <2> QED
    BY <2>1, <2>2 DEF Unanswered
<1>4. CASE radio_mac
  <2>1. requests # <<>> /\ Head(requests).type = "?M" /\ UNCHANGED prefix_set
    BY <1>4 DEF radio_mac, Received, host
  <2>2. 1 \in DOMAIN requests /\ Head(requests) = requests[1]
    BY <2>1, LineHead, TypedLines
  <2> QED
    BY <2>1, <2>2 DEF Unanswered
<1>5. CASE \/ delay_passed \/ packet_sent \/ border_router_set_sensors \/ channel_report \/ packet_input
           \/ console_command \/ sigcleanup
  <2>1. /\ UNCHANGED <<prefix_set, addressed>> /\ pc' \in {pc, "exited"}
        /\ UNCHANGED requests \/ requests' = Append(requests, [type |-> "?C"])
        /\ UNCHANGED reports \/ (reports # <<>> /\ reports' = Tail(reports))
    BY <1>5 DEF delay_passed, packet_sent, border_router_set_sensors, channel_report, packet_input,
                console_command, sigcleanup, FromRadio, host
  <2>2. \/ UNCHANGED requests
        \/ \E m \in ToRadio : m.type # "?M" /\ requests' = Append(requests, m)
    BY <2>1, Inhabited
  <2> QED
    BY <2>1, <2>2, StaysQuiet
<1>6. CASE radio_send \/ radio_channel \/ radio_starts \/ nobody_listens
  <2>1. /\ UNCHANGED <<prefix_set, addressed, pc>>
        /\ UNCHANGED requests \/ (requests # <<>> /\ requests' = Tail(requests))
        /\ UNCHANGED reports \/ reports' = Append(reports, [type |-> "!C"])
    BY <1>6 DEF radio_send, radio_channel, radio_starts, nobody_listens, Received, host
  <2>2. \/ UNCHANGED reports
        \/ \E n \in ToHost : n.type # "!M" /\ reports' = Append(reports, n)
    BY <2>1, Inhabited
  <2> QED
    BY <2>1, <2>2, StaysQuiet
<1>7. ASSUME NEW t \in transmitting, radio_packet_sent(t)
      PROVE  addressed' /\ pc' # "asking" /\ Unanswered'
  <2>1. /\ UNCHANGED <<prefix_set, addressed, pc, requests>>
        /\ reports' = Append(reports, [type |-> "!R", sid |-> packet_ids[t.ptr], packet |-> t.packet])
    BY <1>7 DEF radio_packet_sent, host
  <2>2. [type |-> "!R", sid |-> packet_ids[t.ptr], packet |-> t.packet] \in ToHost
    <3>1. t.packet \in Numbers /\ packet_ids[t.ptr] \in Places
      BY Below DEF IInv, LinesTyped
    <3> QED
      BY <3>1 DEF ToHost
  <2>3. \E n \in ToHost : n.type # "!M" /\ reports' = Append(reports, n)
    BY <2>1, <2>2
  <2> QED
    BY <2>1, <2>3, StaysQuiet
<1>8. CASE radio_reports
  <2>1. /\ UNCHANGED <<prefix_set, addressed, pc, requests>>
        /\ \/ \E n \in 1 .. MaxSegments : reports' = Append(reports, [type |-> "!D", parts |-> n])
           \/ reports' = Append(reports, [type |-> "packet"])
    BY <1>8 DEF radio_reports, host
  <2>2. \E n \in ToHost : n.type # "!M" /\ reports' = Append(reports, n)
    BY <2>1, Inhabited
  <2> QED
    BY <2>1, <2>2, StaysQuiet
<1> QED
  BY <1>1, <1>2, <1>3, <1>4, <1>5, <1>6, <1>7, <1>8 DEF Next, Host, Radio

(* While the radio answers each request within the second, no answer       *)
(* starts the addresses anew once the host has its prefix                  *)
(* (border_router_set_mac, set_prefix_64).                                 *)
THEOREM AddressIsKept == ASSUME RouterAssumption PROVE Spec => []AddressKept
<1>1. Init => Settled
  BY DEF Init, Settled
<1>2. IInv /\ Settled /\ [Next]_vars => Settled'
  BY SettledStep, SettledStutter
<1>3. Settled => AddressKept
  BY DEF Settled, AddressKept
<1> QED
  BY <1>1, <1>2, <1>3, Invariance, PTL DEF Spec
=============================================================================
