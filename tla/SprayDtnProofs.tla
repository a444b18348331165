--------------------------- MODULE SprayDtnProofs ---------------------------
(***************************************************************************)
(* Theorems about spray and wait for any number of nodes, messages and     *)
(* buffers: how copies are counted, that no item is queued twice, that the *)
(* last copy of an undelivered message is kept and goes on being sprayed.  *)
(***************************************************************************)
EXTENDS SprayDtn, FiniteSetTheorems, TLAPS

(* A used buffer holds a message that was sent.                            *)
Filled == \A n \in Nodes, s \in Slots : ptr[n][s] # "free" => slot[n][s].msg \in sent

(* Only sent messages are sprayed, a hand-off carries at least one copy,   *)
(* and the destination of a message requests it when it has it.            *)
Truthful ==
    \A p \in net :
        /\ p.type = "spray" => p.msg \in sent
        /\ p.type = "handoff" => p.copies > 0
        /\ p.type = "request" /\ p.from = Dest[p.msg] => p.msg \in delivered

(* A hand-off in progress has a message, copies and a receiver.            *)
Engaged ==
    \A n \in Nodes : handoff_qb[n] # 0 =>
        /\ handoff_hdr[n] \in Messages /\ runicast[n].to \in Nodes
        /\ runicast[n].copies > 0

IInv == /\ TypeOK /\ Filled /\ Truthful /\ Engaged
        /\ OneItem /\ LastCopyKept /\ SprayScheduled
-----------------------------------------------------------------------------
LEMMA PacketFields ==
    ASSUME NEW p \in Packets
    PROVE  /\ p.type \in {"spray", "request", "handoff", "ack"}
           /\ p.to \in Nodes /\ p.from \in Nodes
           /\ p.type # "ack" => p.msg \in Messages
           /\ p.type \in {"spray", "handoff"} => p.copies \in Copies
           /\ p.type \in {"handoff", "ack"} => p.seq \in 0 .. MaxHandoffs
  BY DEF Packets, Spray, Request, HandOff, Ack

LEMMA NewPackets ==
    /\ \A n, k \in Nodes, m \in Messages : Request(n, k, m) \in Packets
    /\ \A n, k \in Nodes, m \in Messages, l \in Copies : Spray(n, k, m, l) \in Packets
    /\ \A n, k \in Nodes, m \in Messages, l \in Copies, seq \in 0 .. MaxHandoffs :
           HandOff(n, k, m, l, seq) \in Packets
    /\ \A n, k \in Nodes, seq \in 0 .. MaxHandoffs : Ack(n, k, seq) \in Packets
  BY DEF Packets

(* What a node counts after a request, a hand-off or its end.              *)
LEMMA Halves ==
    ASSUME NEW l \in Copies
    PROVE  /\ keepHalf(l) \in Copies /\ (l > 0 => keepHalf(l) > 0)
           /\ giveHalf(l) \in Copies /\ (l > 1 => giveHalf(l) > 0)
           /\ \A k \in Copies : addCopies(l, k) \in Copies /\ (k > 0 => addCopies(l, k) > 0)
  <1>. USE DtnAssumption
  <1>1. keepHalf(l) \in Copies /\ (l > 0 => keepHalf(l) > 0)
    BY DEF keepHalf, Copies
  <1>2. giveHalf(l) \in Copies /\ (l > 1 => giveHalf(l) > 0)
    BY DEF giveHalf, Copies
  <1>3. \A k \in Copies : addCopies(l, k) \in Copies /\ (k > 0 => addCopies(l, k) > 0)
    BY DEF addCopies, Copies
  <1>. QED BY <1>1, <1>2, <1>3

(* The packets of dtn_queue_spray().                                       *)
sprays(n) ==
    {Spray(n, k, slot'[n][s].msg, slot'[n][s].copies) :
        k \in Nodes \ {n},
        s \in {t \in Slots : ptr'[n][t] = "ready" /\ slot'[n][t].copies # 0}}

LEMMA SprayedAreSent ==
    ASSUME NEW n \in Nodes, sent' \subseteq Messages, Filled',
           slot' \in [Nodes -> [Slots -> [msg : Messages \cup {None}, copies : Copies]]],
           NEW p \in sprays(n)
    PROVE  p \in Packets /\ p.type = "spray" /\ p.msg \in sent'
  <1>1. PICK k \in Nodes \ {n}, s \in Slots :
            /\ p = Spray(n, k, slot'[n][s].msg, slot'[n][s].copies)
            /\ ptr'[n][s] = "ready"
    BY DEF sprays
  <1>2. slot'[n][s].msg \in sent' /\ slot'[n][s].copies \in Copies
    BY <1>1 DEF Filled
  <1>3. p \in Packets
    BY <1>1, <1>2, NewPackets
  <1>4. p.type = "spray" /\ p.msg \in sent'
    BY <1>1, <1>2 DEF Spray
  <1>. QED BY <1>3, <1>4

THEOREM Initially == Init => IInv
  <1>. USE DtnAssumption DEF Init, Idle
  <1>1. Init => TypeOK
    BY DEF TypeOK, Copies
  <1>2. Init => Filled /\ Truthful /\ Engaged
    BY DEF Filled, Truthful, Engaged
  <1>3. Init => OneItem /\ LastCopyKept /\ SprayScheduled
    BY DEF OneItem, LastCopyKept, SprayScheduled, Used
  <1>. QED BY <1>1, <1>2, <1>3 DEF IInv
-----------------------------------------------------------------------------
(* What enqueue() does to the buffers of n, and that it repeats no message. *)
LEMMA EnqueueEffect ==
    ASSUME IInv, NEW n \in Nodes, NEW m \in Messages, NEW copies \in Copies,
           NEW state \in {"pending", "ready"}, enqueue(n, m, copies, state),
           dtn_queue_find(n, m) = {}
    PROVE  /\ slot' \in [Nodes -> [Slots -> [msg : Messages \cup {None}, copies : Copies]]]
           /\ ptr' \in [Nodes -> [Slots -> {"free", "pending", "ready"}]]
           /\ \A k \in Nodes, t \in Slots :
                  \/ /\ k = n /\ ptr'[k][t] = state
                     /\ slot'[k][t].msg = m /\ slot'[k][t].copies = copies
                  \/ /\ slot'[k][t].msg = slot[k][t].msg
                     /\ slot'[k][t].copies = slot[k][t].copies
                     /\ ptr'[k][t] = ptr[k][t]
           /\ OneItem'
  <1>1. PICK s \in Slots \ Used(n) :
            /\ slot' = [slot EXCEPT ![n][s] = [msg |-> m, copies |-> copies]]
            /\ ptr' = [ptr EXCEPT ![n][s] = state]
    BY DEF enqueue
  <1>2. /\ slot' \in [Nodes -> [Slots -> [msg : Messages \cup {None}, copies : Copies]]]
        /\ ptr' \in [Nodes -> [Slots -> {"free", "pending", "ready"}]]
    BY <1>1 DEF IInv, TypeOK
  <1>3. /\ slot'[n][s].msg = m /\ slot'[n][s].copies = copies /\ ptr'[n][s] = state
        /\ \A k \in Nodes, t \in Slots : k # n \/ t # s =>
               slot'[k][t] = slot[k][t] /\ ptr'[k][t] = ptr[k][t]
    BY <1>1 DEF IInv, TypeOK
  <1>4. \A k \in Nodes, t \in Slots :
            k # n \/ t # s => (ptr'[k][t] # "free" => ptr[k][t] # "free")
    BY <1>3
  <1>5. \A t \in Slots : ptr[n][t] # "free" => slot[n][t].msg # m
    BY DEF dtn_queue_find, Used
  <1>6. \A k \in Nodes, t, u \in Slots :
            ptr[k][t] # "free" /\ ptr[k][u] # "free" /\ slot[k][t].msg = slot[k][u].msg => t = u
    BY DEF IInv, OneItem, Used
  <1>7. ASSUME NEW k \in Nodes, NEW t \in Slots, NEW u \in Slots,
               ptr'[k][t] # "free", ptr'[k][u] # "free", slot'[k][t].msg = slot'[k][u].msg
        PROVE  t = u
    <2>1. CASE k # n \/ (t # s /\ u # s)
      BY <1>3, <1>6, <1>7, <2>1
    <2>2. CASE k = n /\ t = s /\ u # s
      BY <1>3, <1>5, <1>7, <2>2
    <2>3. CASE k = n /\ u = s /\ t # s
      BY <1>3, <1>5, <1>7, <2>3
    <2>. QED BY <2>1, <2>2, <2>3
  <1>8. OneItem'
    BY <1>7 DEF OneItem, Used
  <1>. QED BY <1>2, <1>3, <1>8

(* A sent message is new, so no item has it: its own takes a free buffer.  *)
LEMMA SendInvariant ==
    ASSUME IInv, NEW n \in Nodes, NEW m \in Messages, dtn_send(n, m)
    PROVE  IInv'
  <1>. USE DtnAssumption
  <1>1. sent' \subseteq Messages /\ sent \subseteq sent' /\ delivered \subseteq delivered'
        /\ delivered' \subseteq Messages /\ m \in sent' /\ m \notin sent
        /\ UNCHANGED <<handoff, doubt>>
    BY DEF dtn_send, IInv, TypeOK
  <1>2. CASE UNCHANGED <<queue, spray_ct, net>>
    <2>1. TypeOK'
      BY <1>1, <1>2 DEF IInv, TypeOK, queue, handoff
    <2>2. Filled' /\ Truthful' /\ Engaged'
      BY <1>1, <1>2 DEF IInv, Filled, Truthful, Engaged, queue, handoff
    <2>3. OneItem' /\ LastCopyKept' /\ SprayScheduled'
      BY <1>1, <1>2 DEF IInv, OneItem, LastCopyKept, SprayScheduled, Used, queue
    <2>. QED BY <2>1, <2>2, <2>3 DEF IInv
  <1>3. CASE enqueue(n, m, DTN_L_COPIES, "ready") /\ dtn_queue_spray(n, spray_ct, {}, {})
             /\ UNCHANGED delivered
    <2>1. dtn_queue_find(n, m) = {}
      BY <1>1 DEF dtn_queue_find, Used, IInv, Filled
    <2>2. DTN_L_COPIES \in Copies /\ DTN_L_COPIES # 0
      BY DEF Copies
    <2>3. /\ slot' \in [Nodes -> [Slots -> [msg : Messages \cup {None}, copies : Copies]]]
          /\ ptr' \in [Nodes -> [Slots -> {"free", "pending", "ready"}]]
          /\ \A k \in Nodes, t \in Slots :
                  \/ /\ k = n /\ ptr'[k][t] = "ready"
                     /\ slot'[k][t].msg = m /\ slot'[k][t].copies = DTN_L_COPIES
                  \/ /\ slot'[k][t].msg = slot[k][t].msg
                     /\ slot'[k][t].copies = slot[k][t].copies
                     /\ ptr'[k][t] = ptr[k][t]
          /\ OneItem'
      BY <1>3, <2>1, <2>2, EnqueueEffect
    <2>4. Filled'
      BY <1>1, <2>3 DEF IInv, Filled
    <2>5. /\ net' \subseteq Packets
          /\ \A p \in net' : p \in net \/ (p.type = "spray" /\ p.msg \in sent')
          /\ spray_ct' \subseteq Nodes /\ spray_ct \subseteq spray_ct'
          /\ \A t \in Slots : ptr'[n][t] = "ready" => n \in spray_ct'
      <3>1. \A p \in net' : p \in net \/ p \in sprays(n)
        BY <1>3 DEF dtn_queue_spray, transmit, sprays
      <3>2. spray_ct' = IF \A t \in Slots : ptr'[n][t] = "free"
                        THEN spray_ct ELSE spray_ct \cup {n}
        BY <1>3 DEF dtn_queue_spray
      <3>3. \A p \in sprays(n) : p \in Packets /\ p.type = "spray" /\ p.msg \in sent'
        BY <1>1, <2>3, <2>4, SprayedAreSent
      <3>. QED BY <3>1, <3>2, <3>3 DEF IInv, TypeOK
    <2>6. TypeOK'
      BY <1>1, <2>3, <2>5 DEF IInv, TypeOK, handoff
    <2>7. Truthful' /\ Engaged'
      BY <1>1, <2>5 DEF IInv, Truthful, Engaged, handoff
    <2>8. LastCopyKept'
      <3>1. ASSUME NEW k \in Nodes, NEW t \in Slots,
                   ptr'[k][t] = "ready", slot'[k][t].copies = 0
            PROVE  slot'[k][t].msg \in delivered'
        <4>1. slot'[k][t].copies # DTN_L_COPIES
          BY ONLY <2>2, <3>1
        <4>2. /\ slot'[k][t].msg = slot[k][t].msg
              /\ slot'[k][t].copies = slot[k][t].copies
              /\ ptr'[k][t] = ptr[k][t]
          BY ONLY <2>3, <3>1, <4>1
        <4>3. slot[k][t].msg \in delivered
          BY ONLY IInv, <3>1, <4>2 DEF IInv, LastCopyKept
        <4>. QED BY ONLY <1>1, <4>2, <4>3
      <3>. QED BY <3>1 DEF LastCopyKept
    <2>9. SprayScheduled'
      BY <1>1, <2>3, <2>5 DEF IInv, SprayScheduled
    <2>. QED BY <2>3, <2>4, <2>6, <2>7, <2>8, <2>9 DEF IInv
  <1>. QED BY <1>2, <1>3 DEF dtn_send, queue

(* The timer stops only when there is nothing to spray.                    *)
LEMMA TimerInvariant ==
    ASSUME IInv, NEW n \in Nodes, sprayTimer(n)
    PROVE  IInv'
  <1>1. /\ UNCHANGED <<sent, delivered, queue, handoff, doubt>>
        /\ dtn_queue_spray(n, spray_ct \ {n}, {}, {})
    BY DEF sprayTimer
  <1>2. Filled'
    BY <1>1 DEF IInv, Filled, queue
  <1>3. /\ net' \subseteq Packets
        /\ \A p \in net' : p \in net \/ (p.type = "spray" /\ p.msg \in sent')
        /\ spray_ct' \subseteq Nodes /\ spray_ct \ {n} \subseteq spray_ct'
        /\ \A t \in Slots : ptr'[n][t] = "ready" => n \in spray_ct'
    <2>1. \A p \in net' : p \in net \/ p \in sprays(n)
      BY <1>1 DEF dtn_queue_spray, transmit, sprays
    <2>2. spray_ct' = IF \A t \in Slots : ptr'[n][t] = "free"
                      THEN spray_ct \ {n} ELSE (spray_ct \ {n}) \cup {n}
      BY <1>1 DEF dtn_queue_spray
    <2>3. \A p \in sprays(n) : p \in Packets /\ p.type = "spray" /\ p.msg \in sent'
      BY <1>1, <1>2, SprayedAreSent DEF IInv, TypeOK, queue
    <2>. QED BY <2>1, <2>2, <2>3 DEF IInv, TypeOK
  <1>4. TypeOK'
    BY <1>1, <1>3 DEF IInv, TypeOK, queue, handoff
  <1>5. Truthful' /\ Engaged'
    BY <1>1, <1>3 DEF IInv, Truthful, Engaged, handoff
  <1>6. OneItem' /\ LastCopyKept' /\ SprayScheduled'
    BY <1>1, <1>3 DEF IInv, OneItem, LastCopyKept, SprayScheduled, Used, queue
  <1>. QED BY <1>2, <1>4, <1>5, <1>6 DEF IInv
-----------------------------------------------------------------------------
(* A spray is requested; a message no item has becomes a pending item.     *)
LEMMA SprayRecvInvariant ==
    ASSUME IInv, NEW p \in net, dtn_spray_recv(p)
    PROVE  IInv'
  <1>. DEFINE n == p.to
              m == p.msg
              request == {Request(n, p.from, m)}
  <1>. USE DtnAssumption
  <1>1. p.type = "spray" /\ n \in Nodes /\ p.from \in Nodes /\ m \in Messages /\ m \in sent
    BY PacketFields DEF dtn_spray_recv, IInv, TypeOK, Truthful
  <1>2. UNCHANGED <<sent, spray_ct, handoff, doubt>>
    BY DEF dtn_spray_recv
  <1>3. /\ delivered \subseteq delivered' /\ delivered' \subseteq Messages
        /\ \A q \in net' : q \in net \/ q \in request
        /\ n = Dest[m] => m \in delivered' \/ net' \subseteq net
    BY <1>1 DEF dtn_spray_recv, transmit, IInv, TypeOK
  <1>4. /\ net' \subseteq Packets
        /\ Truthful'
    <2>1. net' \subseteq Packets
      BY <1>1, <1>3, NewPackets DEF IInv, TypeOK
    <2>2. ASSUME NEW q \in net'
          PROVE  /\ q.type = "spray" => q.msg \in sent'
                 /\ q.type = "handoff" => q.copies > 0
                 /\ q.type = "request" /\ q.from = Dest[q.msg] => q.msg \in delivered'
      <3>1. CASE q \in net
        BY <1>2, <1>3, <3>1 DEF IInv, Truthful
      <3>2. CASE q \notin net
        <4>1. q = Request(n, p.from, m) /\ ~(net' \subseteq net)
          BY <1>3, <3>2
        <4>2. q.type = "request" /\ q.from = n /\ q.msg = m
          BY <4>1 DEF Request
        <4>. QED BY <1>3, <4>1, <4>2
      <3>. QED BY <3>1, <3>2
    <2>. QED BY <2>1, <2>2 DEF Truthful
  <1>5. CASE UNCHANGED queue
    <2>1. TypeOK'
      BY <1>2, <1>3, <1>4, <1>5 DEF IInv, TypeOK, queue, handoff
    <2>2. Filled' /\ Engaged'
      BY <1>2, <1>5 DEF IInv, Filled, Engaged, queue, handoff
    <2>3. OneItem' /\ LastCopyKept' /\ SprayScheduled'
      BY <1>2, <1>3, <1>5 DEF IInv, OneItem, LastCopyKept, SprayScheduled, Used, queue
    <2>. QED BY <1>4, <2>1, <2>2, <2>3 DEF IInv
  <1>6. CASE dtn_queue_find(n, m) = {} /\ enqueue(n, m, 0, "pending")
    <2>1. 0 \in Copies
      BY DEF Copies
    <2>2. /\ slot' \in [Nodes -> [Slots -> [msg : Messages \cup {None}, copies : Copies]]]
          /\ ptr' \in [Nodes -> [Slots -> {"free", "pending", "ready"}]]
          /\ \A k \in Nodes, t \in Slots :
                  \/ k = n /\ ptr'[k][t] = "pending" /\ slot'[k][t].msg = m
                  \/ /\ slot'[k][t].msg = slot[k][t].msg
                     /\ slot'[k][t].copies = slot[k][t].copies
                     /\ ptr'[k][t] = ptr[k][t]
          /\ OneItem'
      BY <1>1, <1>6, <2>1, EnqueueEffect
    <2>3. TypeOK'
      BY <1>2, <1>3, <1>4, <2>2 DEF IInv, TypeOK, handoff
    <2>4. Filled' /\ Engaged'
      BY <1>1, <1>2, <2>2 DEF IInv, Filled, Engaged, handoff
    <2>5. LastCopyKept'
      <3>1. delivered \subseteq delivered'
        BY <1>3
      <3>2. ASSUME NEW k \in Nodes, NEW t \in Slots,
                   ptr'[k][t] = "ready", slot'[k][t].copies = 0
            PROVE  slot'[k][t].msg \in delivered'
        <4>1. ptr'[k][t] # "pending"
          BY ONLY <3>2
        <4>2. /\ slot'[k][t].msg = slot[k][t].msg
              /\ slot'[k][t].copies = slot[k][t].copies
              /\ ptr'[k][t] = ptr[k][t]
          BY ONLY <2>2, <3>2, <4>1
        <4>3. slot[k][t].msg \in delivered
          BY ONLY IInv, <3>2, <4>2 DEF IInv, LastCopyKept
        <4>. QED BY ONLY <3>1, <4>2, <4>3
      <3>. QED BY <3>2 DEF LastCopyKept
    <2>6. SprayScheduled'
      <3>1. ASSUME NEW k \in Nodes, NEW t \in Slots,
                   ptr'[k][t] = "ready", slot'[k][t].copies # 0
            PROVE  k \in spray_ct'
        <4>1. ptr'[k][t] # "pending"
          BY ONLY <3>1
        <4>2. slot'[k][t].copies = slot[k][t].copies /\ ptr'[k][t] = ptr[k][t]
          BY ONLY <2>2, <3>1, <4>1
        <4>3. k \in spray_ct
          BY ONLY IInv, <3>1, <4>2 DEF IInv, SprayScheduled
        <4>. QED BY ONLY <1>2, <4>3
      <3>. QED BY <3>1 DEF SprayScheduled
    <2>. QED BY <1>4, <2>2, <2>3, <2>4, <2>5, <2>6 DEF IInv
  <1>. QED BY <1>5, <1>6 DEF dtn_spray_recv, queue

Buffers == [Nodes -> [Slots -> [msg : Messages \cup {None}, copies : Copies]]]

(* num_copies of one buffer becomes l, and nothing else of any changes.    *)
OnlyCopies(n, s, l) ==
    /\ slot' \in Buffers
    /\ slot'[n][s].copies = l
    /\ \A k \in Nodes, t \in Slots :
           /\ slot'[k][t].msg = slot[k][t].msg
           /\ k # n \/ t # s => slot'[k][t].copies = slot[k][t].copies

(* What setting num_copies of one buffer does to the others.                *)
LEMMA CopiesSet ==
    ASSUME NEW n \in Nodes, NEW s \in Slots, NEW l \in Copies,
           slot \in Buffers,
           slot' = [slot EXCEPT ![n][s].copies = l]
    PROVE  OnlyCopies(n, s, l)
  <1>. USE DEF Buffers
  <1>1. slot[n][s] \in [msg : Messages \cup {None}, copies : Copies]
    OBVIOUS
  <1>2. slot' = [slot EXCEPT ![n] = [slot[n] EXCEPT ![s] = [slot[n][s] EXCEPT !.copies = l]]]
    OBVIOUS
  <1>. DEFINE r == [slot[n][s] EXCEPT !.copies = l]
  <1>3. r \in [msg : Messages \cup {None}, copies : Copies]
        /\ r.copies = l /\ r.msg = slot[n][s].msg
    BY <1>1
  <1>4. slot' = [slot EXCEPT ![n] = [slot[n] EXCEPT ![s] = r]]
    BY <1>2
  <1>. HIDE DEF r
  <1>5. slot'[n][s] = r
        /\ \A k \in Nodes, t \in Slots : k # n \/ t # s => slot'[k][t] = slot[k][t]
    BY <1>4
  <1>6. slot' \in [Nodes -> [Slots -> [msg : Messages \cup {None}, copies : Copies]]]
    BY <1>3, <1>4
  <1>7. ASSUME NEW k \in Nodes, NEW t \in Slots
        PROVE  /\ slot'[k][t].msg = slot[k][t].msg
               /\ k # n \/ t # s => slot'[k][t].copies = slot[k][t].copies
    BY <1>3, <1>5
  <1>. QED BY <1>3, <1>5, <1>6, <1>7 DEF OnlyCopies

LEMMA SameItems ==
    ASSUME OneItem,
           \A k \in Nodes, t \in Slots :
               /\ ptr'[k][t] # "free" => ptr[k][t] # "free"
               /\ slot'[k][t].msg = slot[k][t].msg
    PROVE  OneItem'
  <1>1. ASSUME NEW k \in Nodes, NEW t \in Slots, NEW u \in Slots,
               ptr'[k][t] # "free", ptr'[k][u] # "free", slot'[k][t].msg = slot'[k][u].msg
        PROVE  t = u
    <2>1. ptr[k][t] # "free" /\ ptr[k][u] # "free" /\ slot[k][t].msg = slot[k][u].msg
      BY <1>1
    <2>. QED BY <2>1 DEF OneItem, Used
  <1>. QED BY <1>1 DEF OneItem, Used

(* Request p begins a hand-off from buffer s.                              *)
begun(p, s) ==
    LET n == p.to  l == giveHalf(slot[n][s].copies) IN
    /\ slot[n][s].copies > 1 /\ handoffs[n] < MaxHandoffs
    /\ handoffs' = [handoffs EXCEPT ![n] = @ + 1]
    /\ handoff_qb' = [handoff_qb EXCEPT ![n] = s]
    /\ handoff_hdr' = [handoff_hdr EXCEPT ![n] = p.msg]
    /\ runicast' = [runicast EXCEPT ![n] = [to |-> p.from, copies |-> l, rxmit |-> 1]]
    /\ transmit({p}, {HandOff(n, p.from, p.msg, l, handoffs'[n])})
    /\ UNCHANGED slot

(* The destination's request means it has the message; half of more than   *)
(* one copy is at least one.                                               *)
LEMMA RequestInvariant ==
    ASSUME IInv, NEW p \in net, dtn_request_recv(p)
    PROVE  IInv'
  <1>. DEFINE n == p.to
              m == p.msg
  <1>. USE DtnAssumption
  <1>1. p.type = "request" /\ n \in Nodes /\ p.from \in Nodes /\ m \in Messages
    BY PacketFields DEF dtn_request_recv, IInv, TypeOK
  <1>2. UNCHANGED <<sent, delivered, ptr, spray_ct, doubt>>
    BY DEF dtn_request_recv
  <1>3. CASE net' = net \ {p} /\ UNCHANGED <<slot, handoff>>
    <2>1. TypeOK'
      BY <1>2, <1>3 DEF IInv, TypeOK, handoff
    <2>2. Filled' /\ Truthful' /\ Engaged'
      BY <1>2, <1>3 DEF IInv, Filled, Truthful, Engaged, handoff
    <2>3. OneItem' /\ LastCopyKept' /\ SprayScheduled'
      BY <1>2, <1>3 DEF IInv, OneItem, LastCopyKept, SprayScheduled, Used
    <2>. QED BY <2>1, <2>2, <2>3 DEF IInv
  <1>4. CASE \E s \in dtn_queue_find(n, m) :
                /\ p.from = Dest[m]
                /\ slot' = [slot EXCEPT ![n][s].copies = 0]
                /\ net' = net \ {p} /\ UNCHANGED handoff
    <2>1. PICK s \in Slots :
              /\ ptr[n][s] # "free" /\ slot[n][s].msg = m /\ p.from = Dest[m]
              /\ slot' = [slot EXCEPT ![n][s].copies = 0]
              /\ net' = net \ {p} /\ UNCHANGED handoff
      BY <1>4 DEF dtn_queue_find, Used
    <2>2. m \in delivered
      BY <1>1, <2>1 DEF IInv, Truthful
    <2>3. /\ slot' \in [Nodes -> [Slots -> [msg : Messages \cup {None}, copies : Copies]]]
          /\ \A k \in Nodes, t \in Slots :
                 /\ slot'[k][t].msg = slot[k][t].msg
                 /\ \/ slot'[k][t].copies = slot[k][t].copies
                    \/ slot'[k][t].msg = m /\ slot'[k][t].copies = 0
      <3>. DEFINE l == 0
      <3>1. l \in Copies
        BY DEF Copies
      <3>2. slot' = [slot EXCEPT ![n][s].copies = l]
        BY <2>1
      <3>3. slot'[n][s].copies = l => slot'[n][s].copies = 0
        OBVIOUS
      <3>. HIDE DEF l
      <3>4. OnlyCopies(n, s, l)
        <4>1. n \in Nodes /\ s \in Slots
          BY <1>1
        <4>2. slot \in Buffers
          BY ONLY IInv DEF IInv, TypeOK, Buffers
        <4>. QED BY ONLY <3>1, <3>2, <4>1, <4>2, CopiesSet
      <3>. QED BY <1>1, <2>1, <3>3, <3>4 DEF OnlyCopies, Buffers
    <2>4. TypeOK'
      BY <1>2, <2>1, <2>3 DEF IInv, TypeOK, handoff
    <2>5. Filled' /\ Truthful' /\ Engaged'
      BY <1>2, <2>1, <2>3 DEF IInv, Filled, Truthful, Engaged, handoff
    <2>6. OneItem'
      BY <1>2, <2>3, SameItems DEF IInv
    <2>7. LastCopyKept'
      BY <1>2, <2>2, <2>3 DEF IInv, LastCopyKept
    <2>8. SprayScheduled'
      BY <1>2, <2>3 DEF IInv, SprayScheduled
    <2>. QED BY <2>4, <2>5, <2>6, <2>7, <2>8 DEF IInv
  <1>5. CASE \E s \in dtn_queue_find(n, m) : begun(p, s)
    <2>1. PICK s \in Slots, l \in Copies :
              /\ l > 0 /\ handoffs[n] < MaxHandoffs
              /\ handoffs' = [handoffs EXCEPT ![n] = @ + 1]
              /\ handoff_qb' = [handoff_qb EXCEPT ![n] = s]
              /\ handoff_hdr' = [handoff_hdr EXCEPT ![n] = m]
              /\ runicast' = [runicast EXCEPT ![n] = [to |-> p.from, copies |-> l, rxmit |-> 1]]
              /\ net' = (net \ {p}) \cup {HandOff(n, p.from, m, l, handoffs'[n])}
              /\ UNCHANGED slot
      <3>1. PICK s \in dtn_queue_find(n, m) : begun(p, s)
        BY <1>5
      <3>2. s \in Slots /\ slot[n][s].copies \in Copies
        <4>1. s \in Slots
          BY ONLY <3>1 DEF dtn_queue_find, Used
        <4>2. slot \in [Nodes -> [Slots -> [msg : Messages \cup {None}, copies : Copies]]]
          BY DEF IInv, TypeOK
        <4>. QED BY ONLY <1>1, <4>1, <4>2
      <3>3. giveHalf(slot[n][s].copies) \in Copies /\ giveHalf(slot[n][s].copies) > 0
        BY <3>1, <3>2, Halves DEF begun
      <3>. QED BY <3>1, <3>2, <3>3 DEF begun, transmit
    <2>2. handoffs' \in [Nodes -> 0 .. MaxHandoffs] /\ handoffs'[n] \in 0 .. MaxHandoffs
      BY <1>1, <2>1 DEF IInv, TypeOK
    <2>3. net' \subseteq Packets
      BY <1>1, <2>1, <2>2, NewPackets DEF IInv, TypeOK
    <2>4. TypeOK'
      BY <1>1, <1>2, <2>1, <2>2, <2>3 DEF IInv, TypeOK
    <2>5. Truthful'
      <3>1. ASSUME NEW q \in net', q \notin net
            PROVE  q.type = "handoff" /\ q.copies > 0
        BY <2>1, <3>1 DEF HandOff
      <3>. QED BY <1>2, <3>1 DEF IInv, Truthful
    <2>6. Engaged'
      BY <1>1, <2>1 DEF IInv, TypeOK, Engaged
    <2>7. Filled' /\ OneItem' /\ LastCopyKept' /\ SprayScheduled'
      BY <1>2, <2>1 DEF IInv, Filled, OneItem, LastCopyKept, SprayScheduled, Used
    <2>. QED BY <2>4, <2>5, <2>6, <2>7 DEF IInv
  <1>. QED BY <1>3, <1>4, <1>5 DEF dtn_request_recv, begun, transmit

(* A handed-over item is ready with at least one copy, and is sprayed.     *)
LEMMA HandoffRecvInvariant ==
    ASSUME IInv, NEW p \in net, dtn_handoff_recv(p)
    PROVE  IInv'
  <1>. DEFINE n == p.to
              m == p.msg
              ack == {Ack(n, p.from, p.seq)}
  <1>1. /\ p.type = "handoff" /\ n \in Nodes /\ p.from \in Nodes /\ m \in Messages
        /\ p.copies \in Copies /\ p.copies > 0 /\ p.seq \in 0 .. MaxHandoffs
    BY PacketFields DEF dtn_handoff_recv, IInv, TypeOK, Truthful
  <1>2. UNCHANGED <<sent, delivered, handoff, doubt>>
    BY DEF dtn_handoff_recv
  <1>3. ack \subseteq Packets /\ \A q \in ack : q.type = "ack"
    BY <1>1, NewPackets DEF Ack
  <1>4. CASE transmit({p}, ack) /\ UNCHANGED <<queue, spray_ct>>
    <2>1. TypeOK'
      BY <1>2, <1>3, <1>4 DEF IInv, TypeOK, handoff, queue, transmit
    <2>2. Filled' /\ Truthful' /\ Engaged'
      BY <1>2, <1>3, <1>4 DEF IInv, Filled, Truthful, Engaged, handoff, queue, transmit
    <2>3. OneItem' /\ LastCopyKept' /\ SprayScheduled'
      BY <1>2, <1>4 DEF IInv, OneItem, LastCopyKept, SprayScheduled, Used, queue
    <2>. QED BY <2>1, <2>2, <2>3 DEF IInv
  <1>5. CASE \E s \in dtn_queue_find(n, m) :
                /\ slot' = [slot EXCEPT ![n][s].copies = addCopies(@, p.copies)]
                /\ ptr' = [ptr EXCEPT ![n][s] = "ready"]
                /\ dtn_queue_spray(n, spray_ct, {p}, ack)
    <2>1. PICK s \in dtn_queue_find(n, m) :
              /\ slot' = [slot EXCEPT ![n][s].copies = addCopies(@, p.copies)]
              /\ ptr' = [ptr EXCEPT ![n][s] = "ready"]
              /\ dtn_queue_spray(n, spray_ct, {p}, ack)
      BY <1>5
    <2>2. s \in Slots /\ ptr[n][s] # "free" /\ slot[n][s].copies \in Copies
      BY <1>1 DEF dtn_queue_find, Used, IInv, TypeOK
    <2>. DEFINE l == addCopies(slot[n][s].copies, p.copies)
    <2>3. l \in Copies /\ l # 0
      <3>1. l \in Copies /\ l > 0
        BY <1>1, <2>2, Halves
      <3>. QED BY <3>1
    <2>4. slot' = [slot EXCEPT ![n][s].copies = l]
      BY <2>1
    <2>. HIDE DEF l
    <2>5. /\ slot' \in [Nodes -> [Slots -> [msg : Messages \cup {None}, copies : Copies]]]
          /\ ptr' \in [Nodes -> [Slots -> {"free", "pending", "ready"}]]
          /\ \A k \in Nodes, t \in Slots :
                 /\ slot'[k][t].msg = slot[k][t].msg
                 /\ ptr'[k][t] = "free" <=> ptr[k][t] = "free"
                 /\ \/ slot'[k][t].copies = slot[k][t].copies /\ ptr'[k][t] = ptr[k][t]
                    \/ k = n /\ slot'[k][t].copies # 0
      <3>1. OnlyCopies(n, s, l)
        <4>1. slot \in Buffers
          BY ONLY IInv DEF IInv, TypeOK, Buffers
        <4>. QED BY ONLY <1>1, <2>2, <2>3, <2>4, <4>1, CopiesSet
      <3>2. /\ ptr' \in [Nodes -> [Slots -> {"free", "pending", "ready"}]]
            /\ ptr'[n][s] = "ready"
            /\ \A k \in Nodes, t \in Slots : k # n \/ t # s => ptr'[k][t] = ptr[k][t]
        BY <1>1, <2>1, <2>2 DEF IInv, TypeOK
      <3>. QED BY ONLY <2>2, <2>3, <3>1, <3>2 DEF OnlyCopies, Buffers
    <2>6. Filled'
      BY <1>2, <2>5 DEF IInv, Filled
    <2>7. \A q \in net' : q \in net \/ q \in ack \/ q \in sprays(n)
      BY <2>1 DEF dtn_queue_spray, transmit, sprays
    <2>8. \A q \in sprays(n) : q \in Packets /\ q.type = "spray" /\ q.msg \in sent'
      BY <1>1, <1>2, <2>5, <2>6, SprayedAreSent DEF IInv, TypeOK
    <2>9. spray_ct' = IF \A t \in Slots : ptr'[n][t] = "free"
                      THEN spray_ct ELSE spray_ct \cup {n}
      BY <2>1 DEF dtn_queue_spray
    <2>10. TypeOK'
      BY <1>1, <1>2, <1>3, <2>5, <2>7, <2>8, <2>9 DEF IInv, TypeOK, handoff
    <2>11. Truthful' /\ Engaged'
      BY <1>2, <1>3, <2>7, <2>8 DEF IInv, Truthful, Engaged, handoff
    <2>12. OneItem'
      BY <2>5, SameItems DEF IInv
    <2>13. LastCopyKept'
      BY <1>2, <2>5 DEF IInv, LastCopyKept
    <2>14. SprayScheduled'
      <3>1. \A t \in Slots : ptr'[n][t] = "ready" => n \in spray_ct'
        BY <2>9
      <3>2. spray_ct \subseteq spray_ct'
        BY <2>9
      <3>3. ASSUME NEW k \in Nodes, NEW t \in Slots,
                   ptr'[k][t] = "ready", slot'[k][t].copies # 0
            PROVE  k \in spray_ct'
        <4>1. CASE k = n
          BY <3>1, <3>3, <4>1
        <4>2. CASE k # n
          <5>1. ptr[k][t] = "ready" /\ slot[k][t].copies # 0
            BY <2>5, <3>3, <4>2
          <5>2. k \in spray_ct
            BY <5>1 DEF IInv, SprayScheduled
          <5>. QED BY <3>2, <5>2
        <4>. QED BY <4>1, <4>2
      <3>. QED BY <3>3 DEF SprayScheduled
    <2>. QED BY <2>6, <2>10, <2>11, <2>12, <2>13, <2>14 DEF IInv
  <1>. QED BY <1>4, <1>5 DEF dtn_handoff_recv

(* What is left after a hand-off is at least one copy, if there was one.   *)
LEMMA HandoffSentInvariant ==
    ASSUME IInv, NEW p \in net, dtn_handoff_sent(p)
    PROVE  IInv'
  <1>. DEFINE n == p.to
              s == handoff_qb[n]
  <1>. USE DtnAssumption
  <1>1. n \in Nodes /\ net' = net \ {p}
        /\ UNCHANGED <<sent, delivered, ptr, spray_ct, handoff_hdr, handoffs, doubt>>
    BY PacketFields DEF dtn_handoff_sent, transmit, IInv, TypeOK
  <1>2. /\ runicast' \in [Nodes -> [to : Nodes \cup {None}, copies : Copies, rxmit : 0 .. DTN_RTX]]
        /\ handoff_qb' \in [Nodes -> Slots \cup {0}]
        /\ \A k \in Nodes : handoff_qb'[k] # 0 =>
               handoff_qb'[k] = handoff_qb[k] /\ runicast'[k] = runicast[k]
    <2>1. CASE UNCHANGED <<handoff_qb, runicast>>
      BY <2>1 DEF IInv, TypeOK
    <2>2. CASE endHandoff(n)
      <3>1. Idle \in [to : Nodes \cup {None}, copies : Copies, rxmit : 0 .. DTN_RTX]
        BY DEF Idle, Copies
      <3>. QED BY <1>1, <2>2, <3>1 DEF endHandoff, IInv, TypeOK
    <2>. QED BY <2>1, <2>2 DEF dtn_handoff_sent
  <1>3. /\ slot' \in [Nodes -> [Slots -> [msg : Messages \cup {None}, copies : Copies]]]
        /\ \A k \in Nodes, t \in Slots :
               /\ slot'[k][t].msg = slot[k][t].msg
               /\ slot'[k][t].copies = 0 <=> slot[k][t].copies = 0
    <2>1. CASE UNCHANGED slot
      BY <2>1 DEF IInv, TypeOK
    <2>2. CASE s # 0 /\ slot' = [slot EXCEPT ![n][s].copies = keepHalf(@)]
      <3>1. s \in Slots /\ slot[n][s].copies \in Copies
        BY <1>1, <2>2 DEF IInv, TypeOK
      <3>. DEFINE l == keepHalf(slot[n][s].copies)
      <3>2. l \in Copies /\ (l = 0 <=> slot[n][s].copies = 0)
        <4>. DEFINE was == slot[n][s].copies
        <4>1. was \in 0 .. DTN_L_COPIES /\ DTN_L_COPIES \in Nat
          BY <3>1 DEF Copies
        <4>. HIDE DEF was
        <4>2. was - was \div 2 \in 0 .. DTN_L_COPIES /\ (was - was \div 2 = 0 <=> was = 0)
          BY <4>1
        <4>. QED BY <4>2 DEF was, keepHalf, Copies
      <3>3. slot' = [slot EXCEPT ![n][s].copies = l]
        BY <2>2
      <3>. HIDE DEF l
      <3>4. OnlyCopies(n, s, l)
        <4>1. slot \in Buffers
          BY ONLY IInv DEF IInv, TypeOK, Buffers
        <4>. QED BY ONLY <1>1, <3>1, <3>2, <3>3, <4>1, CopiesSet
      <3>. QED BY ONLY <3>2, <3>4 DEF OnlyCopies, Buffers
    <2>. QED BY <2>1, <2>2 DEF dtn_handoff_sent
  <1>4. TypeOK'
    BY <1>1, <1>2, <1>3 DEF IInv, TypeOK
  <1>5. Filled' /\ Truthful'
    BY <1>1, <1>3 DEF IInv, Filled, Truthful
  <1>6. Engaged'
    BY <1>1, <1>2 DEF IInv, Engaged
  <1>7. OneItem' /\ LastCopyKept'
    BY <1>1, <1>3, SameItems DEF IInv, LastCopyKept
  <1>8. SprayScheduled'
    BY <1>1, <1>3 DEF IInv, TypeOK, SprayScheduled, Copies
  <1>. QED BY <1>4, <1>5, <1>6, <1>7, <1>8 DEF IInv

LEMMA RetransmitInvariant ==
    ASSUME IInv, NEW n \in Nodes, retransmit(n)
    PROVE  IInv'
  <1>. USE DtnAssumption
  <1>. DEFINE r == runicast[n]
              packet == HandOff(n, r.to, handoff_hdr[n], r.copies, handoffs[n])
  <1>1. /\ handoff_qb[n] # 0 /\ r.rxmit < DTN_RTX
        /\ runicast' = [runicast EXCEPT ![n].rxmit = @ + 1]
        /\ net' = net \cup {packet} /\ doubt' = doubt \cup {handoff_hdr[n]}
        /\ UNCHANGED <<sent, delivered, queue, spray_ct, handoff_qb, handoff_hdr, handoffs>>
    BY DEF retransmit, transmit
  <1>2. /\ handoff_hdr[n] \in Messages /\ r.to \in Nodes /\ r.copies \in Copies
        /\ r.copies > 0 /\ handoffs[n] \in 0 .. MaxHandoffs
    BY <1>1 DEF IInv, TypeOK, Engaged
  <1>3. packet \in Packets /\ packet.type = "handoff" /\ packet.copies = r.copies
    BY <1>2, NewPackets DEF HandOff
  <1>4. /\ runicast' \in [Nodes -> [to : Nodes \cup {None}, copies : Copies, rxmit : 0 .. DTN_RTX]]
        /\ \A k \in Nodes : runicast'[k].to = runicast[k].to
                            /\ runicast'[k].copies = runicast[k].copies
    <2>. DEFINE was == runicast[n]
                x == was.rxmit + 1
    <2>1. was \in [to : Nodes \cup {None}, copies : Copies, rxmit : 0 .. DTN_RTX]
          /\ x \in 0 .. DTN_RTX
      BY <1>1 DEF IInv, TypeOK
    <2>2. runicast' = [runicast EXCEPT ![n].rxmit = x]
      BY <1>1
    <2>. HIDE DEF x
    <2>. QED BY <2>1, <2>2 DEF IInv, TypeOK
  <1>. HIDE DEF packet
  <1>5. TypeOK'
    BY <1>1, <1>2, <1>3, <1>4 DEF IInv, TypeOK, queue
  <1>6. Filled'
    BY <1>1 DEF IInv, Filled, queue
  <1>7. Truthful'
    BY <1>1, <1>2, <1>3 DEF IInv, Truthful
  <1>8. Engaged'
    BY <1>1, <1>4 DEF IInv, Engaged
  <1>9. OneItem' /\ LastCopyKept' /\ SprayScheduled'
    BY <1>1 DEF IInv, OneItem, LastCopyKept, SprayScheduled, Used, queue
  <1>. QED BY <1>5, <1>6, <1>7, <1>8, <1>9 DEF IInv

LEMMA TimedOutInvariant ==
    ASSUME IInv, NEW n \in Nodes, dtn_handoff_timedout(n)
    PROVE  IInv'
  <1>1. /\ handoff_qb[n] # 0 /\ doubt' = doubt \cup {handoff_hdr[n]}
        /\ handoff_qb' = [handoff_qb EXCEPT ![n] = 0]
        /\ runicast' = [runicast EXCEPT ![n] = Idle]
        /\ UNCHANGED <<sent, delivered, queue, spray_ct, handoff_hdr, handoffs, net>>
    BY DEF dtn_handoff_timedout, endHandoff
  <1>2. Idle \in [to : Nodes \cup {None}, copies : Copies, rxmit : 0 .. DTN_RTX]
    BY DtnAssumption DEF Idle, Copies
  <1>3. handoff_hdr[n] \in Messages
    BY <1>1 DEF IInv, Engaged
  <1>4. TypeOK'
    BY <1>1, <1>2, <1>3 DEF IInv, TypeOK, queue
  <1>5. Filled' /\ Truthful'
    BY <1>1 DEF IInv, Filled, Truthful, queue
  <1>6. Engaged'
    BY <1>1 DEF IInv, TypeOK, Engaged
  <1>7. OneItem' /\ LastCopyKept' /\ SprayScheduled'
    BY <1>1 DEF IInv, OneItem, LastCopyKept, SprayScheduled, Used, queue
  <1>. QED BY <1>4, <1>5, <1>6, <1>7 DEF IInv
-----------------------------------------------------------------------------
LEMMA ExpireInvariant ==
    ASSUME IInv, NEW n \in Nodes, NEW s \in Slots, expire(n, s)
    PROVE  IInv'
  <1>1. /\ ptr' = [ptr EXCEPT ![n][s] = "free"]
        /\ UNCHANGED <<sent, delivered, slot, spray_ct, handoff, net, doubt>>
    BY DEF expire
  <1>2. /\ ptr' \in [Nodes -> [Slots -> {"free", "pending", "ready"}]]
        /\ \A k \in Nodes, t \in Slots : ptr'[k][t] = ptr[k][t] \/ ptr'[k][t] = "free"
    BY <1>1 DEF IInv, TypeOK
  <1>3. TypeOK'
    BY <1>1, <1>2 DEF IInv, TypeOK, handoff
  <1>4. Filled' /\ Truthful' /\ Engaged'
    BY <1>1, <1>2 DEF IInv, Filled, Truthful, Engaged, handoff
  <1>5. OneItem'
    BY <1>1, <1>2, SameItems DEF IInv
  <1>6. LastCopyKept' /\ SprayScheduled'
    BY <1>1, <1>2 DEF IInv, LastCopyKept, SprayScheduled
  <1>. QED BY <1>3, <1>4, <1>5, <1>6 DEF IInv

(* A packet that is lost, or nothing.                                      *)
LEMMA QuietInvariant ==
    ASSUME IInv, net' \subseteq net,
           UNCHANGED <<sent, delivered, queue, spray_ct, handoff, doubt>>
    PROVE  IInv'
  <1>1. TypeOK'
    BY DEF IInv, TypeOK, queue, handoff
  <1>2. Filled' /\ Truthful' /\ Engaged'
    BY DEF IInv, Filled, Truthful, Engaged, queue, handoff
  <1>3. OneItem' /\ LastCopyKept' /\ SprayScheduled'
    BY DEF IInv, OneItem, LastCopyKept, SprayScheduled, Used, queue
  <1>. QED BY <1>1, <1>2, <1>3 DEF IInv

(* No step of any node breaks the inductive invariant.                     *)
THEOREM DtnInvariance == Spec => []IInv
  <1>1. Init => IInv
    BY Initially
  <1>2. IInv /\ [Next]_vars => IInv'
    <2>. SUFFICES ASSUME IInv, [Next]_vars
                  PROVE  IInv'
      OBVIOUS
    <2>1. ASSUME NEW n \in Nodes, NEW m \in Messages, dtn_send(n, m)
          PROVE  IInv'
      BY <2>1, SendInvariant
    <2>2. ASSUME NEW n \in Nodes, sprayTimer(n) \/ retransmit(n) \/ dtn_handoff_timedout(n)
          PROVE  IInv'
      BY <2>2, TimerInvariant, RetransmitInvariant, TimedOutInvariant
    <2>3. ASSUME NEW n \in Nodes, NEW s \in Slots, expire(n, s)
          PROVE  IInv'
      BY <2>3, ExpireInvariant
    <2>4. ASSUME NEW p \in net, receive(p)
          PROVE  IInv'
      BY <2>4, SprayRecvInvariant, RequestInvariant, HandoffRecvInvariant, HandoffSentInvariant
         DEF receive
    <2>5. ASSUME NEW p \in net, lose(p)
          PROVE  IInv'
      BY <2>5, QuietInvariant DEF lose, transmit
    <2>6. CASE UNCHANGED vars
      BY <2>6, QuietInvariant DEF vars
    <2>. QED BY <2>1, <2>2, <2>3, <2>4, <2>5, <2>6 DEF Next
  <1>. QED BY <1>1, <1>2, PTL DEF Spec

(* dtn.c counts copies within DTN_L_COPIES, whatever is repeated or lost.  *)
THEOREM CopiesBounded == Spec => []TypeOK
  <1>1. IInv => TypeOK
    BY DEF IInv
  <1>. QED BY <1>1, DtnInvariance, PTL

(* dtn_queue_find() never has two items to choose from.                    *)
THEOREM ItemsUnique == Spec => []OneItem
  <1>1. IInv => OneItem
    BY DEF IInv
  <1>. QED BY <1>1, DtnInvariance, PTL

(* No sequence of requests and hand-offs gives away the last copy of a     *)
(* message its destination has not got.                                    *)
THEOREM CopyKept == Spec => []LastCopyKept
  <1>1. IInv => LastCopyKept
    BY DEF IInv
  <1>. QED BY <1>1, DtnInvariance, PTL

(* The spray timer runs wherever there is something to spray.              *)
THEOREM SpraysGoOn == Spec => []SprayScheduled
  <1>1. IInv => SprayScheduled
    BY DEF IInv
  <1>. QED BY <1>1, DtnInvariance, PTL
-----------------------------------------------------------------------------
(* The step formula of CopiesGivenAway, for the item in slot s of node n.   *)
Kept(n, s) ==
    /\ ptr[n][s] # "free" /\ ptr'[n][s] # "free"
    /\ slot'[n][s].copies < slot[n][s].copies
    => \/ slot[n][s].msg \in delivered
       \/ /\ handoff_qb[n] = s /\ handoff_qb'[n] = 0
          /\ handoff_hdr[n] = slot[n][s].msg

(* An item whose buffer is left alone loses nothing.                       *)
LEMMA UntouchedKept ==
    ASSUME IInv, NEW n \in Nodes, NEW s \in Slots, slot'[n][s] = slot[n][s] PROVE Kept(n, s)
  <1>1. slot[n][s].copies \in Int
    BY DEF IInv, TypeOK, Copies
  <1>. QED BY <1>1 DEF Kept

(* A message that comes into the queue takes a free buffer.                *)
LEMMA EnqueueKept ==
    ASSUME IInv, NEW n \in Nodes, NEW m \in Messages, NEW copies, NEW state,
           enqueue(n, m, copies, state), NEW k \in Nodes, NEW t \in Slots
    PROVE  Kept(k, t)
  <1>1. PICK s \in Slots \ Used(n) :
            slot' = [slot EXCEPT ![n][s] = [msg |-> m, copies |-> copies]]
    BY DEF enqueue
  <1>2. CASE k = n /\ t = s
    BY <1>1, <1>2 DEF Kept, Used
  <1>3. CASE k # n \/ t # s
    <2>1. slot'[k][t] = slot[k][t]
      BY <1>1, <1>3 DEF IInv, TypeOK
    <2>. QED BY <2>1, UntouchedKept
  <1>. QED BY <1>2, <1>3

LEMMA ReceiveKept ==
    ASSUME IInv, NEW p \in net, receive(p), NEW k \in Nodes, NEW t \in Slots PROVE Kept(k, t)
  <1>1. p \in Packets /\ p.to \in Nodes
    BY PacketFields DEF IInv, TypeOK
  <1>2. slot \in [Nodes -> [Slots -> [msg : Messages \cup {None}, copies : Copies]]]
    BY DEF IInv, TypeOK
  <1>3. CASE UNCHANGED slot
    BY <1>3, UntouchedKept
  <1>4. CASE dtn_spray_recv(p)
    <2>1. p.msg \in Messages
      BY <1>1, <1>4, PacketFields DEF dtn_spray_recv
    <2>2. UNCHANGED slot \/ enqueue(p.to, p.msg, 0, "pending")
      BY <1>4 DEF dtn_spray_recv, queue
    <2>. QED BY <1>1, <1>3, <2>1, <2>2, EnqueueKept
  <1>5. CASE dtn_request_recv(p)
    <2>1. CASE ~UNCHANGED slot
      <3>1. PICK s \in dtn_queue_find(p.to, p.msg) :
                p.from = Dest[p.msg] /\ slot' = [slot EXCEPT ![p.to][s].copies = 0]
        BY <1>5, <2>1 DEF dtn_request_recv
      <3>2. p.msg \in delivered /\ slot[p.to][s].msg = p.msg /\ s \in Slots
        BY <1>5, <3>1 DEF dtn_request_recv, IInv, Truthful, dtn_queue_find, Used
      <3>3. CASE k = p.to /\ t = s
        BY <3>2, <3>3 DEF Kept
      <3>4. CASE k # p.to \/ t # s
        <4>1. slot'[k][t] = slot[k][t]
          BY <1>1, <1>2, <3>1, <3>2, <3>4
        <4>. QED BY <4>1, UntouchedKept
      <3>. QED BY <3>3, <3>4
    <2>. QED BY <1>3, <2>1
  <1>6. CASE dtn_handoff_recv(p)
    <2>1. CASE ~UNCHANGED slot
      <3>1. PICK s \in dtn_queue_find(p.to, p.msg) :
                slot' = [slot EXCEPT ![p.to][s].copies = addCopies(@, p.copies)]
        BY <1>6, <2>1 DEF dtn_handoff_recv, queue
      <3>2. s \in Slots /\ p.copies \in Copies
        BY <1>1, <1>6, PacketFields DEF dtn_handoff_recv, dtn_queue_find, Used
      <3>3. CASE k = p.to /\ t = s
        <4>1. slot[k][t] \in [msg : Messages \cup {None}, copies : Copies]
          BY <1>2
        <4>2. slot'[k][t].copies = addCopies(slot[k][t].copies, p.copies)
          BY <1>1, <1>2, <3>1, <3>2, <3>3, <4>1
        <4>3. slot[k][t].copies <= addCopies(slot[k][t].copies, p.copies)
          BY <3>2, <4>1, DtnAssumption DEF addCopies, Copies
        <4>4. slot[k][t].copies \in Int /\ addCopies(slot[k][t].copies, p.copies) \in Int
          BY <3>2, <4>1, DtnAssumption DEF addCopies, Copies
        <4>. QED BY <4>2, <4>3, <4>4 DEF Kept
      <3>4. CASE k # p.to \/ t # s
        <4>1. slot'[k][t] = slot[k][t]
          BY <1>1, <1>2, <3>1, <3>2, <3>4
        <4>. QED BY <4>1, UntouchedKept
      <3>. QED BY <3>3, <3>4
    <2>. QED BY <1>3, <2>1
  <1>7. CASE dtn_handoff_sent(p)
    <2>. DEFINE s == handoff_qb[p.to]
    <2>1. CASE ~UNCHANGED slot
      <3>1. /\ s # 0 /\ endHandoff(p.to) /\ matched(p.to)
            /\ slot' = [slot EXCEPT ![p.to][s].copies = keepHalf(@)]
        BY <1>7, <2>1 DEF dtn_handoff_sent
      <3>2. s \in Slots /\ handoff_qb'[p.to] = 0 /\ handoff_hdr[p.to] = slot[p.to][s].msg
        BY <1>1, <3>1 DEF IInv, TypeOK, endHandoff, matched
      <3>3. CASE k = p.to /\ t = s
        BY <3>2, <3>3 DEF Kept
      <3>4. CASE k # p.to \/ t # s
        <4>1. slot'[k][t] = slot[k][t]
          BY <1>1, <1>2, <3>1, <3>2, <3>4
        <4>. QED BY <4>1, UntouchedKept
      <3>. QED BY <3>3, <3>4
    <2>. QED BY <1>3, <2>1
  <1>. QED BY <1>4, <1>5, <1>6, <1>7 DEF receive

(* An item loses copies only to its destination or when a hand-off of the  *)
(* same message ends, whatever has come into its buffer in between.        *)
THEOREM CopiesStay == Spec => CopiesGivenAway
  <1>1. ASSUME IInv, Next, NEW k \in Nodes, NEW t \in Slots PROVE Kept(k, t)
    <2>1. CASE UNCHANGED slot
      BY <1>1, <2>1, UntouchedKept
    <2>2. ASSUME NEW n \in Nodes, NEW m \in Messages, dtn_send(n, m) PROVE Kept(k, t)
      <3>1. UNCHANGED slot \/ enqueue(n, m, DTN_L_COPIES, "ready")
        BY <2>2 DEF dtn_send, queue
      <3>. QED BY <1>1, <2>1, <2>2, <3>1, EnqueueKept
    <2>3. ASSUME NEW n \in Nodes, sprayTimer(n) \/ retransmit(n) \/ dtn_handoff_timedout(n)
          PROVE  Kept(k, t)
      BY <2>1, <2>3 DEF sprayTimer, retransmit, dtn_handoff_timedout, queue
    <2>4. ASSUME NEW n \in Nodes, NEW s \in Slots, expire(n, s) PROVE Kept(k, t)
      BY <2>1, <2>4 DEF expire
    <2>5. ASSUME NEW p \in net, lose(p) PROVE Kept(k, t)
      BY <2>1, <2>5 DEF lose, queue
    <2>. QED BY <1>1, <2>2, <2>3, <2>4, <2>5, ReceiveKept DEF Next
  <1>2. IInv /\ [Next]_vars => [\A n \in Nodes, s \in Slots : Kept(n, s)]_vars
    BY <1>1
  <1>. QED BY <1>2, DtnInvariance, PTL DEF Spec, CopiesGivenAway, Kept
-----------------------------------------------------------------------------
(* No copies are created: Held, Offered and the packets are compared copy  *)
(* by copy.  The copies of the hand-offs in the air:                       *)
Flying(m) ==
    {h \in {p \in Packets : p.type = "handoff" /\ p.msg = m} \X (1 .. DTN_L_COPIES) :
        h[1] \in net /\ h[2] <= h[1].copies}

(* The offered copies that the end of the hand-off takes from the item: the *)
(* item may have expired, or have come again with less than it offered.    *)
Backed(m) ==
    {h \in Offered(m) :
        LET n == h[1]
        IN  /\ handoff_qb[n] \in dtn_queue_find(n, m)
            /\ 2 * runicast[n].copies <= slot[n][handoff_qb[n]].copies}

Balance(m) == Cardinality(Held(m)) + Cardinality(Flying(m)) <= DTN_L_COPIES + Cardinality(Backed(m))

(* Only a message that was sent is handed over.                            *)
HandedSent ==
    /\ \A p \in net : p.type = "handoff" => p.msg \in sent
    /\ \A n \in Nodes : handoff_qb[n] # 0 => handoff_hdr[n] \in sent

Balanced == HandedSent /\ \A m \in Messages \ doubt : Balance(m)

(* The sets of copies are finite.                                          *)
LEMMA HandOffsFinite ==
    ASSUME NEW m \in Messages
    PROVE  IsFiniteSet({p \in Packets : p.type = "handoff" /\ p.msg = m})
  <1>. DEFINE T == (Nodes \X Nodes) \X (Copies \X (0 .. MaxHandoffs))
              P == {p \in Packets : p.type = "handoff" /\ p.msg = m}
              f == [t \in T |-> HandOff(t[1][1], t[1][2], m, t[2][1], t[2][2])]
  <1>1. IsFiniteSet(Copies) /\ IsFiniteSet(0 .. MaxHandoffs)
    BY FS_Interval, DtnAssumption DEF Copies
  <1>2. IsFiniteSet(Nodes \X Nodes) /\ IsFiniteSet(Copies \X (0 .. MaxHandoffs))
    BY <1>1, FS_Product, DtnAssumption
  <1>3. IsFiniteSet(T)
    BY <1>2, FS_Product
  <1>4. \A p \in P : \E t \in T : f[t] = p
    <2>. SUFFICES ASSUME NEW p \in P PROVE \E t \in T : f[t] = p
      OBVIOUS
    <2>1. PICK n \in Nodes, k \in Nodes, l \in Copies, seq \in 0 .. MaxHandoffs :
              p = HandOff(n, k, m, l, seq)
      BY DEF Packets, Spray, Request, HandOff, Ack
    <2>2. <<<<n, k>>, <<l, seq>>>> \in T
      OBVIOUS
    <2>. QED BY <2>1, <2>2
  <1>. DEFINE R == {f[t] : t \in T}
  <1>5. P \subseteq R
    BY <1>4
  <1>6. f \in [T -> R] /\ \A r \in R : \E t \in T : f[t] = r
    <2>. HIDE DEF T
    <2>1. f \in [T -> R]
      BY Zenon
    <2>. HIDE DEF f
    <2>. QED BY <2>1
  <1>. HIDE DEF T, f, R, P
  <1>7. f \in Surjection(T, R)
    BY <1>6 DEF Surjection
  <1>8. IsFiniteSet(R)
    BY <1>3, <1>7, FS_Surjection
  <1>. QED BY <1>5, <1>8, FS_Subset DEF P

LEMMA CopiesFinite ==
    /\ \A S \in SUBSET ((Nodes \X Slots) \X (1 .. DTN_L_COPIES)) : IsFiniteSet(S)
    /\ \A S \in SUBSET (Nodes \X (1 .. DTN_L_COPIES)) : IsFiniteSet(S)
    /\ \A m \in Messages :
          \A S \in SUBSET ({p \in Packets : p.type = "handoff" /\ p.msg = m} \X (1 .. DTN_L_COPIES)) :
              IsFiniteSet(S)
  <1>1. IsFiniteSet(1 .. DTN_L_COPIES)
    BY FS_Interval, DtnAssumption
  <1>2. IsFiniteSet((Nodes \X Slots) \X (1 .. DTN_L_COPIES))
    BY <1>1, FS_Product, DtnAssumption
  <1>3. IsFiniteSet(Nodes \X (1 .. DTN_L_COPIES))
    BY <1>1, FS_Product, DtnAssumption
  <1>4. ASSUME NEW m \in Messages
        PROVE  IsFiniteSet({p \in Packets : p.type = "handoff" /\ p.msg = m} \X (1 .. DTN_L_COPIES))
    BY <1>1, HandOffsFinite, FS_Product
  <1>. QED BY <1>2, <1>3, <1>4, FS_Subset

(* The copies a + 1 .. b of one item, packet or offer.                     *)
LEMMA Numbered ==
    ASSUME NEW x, NEW a \in Nat, NEW b \in Nat, a <= b
    PROVE  IsFiniteSet({x} \X (a + 1 .. b)) /\ Cardinality({x} \X (a + 1 .. b)) = b - a
  <1>. DEFINE I == a + 1 .. b
  <1>1. IsFiniteSet({x}) /\ Cardinality({x}) = 1
    BY FS_Singleton
  <1>2. IsFiniteSet(I) /\ Cardinality(I) = b - a
    <2>1. a + 1 \in Int /\ b \in Int
      OBVIOUS
    <2>2. IsFiniteSet(I) /\ Cardinality(I) = IF a + 1 > b THEN 0 ELSE b - (a + 1) + 1
      BY <2>1, FS_Interval
    <2>. QED BY <2>2
  <1>. HIDE DEF I
  <1>3. IsFiniteSet({x} \X I) /\ Cardinality({x} \X I) = Cardinality({x}) * Cardinality(I)
    BY <1>1, <1>2, FS_Product
  <1>4. Cardinality({x} \X I) = 1 * (b - a)
    BY <1>1, <1>2, <1>3
  <1>. QED BY <1>3, <1>4 DEF I

LEMMA AtMostMore ==
    ASSUME NEW A, NEW B, IsFiniteSet(B), NEW x, NEW a \in Nat, NEW b \in Nat, a <= b,
           A \subseteq B \cup ({x} \X (a + 1 .. b))
    PROVE  Cardinality(A) <= Cardinality(B) + (b - a)
  <1>. DEFINE T == {x} \X (a + 1 .. b)
  <1>1. IsFiniteSet(T) /\ Cardinality(T) = b - a
    BY Numbered
  <1>. HIDE DEF T
  <1>2. /\ IsFiniteSet(B \cup T) /\ IsFiniteSet(B \cap T)
        /\ Cardinality(B \cup T) = Cardinality(B) + Cardinality(T) - Cardinality(B \cap T)
    BY <1>1, FS_Union, FS_Intersection
  <1>3. IsFiniteSet(A) /\ Cardinality(A) <= Cardinality(B \cup T)
    BY <1>2, FS_Subset DEF T
  <1>4. Cardinality(A) \in Nat /\ Cardinality(B) \in Nat /\ Cardinality(B \cap T) \in Nat
    BY <1>2, <1>3, FS_CardinalityType
  <1>. QED BY <1>1, <1>2, <1>3, <1>4

LEMMA AtLeastMore ==
    ASSUME NEW A, NEW B, IsFiniteSet(A), NEW x, NEW a \in Nat, NEW b \in Nat, a <= b,
           B \subseteq A, {x} \X (a + 1 .. b) \subseteq A \ B
    PROVE  Cardinality(B) + (b - a) <= Cardinality(A)
  <1>. DEFINE T == {x} \X (a + 1 .. b)
  <1>1. IsFiniteSet(T) /\ Cardinality(T) = b - a
    BY Numbered
  <1>. HIDE DEF T
  <1>2. IsFiniteSet(B) /\ Cardinality(B) <= Cardinality(A)
    BY FS_Subset
  <1>3. /\ IsFiniteSet(B \cup T)
        /\ Cardinality(B \cup T) = Cardinality(B) + Cardinality(T) - Cardinality(B \cap T)
    BY <1>1, <1>2, FS_Union
  <1>4. B \cap T = {} /\ B \cup T \subseteq A
    BY DEF T
  <1>5. Cardinality(B \cap T) = 0 /\ Cardinality(B \cup T) <= Cardinality(A)
    BY <1>4, FS_EmptySet, FS_Subset
  <1>6. Cardinality(A) \in Nat /\ Cardinality(B) \in Nat
    BY <1>2, FS_CardinalityType
  <1>. QED BY <1>1, <1>3, <1>5, <1>6

(* What a step may do to each of the three sets without creating a copy.   *)
LEMMA HeldKept ==
    ASSUME NEW m \in Messages,
           \A n \in Nodes, s \in Slots :
               ptr'[n][s] # "free" /\ slot'[n][s].msg = m /\ slot'[n][s].copies # 0 =>
                   /\ ptr[n][s] # "free" /\ slot[n][s].msg = m
                   /\ slot'[n][s].copies <= slot[n][s].copies,
           IInv, IInv'
    PROVE  Held(m)' \subseteq Held(m)
  <1>. SUFFICES ASSUME NEW h \in Held(m)' PROVE h \in Held(m)
    OBVIOUS
  <1>. DEFINE n == h[1][1]
              s == h[1][2]
  <1>1. /\ h \in (Nodes \X Slots) \X (1 .. DTN_L_COPIES)
        /\ ptr'[n][s] # "free" /\ slot'[n][s].msg = m /\ h[2] <= slot'[n][s].copies
    BY DEF Held, dtn_queue_find, Used
  <1>2. n \in Nodes /\ s \in Slots /\ h[2] \in Nat \ {0}
    BY <1>1
  <1>. HIDE DEF n, s
  <1>3. slot'[n][s].copies \in Nat /\ slot[n][s].copies \in Nat
    BY <1>2 DEF IInv, TypeOK, Copies
  <1>4. slot'[n][s].copies # 0
    BY <1>1, <1>2, <1>3
  <1>5. /\ ptr[n][s] # "free" /\ slot[n][s].msg = m
        /\ slot'[n][s].copies <= slot[n][s].copies
    BY <1>1, <1>2, <1>4
  <1>6. h[2] <= slot[n][s].copies
    BY <1>1, <1>2, <1>3, <1>5
  <1>. QED BY <1>1, <1>2, <1>5, <1>6 DEF Held, dtn_queue_find, Used, n, s

LEMMA SpraysOnly ==
    ASSUME NEW n, NEW running, NEW gone, NEW new, dtn_queue_spray(n, running, gone, new),
           NEW r \in net'
    PROVE  r \in net \ gone \/ r \in new \/ r.type = "spray"
  <1>1. r \in net \ gone \/ r \in new \/ r \in sprays(n)
    BY DEF dtn_queue_spray, transmit, sprays
  <1>2. r \in sprays(n) => r.type = "spray"
    BY DEF sprays, Spray
  <1>. QED BY <1>1, <1>2

LEMMA FlyingKept ==
    ASSUME NEW m \in Messages, \A p \in net' : p.type = "handoff" /\ p.msg = m => p \in net
    PROVE  Flying(m)' \subseteq Flying(m)
  BY DEF Flying

Backing(n, m) ==
    /\ handoff_qb[n] # 0 /\ handoff_hdr[n] = m
    /\ ptr[n][handoff_qb[n]] # "free" /\ slot[n][handoff_qb[n]].msg = m
    /\ 2 * runicast[n].copies <= slot[n][handoff_qb[n]].copies

LEMMA BackedAre ==
    ASSUME TypeOK, NEW m \in Messages
    PROVE  Backed(m) = {h \in Nodes \X (1 .. DTN_L_COPIES) :
                            Backing(h[1], m) /\ h[2] <= runicast[h[1]].copies}
  BY DEF Backed, Offered, Backing, dtn_queue_find, Used, TypeOK

LEMMA BackedNext ==
    ASSUME IInv', NEW m \in Messages
    PROVE  Backed(m)' = {h \in Nodes \X (1 .. DTN_L_COPIES) :
                            Backing(h[1], m)' /\ h[2] <= runicast'[h[1]].copies}
  BY DEF Backed, Offered, Backing, dtn_queue_find, Used, TypeOK, IInv

LEMMA BackedKept ==
    ASSUME IInv, IInv', NEW m \in Messages,
           \A n \in Nodes :
               Backing(n, m) => Backing(n, m)' /\ runicast'[n].copies = runicast[n].copies
    PROVE  Backed(m) \subseteq Backed(m)'
  <1>1. Backed(m) = {h \in Nodes \X (1 .. DTN_L_COPIES) :
                            Backing(h[1], m) /\ h[2] <= runicast[h[1]].copies}
    BY BackedAre DEF IInv
  <1>2. Backed(m)' = {h \in Nodes \X (1 .. DTN_L_COPIES) :
                            Backing(h[1], m)' /\ h[2] <= runicast'[h[1]].copies}
    BY BackedNext
  <1>. HIDE DEF Backing
  <1>. QED BY <1>1, <1>2

LEMMA FiniteNow ==
    ASSUME NEW m \in Messages
    PROVE  /\ IsFiniteSet(Held(m)) /\ IsFiniteSet(Flying(m)) /\ IsFiniteSet(Backed(m))
           /\ IsFiniteSet(Held(m)') /\ IsFiniteSet(Flying(m)') /\ IsFiniteSet(Backed(m)')
           /\ Cardinality(Held(m)) \in Nat /\ Cardinality(Held(m)') \in Nat
           /\ Cardinality(Flying(m)) \in Nat /\ Cardinality(Flying(m)') \in Nat
           /\ Cardinality(Backed(m)) \in Nat /\ Cardinality(Backed(m)') \in Nat
  <1>1. /\ Held(m) \subseteq (Nodes \X Slots) \X (1 .. DTN_L_COPIES)
        /\ Held(m)' \subseteq (Nodes \X Slots) \X (1 .. DTN_L_COPIES)
    BY DEF Held
  <1>2. /\ Flying(m) \subseteq {p \in Packets : p.type = "handoff" /\ p.msg = m} \X (1 .. DTN_L_COPIES)
        /\ Flying(m)' \subseteq {p \in Packets : p.type = "handoff" /\ p.msg = m} \X (1 .. DTN_L_COPIES)
    BY DEF Flying
  <1>3. /\ Backed(m) \subseteq Nodes \X (1 .. DTN_L_COPIES)
        /\ Backed(m)' \subseteq Nodes \X (1 .. DTN_L_COPIES)
    BY DEF Backed, Offered
  <1>4. /\ IsFiniteSet(Held(m)) /\ IsFiniteSet(Flying(m)) /\ IsFiniteSet(Backed(m))
        /\ IsFiniteSet(Held(m)') /\ IsFiniteSet(Flying(m)') /\ IsFiniteSet(Backed(m)')
    BY <1>1, <1>2, <1>3, CopiesFinite
  <1>. QED BY <1>4, FS_CardinalityType

(* One item may gain the copies a + 1 .. b of m, all others lose or keep.   *)
LEMMA HeldMore ==
    ASSUME IInv, IInv', NEW m \in Messages, NEW n \in Nodes, NEW s \in Slots,
           NEW a \in Nat, NEW b \in Nat, a <= b,
           a = 0 \/ (ptr[n][s] # "free" /\ slot[n][s].msg = m /\ a <= slot[n][s].copies),
           slot'[n][s].copies <= b,
           \A k \in Nodes, t \in Slots :
               (k # n \/ t # s) /\ ptr'[k][t] # "free" /\ slot'[k][t].msg = m =>
                   /\ ptr[k][t] # "free" /\ slot[k][t].msg = m
                   /\ slot'[k][t].copies <= slot[k][t].copies
    PROVE  Cardinality(Held(m)') <= Cardinality(Held(m)) + (b - a)
  <1>1. ASSUME NEW h \in Held(m)' PROVE h \in Held(m) \cup ({<<n, s>>} \X (a + 1 .. b))
    <2>. DEFINE k == h[1][1]
                t == h[1][2]
                i == h[2]
    <2>1. h \in (Nodes \X Slots) \X (1 .. DTN_L_COPIES)
      BY <1>1 DEF Held
    <2>2. ptr'[k][t] # "free" /\ slot'[k][t].msg = m /\ i <= slot'[k][t].copies
      BY <1>1 DEF Held, dtn_queue_find, Used
    <2>3. k \in Nodes /\ t \in Slots /\ i \in Nat \ {0} /\ h = <<<<k, t>>, i>>
      BY <2>1
    <2>4. h \in Held(m) <=> ptr[k][t] # "free" /\ slot[k][t].msg = m /\ i <= slot[k][t].copies
      BY <2>1, <2>3 DEF Held, dtn_queue_find, Used
    <2>. HIDE DEF k, t, i
    <2>5. slot'[k][t].copies \in Nat /\ slot[k][t].copies \in Nat
      BY <2>3 DEF IInv, TypeOK, Copies
    <2>6. CASE k # n \/ t # s
      BY <2>2, <2>3, <2>4, <2>5, <2>6
    <2>7. CASE k = n /\ t = s /\ i <= a
      BY <2>3, <2>4, <2>5, <2>7
    <2>8. CASE k = n /\ t = s /\ ~(i <= a)
      <3>1. i \in a + 1 .. b
        BY <2>2, <2>3, <2>5, <2>8
      <3>. QED BY <2>3, <2>8, <3>1
    <2>. QED BY <2>6, <2>7, <2>8
  <1>2. Held(m)' \subseteq Held(m) \cup ({<<n, s>>} \X (a + 1 .. b))
    BY <1>1
  <1>. QED BY <1>2, FiniteNow, AtMostMore

(* One item loses the copies b + 1 .. a of m, all others lose or keep.      *)
LEMMA HeldLess ==
    ASSUME IInv, IInv', NEW m \in Messages, NEW n \in Nodes, NEW s \in Slots,
           NEW a \in Nat, NEW b \in Nat, b <= a,
           ptr[n][s] # "free", slot[n][s].msg = m, a <= slot[n][s].copies,
           ptr'[n][s] # "free" => slot'[n][s].copies <= b,
           \A k \in Nodes, t \in Slots :
               ptr'[k][t] # "free" /\ slot'[k][t].msg = m =>
                   /\ ptr[k][t] # "free" /\ slot[k][t].msg = m
                   /\ slot'[k][t].copies <= slot[k][t].copies
    PROVE  Cardinality(Held(m)') + (a - b) <= Cardinality(Held(m))
  <1>1. Held(m)' \subseteq Held(m)
    BY HeldKept
  <1>2. ASSUME NEW i \in b + 1 .. a
        PROVE  <<<<n, s>>, i>> \in Held(m) /\ <<<<n, s>>, i>> \notin Held(m)'
    <2>1. /\ slot[n][s].copies \in Nat /\ slot[n][s].copies <= DTN_L_COPIES
          /\ slot'[n][s].copies \in Nat /\ DTN_L_COPIES \in Nat
      BY DtnAssumption DEF IInv, TypeOK, Copies
    <2>2. i \in 1 .. DTN_L_COPIES /\ i <= slot[n][s].copies
      BY <2>1
    <2>3. ptr'[n][s] # "free" => ~(i <= slot'[n][s].copies)
      BY <2>1
    <2>4. <<<<n, s>>, i>> \in Held(m)
      BY <2>2 DEF Held, dtn_queue_find, Used
    <2>5. <<<<n, s>>, i>> \notin Held(m)'
      BY <2>3 DEF Held, dtn_queue_find, Used
    <2>. QED BY <2>4, <2>5
  <1>3. {<<n, s>>} \X (b + 1 .. a) \subseteq Held(m) \ Held(m)'
    BY <1>2
  <1>. QED BY <1>1, <1>3, FiniteNow, AtLeastMore

(* A hand-off of n begins to back its offer, or stops to.                   *)
LEMMA BackedMore ==
    ASSUME IInv, IInv', NEW m \in Messages, NEW n \in Nodes, Backing(n, m)',
           \A k \in Nodes : Backing(k, m) =>
               k # n /\ Backing(k, m)' /\ runicast'[k].copies = runicast[k].copies
    PROVE  Cardinality(Backed(m)) + runicast'[n].copies <= Cardinality(Backed(m)')
  <1>. DEFINE l == runicast'[n].copies
  <1>1. l \in Nat /\ l <= DTN_L_COPIES
    BY DtnAssumption DEF IInv, TypeOK, Copies
  <1>2. Backed(m) = {h \in Nodes \X (1 .. DTN_L_COPIES) :
                            Backing(h[1], m) /\ h[2] <= runicast[h[1]].copies}
    BY BackedAre DEF IInv
  <1>3. Backed(m)' = {h \in Nodes \X (1 .. DTN_L_COPIES) :
                            Backing(h[1], m)' /\ h[2] <= runicast'[h[1]].copies}
    BY BackedNext
  <1>. HIDE DEF Backing
  <1>4. Backed(m) \subseteq Backed(m)'
    BY <1>2, <1>3
  <1>5. ASSUME NEW i \in 0 + 1 .. l PROVE <<n, i>> \in Backed(m)' \ Backed(m)
    <2>1. i \in 1 .. DTN_L_COPIES /\ i <= l
      BY <1>1, DtnAssumption
    <2>. QED BY <2>1, <1>2, <1>3
  <1>6. {n} \X (0 + 1 .. l) \subseteq Backed(m)' \ Backed(m)
    BY <1>5
  <1>7. IsFiniteSet(Backed(m)') /\ 0 \in Nat /\ 0 <= l
    BY <1>1, FiniteNow
  <1>. HIDE DEF l
  <1>8. Cardinality(Backed(m)) + (l - 0) <= Cardinality(Backed(m)')
    BY <1>1, <1>4, <1>6, <1>7, AtLeastMore
  <1>. QED BY <1>1, <1>8 DEF l

LEMMA BackedLess ==
    ASSUME IInv, IInv', NEW m \in Messages, NEW n \in Nodes,
           \A k \in Nodes : Backing(k, m) /\ k # n =>
               Backing(k, m)' /\ runicast'[k].copies = runicast[k].copies
    PROVE  Cardinality(Backed(m)) <= Cardinality(Backed(m)') + runicast[n].copies
  <1>. DEFINE l == runicast[n].copies
  <1>1. l \in Nat
    BY DtnAssumption DEF IInv, TypeOK, Copies
  <1>2. Backed(m) = {h \in Nodes \X (1 .. DTN_L_COPIES) :
                            Backing(h[1], m) /\ h[2] <= runicast[h[1]].copies}
    BY BackedAre DEF IInv
  <1>3. Backed(m)' = {h \in Nodes \X (1 .. DTN_L_COPIES) :
                            Backing(h[1], m)' /\ h[2] <= runicast'[h[1]].copies}
    BY BackedNext
  <1>. HIDE DEF Backing
  <1>4. ASSUME NEW h \in Backed(m) PROVE h \in Backed(m)' \cup ({n} \X (0 + 1 .. l))
    <2>1. CASE h[1] # n
      BY <1>2, <1>3, <1>4, <2>1
    <2>2. CASE h[1] = n
      <3>1. h \in Nodes \X (1 .. DTN_L_COPIES) /\ h[2] <= l
        BY <1>2, <1>4, <2>2
      <3>2. h[2] \in 0 + 1 .. l
        BY <1>1, <3>1, DtnAssumption
      <3>. QED BY <2>2, <3>1, <3>2
    <2>. QED BY <2>1, <2>2
  <1>5. Backed(m) \subseteq Backed(m)' \cup ({n} \X (0 + 1 .. l))
    BY <1>4
  <1>6. IsFiniteSet(Backed(m)') /\ 0 \in Nat /\ 0 <= l
    BY <1>1, FiniteNow
  <1>. HIDE DEF l
  <1>7. Cardinality(Backed(m)) <= Cardinality(Backed(m)') + (l - 0)
    BY <1>1, <1>5, <1>6, AtMostMore
  <1>. QED BY <1>1, <1>7 DEF l

(* A step that adds no copy of a message, and takes back no offer of one,  *)
(* keeps the balance.                                                      *)
LEMMA NoMore ==
    ASSUME NEW m \in Messages, Balance(m),
           Held(m)' \subseteq Held(m), Flying(m)' \subseteq Flying(m),
           Backed(m) \subseteq Backed(m)'
    PROVE  Balance(m)'
  <1>1. /\ Cardinality(Held(m)') <= Cardinality(Held(m))
        /\ Cardinality(Flying(m)') <= Cardinality(Flying(m))
        /\ Cardinality(Backed(m)) <= Cardinality(Backed(m)')
    BY FiniteNow, FS_Subset
  <1>. QED BY <1>1, FiniteNow, DtnAssumption DEF Balance

(* An offer stays backed while its item stays and loses nothing.           *)
LEMMA BackedStays ==
    ASSUME IInv, IInv', NEW m \in Messages, UNCHANGED handoff,
           \A n \in Nodes, s \in Slots :
               ptr[n][s] # "free" /\ slot[n][s].msg = m =>
                   /\ ptr'[n][s] # "free" /\ slot'[n][s].msg = m
                   /\ slot[n][s].copies <= slot'[n][s].copies
    PROVE  Backed(m) \subseteq Backed(m)'
  <1>1. ASSUME NEW n \in Nodes, Backing(n, m) PROVE Backing(n, m)'
    <2>. DEFINE s == handoff_qb[n]
    <2>1. s \in Slots /\ handoff_qb' = handoff_qb /\ handoff_hdr' = handoff_hdr /\ runicast' = runicast
      BY <1>1 DEF Backing, IInv, TypeOK, handoff
    <2>2. /\ ptr'[n][s] # "free" /\ slot'[n][s].msg = m
          /\ slot[n][s].copies <= slot'[n][s].copies
      BY <1>1, <2>1 DEF Backing
    <2>3. slot[n][s].copies \in Nat /\ slot'[n][s].copies \in Nat /\ runicast[n].copies \in Nat
      BY <2>1 DEF IInv, TypeOK, Copies
    <2>4. 2 * runicast[n].copies <= slot[n][s].copies
      BY <1>1 DEF Backing
    <2>5. 2 * runicast[n].copies <= slot'[n][s].copies
      BY <2>2, <2>3, <2>4
    <2>. QED BY <1>1, <2>1, <2>2, <2>5 DEF Backing
  <1>. QED BY <1>1, BackedKept DEF handoff

LEMMA EnqueueAlone ==
    ASSUME IInv, NEW n \in Nodes, NEW m, NEW copies, NEW state, enqueue(n, m, copies, state)
    PROVE  \E s \in Slots :
               /\ ptr[n][s] = "free" /\ slot'[n][s] = [msg |-> m, copies |-> copies]
               /\ \A k \in Nodes, t \in Slots :
                      k # n \/ t # s => slot'[k][t] = slot[k][t] /\ ptr'[k][t] = ptr[k][t]
  <1>1. PICK s \in Slots \ Used(n) :
            /\ slot' = [slot EXCEPT ![n][s] = [msg |-> m, copies |-> copies]]
            /\ ptr' = [ptr EXCEPT ![n][s] = state]
    BY DEF enqueue
  <1>2. slot \in [Nodes -> [Slots -> [msg : Messages \cup {None}, copies : Copies]]]
        /\ ptr \in [Nodes -> [Slots -> {"free", "pending", "ready"}]]
    BY DEF IInv, TypeOK
  <1>3. ptr[n][s] = "free" /\ slot'[n][s] = [msg |-> m, copies |-> copies]
    BY <1>1, <1>2 DEF Used
  <1>4. \A k \in Nodes, t \in Slots :
            k # n \/ t # s => slot'[k][t] = slot[k][t] /\ ptr'[k][t] = ptr[k][t]
    BY <1>1, <1>2
  <1>. QED BY <1>3, <1>4

(* Items that are left alone, and new items of other messages or without a *)
(* copy, change neither what is held of m nor what backs an offer of it.   *)
LEMMA ItemsAlone ==
    ASSUME IInv, IInv', NEW m \in Messages, UNCHANGED handoff,
           \A k \in Nodes, t \in Slots :
               \/ slot'[k][t] = slot[k][t] /\ ptr'[k][t] = ptr[k][t]
               \/ ptr[k][t] = "free" /\ (slot'[k][t].msg # m \/ slot'[k][t].copies = 0)
    PROVE  Held(m)' \subseteq Held(m) /\ Backed(m) \subseteq Backed(m)'
  <1>1. \A k \in Nodes, t \in Slots : slot[k][t].copies \in Nat
    BY DEF IInv, TypeOK, Copies
  <1>2. Held(m)' \subseteq Held(m)
    BY <1>1, HeldKept
  <1>3. Backed(m) \subseteq Backed(m)'
    BY <1>1, BackedStays
  <1>. QED BY <1>2, <1>3

(* A message is sent once, with all its copies.                            *)
LEMMA SendBalanced ==
    ASSUME IInv, IInv', Balanced, NEW n \in Nodes, NEW m \in Messages, dtn_send(n, m),
           NEW x \in Messages, Balance(x)
    PROVE  Balance(x)'
  <1>1. m \notin sent /\ UNCHANGED <<handoff, doubt>>
    BY DEF dtn_send
  <1>2. CASE UNCHANGED <<queue, spray_ct, net>>
    <2>1. Held(x)' \subseteq Held(x) /\ Backed(x) \subseteq Backed(x)'
      BY <1>1, <1>2, ItemsAlone DEF queue
    <2>2. Flying(x)' \subseteq Flying(x)
      BY <1>2, FlyingKept
    <2>. QED BY <2>1, <2>2, NoMore
  <1>3. CASE enqueue(n, m, DTN_L_COPIES, "ready") /\ dtn_queue_spray(n, spray_ct, {}, {})
    <2>1. PICK s \in Slots :
               /\ ptr[n][s] = "free" /\ slot'[n][s] = [msg |-> m, copies |-> DTN_L_COPIES]
               /\ \A k \in Nodes, t \in Slots :
                      k # n \/ t # s => slot'[k][t] = slot[k][t] /\ ptr'[k][t] = ptr[k][t]
      BY <1>3, EnqueueAlone
    <2>2. \A p \in net' : p.type = "handoff" => p \in net
      BY <1>3 DEF dtn_queue_spray, transmit, Spray
    <2>3. Flying(x)' \subseteq Flying(x)
      BY <2>2, FlyingKept
    <2>4. CASE x # m
      <3>1. Held(x)' \subseteq Held(x) /\ Backed(x) \subseteq Backed(x)'
        BY <1>1, <2>1, <2>4, ItemsAlone
      <3>. QED BY <2>3, <3>1, NoMore
    <2>5. CASE x = m
      <3>1. \A k \in Nodes, t \in Slots : ptr[k][t] # "free" => slot[k][t].msg # x
        BY <1>1, <2>5 DEF IInv, Filled
      <3>2. \A k \in Nodes, t \in Slots :
                ptr'[k][t] # "free" /\ slot'[k][t].msg = x => k = n /\ t = s
        BY <2>1, <3>1
      <3>3. Held(x) = {}
        BY <3>1 DEF Held, dtn_queue_find, Used
      <3>4. Cardinality(Held(x)') <= Cardinality(Held(x)) + (DTN_L_COPIES - 0)
        BY <2>1, <3>2, HeldMore, DtnAssumption
      <3>5. Flying(x)' = {}
        BY <1>1, <2>2, <2>5 DEF Flying, Balanced, HandedSent
      <3>6. Cardinality(Held(x)') <= DTN_L_COPIES /\ Cardinality(Flying(x)') = 0
        BY <3>3, <3>4, <3>5, FS_EmptySet, DtnAssumption
      <3>. QED BY <3>6, FiniteNow, DtnAssumption DEF Balance
    <2>. QED BY <2>4, <2>5
  <1>. QED BY <1>2, <1>3 DEF dtn_send, queue

(* Steps that only broadcast, request, drop or enqueue a pending item.     *)
LEMMA QuietBalanced ==
    ASSUME IInv, IInv', NEW x \in Messages, Balance(x), UNCHANGED <<queue, handoff>>,
           \A p \in net' : p.type = "handoff" => p \in net
    PROVE  Balance(x)'
  <1>1. Held(x)' \subseteq Held(x) /\ Backed(x) \subseteq Backed(x)'
    BY ItemsAlone DEF queue
  <1>2. Flying(x)' \subseteq Flying(x)
    BY FlyingKept
  <1>. QED BY <1>1, <1>2, NoMore

LEMMA SprayRecvBalanced ==
    ASSUME IInv, IInv', NEW p \in net, dtn_spray_recv(p), NEW x \in Messages, Balance(x)
    PROVE  Balance(x)'
  <1>1. p.to \in Nodes /\ p.from \in Nodes /\ UNCHANGED handoff
    BY PacketFields DEF dtn_spray_recv, IInv, TypeOK
  <1>2. \A q \in net' : q.type = "handoff" => q \in net
    BY DEF dtn_spray_recv, transmit, Request
  <1>3. CASE UNCHANGED queue
    BY <1>1, <1>2, <1>3, QuietBalanced
  <1>4. CASE enqueue(p.to, p.msg, 0, "pending")
    <2>1. PICK s \in Slots :
               /\ ptr[p.to][s] = "free" /\ slot'[p.to][s] = [msg |-> p.msg, copies |-> 0]
               /\ \A k \in Nodes, t \in Slots :
                      k # p.to \/ t # s => slot'[k][t] = slot[k][t] /\ ptr'[k][t] = ptr[k][t]
      BY <1>1, <1>4, EnqueueAlone
    <2>2. Held(x)' \subseteq Held(x) /\ Backed(x) \subseteq Backed(x)'
      BY <1>1, <2>1, ItemsAlone
    <2>. QED BY <1>2, <2>2, FlyingKept, NoMore
  <1>. QED BY <1>3, <1>4 DEF dtn_spray_recv

(* An item expires or is handed to the destination with all its copies; an *)
(* offer it backed has less than half of them.                             *)
LEMMA ItemGone ==
    ASSUME IInv, IInv', UNCHANGED handoff, NEW n \in Nodes, NEW s \in Slots, ptr[n][s] # "free",
           \/ ptr'[n][s] = "free"
           \/ slot'[n][s].copies = 0 /\ slot'[n][s].msg = slot[n][s].msg,
           \A k \in Nodes, t \in Slots :
               k # n \/ t # s => slot'[k][t] = slot[k][t] /\ ptr'[k][t] = ptr[k][t],
           net' \subseteq net, NEW x \in Messages, Balance(x)
    PROVE  Balance(x)'
  <1>1. handoff_qb' = handoff_qb /\ handoff_hdr' = handoff_hdr /\ runicast' = runicast
    BY DEF handoff
  <1>2. \A k \in Nodes, t \in Slots : slot[k][t].copies \in Nat /\ slot'[k][t].copies \in Nat
    BY DEF IInv, TypeOK, Copies
  <1>3. \A k \in Nodes, t \in Slots :
            ptr'[k][t] # "free" /\ slot'[k][t].msg = x =>
                   /\ ptr[k][t] # "free" /\ slot[k][t].msg = x
                   /\ slot'[k][t].copies <= slot[k][t].copies
    BY <1>2
  <1>4. Flying(x)' \subseteq Flying(x)
    BY FlyingKept
  <1>5. \A k \in Nodes : Backing(k, x) /\ (k # n \/ handoff_qb[k] # s) => Backing(k, x)'
    BY <1>1 DEF Backing, IInv, TypeOK
  <1>6. CASE ~Backing(n, x) \/ handoff_qb[n] # s
    <2>1. Held(x)' \subseteq Held(x)
      BY <1>3, HeldKept
    <2>2. \A k \in Nodes :
              Backing(k, x) => Backing(k, x)' /\ runicast'[k].copies = runicast[k].copies
      BY <1>1, <1>5, <1>6
    <2>3. Backed(x) \subseteq Backed(x)'
      BY <2>2, BackedKept
    <2>. QED BY <1>4, <2>1, <2>3, NoMore
  <1>7. CASE Backing(n, x) /\ handoff_qb[n] = s
    <2>. DEFINE c == slot[n][s].copies
                l == runicast[n].copies
    <2>1. c \in Nat /\ l \in Nat /\ 2 * l <= c /\ slot[n][s].msg = x
      BY <1>2, <1>7 DEF Backing, IInv, TypeOK, Copies
    <2>2. Cardinality(Held(x)') + (c - 0) <= Cardinality(Held(x))
      BY <1>2, <1>3, <2>1, HeldLess
    <2>3. \A k \in Nodes : Backing(k, x) /\ k # n =>
               Backing(k, x)' /\ runicast'[k].copies = runicast[k].copies
      BY <1>1, <1>5
    <2>4. Cardinality(Backed(x)) <= Cardinality(Backed(x)') + l
      BY <2>3, BackedLess
    <2>5. Cardinality(Flying(x)') <= Cardinality(Flying(x))
      BY <1>4, FiniteNow, FS_Subset
    <2>. HIDE DEF c, l
    <2>. QED BY <2>1, <2>2, <2>4, <2>5, FiniteNow, DtnAssumption DEF Balance
  <1>. QED BY <1>6, <1>7

LEMMA ExpireBalanced ==
    ASSUME IInv, IInv', NEW n \in Nodes, NEW s \in Slots, expire(n, s),
           NEW x \in Messages, Balance(x)
    PROVE  Balance(x)'
  <1>1. ptr[n][s] # "free" /\ ptr'[n][s] = "free" /\ UNCHANGED <<slot, handoff, net>>
        /\ \A k \in Nodes, t \in Slots : k # n \/ t # s => ptr'[k][t] = ptr[k][t]
    BY DEF expire, Used, IInv, TypeOK
  <1>. QED BY <1>1, ItemGone

(* Half of an item, or less, is sent: what flies is backed by the item.     *)
LEMMA BeginBalanced ==
    ASSUME IInv, IInv', NEW n \in Nodes, NEW k \in Nodes, NEW m \in Messages,
           NEW s \in dtn_queue_find(n, m), handoff_qb[n] = 0, UNCHANGED <<slot, ptr>>,
           handoff_qb' = [handoff_qb EXCEPT ![n] = s],
           handoff_hdr' = [handoff_hdr EXCEPT ![n] = m],
           runicast' = [runicast EXCEPT
                ![n] = [to |-> k, copies |-> giveHalf(slot[n][s].copies), rxmit |-> 1]],
           NEW p, NEW seq \in 0 .. MaxHandoffs,
           transmit({p}, {HandOff(n, k, m, giveHalf(slot[n][s].copies), seq)}),
           NEW x \in Messages, Balance(x)
    PROVE  Balance(x)'
  <1>. DEFINE c == slot[n][s].copies
              l == giveHalf(c)
              q == HandOff(n, k, m, l, seq)
  <1>1. s \in Slots /\ s # 0 /\ c \in Copies /\ ptr[n][s] # "free" /\ slot[n][s].msg = m
    BY DtnAssumption DEF dtn_queue_find, Used, IInv, TypeOK
  <1>2. l \in Copies /\ l \in Nat /\ 2 * l <= c
    BY <1>1, DtnAssumption DEF giveHalf, Copies
  <1>3. /\ handoff_qb'[n] = s /\ handoff_hdr'[n] = m /\ runicast'[n].copies = l
        /\ \A j \in Nodes : j # n => /\ handoff_qb'[j] = handoff_qb[j]
                                     /\ handoff_hdr'[j] = handoff_hdr[j]
                                     /\ runicast'[j] = runicast[j]
    BY DEF IInv, TypeOK
  <1>4. Held(x)' \subseteq Held(x)
    <2>1. \A j \in Nodes, t \in Slots : slot[j][t].copies \in Nat
      BY DEF IInv, TypeOK, Copies
    <2>. QED BY <2>1, HeldKept
  <1>5. \A j \in Nodes : Backing(j, x) =>
               j # n /\ Backing(j, x)' /\ runicast'[j].copies = runicast[j].copies
    BY <1>3 DEF Backing
  <1>6. CASE x # m
    <2>1. Flying(x)' \subseteq Flying(x)
      BY <1>6, FlyingKept DEF transmit, HandOff
    <2>2. Backed(x) \subseteq Backed(x)'
      BY <1>5, BackedKept
    <2>. QED BY <1>4, <2>1, <2>2, NoMore
  <1>7. CASE x = m
    <2>1. Backing(n, x)'
      BY <1>1, <1>2, <1>3, <1>7 DEF Backing
    <2>2. Cardinality(Backed(x)) + l <= Cardinality(Backed(x)')
      BY <1>3, <1>5, <2>1, BackedMore
    <2>3. q.copies = l /\ net' \subseteq net \cup {q}
      BY DEF transmit, HandOff
    <2>4. Flying(x)' \subseteq Flying(x) \cup ({q} \X (0 + 1 .. l))
      <3>1. ASSUME NEW h \in Flying(x)' PROVE h \in Flying(x) \cup ({q} \X (0 + 1 .. l))
        <4>1. CASE h[1] = q
          <5>1. h = <<h[1], h[2]>> /\ h[2] \in 1 .. DTN_L_COPIES /\ h[2] <= l
            BY <2>3, <3>1, <4>1 DEF Flying
          <5>2. h[2] \in 0 + 1 .. l
            BY <1>2, <5>1, DtnAssumption
          <5>. QED BY <4>1, <5>1, <5>2
        <4>2. CASE h[1] # q
          BY <2>3, <3>1, <4>2 DEF Flying
        <4>. QED BY <4>1, <4>2
      <3>. QED BY <3>1
    <2>5. Cardinality(Flying(x)') <= Cardinality(Flying(x)) + (l - 0)
      <3>1. IsFiniteSet(Flying(x)) /\ 0 \in Nat /\ 0 <= l
        BY <1>2, FiniteNow
      <3>. HIDE DEF q, l
      <3>. QED BY <1>2, <2>4, <3>1, AtMostMore
    <2>6. Cardinality(Held(x)') <= Cardinality(Held(x))
      BY <1>4, FiniteNow, FS_Subset
    <2>. HIDE DEF l
    <2>. QED BY <1>2, <2>2, <2>5, <2>6, FiniteNow, DtnAssumption DEF Balance
  <1>. QED BY <1>6, <1>7

LEMMA RequestBalanced ==
    ASSUME IInv, IInv', NEW p \in net, dtn_request_recv(p), NEW x \in Messages, Balance(x)
    PROVE  Balance(x)'
  <1>. DEFINE n == p.to
              m == p.msg
  <1>1. p \in Packets /\ p.type = "request" /\ n \in Nodes /\ p.from \in Nodes /\ m \in Messages
    BY PacketFields DEF dtn_request_recv, IInv, TypeOK
  <1>2. UNCHANGED ptr
    BY DEF dtn_request_recv
  <1>3. CASE transmit({p}, {}) /\ UNCHANGED <<slot, handoff>>
    BY <1>2, <1>3, QuietBalanced DEF queue, transmit
  <1>4. ASSUME NEW s \in dtn_queue_find(n, m), transmit({p}, {}), UNCHANGED handoff,
               slot' = [slot EXCEPT ![n][s].copies = 0]
        PROVE  Balance(x)'
    <2>1. s \in Slots /\ ptr[n][s] # "free" /\ ptr'[n][s] = ptr[n][s]
      BY <1>2 DEF dtn_queue_find, Used
    <2>2. /\ slot'[n][s].copies = 0 /\ slot'[n][s].msg = slot[n][s].msg
          /\ \A j \in Nodes, t \in Slots :
               j # n \/ t # s => slot'[j][t] = slot[j][t] /\ ptr'[j][t] = ptr[j][t]
      BY <1>1, <1>2, <1>4, <2>1 DEF IInv, TypeOK
    <2>. QED BY <1>1, <1>4, <2>1, <2>2, ItemGone DEF transmit
  <1>5. ASSUME NEW s \in dtn_queue_find(n, m), handoff_qb[n] = 0, handoffs[n] < MaxHandoffs,
               handoffs' = [handoffs EXCEPT ![n] = @ + 1],
               handoff_qb' = [handoff_qb EXCEPT ![n] = s],
               handoff_hdr' = [handoff_hdr EXCEPT ![n] = m],
               runicast' = [runicast EXCEPT
                  ![n] = [to |-> p.from, copies |-> giveHalf(slot[n][s].copies), rxmit |-> 1]],
               transmit({p}, {HandOff(n, p.from, m, giveHalf(slot[n][s].copies), handoffs'[n])}),
               UNCHANGED slot
        PROVE  Balance(x)'
    <2>1. handoffs'[n] \in 0 .. MaxHandoffs
      BY <1>1 DEF IInv, TypeOK
    <2>. QED BY <1>1, <1>2, <1>5, <2>1, BeginBalanced
  <1>. QED BY <1>3, <1>4, <1>5 DEF dtn_request_recv

(* What the receiver's item gains is no longer in the air.                 *)
LEMMA HandoffRecvBalanced ==
    ASSUME IInv, IInv', NEW p \in net, dtn_handoff_recv(p), NEW x \in Messages, Balance(x)
    PROVE  Balance(x)'
  <1>. DEFINE n == p.to
              m == p.msg
              l == p.copies
  <1>1. /\ p \in Packets /\ p.type = "handoff" /\ n \in Nodes /\ p.from \in Nodes /\ m \in Messages
        /\ l \in Copies /\ l \in Nat /\ UNCHANGED handoff
    BY PacketFields, DtnAssumption DEF dtn_handoff_recv, IInv, TypeOK, Copies
  <1>2. \A q \in net' : q.type = "handoff" => q \in net /\ q # p
    <2>. SUFFICES ASSUME NEW q \in net', q.type = "handoff" PROVE q \in net /\ q # p
      OBVIOUS
    <2>1. q \notin {Ack(n, p.from, p.seq)}
      BY DEF Ack
    <2>2. CASE transmit({p}, {Ack(n, p.from, p.seq)})
      BY <2>1, <2>2 DEF transmit
    <2>3. CASE dtn_queue_spray(n, spray_ct, {p}, {Ack(n, p.from, p.seq)})
      <3>1. q \in net \ {p} \/ q \in {Ack(n, p.from, p.seq)} \/ q.type = "spray"
        BY <2>3, SpraysOnly
      <3>. QED BY <2>1, <3>1
    <2>. QED BY <2>2, <2>3 DEF dtn_handoff_recv
  <1>3. Flying(x)' \subseteq Flying(x)
    BY <1>2, FlyingKept
  <1>4. CASE UNCHANGED queue
    BY <1>1, <1>2, <1>4, QuietBalanced
  <1>5. ASSUME NEW s \in dtn_queue_find(n, m),
               slot' = [slot EXCEPT ![n][s].copies = addCopies(@, l)],
               ptr' = [ptr EXCEPT ![n][s] = "ready"]
        PROVE  Balance(x)'
    <2>. DEFINE c == slot[n][s].copies
                d == addCopies(c, l)
    <2>1. s \in Slots /\ ptr[n][s] # "free" /\ slot[n][s].msg = m
      BY <1>5 DEF dtn_queue_find, Used
    <2>2. /\ slot'[n][s].copies = d /\ slot'[n][s].msg = m /\ ptr'[n][s] = "ready"
          /\ \A k \in Nodes, t \in Slots :
               k # n \/ t # s => slot'[k][t] = slot[k][t] /\ ptr'[k][t] = ptr[k][t]
      BY <1>1, <1>5, <2>1 DEF IInv, TypeOK
    <2>3. \A k \in Nodes, t \in Slots : slot[k][t].copies \in Nat /\ slot[k][t].copies \in Copies
      BY DEF IInv, TypeOK, Copies
    <2>4. c \in Nat /\ d \in Nat /\ c <= d /\ d <= c + l
      BY <1>1, <2>1, <2>3, DtnAssumption DEF addCopies, Copies
    <2>5. Backed(x) \subseteq Backed(x)'
      <3>. HIDE DEF d
      <3>1. \A k \in Nodes, t \in Slots :
                ptr[k][t] # "free" /\ slot[k][t].msg = x =>
                   /\ ptr'[k][t] # "free" /\ slot'[k][t].msg = x
                   /\ slot[k][t].copies <= slot'[k][t].copies
        BY <2>1, <2>2, <2>3, <2>4
      <3>. QED BY <1>1, <3>1, BackedStays
    <2>. HIDE DEF d
    <2>6. CASE x # m
      <3>1. Held(x)' \subseteq Held(x)
        BY <2>1, <2>2, <2>3, <2>6, HeldKept
      <3>. QED BY <1>3, <2>5, <3>1, NoMore
    <2>7. CASE x = m
      <3>1. Cardinality(Held(x)') <= Cardinality(Held(x)) + (d - c)
        BY <1>1, <2>1, <2>2, <2>3, <2>4, <2>7, HeldMore
      <3>2. Cardinality(Flying(x)') + (l - 0) <= Cardinality(Flying(x))
        <4>1. ASSUME NEW i \in 0 + 1 .. l PROVE <<p, i>> \in Flying(x) \ Flying(x)'
          <5>1. i \in 1 .. DTN_L_COPIES /\ i <= l
            BY <1>1, DtnAssumption DEF Copies
          <5>. QED BY <1>1, <1>2, <2>7, <5>1 DEF Flying
        <4>2. {p} \X (0 + 1 .. l) \subseteq Flying(x) \ Flying(x)'
          BY <4>1
        <4>3. IsFiniteSet(Flying(x)) /\ 0 \in Nat /\ 0 <= l
          BY <1>1, FiniteNow
        <4>. HIDE DEF l
        <4>. QED BY <1>1, <1>3, <4>2, <4>3, AtLeastMore
      <3>3. Cardinality(Backed(x)) <= Cardinality(Backed(x)')
        BY <2>5, FiniteNow, FS_Subset
      <3>. HIDE DEF l, c
      <3>. QED BY <1>1, <2>4, <3>1, <3>2, <3>3, FiniteNow, DtnAssumption DEF Balance
    <2>. QED BY <2>6, <2>7
  <1>. QED BY <1>4, <1>5 DEF dtn_handoff_recv

(* When the hand-off ends, an item that backed it loses at least what was  *)
(* sent.                                                                   *)
LEMMA HandoffSentBalanced ==
    ASSUME IInv, IInv', NEW p \in net, dtn_handoff_sent(p), NEW x \in Messages, Balance(x)
    PROVE  Balance(x)'
  <1>. DEFINE n == p.to
              s == handoff_qb[n]
              c == slot[n][s].copies
              l == runicast[n].copies
  <1>1. n \in Nodes /\ UNCHANGED <<ptr, handoff_hdr, handoffs>> /\ net' \subseteq net
    BY PacketFields DEF dtn_handoff_sent, transmit, IInv, TypeOK
  <1>2. CASE UNCHANGED <<slot, handoff_qb, runicast>>
    BY <1>1, <1>2, QuietBalanced DEF queue, handoff
  <1>3. CASE /\ s # 0 /\ endHandoff(n)
             /\ IF matched(n)
                THEN slot' = [slot EXCEPT ![n][s].copies = keepHalf(@)]
                ELSE UNCHANGED slot
    <2>1. s \in Slots /\ l \in Nat
      BY <1>1, <1>3 DEF IInv, TypeOK, Copies
    <2>2. \A k \in Nodes : k # n => handoff_qb'[k] = handoff_qb[k] /\ runicast'[k] = runicast[k]
      BY <1>1, <1>3 DEF endHandoff, IInv, TypeOK
    <2>3. \A k \in Nodes, t \in Slots : slot[k][t].copies \in Nat
      BY DEF IInv, TypeOK, Copies
    <2>4. /\ slot'[n][s].msg = slot[n][s].msg
          /\ slot'[n][s].copies = IF matched(n) THEN keepHalf(c) ELSE c
          /\ \A k \in Nodes, t \in Slots : k # n \/ t # s => slot'[k][t] = slot[k][t]
      <3>1. slot \in [Nodes -> [Slots -> [msg : Messages \cup {None}, copies : Copies]]]
        BY DEF IInv, TypeOK
      <3>2. CASE matched(n)
        <4>1. slot' = [slot EXCEPT ![n][s].copies = keepHalf(@)]
          BY <1>3, <3>2
        <4>. HIDE DEF s, n
        <4>. QED BY <1>1, <2>1, <3>1, <3>2, <4>1
      <3>3. CASE ~matched(n)
        BY <1>3, <3>3
      <3>. QED BY <3>2, <3>3
    <2>5. keepHalf(c) \in Nat /\ keepHalf(c) <= c /\ c \in Nat
          /\ (2 * l <= c => keepHalf(c) + l <= c)
      BY <1>1, <2>1, <2>3 DEF keepHalf
    <2>6. \A k \in Nodes, t \in Slots :
               ptr'[k][t] # "free" /\ slot'[k][t].msg = x =>
                   /\ ptr[k][t] # "free" /\ slot[k][t].msg = x
                   /\ slot'[k][t].copies <= slot[k][t].copies
      <3>. HIDE DEF s, n
      <3>. QED BY <1>1, <2>3, <2>4, <2>5
    <2>7. \A k \in Nodes : Backing(k, x) /\ k # n =>
               Backing(k, x)' /\ runicast'[k].copies = runicast[k].copies
      BY <1>1, <2>2, <2>4 DEF Backing, IInv, TypeOK
    <2>8. Flying(x)' \subseteq Flying(x)
      BY <1>1, FlyingKept
    <2>9. CASE ~Backing(n, x)
      <3>1. Held(x)' \subseteq Held(x)
        BY <2>6, HeldKept
      <3>2. Backed(x) \subseteq Backed(x)'
        BY <2>7, <2>9, BackedKept
      <3>. QED BY <2>8, <3>1, <3>2, NoMore
    <2>10. CASE Backing(n, x)
      <3>1. matched(n) /\ ptr[n][s] # "free" /\ slot[n][s].msg = x /\ 2 * l <= c
        BY <2>10 DEF Backing, matched
      <3>2. slot'[n][s].copies = keepHalf(c) /\ keepHalf(c) <= c /\ keepHalf(c) + l <= c
        BY <2>4, <2>5, <3>1
      <3>. DEFINE b == keepHalf(c)
      <3>3. Cardinality(Held(x)') + (c - b) <= Cardinality(Held(x))
        <4>1. b \in Nat /\ c \in Nat /\ b <= c /\ slot'[n][s].copies <= b /\ c <= slot[n][s].copies
          BY <2>5, <3>2
        <4>. HIDE DEF b
        <4>. QED BY <1>1, <2>1, <2>6, <3>1, <4>1, HeldLess
      <3>4. Cardinality(Backed(x)) <= Cardinality(Backed(x)') + l
        BY <1>1, <2>7, BackedLess
      <3>5. Cardinality(Flying(x)') <= Cardinality(Flying(x))
        BY <2>8, FiniteNow, FS_Subset
      <3>6. b \in Nat /\ c \in Nat /\ b + l <= c
        BY <2>5, <3>2
      <3>. HIDE DEF b, c, l
      <3>. QED BY <2>1, <3>3, <3>4, <3>5, <3>6, FiniteNow, DtnAssumption DEF Balance, l
    <2>. QED BY <2>9, <2>10
  <1>. QED BY <1>2, <1>3 DEF dtn_handoff_sent

(* A repeated or abandoned hand-off puts its own message in doubt, and has *)
(* no part in the count of any other.                                      *)
LEMMA DoubtBalanced ==
    ASSUME IInv, IInv', NEW n \in Nodes, retransmit(n) \/ dtn_handoff_timedout(n),
           NEW x \in Messages, x \notin doubt', Balance(x)
    PROVE  Balance(x)'
  <1>1. handoff_hdr[n] # x /\ UNCHANGED <<queue, handoff_hdr, handoffs>>
    BY DEF retransmit, dtn_handoff_timedout
  <1>2. Held(x)' \subseteq Held(x)
    <2>1. \A k \in Nodes, t \in Slots : slot[k][t].copies \in Nat
      BY DEF IInv, TypeOK, Copies
    <2>. QED BY <1>1, <2>1, HeldKept DEF queue
  <1>3. Flying(x)' \subseteq Flying(x)
    BY <1>1, FlyingKept DEF retransmit, dtn_handoff_timedout, transmit, HandOff
  <1>4. \A k \in Nodes : k # n => handoff_qb'[k] = handoff_qb[k] /\ runicast'[k] = runicast[k]
    BY DEF retransmit, dtn_handoff_timedout, endHandoff, handoff, IInv, TypeOK
  <1>5. \A k \in Nodes :
            Backing(k, x) => Backing(k, x)' /\ runicast'[k].copies = runicast[k].copies
    BY <1>1, <1>4 DEF Backing, queue
  <1>6. Backed(x) \subseteq Backed(x)'
    BY <1>5, BackedKept
  <1>. QED BY <1>2, <1>3, <1>6, NoMore

LEMMA HandedSentKept ==
    ASSUME IInv, HandedSent, [Next]_vars
    PROVE  HandedSent'
  <1>1. sent \subseteq sent'
    <2>1. ASSUME NEW p \in net, receive(p) \/ lose(p) PROVE sent \subseteq sent'
      BY <2>1 DEF receive, lose, dtn_spray_recv, dtn_request_recv, dtn_handoff_recv, dtn_handoff_sent
    <2>2. ASSUME NEW n \in Nodes, sprayTimer(n) \/ retransmit(n) \/ dtn_handoff_timedout(n)
          PROVE  sent \subseteq sent'
      BY <2>2 DEF sprayTimer, retransmit, dtn_handoff_timedout
    <2>3. ASSUME NEW n \in Nodes, NEW m \in Messages, dtn_send(n, m) PROVE sent \subseteq sent'
      BY <2>3 DEF dtn_send
    <2>4. ASSUME NEW n \in Nodes, NEW s \in Slots, expire(n, s) PROVE sent \subseteq sent'
      BY <2>4 DEF expire
    <2>. QED BY <2>1, <2>2, <2>3, <2>4 DEF Next, vars
  <1>2. ASSUME NEW n \in Nodes, handoff_qb'[n] # 0
        PROVE  handoff_hdr'[n] \in sent
    <2>1. CASE handoff_qb'[n] = handoff_qb[n] /\ handoff_hdr'[n] = handoff_hdr[n]
      BY <1>2, <2>1 DEF HandedSent
    <2>2. ASSUME NEW p \in net, dtn_request_recv(p), ~UNCHANGED handoff
          PROVE  handoff_hdr'[n] \in sent
      <3>1. PICK s \in dtn_queue_find(p.to, p.msg) :
                handoff_qb' = [handoff_qb EXCEPT ![p.to] = s]
                /\ handoff_hdr' = [handoff_hdr EXCEPT ![p.to] = p.msg]
        BY <2>2 DEF dtn_request_recv
      <3>2. p.to \in Nodes
        BY PacketFields DEF IInv, TypeOK
      <3>3. p.msg \in sent
        BY <3>2 DEF dtn_queue_find, Used, IInv, Filled
      <3>4. CASE n = p.to
        BY <3>1, <3>3, <3>4 DEF IInv, TypeOK
      <3>5. CASE n # p.to
        BY <2>1, <3>1, <3>5 DEF IInv, TypeOK
      <3>. QED BY <3>4, <3>5
    <2>3. ASSUME NEW p \in net, dtn_handoff_sent(p)
          PROVE  handoff_hdr'[n] \in sent
      <3>1. p.to \in Nodes
        BY PacketFields DEF IInv, TypeOK
      <3>. QED BY <1>2, <2>1, <2>3, <3>1 DEF dtn_handoff_sent, endHandoff, IInv, TypeOK
    <2>4. ASSUME NEW k \in Nodes, retransmit(k) \/ dtn_handoff_timedout(k)
          PROVE  handoff_hdr'[n] \in sent
      BY <1>2, <2>1, <2>4 DEF retransmit, dtn_handoff_timedout, endHandoff, IInv, TypeOK
    <2>5. CASE UNCHANGED handoff
      BY <2>1, <2>5 DEF handoff
    <2>. QED BY <2>2, <2>3, <2>4, <2>5
          DEF Next, vars, dtn_send, sprayTimer, expire, receive, lose, dtn_spray_recv, dtn_handoff_recv
  <1>3. ASSUME NEW q \in net', q.type = "handoff"
        PROVE  q.msg \in sent
    <2>1. CASE q \in net
      BY <1>3, <2>1 DEF HandedSent
    <2>2. ASSUME NEW n \in Nodes, retransmit(n)
          PROVE  q.msg \in sent
      BY <1>3, <2>1, <2>2 DEF retransmit, transmit, HandOff, HandedSent
    <2>3. ASSUME NEW p \in net, dtn_request_recv(p)
          PROVE  q.msg \in sent
      <3>1. p.to \in Nodes
        BY PacketFields DEF IInv, TypeOK
      <3>2. dtn_queue_find(p.to, p.msg) # {} => p.msg \in sent
        BY <3>1 DEF dtn_queue_find, Used, IInv, Filled
      <3>3. q \in net \/ (q.msg = p.msg /\ dtn_queue_find(p.to, p.msg) # {})
        <4>1. CASE transmit({p}, {})
          BY <4>1 DEF transmit
        <4>2. ASSUME NEW s \in dtn_queue_find(p.to, p.msg), NEW l, NEW seq,
                     transmit({p}, {HandOff(p.to, p.from, p.msg, l, seq)})
              PROVE  q \in net \/ q.msg = p.msg
          BY <4>2 DEF transmit, HandOff
        <4>. QED BY <2>3, <4>1, <4>2 DEF dtn_request_recv
      <3>. QED BY <2>1, <3>2, <3>3
    <2>4. CASE \A r \in net' : r.type = "handoff" => r \in net
      BY <1>3, <2>1, <2>4
    <2>5. ASSUME NEW p \in net, dtn_spray_recv(p) \/ dtn_handoff_recv(p) \/ dtn_handoff_sent(p) \/ lose(p)
          PROVE  \A r \in net' : r.type = "handoff" => r \in net
      <3>1. CASE dtn_spray_recv(p) \/ dtn_handoff_sent(p) \/ lose(p)
        BY <3>1 DEF dtn_spray_recv, dtn_handoff_sent, lose, transmit, Request
      <3>2. CASE dtn_handoff_recv(p)
        <4>. DEFINE ack == {Ack(p.to, p.from, p.seq)}
        <4>1. \A r \in ack : r.type = "ack"
          BY DEF Ack
        <4>2. transmit({p}, ack) \/ dtn_queue_spray(p.to, spray_ct, {p}, ack)
          BY <3>2 DEF dtn_handoff_recv
        <4>. HIDE DEF ack
        <4>3. ASSUME NEW r \in net', r.type = "handoff" PROVE r \in net
          <5>1. r \in net \ {p} \/ r \in ack \/ r.type = "spray"
            BY <4>2, SpraysOnly DEF transmit
          <5>. QED BY <4>1, <4>3, <5>1
        <4>. QED BY <4>3
      <3>. QED BY <2>5, <3>1, <3>2
    <2>6. ASSUME NEW n \in Nodes, NEW m \in Messages, dtn_send(n, m)
          PROVE  \A r \in net' : r.type = "handoff" => r \in net
      <3>1. UNCHANGED net \/ dtn_queue_spray(n, spray_ct, {}, {})
        BY <2>6 DEF dtn_send
      <3>. QED BY <3>1, SpraysOnly
    <2>7. ASSUME NEW n \in Nodes, sprayTimer(n)
          PROVE  \A r \in net' : r.type = "handoff" => r \in net
      <3>1. dtn_queue_spray(n, spray_ct \ {n}, {}, {})
        BY <2>7 DEF sprayTimer
      <3>. QED BY <3>1, SpraysOnly
    <2>. QED BY <2>2, <2>3, <2>4, <2>5, <2>6, <2>7
          DEF Next, vars, dtn_handoff_timedout, expire, receive
  <1>. QED BY <1>1, <1>2, <1>3 DEF HandedSent

(* No step changes the balance to the worse.                               *)
LEMMA BalancedNext ==
    ASSUME IInv, IInv', Balanced, [Next]_vars
    PROVE  Balanced'
  <1>1. HandedSent'
    BY HandedSentKept DEF Balanced
  <1>2. doubt \subseteq doubt'
    <2>1. ASSUME NEW p \in net, receive(p) \/ lose(p) PROVE doubt \subseteq doubt'
      BY <2>1 DEF receive, lose, dtn_spray_recv, dtn_request_recv, dtn_handoff_recv, dtn_handoff_sent
    <2>2. ASSUME NEW n \in Nodes, sprayTimer(n) \/ retransmit(n) \/ dtn_handoff_timedout(n)
          PROVE  doubt \subseteq doubt'
      BY <2>2 DEF sprayTimer, retransmit, dtn_handoff_timedout
    <2>3. ASSUME NEW n \in Nodes, NEW m \in Messages, dtn_send(n, m) PROVE doubt \subseteq doubt'
      BY <2>3 DEF dtn_send
    <2>4. ASSUME NEW n \in Nodes, NEW s \in Slots, expire(n, s) PROVE doubt \subseteq doubt'
      BY <2>4 DEF expire
    <2>. QED BY <2>1, <2>2, <2>3, <2>4 DEF Next, vars
  <1>3. ASSUME NEW x \in Messages, x \notin doubt'
        PROVE  Balance(x)'
    <2>0. Balance(x)
      BY <1>2, <1>3 DEF Balanced
    <2>1. ASSUME NEW n \in Nodes, NEW m \in Messages, dtn_send(n, m)
          PROVE  Balance(x)'
      BY <2>0, <2>1, SendBalanced
    <2>2. ASSUME NEW n \in Nodes, sprayTimer(n)
          PROVE  Balance(x)'
      BY <2>0, <2>2, QuietBalanced DEF sprayTimer, dtn_queue_spray, transmit, Spray
    <2>3. ASSUME NEW n \in Nodes, retransmit(n) \/ dtn_handoff_timedout(n)
          PROVE  Balance(x)'
      BY <1>3, <2>0, <2>3, DoubtBalanced
    <2>4. ASSUME NEW n \in Nodes, NEW s \in Slots, expire(n, s)
          PROVE  Balance(x)'
      BY <2>0, <2>4, ExpireBalanced
    <2>5. ASSUME NEW p \in net, receive(p)
          PROVE  Balance(x)'
      BY <2>0, <2>5, SprayRecvBalanced, RequestBalanced, HandoffRecvBalanced, HandoffSentBalanced
         DEF receive
    <2>6. ASSUME NEW p \in net, lose(p)
          PROVE  Balance(x)'
      BY <2>0, <2>6, QuietBalanced DEF lose, transmit
    <2>7. CASE UNCHANGED vars
      BY <2>0, <2>7, QuietBalanced DEF vars
    <2>. QED BY <2>1, <2>2, <2>3, <2>4, <2>5, <2>6, <2>7 DEF Next
  <1>. QED BY <1>1, <1>3 DEF Balanced

(* Handing a message over creates no copies: unless a hand-off of it was   *)
(* repeated or given up, all nodes have at most DTN_L_COPIES of it, those  *)
(* of the hand-offs in progress counted at both ends.                      *)
THEOREM CopiesConserved == Spec => []Conserved
  <1>1. Init => Balanced
    <2>1. Init => HandedSent
      BY DEF Init, HandedSent
    <2>2. ASSUME Init, NEW m \in Messages PROVE Balance(m)
      <3>1. Held(m) = {} /\ Flying(m) = {}
        BY <2>2 DEF Init, Held, Flying, dtn_queue_find, Used
      <3>2. Cardinality(Held(m)) = 0 /\ Cardinality(Flying(m)) = 0
        BY <3>1, FS_EmptySet
      <3>. QED BY <3>2, FiniteNow, DtnAssumption DEF Balance
    <2>. QED BY <2>1, <2>2 DEF Balanced
  <1>2. IInv /\ IInv' /\ Balanced /\ [Next]_vars => Balanced'
    BY BalancedNext
  <1>3. Balanced => Conserved
    <2>. SUFFICES ASSUME Balanced, NEW m \in Messages \ doubt
                  PROVE  Cardinality(Held(m)) <= DTN_L_COPIES + Cardinality(Offered(m))
      BY DEF Conserved
    <2>1. Backed(m) \subseteq Offered(m)
      BY DEF Backed
    <2>2. IsFiniteSet(Offered(m))
      BY CopiesFinite DEF Offered
    <2>3. Cardinality(Backed(m)) <= Cardinality(Offered(m)) /\ Cardinality(Offered(m)) \in Nat
      BY <2>1, <2>2, FS_Subset, FS_CardinalityType
    <2>. QED BY <2>3, FiniteNow, DtnAssumption DEF Balanced, Balance
  <1>. QED BY <1>1, <1>2, <1>3, DtnInvariance, PTL DEF Spec
=============================================================================
