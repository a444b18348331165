------------------------------ MODULE SprayDtn ------------------------------
(***************************************************************************)
(* Binary spray and wait between motes (ictp/spray-dtn/dtn.c).  A node     *)
(* broadcasts the messages it has copies of; a neighbour that does not     *)
(* have one enqueues it as pending and requests it; the node then hands    *)
(* half of its copies over by runicast, Rime's unicast with               *)
(* acknowledgments and retransmissions.                                    *)
(*                                                                         *)
(* A message stands for its header's <<esender, epacketid>>.  Packets that *)
(* fail dtn_valid_hdr() are dropped without a trace and are not modelled.  *)
(* Queue buffers are slots of a node; the content of a freed one stays     *)
(* until it is used again, as handoff_qb may still point to it.            *)
(***************************************************************************)
EXTENDS Integers, FiniteSets

CONSTANTS
    Nodes, Messages,
    Origin, Dest,    \* esender and ereceiver of each message
    DTN_L_COPIES,
    Slots,           \* the DTN_QUEUE_MAX buffers of a node
    DTN_RTX,
    None,
    MaxHandoffs      \* bound on the hand-offs a node begins

ASSUME DtnAssumption ==
    /\ IsFiniteSet(Nodes) /\ IsFiniteSet(Slots)
    /\ Origin \in [Messages -> Nodes] /\ Dest \in [Messages -> Nodes]
    /\ DTN_L_COPIES \in Nat \ {0}
    /\ Slots \subseteq Nat \ {0} /\ DTN_RTX \in Nat \ {0} /\ MaxHandoffs \in Nat
    /\ None \notin Messages /\ None \notin Nodes

VARIABLES
    sent,         \* messages given to dtn_send()
    delivered,    \* messages for which the recv callback was invoked
    slot,         \* content of the queue buffers: message and num_copies
    ptr,          \* of the queue item in a slot: DTN_PENDING, DTN_READY or "free"
    spray_ct,     \* nodes whose spray timer runs
    handoff_qb,   \* the slot handed off, 0 for NULL
    handoff_hdr,  \* the message handed off
    runicast,     \* the transmission of the hand-off
    handoffs,     \* hand-offs begun by a node
    net,          \* packets in the air
    doubt         \* history: messages whose hand-off was repeated or given up

queue == <<slot, ptr>>
handoff == <<handoff_qb, handoff_hdr, runicast, handoffs>>
vars == <<sent, delivered, queue, spray_ct, handoff, net, doubt>>

Idle == [to |-> None, copies |-> 0, rxmit |-> 0]

Spray(n, k, m, l) == [type |-> "spray", from |-> n, to |-> k, msg |-> m, copies |-> l]
Request(n, k, m) == [type |-> "request", from |-> n, to |-> k, msg |-> m]
(* seq tells a retransmission from another hand-off.                       *)
HandOff(n, k, m, l, seq) ==
    [type |-> "handoff", from |-> n, to |-> k, msg |-> m, copies |-> l, seq |-> seq]
Ack(n, k, seq) == [type |-> "ack", from |-> n, to |-> k, seq |-> seq]

Copies == 0 .. DTN_L_COPIES
Packets ==
    {Spray(n, k, m, l) : n \in Nodes, k \in Nodes, m \in Messages, l \in Copies}
    \cup {Request(n, k, m) : n \in Nodes, k \in Nodes, m \in Messages}
    \cup {HandOff(n, k, m, l, seq) : n \in Nodes, k \in Nodes, m \in Messages,
                                     l \in Copies, seq \in 0 .. MaxHandoffs}
    \cup {Ack(n, k, seq) : n \in Nodes, k \in Nodes, seq \in 0 .. MaxHandoffs}

(* No node ever counts more than DTN_L_COPIES of a message.                *)
TypeOK ==
    /\ sent \subseteq Messages /\ delivered \subseteq Messages
    /\ slot \in [Nodes -> [Slots -> [msg : Messages \cup {None}, copies : Copies]]]
    /\ ptr \in [Nodes -> [Slots -> {"free", "pending", "ready"}]]
    /\ spray_ct \subseteq Nodes
    /\ handoff_qb \in [Nodes -> Slots \cup {0}]
    /\ handoff_hdr \in [Nodes -> Messages \cup {None}]
    /\ runicast \in [Nodes -> [to : Nodes \cup {None}, copies : Copies, rxmit : 0 .. DTN_RTX]]
    /\ handoffs \in [Nodes -> 0 .. MaxHandoffs]
    /\ net \subseteq Packets /\ doubt \subseteq Messages

Init ==
    /\ sent = {} /\ delivered = {}
    /\ slot = [n \in Nodes |-> [s \in Slots |-> [msg |-> None, copies |-> 0]]]
    /\ ptr = [n \in Nodes |-> [s \in Slots |-> "free"]]
    /\ spray_ct = {}
    /\ handoff_qb = [n \in Nodes |-> 0] /\ handoff_hdr = [n \in Nodes |-> None]
    /\ runicast = [n \in Nodes |-> Idle]
    /\ handoffs = [n \in Nodes |-> 0]
    /\ net = {} /\ doubt = {}

(* The operators named Bug... are not part of the model: each is a plausible *)
(* mistake in the definition that follows it, and a property below notices.  *)
-----------------------------------------------------------------------------
Used(n) == {s \in Slots : ptr[n][s] # "free"}

Bug_dtn_queue_find(n, m) == {s \in Slots : ptr[n][s] = "ready" /\ slot[n][s].msg = m}
(* The items with message m; OneItem says there is at most one.             *)
dtn_queue_find(n, m) == {s \in Used(n) : slot[n][s].msg = m}

(* packetqueue_enqueue_packetbuf(): into any free buffer.                   *)
enqueue(n, m, copies, state) ==
    \E s \in Slots \ Used(n) :
        /\ slot' = [slot EXCEPT ![n][s] = [msg |-> m, copies |-> copies]]
        /\ ptr' = [ptr EXCEPT ![n][s] = state]

(* Packet gone has been received, and the packets of new are sent.          *)
transmit(gone, new) == net' = (net \ gone) \cup new

(* Broadcasts every ready item, and starts the timer if it is not running. *)
(* A broadcast not heard before the next one is lost.                      *)
Bug_dtn_queue_spray(n, running, gone, new) ==
    LET ready == {s \in Slots : ptr'[n][s] = "ready" /\ slot'[n][s].copies # 0}
        old   == {p \in net : p.type = "spray" /\ p.from = n}
    IN  /\ transmit(gone \cup old, new \cup
            {Spray(n, k, slot'[n][s].msg, slot'[n][s].copies) : k \in Nodes \ {n}, s \in ready})
        /\ spray_ct' = running
dtn_queue_spray(n, running, gone, new) ==
    LET ready == {s \in Slots : ptr'[n][s] = "ready" /\ slot'[n][s].copies # 0}
        old   == {p \in net : p.type = "spray" /\ p.from = n}
    IN  /\ transmit(gone \cup old, new \cup
            {Spray(n, k, slot'[n][s].msg, slot'[n][s].copies) : k \in Nodes \ {n}, s \in ready})
        /\ spray_ct' = IF \A s \in Slots : ptr'[n][s] = "free"
                       THEN running ELSE running \cup {n}

sprayTimer(n) ==
    /\ n \in spray_ct
    /\ UNCHANGED <<sent, delivered, queue, handoff, doubt>>
    /\ dtn_queue_spray(n, spray_ct \ {n}, {}, {})

dtn_send(n, m) ==
    /\ Origin[m] = n /\ m \notin sent /\ sent' = sent \cup {m}
    /\ \/ /\ Dest[m] = n /\ delivered' = delivered \cup {m}
          /\ UNCHANGED <<queue, spray_ct, net>>
       \/ /\ Dest[m] # n /\ UNCHANGED delivered
          /\ \/ /\ enqueue(n, m, DTN_L_COPIES, "ready")
                /\ dtn_queue_spray(n, spray_ct, {}, {})
             \/ Used(n) = Slots /\ UNCHANGED <<queue, spray_ct, net>>
    /\ UNCHANGED <<handoff, doubt>>
-----------------------------------------------------------------------------
dtn_spray_recv(p) ==
    LET n == p.to  m == p.msg
        found   == dtn_queue_find(n, m)
        request == {Request(n, p.from, m)}
    IN
    /\ p.type = "spray"
    /\ \/ Origin[m] = n /\ transmit({p}, {}) /\ UNCHANGED <<delivered, queue>>
       \/ /\ Origin[m] # n /\ Dest[m] = n
          /\ transmit({p}, request) /\ delivered' = delivered \cup {m}
          /\ UNCHANGED queue
       \/ /\ n \notin {Origin[m], Dest[m]}
          /\ UNCHANGED delivered
          /\ \/ p.copies = 1 /\ transmit({p}, {}) /\ UNCHANGED queue
             \/ /\ p.copies # 1 /\ found # {}
                /\ transmit({p}, {r \in request : \A s \in found : ptr[n][s] = "pending"})
                /\ UNCHANGED queue
             \/ /\ p.copies # 1 /\ found = {}
                /\ enqueue(n, m, 0, "pending") /\ transmit({p}, request)
             \/ /\ p.copies # 1 /\ found = {} /\ Used(n) = Slots
                /\ transmit({p}, {}) /\ UNCHANGED queue
    /\ UNCHANGED <<sent, spray_ct, handoff, doubt>>

Bug_giveHalf(l) == l
giveHalf(l) == l \div 2

(* A request for an item that is ready: the destination has the message, or *)
(* half of more than one copy is handed off, one hand-off at a time.        *)
dtn_request_recv(p) ==
    LET n == p.to  m == p.msg IN
    /\ p.type = "request"
    /\ \/ /\ \A s \in dtn_queue_find(n, m) : ptr[n][s] = "pending"
          /\ transmit({p}, {}) /\ UNCHANGED <<slot, handoff>>
       \/ \E s \in dtn_queue_find(n, m) :
             /\ ptr[n][s] = "ready" /\ p.from = Dest[m]
             /\ slot' = [slot EXCEPT ![n][s].copies = 0]
             /\ transmit({p}, {}) /\ UNCHANGED handoff
       \/ \E s \in dtn_queue_find(n, m) :
             /\ ptr[n][s] = "ready" /\ p.from # Dest[m]
             /\ slot[n][s].copies \in {0, 1} \/ handoff_qb[n] # 0
             /\ transmit({p}, {}) /\ UNCHANGED <<slot, handoff>>
       \/ \E s \in dtn_queue_find(n, m) :
             /\ ptr[n][s] = "ready" /\ p.from # Dest[m]
             /\ slot[n][s].copies > 1 /\ handoff_qb[n] = 0
             /\ handoffs[n] < MaxHandoffs
             /\ handoffs' = [handoffs EXCEPT ![n] = @ + 1]
             /\ handoff_qb' = [handoff_qb EXCEPT ![n] = s]
             /\ handoff_hdr' = [handoff_hdr EXCEPT ![n] = m]
             /\ LET l == giveHalf(slot[n][s].copies) IN
                /\ runicast' = [runicast EXCEPT ![n] = [to |-> p.from, copies |-> l, rxmit |-> 1]]
                /\ transmit({p}, {HandOff(n, p.from, m, l, handoffs'[n])})
             /\ UNCHANGED slot
    /\ UNCHANGED <<sent, delivered, ptr, spray_ct, doubt>>

addCopies(l, more) == IF l + more > DTN_L_COPIES THEN DTN_L_COPIES ELSE l + more

(* Runicast acknowledges whatever it receives, duplicates included, and     *)
(* passes it on; seqno is not looked at.                                    *)
dtn_handoff_recv(p) ==
    LET n == p.to
        found == dtn_queue_find(n, p.msg)
        ack   == {Ack(n, p.from, p.seq)}
    IN
    /\ p.type = "handoff"
    /\ \/ found = {} /\ transmit({p}, ack) /\ UNCHANGED <<queue, spray_ct>>
       \/ \E s \in found :
             /\ slot' = [slot EXCEPT ![n][s].copies = addCopies(@, p.copies)]
             /\ ptr' = [ptr EXCEPT ![n][s] = "ready"]
             /\ dtn_queue_spray(n, spray_ct, {p}, ack)
    /\ UNCHANGED <<sent, delivered, handoff, doubt>>

endHandoff(n) ==
    /\ handoff_qb' = [handoff_qb EXCEPT ![n] = 0]
    /\ runicast' = [runicast EXCEPT ![n] = Idle]

Bug_keepHalf(l) == 0
keepHalf(l) == l - l \div 2

Bug_matched(n) == TRUE
(* The buffer still holds the message handed off (or holds it again).       *)
matched(n) == slot[n][handoff_qb[n]].msg = handoff_hdr[n]

(* The acknowledgment of the hand-off in progress; others are ignored.      *)
dtn_handoff_sent(p) ==
    LET n == p.to  s == handoff_qb[n] IN
    /\ p.type = "ack" /\ transmit({p}, {})
    /\ \/ /\ s # 0 /\ p.seq = handoffs[n] /\ endHandoff(n)
          /\ IF matched(n)
             THEN slot' = [slot EXCEPT ![n][s].copies = keepHalf(@)]
             ELSE UNCHANGED slot
       \/ (s = 0 \/ p.seq # handoffs[n]) /\ UNCHANGED <<slot, handoff_qb, runicast>>
    /\ UNCHANGED <<sent, delivered, ptr, spray_ct, handoff_hdr, handoffs, doubt>>

retransmit(n) ==
    LET r == runicast[n] IN
    /\ handoff_qb[n] # 0 /\ r.rxmit < DTN_RTX
    /\ runicast' = [runicast EXCEPT ![n].rxmit = @ + 1]
    /\ transmit({}, {HandOff(n, r.to, handoff_hdr[n], r.copies, handoffs[n])})
    /\ doubt' = doubt \cup {handoff_hdr[n]}
    /\ UNCHANGED <<sent, delivered, queue, spray_ct, handoff_qb, handoff_hdr, handoffs>>

Bug_dtn_handoff_timedout(n) ==
    /\ handoff_qb[n] # 0 /\ runicast[n].rxmit = DTN_RTX
    /\ doubt' = doubt \cup {handoff_hdr[n]}
    /\ UNCHANGED <<sent, delivered, queue, spray_ct, handoff, net>>
dtn_handoff_timedout(n) ==
    /\ handoff_qb[n] # 0 /\ runicast[n].rxmit = DTN_RTX
    /\ endHandoff(n)
    /\ doubt' = doubt \cup {handoff_hdr[n]}
    /\ UNCHANGED <<sent, delivered, queue, spray_ct, handoff_hdr, handoffs, net>>
-----------------------------------------------------------------------------
(* DTN_MAX_LIFETIME has passed: the item goes, its buffer's content stays.  *)
expire(n, s) ==
    /\ s \in Used(n) /\ ptr' = [ptr EXCEPT ![n][s] = "free"]
    /\ UNCHANGED <<sent, delivered, slot, spray_ct, handoff, net, doubt>>

lose(p) ==
    transmit({p}, {}) /\ UNCHANGED <<sent, delivered, queue, spray_ct, handoff, doubt>>

receive(p) ==
    dtn_spray_recv(p) \/ dtn_request_recv(p) \/ dtn_handoff_recv(p) \/ dtn_handoff_sent(p)

Next ==
    \/ \E n \in Nodes, m \in Messages : dtn_send(n, m)
    \/ \E n \in Nodes : sprayTimer(n) \/ retransmit(n) \/ dtn_handoff_timedout(n)
    \/ \E n \in Nodes, s \in Slots : expire(n, s)
    \/ \E p \in net : receive(p) \/ lose(p)

Spec == Init /\ [][Next]_vars

(* The hand-off's timer runs, and a broadcast repeated for ever is heard.   *)
hear(m) == \E p \in net : p.type = "spray" /\ p.msg = m /\ p.to = Dest[m] /\ dtn_spray_recv(p)
FairSpec ==
    /\ Spec
    /\ \A n \in Nodes : WF_vars(sprayTimer(n))
                        /\ WF_vars(retransmit(n) \/ dtn_handoff_timedout(n))
    /\ \A m \in Messages : SF_vars(hear(m))
-----------------------------------------------------------------------------
(* A message is in at most one item of a node's queue, although items       *)
(* expire and the message comes again.                                      *)
OneItem ==
    \A n \in Nodes : \A s, t \in Used(n) : slot[n][s].msg = slot[n][t].msg => s = t

(* Copies are counted one by one: h is an item's node and buffer, and the  *)
(* number of a copy; an offered copy is one of those a node hands over.    *)
Held(m) ==
    {h \in (Nodes \X Slots) \X (1 .. DTN_L_COPIES) :
        LET n == h[1][1]  s == h[1][2]
        IN  s \in dtn_queue_find(n, m) /\ h[2] <= slot[n][s].copies}
Offered(m) ==
    {h \in Nodes \X (1 .. DTN_L_COPIES) :
        handoff_qb[h[1]] # 0 /\ handoff_hdr[h[1]] = m /\ h[2] <= runicast[h[1]].copies}

(* Handing a message over creates no copies: unless a hand-off was repeated *)
(* or given up, all nodes have at most DTN_L_COPIES of it, those of a       *)
(* hand-off in progress counted at both ends.  dtn_handoff_sent() halves    *)
(* what the item counts by then, not what it counted when half was sent.    *)
Conserved ==
    \A m \in Messages \ doubt : Cardinality(Held(m)) <= DTN_L_COPIES + Cardinality(Offered(m))

(* A node stops spraying a message only when its destination has it: no     *)
(* sequence of requests and hand-offs leaves an item without a copy.        *)
LastCopyKept ==
    \A n \in Nodes, s \in Slots :
        ptr[n][s] = "ready" /\ slot[n][s].copies = 0 => slot[n][s].msg \in delivered

(* A message waiting to be sprayed has a running timer.                     *)
SprayScheduled ==
    \A n \in Nodes, s \in Slots :
        ptr[n][s] = "ready" /\ slot[n][s].copies # 0 => n \in spray_ct

(* An item loses copies only to its destination, or when a hand-off of the  *)
(* same message ends - whatever has come into its buffer in between.        *)
CopiesGivenAway ==
    [][\A n \in Nodes, s \in Slots :
          /\ ptr[n][s] # "free" /\ ptr'[n][s] # "free"
          /\ slot'[n][s].copies < slot[n][s].copies
          => \/ slot[n][s].msg \in delivered
             \/ /\ handoff_qb[n] = s /\ handoff_qb'[n] = 0
                /\ handoff_hdr[n] = slot[n][s].msg]_vars

(* A hand-off ends, answered or not, so that another node can be served.    *)
HandoffEnds == \A n \in Nodes : handoff_qb[n] # 0 ~> handoff_qb[n] = 0

(* A message is delivered unless it expires first where it came from.       *)
Delivery ==
    \A m \in Messages :
        (\E s \in Used(Origin[m]) : slot[Origin[m]][s].msg = m) ~>
            m \in delivered \/ dtn_queue_find(Origin[m], m) = {}
=============================================================================
