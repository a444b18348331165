------------------------------ MODULE NodesProofs ------------------------------
(***************************************************************************)
(* Safety of MoteRequests for any number of tries and of message ids (first *)
(* part); of the serial line, for any packets and sizes of its buffers      *)
(* (second part: what runs over bytes compute, the host's side, OutInv, and *)
(* the radio's side, InInv); and of the programs of the sensor network side *)
(* by side (third part), from these and the invariants of                   *)
(* BorderRouterProofs.                                                      *)
(***************************************************************************)
EXTENDS Nodes, SequenceTheorems, FiniteSetTheorems, WellFoundedInduction, TLAPS

(* Message ids are used once, and are not 0.                                *)
UsedOnce ==
    /\ \A p \in sent : p.msg_id \in 1 .. next_message_id - 1
    /\ \A p, q \in sent : p.msg_id = q.msg_id => p = q

(* A process waits for the answer to a packet it had sent for its own topic, *)
(* and so does its request while its timer runs: only a request that was    *)
(* started again without a name has a timer set to 0.                       *)
Own(t) == [type |-> t, name |-> "topic", msg_id |-> topic_msg_id[t]]
AwaitsOwn ==
    \A t \in Types :
        /\ IF pc[t] = "off" THEN topic_msg_id[t] = 0 ELSE Own(t) \in sent
        /\ timer[t] = "running" => msg_id[t] = topic_msg_id[t] /\ pc[t] # "off"

(* A topic id is the process's own, and a request is only complete with it. *)
TakesOwn ==
    \A t \in Types :
        /\ topic_id[t] \in {NoTopic, <<t, "topic">>}
        /\ state[t] = "complete" \/ pc[t] = "done" => topic_id[t] = <<t, "topic">>

(* The event reaches processes that wait; these have a try left.            *)
Counted ==
    \A t \in Types :
        /\ t \in posted => pc[t] = "waiting"
        /\ pc[t] = "off" => tries[t] = 0
        /\ pc[t] = "waiting" => tries[t] < Tries

IInv == RequestsConsistent /\ UsedOnce /\ AwaitsOwn /\ TakesOwn /\ Counted

LEMMA InitIInv == Init => IInv
  BY TriesAssumption DEF Init, IInv, RequestsConsistent, TypeOK, TimerWhileYielded, ReturnedForGood,
     Returned, UsedOnce, AwaitsOwn, TakesOwn, Counted, Types, Names, NoTopic

-----------------------------------------------------------------------------
(* A packet that is sent gets an id nothing was sent with.                  *)
LEMMA SendFresh ==
    ASSUME TypeOK, UsedOnce, NEW t \in Types, NEW name \in Names, send(t, name)
    PROVE  /\ sent' \subseteq Packets /\ next_message_id' \in Nat \ {0}
           /\ msg_id' \in [Types -> Nat] /\ UsedOnce'
           /\ sent \subseteq sent' /\ \A u \in Types \ {t} : msg_id'[u] = msg_id[u]
           /\ name = "topic" => [type |-> t, name |-> name, msg_id |-> msg_id'[t]] \in sent'
<1> DEFINE new == [type |-> t, name |-> name, msg_id |-> next_message_id]
<1> USE DEF TypeOK
<1>1. CASE /\ sent' = sent \cup {new} /\ msg_id' = [msg_id EXCEPT ![t] = next_message_id]
           /\ next_message_id' = next_message_id + 1
  <2>1. new \in Packets /\ new.msg_id = next_message_id
    BY DEF Packets
  <2>2. sent' \subseteq Packets /\ next_message_id' \in Nat \ {0} /\ msg_id' \in [Types -> Nat]
    BY <1>1, <2>1
  <2>3. \A p \in sent : p.msg_id # next_message_id /\ p.msg_id \in 1 .. next_message_id' - 1
    BY <1>1 DEF UsedOnce
  <2>4. UsedOnce'
    BY <1>1, <2>1, <2>3 DEF UsedOnce
  <2> QED
    BY <1>1, <2>2, <2>4
<1>2. CASE /\ t = "register" /\ name = "garbage" /\ msg_id' = [msg_id EXCEPT ![t] = 0]
           /\ UNCHANGED <<sent, next_message_id>>
  BY <1>2 DEF UsedOnce
<1> QED
  BY <1>1, <1>2 DEF send

(* manage_request from its start, by a process or without a name.           *)
LEMMA StartKeeps ==
    ASSUME IInv, NEW t \in Types, NEW name \in Names, NEW time_out \in {"running", "zero"},
           start(t, name, time_out)
    PROVE  /\ requests' \subseteq Types /\ sent' \subseteq Packets /\ next_message_id' \in Nat \ {0}
           /\ state' \in [Types -> {"none", "waiting", "failed", "complete"}]
           /\ msg_id' \in [Types -> Nat] /\ lc' \in [Types -> {"start", "yielded"}]
           /\ timer' \in [Types -> {"stopped", "running", "zero"}]
           /\ TimerWhileYielded' /\ ReturnedForGood' /\ UsedOnce' /\ sent \subseteq sent'
           /\ \A u \in Types \ {t} : timer'[u] = timer[u] /\ msg_id'[u] = msg_id[u] /\ state'[u] = state[u]
           /\ timer'[t] = time_out /\ state'[t] = "waiting"
           /\ name = "topic" => [type |-> t, name |-> name, msg_id |-> msg_id'[t]] \in sent'
<1> USE DEF IInv, RequestsConsistent, TypeOK
<1>1. /\ sent' \subseteq Packets /\ next_message_id' \in Nat \ {0}
      /\ msg_id' \in [Types -> Nat] /\ UsedOnce'
      /\ sent \subseteq sent' /\ \A u \in Types \ {t} : msg_id'[u] = msg_id[u]
      /\ name = "topic" => [type |-> t, name |-> name, msg_id |-> msg_id'[t]] \in sent'
  BY SendFresh DEF start
<1>2. /\ requests' \subseteq Types /\ lc' \in [Types -> {"start", "yielded"}]
      /\ state' \in [Types -> {"none", "waiting", "failed", "complete"}]
      /\ timer' \in [Types -> {"stopped", "running", "zero"}]
      /\ \A u \in Types \ {t} : timer'[u] = timer[u] /\ state'[u] = state[u]
      /\ timer'[t] = time_out /\ state'[t] = "waiting"
  BY DEF start, list_add
<1>3. TimerWhileYielded' /\ ReturnedForGood'
  BY DEF start, list_add, TimerWhileYielded, ReturnedForGood, Returned
<1> QED
  BY <1>1, <1>2, <1>3

(* A process makes a request.                                               *)
LEMMA TryKeeps ==
    ASSUME IInv, NEW t \in Types, try(t), UNCHANGED <<topic_id, up>>,
           posted' \subseteq posted \ {t}, tries' \in [Types -> 0 .. Tries], tries'[t] < Tries,
           \A u \in Types \ {t} : tries'[u] = tries[u]
    PROVE  IInv'
<1> USE DEF IInv, RequestsConsistent
<1>1. /\ requests' \subseteq Types /\ sent' \subseteq Packets /\ next_message_id' \in Nat \ {0}
      /\ state' \in [Types -> {"none", "waiting", "failed", "complete"}]
      /\ msg_id' \in [Types -> Nat] /\ lc' \in [Types -> {"start", "yielded"}]
      /\ timer' \in [Types -> {"stopped", "running", "zero"}]
      /\ TimerWhileYielded' /\ ReturnedForGood' /\ UsedOnce' /\ sent \subseteq sent'
      /\ \A u \in Types \ {t} : timer'[u] = timer[u] /\ msg_id'[u] = msg_id[u] /\ state'[u] = state[u]
      /\ timer'[t] = "running" /\ state'[t] = "waiting"
      /\ [type |-> t, name |-> "topic", msg_id |-> msg_id'[t]] \in sent'
  <2>1. "topic" \in Names /\ start(t, "topic", "running")
    BY DEF Names, try
  <2> QED
    BY <2>1, StartKeeps
<1>2. /\ pc' \in [Types -> {"off", "waiting", "done", "unable"}] /\ topic_msg_id' \in [Types -> Nat]
      /\ pc'[t] = "waiting" /\ topic_msg_id'[t] = msg_id'[t]
      /\ \A u \in Types \ {t} : pc'[u] = pc[u] /\ topic_msg_id'[u] = topic_msg_id[u]
  BY <1>1 DEF try, TypeOK
<1>3. TypeOK'
  BY <1>1, <1>2 DEF TypeOK
<1>4. AwaitsOwn'
  BY <1>1, <1>2 DEF AwaitsOwn, Own
<1>5. TakesOwn'
  BY <1>1, <1>2 DEF TakesOwn
<1>6. Counted'
  BY <1>2 DEF Counted
<1> QED
  BY <1>1, <1>3, <1>4, <1>5, <1>6

(* A request is started again, without a name.                              *)
LEMMA RestartKeeps ==
    ASSUME IInv, NEW t \in Types, start(t, "garbage", "zero"), MayHalt,
           UNCHANGED <<posted, pc, tries, topic_msg_id>>,
           topic_id' \in [Types -> {NoTopic} \cup (Types \X Names)],
           \A u \in Types : topic_id'[u] \in {topic_id[u], <<u, "topic">>}
    PROVE  IInv'
<1> USE DEF IInv, RequestsConsistent
<1>1. /\ requests' \subseteq Types /\ sent' \subseteq Packets /\ next_message_id' \in Nat \ {0}
      /\ state' \in [Types -> {"none", "waiting", "failed", "complete"}]
      /\ msg_id' \in [Types -> Nat] /\ lc' \in [Types -> {"start", "yielded"}]
      /\ timer' \in [Types -> {"stopped", "running", "zero"}]
      /\ TimerWhileYielded' /\ ReturnedForGood' /\ UsedOnce' /\ sent \subseteq sent'
      /\ \A u \in Types \ {t} : timer'[u] = timer[u] /\ msg_id'[u] = msg_id[u] /\ state'[u] = state[u]
      /\ timer'[t] = "zero" /\ state'[t] = "waiting"
  <2>1. "garbage" \in Names
    BY DEF Names
  <2> QED
    BY <2>1, StartKeeps
<1>2. TypeOK'
  BY <1>1, Zenon DEF TypeOK, MayHalt
<1>3. AwaitsOwn'
  BY <1>1 DEF AwaitsOwn, Own
<1>4. TakesOwn'
  BY <1>1 DEF TakesOwn
<1>5. Counted'
  BY DEF Counted
<1> QED
  BY <1>1, <1>2, <1>3, <1>4, <1>5

-----------------------------------------------------------------------------
LEMMA TimeoutKeeps == ASSUME IInv, NEW t \in Types, Timeout(t) PROVE IInv'
<1>1. CASE lc[t] = "yielded"
  <2>1. resume(t) /\ MayHalt /\ UNCHANGED <<requests, next_message_id, state, msg_id, sent, example>>
    BY <1>1 DEF Timeout
  <2> USE <2>1 DEF resume, example, IInv, RequestsConsistent
  <2>2. TypeOK'
    BY Zenon, SMT DEF TypeOK, MayHalt
  <2>3. TimerWhileYielded' /\ ReturnedForGood'
    BY DEF TypeOK, TimerWhileYielded, ReturnedForGood, Returned
  <2>4. UsedOnce' /\ AwaitsOwn' /\ TakesOwn' /\ Counted'
    BY DEF TypeOK, UsedOnce, AwaitsOwn, TakesOwn, Counted, Own
  <2> QED
    BY <2>2, <2>3, <2>4
<1>2. CASE lc[t] # "yielded"
  <2>1. start(t, "garbage", "zero") /\ MayHalt /\ UNCHANGED <<posted, example>>
    BY <1>2 DEF Timeout
  <2> QED
    BY <2>1, RestartKeeps DEF example, IInv, RequestsConsistent, TypeOK
<1> QED
  BY <1>1, <1>2

LEMMA BeginKeeps == ASSUME IInv, NEW t \in Types, Begin(t) PROVE IInv'
<1>1. try(t) /\ UNCHANGED <<tries, topic_id, posted, up>> /\ pc[t] = "off"
  BY DEF Begin
<1>2. tries[t] < Tries /\ t \notin posted
  BY <1>1, TriesAssumption DEF IInv, Counted
<1> QED
  BY <1>1, <1>2, TryKeeps DEF IInv, RequestsConsistent, TypeOK

LEMMA WakeKeeps == ASSUME IInv, NEW t \in Types, Wake(t) PROVE IInv'
<1> USE DEF IInv, RequestsConsistent
<1>1. t \in posted /\ posted' = posted \ {t} /\ UNCHANGED <<topic_id, up>>
  BY DEF Wake
<1>2. pc[t] = "waiting" /\ tries[t] < Tries /\ tries[t] \in Nat
  BY <1>1 DEF Counted, TypeOK
<1>3. CASE UNCHANGED <<library, pc, tries, topic_msg_id>>
  BY <1>1, <1>3 DEF library, TypeOK, TimerWhileYielded, ReturnedForGood, Returned, UsedOnce, AwaitsOwn,
     Own, TakesOwn, Counted
<1>4. CASE state[t] = "complete" /\ tries' = [tries EXCEPT ![t] = Tries] /\ pc' = [pc EXCEPT ![t] = "done"]
           /\ UNCHANGED <<library, topic_msg_id>>
  <2>1. TypeOK'
    BY <1>1, <1>4, TriesAssumption DEF library, TypeOK
  <2>2. TimerWhileYielded' /\ ReturnedForGood' /\ UsedOnce'
    BY <1>4 DEF library, TimerWhileYielded, ReturnedForGood, Returned, UsedOnce
  <2>3. AwaitsOwn' /\ TakesOwn' /\ Counted'
    BY <1>1, <1>2, <1>4 DEF library, TypeOK, AwaitsOwn, Own, TakesOwn, Counted
  <2> QED
    BY <2>1, <2>2, <2>3
<1>5. CASE state[t] = "failed" /\ tries' = [tries EXCEPT ![t] = @ + 1] /\ triesLeft(tries[t] + 1) /\ try(t)
  <2>1. tries' \in [Types -> 0 .. Tries] /\ tries'[t] < Tries /\ \A u \in Types \ {t} : tries'[u] = tries[u]
    BY <1>2, <1>5, TriesAssumption DEF triesLeft, TypeOK
  <2> QED
    BY <1>1, <1>5, <2>1, TryKeeps
<1>6. CASE state[t] = "failed" /\ tries' = [tries EXCEPT ![t] = @ + 1] /\ pc' = [pc EXCEPT ![t] = "unable"]
           /\ UNCHANGED <<library, topic_msg_id>>
  <2>1. TypeOK'
    BY <1>1, <1>2, <1>6, TriesAssumption DEF library, TypeOK
  <2>2. TimerWhileYielded' /\ ReturnedForGood' /\ UsedOnce'
    BY <1>6 DEF library, TimerWhileYielded, ReturnedForGood, Returned, UsedOnce
  <2>3. AwaitsOwn' /\ TakesOwn' /\ Counted'
    BY <1>1, <1>2, <1>6 DEF library, TypeOK, AwaitsOwn, Own, TakesOwn, Counted
  <2> QED
    BY <2>1, <2>2, <2>3
<1> QED
  BY <1>3, <1>4, <1>5, <1>6 DEF Wake

(* What the application makes of an answer: a topic id is its own, because  *)
(* the packet with the message id it compares was its own.                  *)
LEMMA TakesOwnTopic ==
    ASSUME IInv, NEW p \in sent, NEW accepted \in BOOLEAN, takeTopicId(p, accepted)
    PROVE  /\ topic_id' \in [Types -> {NoTopic} \cup (Types \X Names)]
           /\ \A u \in Types : topic_id'[u] \in {topic_id[u], <<u, "topic">>}
           /\ \A u \in Types : pc[u] # "off" /\ p.msg_id = topic_msg_id[u] /\ accepted
                => topic_id'[u] = <<u, "topic">>
<1> USE DEF IInv, RequestsConsistent, TypeOK
<1>1. p \in Packets /\ p.type \in Types /\ p.name \in Names /\ p.msg_id # 0
  BY DEF Packets, UsedOnce
<1>2. ASSUME NEW u \in Types, p.msg_id = topic_msg_id[u]
      PROVE  pc[u] # "off" /\ p.type = u /\ p.name = "topic"
  <2>1. pc[u] # "off" /\ Own(u) \in sent /\ Own(u).msg_id = p.msg_id
    BY <1>1, <1>2 DEF AwaitsOwn, Own
  <2>2. p = Own(u)
    BY <2>1 DEF UsedOnce
  <2> QED
    BY <2>1, <2>2 DEF Own
<1>3. CASE p.msg_id = topic_msg_id[p.type] /\ accepted
  <2>1. p.name = "topic" /\ topic_id' = [topic_id EXCEPT ![p.type] = <<p.type, "topic">>]
    BY <1>1, <1>2, <1>3 DEF takeTopicId
  <2>2. <<p.type, "topic">> \in Types \X Names
    BY <1>1 DEF Names
  <2> QED
    BY <1>1, <1>2, <2>1, <2>2
<1>4. CASE ~(p.msg_id = topic_msg_id[p.type] /\ accepted)
  BY <1>2, <1>4 DEF takeTopicId
<1> QED
  BY <1>3, <1>4

LEMMA ReceiveKeeps == ASSUME IInv, NEW p \in sent, NEW accepted \in BOOLEAN, Receive(p, accepted) PROVE IInv'
<1>1. /\ topic_id' \in [Types -> {NoTopic} \cup (Types \X Names)]
      /\ \A u \in Types : topic_id'[u] \in {topic_id[u], <<u, "topic">>}
      /\ \A u \in Types : pc[u] # "off" /\ p.msg_id = topic_msg_id[u] /\ accepted
           => topic_id'[u] = <<u, "topic">>
  BY TakesOwnTopic DEF Receive
<1>2. UNCHANGED <<pc, tries, topic_msg_id>> /\ manage_response(p, accepted)
  BY DEF Receive
<1> USE DEF IInv, RequestsConsistent
<1>3. CASE UNCHANGED <<library, posted, up>>
  <2>1. TypeOK'
    BY <1>1, <1>2, <1>3 DEF library, TypeOK
  <2>2. TimerWhileYielded' /\ ReturnedForGood' /\ UsedOnce' /\ AwaitsOwn' /\ Counted'
    BY <1>2, <1>3 DEF library, TimerWhileYielded, ReturnedForGood, Returned, UsedOnce, AwaitsOwn, Own, Counted
  <2>3. TakesOwn'
    BY <1>1, <1>2, <1>3 DEF library, TakesOwn
  <2> QED
    BY <2>1, <2>2, <2>3
<1>4. ASSUME NEW t \in answered(p), start(t, "garbage", "zero"), MayHalt, UNCHANGED posted
      PROVE  IInv'
  <2>1. t \in Types
    BY DEF answered, TypeOK
  <2> QED
    BY <1>1, <1>2, <1>4, <2>1, RestartKeeps
<1>5. ASSUME NEW t \in answered(p), lc[t] = "yielded",
             state' = [state EXCEPT ![t] = IF accepted THEN "complete" ELSE "failed"],
             resume(t), requests' = list_remove(requests, t), UNCHANGED <<next_message_id, msg_id, sent, up>>
      PROVE  IInv'
  <2>1. t \in Types /\ msg_id[t] = p.msg_id
    BY DEF answered, TypeOK
  <2>2. timer[t] = "running"
    <3>1. timer[t] # "zero" /\ timer[t] # "stopped"
      BY <1>5, <2>1 DEF Receive, TimerWhileYielded
    <3> QED
      BY <2>1, <3>1 DEF TypeOK
  <2>3. pc[t] # "off" /\ p.msg_id = topic_msg_id[t]
    BY <2>1, <2>2 DEF AwaitsOwn
  <2>4. accepted => topic_id'[t] = <<t, "topic">>
    BY <1>1, <2>1, <2>3
  <2>5. TypeOK'
    BY <1>1, <1>2, <1>5, <2>1 DEF resume, list_remove, TypeOK
  <2>6. TimerWhileYielded' /\ ReturnedForGood'
    BY <1>5, <2>1 DEF TypeOK, resume, list_remove, TimerWhileYielded, ReturnedForGood, Returned
  <2>7. UsedOnce' /\ AwaitsOwn' /\ Counted'
    BY <1>2, <1>5, <2>1 DEF TypeOK, resume, UsedOnce, AwaitsOwn, Own, Counted
  <2>8. TakesOwn'
    BY <1>1, <1>2, <1>5, <2>1, <2>4 DEF TypeOK, TakesOwn
  <2> QED
    BY <2>5, <2>6, <2>7, <2>8
<1> QED
  BY <1>2, <1>3, <1>4, <1>5 DEF manage_response

LEMMA NextKeeps == IInv /\ [Next]_vars => IInv'
<1> SUFFICES ASSUME IInv, [Next]_vars PROVE IInv'
  OBVIOUS
<1>1. ASSUME NEW t \in Types, Timeout(t) \/ Begin(t) \/ Wake(t) PROVE IInv'
  BY <1>1, TimeoutKeeps, BeginKeeps, WakeKeeps
<1>2. ASSUME NEW p \in sent, NEW accepted \in BOOLEAN, Receive(p, accepted) PROVE IInv'
  BY <1>2, ReceiveKeeps
<1>3. CASE UNCHANGED vars
  BY <1>3 DEF vars, library, example, IInv, RequestsConsistent, TypeOK, TimerWhileYielded, ReturnedForGood,
     Returned, UsedOnce, AwaitsOwn, Own, TakesOwn, Counted
<1> QED
  BY <1>1, <1>2, <1>3 DEF Next

THEOREM RequestsInvariance == Spec => []IInv
  BY InitIInv, NextKeeps, PTL DEF Spec

(* List, timer and protothread of every request agree: no timer is left     *)
(* running, and no late answer changes the outcome of a request.            *)
THEOREM RequestsAgree == Spec => []RequestsConsistent
<1>1. IInv => RequestsConsistent
  BY DEF IInv
<1> QED
  BY <1>1, RequestsInvariance, PTL

(* A process goes on only under the topic id the gateway gave for its own   *)
(* topic, however late answers come and whichever request they are for.     *)
THEOREM TopicIdIsOwn == Spec => []OwnTopicId
<1>1. IInv => OwnTopicId
  BY DEF IInv, TakesOwn, OwnTopicId
<1> QED
  BY <1>1, RequestsInvariance, PTL

-----------------------------------------------------------------------------
(* Going through a sequence element by element, whatever is done with each: *)
(* the recursive functions of SlipDev are such runs, of functions.          *)
LEMMA Upto ==
    ASSUME NEW n \in Nat, NEW T, 0 \in T, \A i \in 1 .. n : i - 1 \in T => i \in T
    PROVE  \A i \in 0 .. n : i \in T
<1> DEFINE Less == {ss \in Nat \X Nat : ss[1] < ss[2]}
           I == {i \in 0 .. n : i \notin T}
<1>1. IsWellFoundedOn(Less, Nat)
  BY NatLessThanWellFounded DEF OpToRel
<1>2. SUFFICES ASSUME I # {} PROVE FALSE
  OBVIOUS
<1> HIDE DEF Less
<1>3. I \in SUBSET Nat
  OBVIOUS
<1>4. PICK x \in I : \A y \in I : ~(<<y, x>> \in Less)
  BY <1>1, <1>2, <1>3, WFMin
<1>5. x \in 1 .. n
  BY <1>4
<1>6. x - 1 \in T \/ x - 1 \in I
  BY <1>5
<1>7. <<x - 1, x>> \in Less
  BY <1>5 DEF Less
<1> QED
  BY <1>4, <1>5, <1>6, <1>7

(* What holds of nothing, and of one more element, holds of a sequence.     *)
LEMMA Piecewise ==
    ASSUME NEW C, NEW p \in Seq(C), NEW T, <<>> \in T,
           \A i \in 1 .. Len(p) : SubSeq(p, 1, i - 1) \in T => Append(SubSeq(p, 1, i - 1), p[i]) \in T
    PROVE  p \in T
<1> DEFINE I == {i \in 0 .. Len(p) : SubSeq(p, 1, i) \in T}
<1>0. Len(p) \in Nat /\ SubSeq(p, 1, 0) = <<>> /\ SubSeq(p, 1, Len(p)) = p
  BY SubSeqEmpty, SubSeqFull
<1>1. 0 \in I
  <2>1. 0 \in 0 .. Len(p)
    BY <1>0
  <2>2. SubSeq(p, 1, 0) \in T
    BY <1>0, Zenon
  <2> QED
    BY <2>1, <2>2, Zenon
<1>2. ASSUME NEW i \in 1 .. Len(p), i - 1 \in I PROVE i \in I
  <2>1. SubSeq(p, 1, i) = SubSeq(p, 1, i - 1) \o <<p[i]>>
    BY SubSeqRecursiveSecond, <1>0
  <2>2. SubSeq(p, 1, i - 1) \in Seq(C) /\ p[i] \in C
    BY <1>0
  <2>3. SubSeq(p, 1, i) = Append(SubSeq(p, 1, i - 1), p[i])
    BY <2>1, <2>2
  <2>4. SubSeq(p, 1, i - 1) \in T
    BY <1>2
  <2> QED
    <3>1. i \in 0 .. Len(p)
      BY <1>0
    <3>2. SubSeq(p, 1, i) \in T
      BY <2>3, <2>4, Zenon
    <3> QED
      BY <3>1, <3>2, Zenon
<1>3. Len(p) \in I
  <2>1. \A i \in 1 .. Len(p) : i - 1 \in I => i \in I
    BY <1>2
  <2> HIDE DEF I
  <2>2. \A i \in 0 .. Len(p) : i \in I
    BY <1>0, <1>1, <2>1, Upto
  <2> QED
    BY <1>0, <2>2
<1> QED
  BY <1>0, <1>3

Run(F, s, bytes) ==
    LET after[i \in 0 .. Len(bytes)] == IF i = 0 THEN s ELSE F[<<after[i - 1], bytes[i]>>]
    IN  after[Len(bytes)]

(* F makes a state of a state and an element.                               *)
Steps(F, S, C) == F \in [S \X C -> S]

(* r has what F makes of s and the first i elements.                        *)
Trace(r, F, s, bytes) ==
    /\ DOMAIN r = 0 .. Len(bytes) /\ r = [i \in DOMAIN r |-> r[i]] /\ r[0] = s
    /\ \A i \in 1 .. Len(bytes) : r[i] = F[<<r[i - 1], bytes[i]>>]

LEMMA TraceExists ==
    ASSUME NEW F, NEW S, NEW C, Steps(F, S, C), NEW s \in S, NEW bytes \in Seq(C)
    PROVE  \E r \in [0 .. Len(bytes) -> S] : Trace(r, F, s, bytes)
<1> USE DEF Steps
<1> DEFINE Good(r, n) == r[0] = s /\ \A i \in 1 .. n : r[i] = F[<<r[i - 1], bytes[i]>>]
           T == {n \in 0 .. Len(bytes) : \E r \in [0 .. n -> S] : Good(r, n)}
<1>1. Len(bytes) \in Nat
  OBVIOUS
<1>2. 0 \in T
  <2>1. [i \in 0 .. 0 |-> s] \in [0 .. 0 -> S] /\ Good([i \in 0 .. 0 |-> s], 0)
    OBVIOUS
  <2> HIDE DEF Good
  <2> QED
    BY <1>1, <2>1
<1>3. ASSUME NEW n \in 1 .. Len(bytes), n - 1 \in T PROVE n \in T
  <2>1. PICK r \in [0 .. n - 1 -> S] : Good(r, n - 1)
    BY <1>3
  <2> DEFINE q == [i \in 0 .. n |-> IF i = n THEN F[<<r[n - 1], bytes[n]>>] ELSE r[i]]
  <2>2. bytes[n] \in C /\ r[n - 1] \in S /\ n \in Nat
    BY <1>1
  <2>3. q \in [0 .. n -> S]
    BY <2>2
  <2>4. q[0] = s
    BY <1>1, <2>1
  <2>5. ASSUME NEW i \in 1 .. n PROVE q[i] = F[<<q[i - 1], bytes[i]>>]
    <3>1. i - 1 \in 0 .. n - 1 /\ i - 1 # n /\ i - 1 \in 0 .. n /\ i \in 0 .. n
      BY <2>2
    <3>2. q[i - 1] = r[i - 1]
      BY <3>1, Zenon
    <3>3. CASE i = n
      BY <3>1, <3>2, <3>3
    <3>4. CASE i # n
      <4>1. i \in 1 .. n - 1 /\ q[i] = r[i]
        BY <2>2, <3>1, <3>4
      <4> QED
        BY <2>1, <3>2, <4>1
    <3> QED
      BY <3>3, <3>4
  <2> HIDE DEF q
  <2>6. Good(q, n)
    BY <2>4, <2>5
  <2>7. n \in 0 .. Len(bytes)
    BY <1>1
  <2> QED
    BY <2>3, <2>6, <2>7
<1>4. Len(bytes) \in T
  <2>1. \A n \in 1 .. Len(bytes) : n - 1 \in T => n \in T
    BY <1>3
  <2> HIDE DEF T
  <2>2. \A n \in 0 .. Len(bytes) : n \in T
    BY <1>1, <1>2, <2>1, Upto
  <2> QED
    BY <1>1, <2>2
<1>5. PICK r \in [0 .. Len(bytes) -> S] : Good(r, Len(bytes))
  BY <1>4
<1> QED
  BY <1>5 DEF Trace

LEMMA TracesAgree ==
    ASSUME NEW F, NEW s, NEW C, NEW bytes \in Seq(C), NEW r, NEW q,
           Trace(r, F, s, bytes), Trace(q, F, s, bytes)
    PROVE  r = q
<1> DEFINE T == {i \in 0 .. Len(bytes) : r[i] = q[i]}
<1>1. Len(bytes) \in Nat
  OBVIOUS
<1>2. 0 \in T
  BY <1>1 DEF Trace
<1>3. \A i \in 1 .. Len(bytes) : i - 1 \in T => i \in T
  BY <1>1 DEF Trace
<1>4. \A i \in 0 .. Len(bytes) : i \in T
  <2> HIDE DEF T
  <2> QED
    BY <1>1, <1>2, <1>3, Upto
<1> QED
  BY <1>4 DEF Trace

LEMMA RunIs ==
    ASSUME NEW F, NEW S, NEW C, Steps(F, S, C), NEW s \in S, NEW bytes \in Seq(C),
           NEW r, Trace(r, F, s, bytes)
    PROVE  Run(F, s, bytes) = r[Len(bytes)]
<1>1. r = [i \in 0 .. Len(bytes) |-> IF i = 0 THEN s ELSE F[<<r[i - 1], bytes[i]>>]]
  <2>1. \A i \in 0 .. Len(bytes) : i # 0 => i \in 1 .. Len(bytes)
    OBVIOUS
  <2> QED
    BY <2>1 DEF Trace
<1>2. ASSUME NEW q, q = [i \in 0 .. Len(bytes) |-> IF i = 0 THEN s ELSE F[<<q[i - 1], bytes[i]>>]]
      PROVE  q = r
  <2>1. Trace(q, F, s, bytes)
    <3>1. 0 \in 0 .. Len(bytes) /\ \A i \in 1 .. Len(bytes) : i \in 0 .. Len(bytes) /\ i # 0
      OBVIOUS
    <3> QED
      BY <1>2, <3>1 DEF Trace
  <2> QED
    BY <2>1, TracesAgree
<1> QED
  BY <1>1, <1>2 DEF Run

(* A run of nothing, of one element, and of one sequence after another.     *)
LEMMA RunOfNone ==
    ASSUME NEW F, NEW S, NEW C, Steps(F, S, C), NEW s \in S
    PROVE  Run(F, s, <<>>) = s
<1>0. <<>> \in Seq(C) /\ Len(<<>>) = 0
  OBVIOUS
<1>1. PICK r \in [0 .. Len(<<>>) -> S] : Trace(r, F, s, <<>>)
  BY <1>0, TraceExists
<1>2. Run(F, s, <<>>) = r[Len(<<>>)]
  BY <1>0, <1>1, RunIs
<1> QED
  BY <1>0, <1>1, <1>2 DEF Trace

LEMMA RunOfOne ==
    ASSUME NEW F, NEW S, NEW C, Steps(F, S, C), NEW s \in S, NEW c \in C
    PROVE  Run(F, s, <<c>>) = F[<<s, c>>]
<1>0. <<c>> \in Seq(C) /\ Len(<<c>>) = 1 /\ <<c>>[1] = c
  OBVIOUS
<1>1. PICK r \in [0 .. Len(<<c>>) -> S] : Trace(r, F, s, <<c>>)
  BY <1>0, TraceExists
<1>2. Run(F, s, <<c>>) = r[Len(<<c>>)]
  BY <1>0, <1>1, RunIs
<1> QED
  BY <1>0, <1>1, <1>2 DEF Trace

LEMMA RunStays ==
    ASSUME NEW F, NEW S, NEW C, Steps(F, S, C), NEW bytes \in Seq(C), NEW T, NEW s \in T, T \subseteq S,
           \A t \in T, i \in 1 .. Len(bytes) : F[<<t, bytes[i]>>] \in T
    PROVE  Run(F, s, bytes) \in T
<1>1. PICK r \in [0 .. Len(bytes) -> S] : Trace(r, F, s, bytes)
  BY TraceExists
<1> DEFINE I == {i \in 0 .. Len(bytes) : r[i] \in T}
<1>2. Len(bytes) \in Nat
  OBVIOUS
<1>3. 0 \in I
  BY <1>1, <1>2 DEF Trace
<1>4. \A i \in 1 .. Len(bytes) : i - 1 \in I => i \in I
  <2> SUFFICES ASSUME NEW i \in 1 .. Len(bytes), i - 1 \in I PROVE i \in I
    OBVIOUS
  <2>1. r[i] = F[<<r[i - 1], bytes[i]>>] /\ i \in 0 .. Len(bytes) /\ r[i - 1] \in T
    BY <1>1, <1>2 DEF Trace
  <2> QED
    BY <2>1
<1>5. \A i \in 0 .. Len(bytes) : i \in I
  <2> HIDE DEF I
  <2> QED
    BY <1>2, <1>3, <1>4, Upto
<1>6. r[Len(bytes)] \in T
  BY <1>2, <1>5
<1>7. Run(F, s, bytes) = r[Len(bytes)]
  BY <1>1, RunIs
<1> QED
  BY <1>6, <1>7

LEMMA RunOfBoth ==
    ASSUME NEW F, NEW S, NEW C, Steps(F, S, C), NEW s \in S, NEW x \in Seq(C), NEW y \in Seq(C)
    PROVE  Run(F, s, x \o y) = Run(F, Run(F, s, x), y)
<1> DEFINE m == Len(x)
           n == Len(y)
           z == x \o y
<1>1. m \in Nat /\ n \in Nat /\ z \in Seq(C) /\ Len(z) = m + n
  OBVIOUS
<1>2. PICK r \in [0 .. m -> S] : Trace(r, F, s, x)
  BY TraceExists
<1>3. Run(F, s, x) = r[m] /\ r[m] \in S
  BY <1>1, <1>2, RunIs
<1>4. PICK q \in [0 .. n -> S] : Trace(q, F, r[m], y)
  BY <1>3, TraceExists
<1>5. Run(F, Run(F, s, x), y) = q[n]
  BY <1>3, <1>4, RunIs
<1> DEFINE w == [i \in 0 .. m + n |-> IF i <= m THEN r[i] ELSE q[i - m]]
<1>6. \A i \in 1 .. m : z[i] = x[i]
  OBVIOUS
<1>7. \A i \in m + 1 .. m + n : z[i] = y[i - m]
  OBVIOUS
<1>8. r[0] = s /\ \A i \in 1 .. m : r[i] = F[<<r[i - 1], x[i]>>]
  BY <1>2 DEF Trace
<1>9. q[0] = r[m] /\ \A i \in 1 .. n : q[i] = F[<<q[i - 1], y[i]>>]
  BY <1>4 DEF Trace
<1> HIDE DEF m, n, z
<1>10. ASSUME NEW i \in 1 .. m + n PROVE w[i] = F[<<w[i - 1], z[i]>>]
  <2>1. CASE i <= m
    <3>1. i \in 1 .. m /\ w[i] = r[i] /\ w[i - 1] = r[i - 1]
      BY <1>1, <2>1
    <3> QED
      BY <1>6, <1>8, <3>1
  <2>2. CASE i > m
    <3>1. i \in m + 1 .. m + n /\ i - m \in 1 .. n /\ w[i] = q[i - m]
      BY <1>1, <2>2
    <3>2. q[i - m] = F[<<q[(i - m) - 1], y[i - m]>>]
      BY <1>9, <3>1
    <3>3. w[i - 1] = q[(i - m) - 1]
      <4>1. CASE i - 1 = m
        BY <1>1, <1>9, <3>1, <4>1
      <4>2. CASE i - 1 # m
        <5>1. i - 1 \in 0 .. m + n /\ ~(i - 1 <= m) /\ (i - 1) - m = (i - m) - 1
          BY <1>1, <2>2, <4>2
        <5> QED
          BY <5>1
      <4> QED
        BY <4>1, <4>2
    <3> HIDE DEF w
    <3> QED
      BY <1>7, <3>1, <3>2, <3>3
  <2> QED
    BY <1>1, <2>1, <2>2
<1>11. w[0] = s /\ w[m + n] = q[n]
  <2>1. 0 \in 0 .. m + n /\ m + n \in 0 .. m + n /\ 0 <= m /\ (m + n) - m = n
    BY <1>1
  <2>2. CASE n = 0
    BY <1>1, <1>8, <1>9, <2>1, <2>2
  <2>3. CASE n # 0
    BY <1>1, <1>8, <2>1, <2>3
  <2> QED
    BY <2>2, <2>3
<1>12. DOMAIN w = 0 .. Len(z) /\ w = [i \in DOMAIN w |-> w[i]]
  BY <1>1
<1> HIDE DEF w
<1>13. Trace(w, F, s, z)
  BY <1>1, <1>10, <1>11, <1>12 DEF Trace
<1>14. Run(F, s, z) = w[Len(z)]
  <2>1. PICK v \in Seq(C) : v = z
    BY <1>1
  <2>2. PICK t : t = w /\ Trace(t, F, s, v)
    BY <2>1, <1>13
  <2>3. Run(F, s, v) = t[Len(v)]
    BY <2>2, RunIs
  <2> QED
    BY <2>1, <2>2, <2>3
<1>15. Len(z) = m + n /\ Run(F, s, x \o y) = Run(F, s, z)
  BY <1>1 DEF z
<1> QED
  BY <1>5, <1>11, <1>14, <1>15

(* The states and steps of the five runs of SlipDev.                        *)
Bytes == Seq(Octets)
Hands == Seq({"cmd_input", "slip_packet_input"} \X Bytes)
Buffers == [buf : Bytes, packet_end : Nat, count : Nat, overflow : BOOLEAN]
Decodings == [cur : Bytes, esc : BOOLEAN, got : Seq(Bytes)]
Readings == [inbuf : Bytes, esc : BOOLEAN, got : Hands, verbose : BOOLEAN]

Sends == [x \in Buffers \X Octets |-> Slip!slip_send(x[1], x[2])]
Decodes == [x \in Decodings \X Octets |-> Slip!Decode(x[1], x[2])]
Reads == [x \in Readings \X Octets |-> Slip!read_byte(x[1], x[2])]
Escapes == [x \in Bytes \X Octets |-> x[1] \o Slip!Escape(x[2])]
HandsOn == [x \in Hands \X Bytes |-> x[1] \o Slip!HandedOn(x[2])]

LEMMA OctetsOf ==
    /\ Slip!SLIP_END \in Octets /\ Slip!SLIP_ESC \in Octets /\ Slip!SLIP_ESC_END \in Octets
    /\ Slip!SLIP_ESC_ESC \in Octets /\ Slip!Newline \in Octets /\ Slip!DEBUG_LINE_MARKER \in Octets
    /\ "a" \in Octets
  BY NodesAssumption DEF Slip!SlipAssumption, Slip!Printable

LEMMA UnescapedType == ASSUME NEW c \in Octets PROVE Slip!Unescaped(c) \in Octets
  BY OctetsOf DEF Slip!Unescaped

LEMMA Single == ASSUME NEW C, NEW c \in C PROVE <<c>> \in Seq(C) /\ Len(<<c>>) = 1 /\ <<c>>[1] = c
  OBVIOUS

LEMMA Double == ASSUME NEW C, NEW c \in C, NEW d \in C PROVE <<c, d>> \in Seq(C) /\ <<c, d>> = Append(<<c>>, d)
  OBVIOUS

LEMMA Pair == ASSUME NEW A, NEW B, NEW a \in A, NEW b \in B PROVE <<a, b>> \in A \X B
  OBVIOUS

LEMMA SendSteps == Steps(Sends, Buffers, Octets)
<1>1. ASSUME NEW b \in Buffers, NEW c \in Octets PROVE Slip!slip_send(b, c) \in Buffers
  <2>1. b.buf \in Bytes /\ b.packet_end \in Nat /\ b.count \in Nat /\ b.overflow \in BOOLEAN
    BY DEF Buffers
  <2>2. Append(b.buf, c) \in Bytes /\ Len(b.buf) + 1 \in Nat
    BY <2>1 DEF Bytes
  <2>3. [b EXCEPT !.overflow = TRUE] \in Buffers
    BY DEF Buffers
  <2>4. b.count + (IF c = Slip!SLIP_END THEN 1 ELSE 0) \in Nat
    BY <2>1
  <2> QED
    BY <2>1, <2>2, <2>3, <2>4 DEF Slip!slip_send, Buffers
<1> QED
  BY <1>1 DEF Steps, Sends

LEMMA DecodeSteps == Steps(Decodes, Decodings, Octets)
<1>1. ASSUME NEW s \in Decodings, NEW c \in Octets PROVE Slip!Decode(s, c) \in Decodings
  <2>1. Slip!Unescaped(c) \in Octets
    BY UnescapedType
  <2>2. s.cur \in Bytes /\ s.esc \in BOOLEAN /\ s.got \in Seq(Bytes)
    BY DEF Decodings
  <2>3. ASSUME NEW d \in Octets PROVE Append(s.cur, d) \in Bytes
    BY <2>2 DEF Bytes
  <2>4. <<>> \in Bytes /\ Append(s.got, s.cur) \in Seq(Bytes)
    BY <2>2 DEF Bytes
  <2> HIDE DEF Bytes
  <2>5. CASE s.esc
    <3>1. Slip!Decode(s, c) = [s EXCEPT !.esc = FALSE, !.cur = Append(s.cur, Slip!Unescaped(c))]
      BY <2>5 DEF Slip!Decode
    <3> QED
      BY <2>1, <2>3, <3>1 DEF Decodings
  <2>6. CASE ~s.esc
    <3>1. [s EXCEPT !.esc = TRUE] \in Decodings
      BY DEF Decodings
    <3>2. [s EXCEPT !.cur = <<>>, !.got = IF s.cur = <<>> THEN s.got ELSE Append(s.got, s.cur)] \in Decodings
      BY <2>2, <2>4 DEF Decodings
    <3>3. [s EXCEPT !.cur = Append(s.cur, c)] \in Decodings
      BY <2>3 DEF Decodings
    <3> QED
      BY <2>6, <3>1, <3>2, <3>3 DEF Slip!Decode
  <2> QED
    BY <2>2, <2>5, <2>6
<1> QED
  BY <1>1 DEF Steps, Decodes

LEMMA EscapeSteps == Steps(Escapes, Bytes, Octets)
<1>1. ASSUME NEW s \in Bytes, NEW c \in Octets PROVE s \o Slip!Escape(c) \in Bytes
  <2>1. Slip!Escape(c) \in Bytes
    <3>1. <<Slip!SLIP_ESC, Slip!SLIP_ESC_END>> \in Bytes /\ <<Slip!SLIP_ESC, Slip!SLIP_ESC_ESC>> \in Bytes
      BY OctetsOf, Double, Zenon DEF Bytes
    <3>2. <<c>> \in Bytes
      BY Single, Zenon DEF Bytes
    <3> QED
      BY <3>1, <3>2 DEF Slip!Escape
  <2> QED
    BY <2>1, ConcatProperties DEF Bytes
<1> QED
  BY <1>1 DEF Steps, Escapes

LEMMA HandedOnType == ASSUME NEW f \in Bytes PROVE Slip!HandedOn(f) \in Hands
<1>1. ASSUME NEW h \in {"cmd_input", "slip_packet_input"} \X Bytes PROVE <<h>> \in Hands
  BY DEF Hands
<1>2. /\ <<"cmd_input", f>> \in {"cmd_input", "slip_packet_input"} \X Bytes
      /\ <<"slip_packet_input", f>> \in {"cmd_input", "slip_packet_input"} \X Bytes
  BY Pair, Zenon
<1>3. <<>> \in Hands
  BY DEF Hands
<1> QED
  BY <1>1, <1>2, <1>3 DEF Slip!HandedOn, Slip!DEBUG_LINE_MARKER

LEMMA HandSteps == Steps(HandsOn, Hands, Bytes)
<1>1. ASSUME NEW s \in Hands, NEW f \in Bytes PROVE s \o Slip!HandedOn(f) \in Hands
  <2>1. Slip!HandedOn(f) \in Hands
    BY HandedOnType
  <2> QED
    BY <2>1 DEF Hands
<1> QED
  BY <1>1 DEF Steps, HandsOn

LEMMA ReadSteps == Steps(Reads, Readings, Octets)
<1>1. ASSUME NEW t \in Readings, NEW c \in Octets PROVE Slip!read_byte(t, c) \in Readings
  <2>1. Slip!Unescaped(c) \in Octets
    BY UnescapedType
  <2> DEFINE s == Slip!Fresh(t)
  <2>2. s \in Readings
    <3>1. <<>> \in Bytes
      BY DEF Bytes
    <3>2. [t EXCEPT !.inbuf = <<>>] \in Readings
      BY <3>1 DEF Readings
    <3> QED
      BY <3>2 DEF Slip!Fresh
  <2> HIDE DEF s
  <2>3. ASSUME NEW d \in Octets PROVE Slip!Store(s, d) \in Readings
    <3>1. s.inbuf \in Bytes
      BY <2>2 DEF Readings
    <3>2. <<>> \in Bytes /\ Append(s.inbuf, d) \in Bytes
      BY <3>1 DEF Bytes
    <3> DEFINE more == Append(s.inbuf, d)
               x == IF s.verbose /\ d = Slip!Newline /\ Slip!is_sensible_string(more) THEN <<>> ELSE more
    <3>4. x \in Bytes
      BY <3>2
    <3>5. Slip!Store(s, d) = [s EXCEPT !.esc = FALSE, !.inbuf = x]
      BY Zenon DEF Slip!Store
    <3> HIDE DEF x
    <3>6. [s EXCEPT !.esc = FALSE, !.inbuf = x] \in Readings
      BY <2>2, <3>4 DEF Readings
    <3> QED
      BY <3>5, <3>6
  <2>4. [s EXCEPT !.esc = TRUE] \in Readings
    BY <2>2 DEF Readings
  <2>5. s.got \in Hands /\ Slip!HandedOn(s.inbuf) \in Hands
    BY <2>2, HandedOnType DEF Readings
  <2>7. s.got \o Slip!HandedOn(s.inbuf) \in Hands
    BY <2>5 DEF Hands
  <2>8. [s EXCEPT !.inbuf = <<>>, !.got = IF s.inbuf = <<>> THEN s.got ELSE s.got \o Slip!HandedOn(s.inbuf)]
        \in Readings
    <3> DEFINE g == IF s.inbuf = <<>> THEN s.got ELSE s.got \o Slip!HandedOn(s.inbuf)
    <3>1. g \in Hands
      BY <2>5, <2>7
    <3> HIDE DEF g
    <3>2. <<>> \in Bytes
      BY DEF Bytes
    <3>3. [s EXCEPT !.inbuf = <<>>, !.got = g] \in Readings
      BY <2>2, <3>1, <3>2 DEF Readings
    <3> QED
      BY <3>3 DEF g
  <2>9. s.esc \in BOOLEAN
    BY <2>2 DEF Readings
  <2> QED
    BY <2>1, <2>3, <2>4, <2>8, <2>9 DEF Slip!read_byte, s
<1> QED
  BY <1>1 DEF Steps, Reads

LEMMA SentIsRun ==
    ASSUME NEW s \in Buffers, NEW bytes \in Seq(Octets)
    PROVE  Slip!sent_bytes(s, bytes) = Run(Sends, s, bytes)
<1>1. s \in Buffers /\ Len(bytes) \in Nat
  BY DEF Buffers
<1>2. PICK r \in [0 .. Len(bytes) -> Buffers] : Trace(r, Sends, s, bytes)
  BY <1>1, TraceExists, SendSteps
<1>3. Run(Sends, s, bytes) = r[Len(bytes)]
  BY <1>1, <1>2, RunIs, SendSteps
<1>4. ASSUME NEW i \in 1 .. Len(bytes)
      PROVE  Sends[<<r[i - 1], bytes[i]>>] = Slip!slip_send(r[i - 1], bytes[i])
  <2>1. i - 1 \in 0 .. Len(bytes) /\ bytes[i] \in Octets
    BY <1>1
  <2>2. <<r[i - 1], bytes[i]>> \in Buffers \X Octets
    BY <2>1
  <2> QED
    BY <2>2 DEF Sends
<1>5. r = [i \in 0 .. Len(bytes) |-> IF i = 0 THEN s ELSE Slip!slip_send(r[i - 1], bytes[i])]
  <2>1. DOMAIN r = 0 .. Len(bytes) /\ r = [i \in DOMAIN r |-> r[i]]
    BY <1>2 DEF Trace
  <2>2. ASSUME NEW i \in 0 .. Len(bytes) PROVE r[i] = IF i = 0 THEN s ELSE Slip!slip_send(r[i - 1], bytes[i])
    <3>1. CASE i = 0
      BY <1>2, <3>1 DEF Trace
    <3>2. CASE i # 0
      <4>1. i \in 1 .. Len(bytes)
        BY <3>2
      <4> QED
        BY <1>2, <1>4, <3>2, <4>1 DEF Trace
    <3> QED
      BY <3>1, <3>2
  <2> QED
    BY <2>1, <2>2, Zenon
<1>6. ASSUME NEW q, q = [i \in 0 .. Len(bytes) |-> IF i = 0 THEN s ELSE Slip!slip_send(q[i - 1], bytes[i])]
      PROVE  q = r
  <2> DEFINE I == {i \in 0 .. Len(bytes) : q[i] = r[i]}
  <2>1. 0 \in 0 .. Len(bytes) /\ \A i \in 1 .. Len(bytes) : i \in 0 .. Len(bytes) /\ i # 0
    BY <1>1
  <2>2. q[0] = r[0]
    BY <1>5, <1>6, <2>1, Zenon
  <2>3. 0 \in I
    BY <2>1, <2>2, Zenon
  <2>4. ASSUME NEW i \in 1 .. Len(bytes), i - 1 \in I PROVE i \in I
    <3>1. q[i - 1] = r[i - 1]
      BY <2>4, Zenon
    <3>2. q[i] = Slip!slip_send(q[i - 1], bytes[i])
      BY <1>6, <2>1, Zenon
    <3>3. r[i] = Slip!slip_send(r[i - 1], bytes[i])
      BY <1>5, <2>1, Zenon
    <3>4. q[i] = r[i]
      BY <3>1, <3>2, <3>3, Zenon
    <3> QED
      BY <2>1, <3>4, Zenon
  <2>5. \A i \in 1 .. Len(bytes) : i - 1 \in I => i \in I
    BY <2>4, Zenon
  <2> HIDE DEF I
  <2>6. \A i \in 0 .. Len(bytes) : i \in I
    BY <1>1, <2>3, <2>5, Upto
  <2> USE DEF I
  <2>7. \A i \in 0 .. Len(bytes) : q[i] = r[i]
    BY <2>6, Zenon
  <2>8. r = [i \in 0 .. Len(bytes) |-> r[i]] /\ q = [i \in 0 .. Len(bytes) |-> q[i]]
    BY <1>6
  <2> QED
    BY <2>7, <2>8, Zenon
<1>7. Slip!sent_bytes(s, bytes) = r[Len(bytes)]
  BY <1>5, <1>6, Zenon DEF Slip!sent_bytes
<1> QED
  BY <1>3, <1>7

LEMMA DecodingIsRun ==
    ASSUME NEW s \in Decodings, NEW bytes \in Seq(Octets)
    PROVE  Slip!Decoding(s, bytes) = Run(Decodes, s, bytes)
<1>1. s \in Decodings /\ Len(bytes) \in Nat
  BY DEF Decodings
<1>2. PICK r \in [0 .. Len(bytes) -> Decodings] : Trace(r, Decodes, s, bytes)
  BY <1>1, TraceExists, DecodeSteps
<1>3. Run(Decodes, s, bytes) = r[Len(bytes)]
  BY <1>1, <1>2, RunIs, DecodeSteps
<1>4. ASSUME NEW i \in 1 .. Len(bytes)
      PROVE  Decodes[<<r[i - 1], bytes[i]>>] = Slip!Decode(r[i - 1], bytes[i])
  <2>1. i - 1 \in 0 .. Len(bytes) /\ bytes[i] \in Octets
    BY <1>1
  <2>2. <<r[i - 1], bytes[i]>> \in Decodings \X Octets
    BY <2>1
  <2> QED
    BY <2>2 DEF Decodes
<1>5. r = [i \in 0 .. Len(bytes) |-> IF i = 0 THEN s ELSE Slip!Decode(r[i - 1], bytes[i])]
  <2>1. DOMAIN r = 0 .. Len(bytes) /\ r = [i \in DOMAIN r |-> r[i]]
    BY <1>2 DEF Trace
  <2>2. ASSUME NEW i \in 0 .. Len(bytes) PROVE r[i] = IF i = 0 THEN s ELSE Slip!Decode(r[i - 1], bytes[i])
    <3>1. CASE i = 0
      BY <1>2, <3>1 DEF Trace
    <3>2. CASE i # 0
      <4>1. i \in 1 .. Len(bytes)
        BY <3>2
      <4> QED
        BY <1>2, <1>4, <3>2, <4>1 DEF Trace
    <3> QED
      BY <3>1, <3>2
  <2> QED
    BY <2>1, <2>2, Zenon
<1>6. ASSUME NEW q, q = [i \in 0 .. Len(bytes) |-> IF i = 0 THEN s ELSE Slip!Decode(q[i - 1], bytes[i])]
      PROVE  q = r
  <2> DEFINE I == {i \in 0 .. Len(bytes) : q[i] = r[i]}
  <2>1. 0 \in 0 .. Len(bytes) /\ \A i \in 1 .. Len(bytes) : i \in 0 .. Len(bytes) /\ i # 0
    BY <1>1
  <2>2. q[0] = r[0]
    BY <1>5, <1>6, <2>1, Zenon
  <2>3. 0 \in I
    BY <2>1, <2>2, Zenon
  <2>4. ASSUME NEW i \in 1 .. Len(bytes), i - 1 \in I PROVE i \in I
    <3>1. q[i - 1] = r[i - 1]
      BY <2>4, Zenon
    <3>2. q[i] = Slip!Decode(q[i - 1], bytes[i])
      BY <1>6, <2>1, Zenon
    <3>3. r[i] = Slip!Decode(r[i - 1], bytes[i])
      BY <1>5, <2>1, Zenon
    <3>4. q[i] = r[i]
      BY <3>1, <3>2, <3>3, Zenon
    <3> QED
      BY <2>1, <3>4, Zenon
  <2>5. \A i \in 1 .. Len(bytes) : i - 1 \in I => i \in I
    BY <2>4, Zenon
  <2> HIDE DEF I
  <2>6. \A i \in 0 .. Len(bytes) : i \in I
    BY <1>1, <2>3, <2>5, Upto
  <2> USE DEF I
  <2>7. \A i \in 0 .. Len(bytes) : q[i] = r[i]
    BY <2>6, Zenon
  <2>8. r = [i \in 0 .. Len(bytes) |-> r[i]] /\ q = [i \in 0 .. Len(bytes) |-> q[i]]
    BY <1>6
  <2> QED
    BY <2>7, <2>8, Zenon
<1>7. Slip!Decoding(s, bytes) = r[Len(bytes)]
  BY <1>5, <1>6, Zenon DEF Slip!Decoding
<1> QED
  BY <1>3, <1>7

LEMMA ReadIsRun ==
    ASSUME NEW s \in Readings, NEW bytes \in Seq(Octets)
    PROVE  Slip!read_bytes(s, bytes) = Run(Reads, s, bytes)
<1>1. s \in Readings /\ Len(bytes) \in Nat
  BY DEF Readings
<1>2. PICK r \in [0 .. Len(bytes) -> Readings] : Trace(r, Reads, s, bytes)
  BY <1>1, TraceExists, ReadSteps
<1>3. Run(Reads, s, bytes) = r[Len(bytes)]
  BY <1>1, <1>2, RunIs, ReadSteps
<1>4. ASSUME NEW i \in 1 .. Len(bytes)
      PROVE  Reads[<<r[i - 1], bytes[i]>>] = Slip!read_byte(r[i - 1], bytes[i])
  <2>1. i - 1 \in 0 .. Len(bytes) /\ bytes[i] \in Octets
    BY <1>1
  <2>2. <<r[i - 1], bytes[i]>> \in Readings \X Octets
    BY <2>1
  <2> QED
    BY <2>2 DEF Reads
<1>5. r = [i \in 0 .. Len(bytes) |-> IF i = 0 THEN s ELSE Slip!read_byte(r[i - 1], bytes[i])]
  <2>1. DOMAIN r = 0 .. Len(bytes) /\ r = [i \in DOMAIN r |-> r[i]]
    BY <1>2 DEF Trace
  <2>2. ASSUME NEW i \in 0 .. Len(bytes) PROVE r[i] = IF i = 0 THEN s ELSE Slip!read_byte(r[i - 1], bytes[i])
    <3>1. CASE i = 0
      BY <1>2, <3>1 DEF Trace
    <3>2. CASE i # 0
      <4>1. i \in 1 .. Len(bytes)
        BY <3>2
      <4> QED
        BY <1>2, <1>4, <3>2, <4>1 DEF Trace
    <3> QED
      BY <3>1, <3>2
  <2> QED
    BY <2>1, <2>2, Zenon
<1>6. ASSUME NEW q, q = [i \in 0 .. Len(bytes) |-> IF i = 0 THEN s ELSE Slip!read_byte(q[i - 1], bytes[i])]
      PROVE  q = r
  <2> DEFINE I == {i \in 0 .. Len(bytes) : q[i] = r[i]}
  <2>1. 0 \in 0 .. Len(bytes) /\ \A i \in 1 .. Len(bytes) : i \in 0 .. Len(bytes) /\ i # 0
    BY <1>1
  <2>2. q[0] = r[0]
    BY <1>5, <1>6, <2>1, Zenon
  <2>3. 0 \in I
    BY <2>1, <2>2, Zenon
  <2>4. ASSUME NEW i \in 1 .. Len(bytes), i - 1 \in I PROVE i \in I
    <3>1. q[i - 1] = r[i - 1]
      BY <2>4, Zenon
    <3>2. q[i] = Slip!read_byte(q[i - 1], bytes[i])
      BY <1>6, <2>1, Zenon
    <3>3. r[i] = Slip!read_byte(r[i - 1], bytes[i])
      BY <1>5, <2>1, Zenon
    <3>4. q[i] = r[i]
      BY <3>1, <3>2, <3>3, Zenon
    <3> QED
      BY <2>1, <3>4, Zenon
  <2>5. \A i \in 1 .. Len(bytes) : i - 1 \in I => i \in I
    BY <2>4, Zenon
  <2> HIDE DEF I
  <2>6. \A i \in 0 .. Len(bytes) : i \in I
    BY <1>1, <2>3, <2>5, Upto
  <2> USE DEF I
  <2>7. \A i \in 0 .. Len(bytes) : q[i] = r[i]
    BY <2>6, Zenon
  <2>8. r = [i \in 0 .. Len(bytes) |-> r[i]] /\ q = [i \in 0 .. Len(bytes) |-> q[i]]
    BY <1>6
  <2> QED
    BY <2>7, <2>8, Zenon
<1>7. Slip!read_bytes(s, bytes) = r[Len(bytes)]
  BY <1>5, <1>6, Zenon DEF Slip!read_bytes
<1> QED
  BY <1>3, <1>7

LEMMA EscapedIsRun ==
    ASSUME NEW bytes \in Seq(Octets)
    PROVE  Slip!Escaped(bytes) = Run(Escapes, <<>>, bytes)
<1>1. <<>> \in Bytes /\ Len(bytes) \in Nat
  BY DEF Bytes
<1>2. PICK r \in [0 .. Len(bytes) -> Bytes] : Trace(r, Escapes, <<>>, bytes)
  BY <1>1, TraceExists, EscapeSteps
<1>3. Run(Escapes, <<>>, bytes) = r[Len(bytes)]
  BY <1>1, <1>2, RunIs, EscapeSteps
<1>4. ASSUME NEW i \in 1 .. Len(bytes)
      PROVE  Escapes[<<r[i - 1], bytes[i]>>] = r[i - 1] \o Slip!Escape(bytes[i])
  <2>1. i - 1 \in 0 .. Len(bytes) /\ bytes[i] \in Octets
    BY <1>1
  <2>2. <<r[i - 1], bytes[i]>> \in Bytes \X Octets
    BY <2>1
  <2> QED
    BY <2>2 DEF Escapes
<1>5. r = [i \in 0 .. Len(bytes) |-> IF i = 0 THEN <<>> ELSE r[i - 1] \o Slip!Escape(bytes[i])]
  <2>1. DOMAIN r = 0 .. Len(bytes) /\ r = [i \in DOMAIN r |-> r[i]]
    BY <1>2 DEF Trace
  <2>2. ASSUME NEW i \in 0 .. Len(bytes) PROVE r[i] = IF i = 0 THEN <<>> ELSE r[i - 1] \o Slip!Escape(bytes[i])
    <3>1. CASE i = 0
      BY <1>2, <3>1 DEF Trace
    <3>2. CASE i # 0
      <4>1. i \in 1 .. Len(bytes)
        BY <3>2
      <4> QED
        BY <1>2, <1>4, <3>2, <4>1 DEF Trace
    <3> QED
      BY <3>1, <3>2
  <2> QED
    BY <2>1, <2>2, Zenon
<1>6. ASSUME NEW q, q = [i \in 0 .. Len(bytes) |-> IF i = 0 THEN <<>> ELSE q[i - 1] \o Slip!Escape(bytes[i])]
      PROVE  q = r
  <2> DEFINE I == {i \in 0 .. Len(bytes) : q[i] = r[i]}
  <2>1. 0 \in 0 .. Len(bytes) /\ \A i \in 1 .. Len(bytes) : i \in 0 .. Len(bytes) /\ i # 0
    BY <1>1
  <2>2. q[0] = r[0]
    BY <1>5, <1>6, <2>1, Zenon
  <2>3. 0 \in I
    BY <2>1, <2>2, Zenon
  <2>4. ASSUME NEW i \in 1 .. Len(bytes), i - 1 \in I PROVE i \in I
    <3>1. q[i - 1] = r[i - 1]
      BY <2>4, Zenon
    <3>2. q[i] = q[i - 1] \o Slip!Escape(bytes[i])
      BY <1>6, <2>1, Zenon
    <3>3. r[i] = r[i - 1] \o Slip!Escape(bytes[i])
      BY <1>5, <2>1, Zenon
    <3>4. q[i] = r[i]
      BY <3>1, <3>2, <3>3, Zenon
    <3> QED
      BY <2>1, <3>4, Zenon
  <2>5. \A i \in 1 .. Len(bytes) : i - 1 \in I => i \in I
    BY <2>4, Zenon
  <2> HIDE DEF I
  <2>6. \A i \in 0 .. Len(bytes) : i \in I
    BY <1>1, <2>3, <2>5, Upto
  <2> USE DEF I
  <2>7. \A i \in 0 .. Len(bytes) : q[i] = r[i]
    BY <2>6, Zenon
  <2>8. r = [i \in 0 .. Len(bytes) |-> r[i]] /\ q = [i \in 0 .. Len(bytes) |-> q[i]]
    BY <1>6
  <2> QED
    BY <2>7, <2>8, Zenon
<1>7. Slip!Escaped(bytes) = r[Len(bytes)]
  BY <1>5, <1>6, Zenon DEF Slip!Escaped
<1> QED
  BY <1>3, <1>7

LEMMA ExpectedIsRun ==
    ASSUME NEW bytes \in Seq(Bytes)
    PROVE  Slip!Expected(bytes) = Run(HandsOn, <<>>, bytes)
<1>1. <<>> \in Hands /\ Len(bytes) \in Nat
  BY DEF Hands
<1>2. PICK r \in [0 .. Len(bytes) -> Hands] : Trace(r, HandsOn, <<>>, bytes)
  BY <1>1, TraceExists, HandSteps
<1>3. Run(HandsOn, <<>>, bytes) = r[Len(bytes)]
  BY <1>1, <1>2, RunIs, HandSteps
<1>4. ASSUME NEW i \in 1 .. Len(bytes)
      PROVE  HandsOn[<<r[i - 1], bytes[i]>>] = r[i - 1] \o Slip!HandedOn(bytes[i])
  <2>1. i - 1 \in 0 .. Len(bytes) /\ bytes[i] \in Bytes
    BY <1>1
  <2>2. <<r[i - 1], bytes[i]>> \in Hands \X Bytes
    BY <2>1
  <2> QED
    BY <2>2 DEF HandsOn
<1>5. r = [i \in 0 .. Len(bytes) |-> IF i = 0 THEN <<>> ELSE r[i - 1] \o Slip!HandedOn(bytes[i])]
  <2>1. DOMAIN r = 0 .. Len(bytes) /\ r = [i \in DOMAIN r |-> r[i]]
    BY <1>2 DEF Trace
  <2>2. ASSUME NEW i \in 0 .. Len(bytes) PROVE r[i] = IF i = 0 THEN <<>> ELSE r[i - 1] \o Slip!HandedOn(bytes[i])
    <3>1. CASE i = 0
      BY <1>2, <3>1 DEF Trace
    <3>2. CASE i # 0
      <4>1. i \in 1 .. Len(bytes)
        BY <3>2
      <4> QED
        BY <1>2, <1>4, <3>2, <4>1 DEF Trace
    <3> QED
      BY <3>1, <3>2
  <2> QED
    BY <2>1, <2>2, Zenon
<1>6. ASSUME NEW q, q = [i \in 0 .. Len(bytes) |-> IF i = 0 THEN <<>> ELSE q[i - 1] \o Slip!HandedOn(bytes[i])]
      PROVE  q = r
  <2> DEFINE I == {i \in 0 .. Len(bytes) : q[i] = r[i]}
  <2>1. 0 \in 0 .. Len(bytes) /\ \A i \in 1 .. Len(bytes) : i \in 0 .. Len(bytes) /\ i # 0
    BY <1>1
  <2>2. q[0] = r[0]
    BY <1>5, <1>6, <2>1, Zenon
  <2>3. 0 \in I
    BY <2>1, <2>2, Zenon
  <2>4. ASSUME NEW i \in 1 .. Len(bytes), i - 1 \in I PROVE i \in I
    <3>1. q[i - 1] = r[i - 1]
      BY <2>4, Zenon
    <3>2. q[i] = q[i - 1] \o Slip!HandedOn(bytes[i])
      BY <1>6, <2>1, Zenon
    <3>3. r[i] = r[i - 1] \o Slip!HandedOn(bytes[i])
      BY <1>5, <2>1, Zenon
    <3>4. q[i] = r[i]
      BY <3>1, <3>2, <3>3, Zenon
    <3> QED
      BY <2>1, <3>4, Zenon
  <2>5. \A i \in 1 .. Len(bytes) : i - 1 \in I => i \in I
    BY <2>4, Zenon
  <2> HIDE DEF I
  <2>6. \A i \in 0 .. Len(bytes) : i \in I
    BY <1>1, <2>3, <2>5, Upto
  <2> USE DEF I
  <2>7. \A i \in 0 .. Len(bytes) : q[i] = r[i]
    BY <2>6, Zenon
  <2>8. r = [i \in 0 .. Len(bytes) |-> r[i]] /\ q = [i \in 0 .. Len(bytes) |-> q[i]]
    BY <1>6
  <2> QED
    BY <2>7, <2>8, Zenon
<1>7. Slip!Expected(bytes) = r[Len(bytes)]
  BY <1>5, <1>6, Zenon DEF Slip!Expected
<1> QED
  BY <1>3, <1>7

(* What a packet is on the line: nothing in it is its end, and a receiver    *)
(* that has seen all of it has it, unchanged.                               *)
LEMMA AppendIs ==
    ASSUME NEW C, NEW x \in Seq(C), NEW c \in C
    PROVE  Append(x, c) = x \o <<c>> /\ Append(x, c) \in Seq(C) /\ Append(x, c) # <<>>
  OBVIOUS

LEMMA EscapeType == ASSUME NEW c \in Octets PROVE Slip!Escape(c) \in Bytes
<1>1. <<Slip!SLIP_ESC, Slip!SLIP_ESC_END>> \in Bytes /\ <<Slip!SLIP_ESC, Slip!SLIP_ESC_ESC>> \in Bytes
  BY OctetsOf, Double, Zenon DEF Bytes
<1>2. <<c>> \in Bytes
  BY Single, Zenon DEF Bytes
<1> QED
  BY <1>1, <1>2 DEF Slip!Escape

LEMMA EscapedNone == Slip!Escaped(<<>>) = <<>>
<1>1. <<>> \in Seq(Octets) /\ <<>> \in Bytes
  BY DEF Bytes
<1> QED
  BY <1>1, EscapedIsRun, EscapeSteps, RunOfNone

LEMMA EscapedMore ==
    ASSUME NEW p \in Bytes, NEW c \in Octets
    PROVE  /\ Slip!Escaped(p) \in Bytes
           /\ Slip!Escaped(Append(p, c)) = Slip!Escaped(p) \o Slip!Escape(c)
<1>1. p \in Seq(Octets) /\ <<>> \in Bytes /\ <<c>> \in Seq(Octets) /\ p \o <<c>> \in Seq(Octets)
  BY DEF Bytes
<1>2. Run(Escapes, <<>>, p) \in Bytes
  <2>1. \A t \in Bytes, i \in 1 .. Len(p) : Escapes[<<t, p[i]>>] \in Bytes
    BY <1>1, EscapeSteps DEF Steps
  <2> QED
    BY <1>1, <2>1, EscapeSteps, RunStays
<1>3. Run(Escapes, <<>>, p \o <<c>>) = Run(Escapes, Run(Escapes, <<>>, p), <<c>>)
  <2>1. \A s \in Bytes : Run(Escapes, s, p \o <<c>>) = Run(Escapes, Run(Escapes, s, p), <<c>>)
    <3>1. PICK y \in Seq(Octets) : y = <<c>>
      BY <1>1
    <3>2. \A s \in Bytes : Run(Escapes, s, p \o y) = Run(Escapes, Run(Escapes, s, p), y)
      BY <1>1, EscapeSteps, RunOfBoth
    <3> QED
      BY <3>1, <3>2, Zenon
  <2> QED
    BY <1>1, <2>1, Zenon
<1>4. Run(Escapes, Run(Escapes, <<>>, p), <<c>>) = Escapes[<<Run(Escapes, <<>>, p), c>>]
  <2>1. \A s \in Bytes : Run(Escapes, s, <<c>>) = Escapes[<<s, c>>]
    BY EscapeSteps, RunOfOne
  <2> QED
    BY <1>2, <2>1, Zenon
<1>5. Escapes[<<Run(Escapes, <<>>, p), c>>] = Run(Escapes, <<>>, p) \o Slip!Escape(c)
  BY <1>2 DEF Escapes
<1>6. Slip!Escaped(p) = Run(Escapes, <<>>, p) /\ Slip!Escaped(p \o <<c>>) = Run(Escapes, <<>>, p \o <<c>>)
  BY <1>1, EscapedIsRun
<1>7. Append(p, c) = p \o <<c>>
  BY <1>1, AppendIs
<1> QED
  BY <1>2, <1>3, <1>4, <1>5, <1>6, <1>7

Plain(x) == \A i \in 1 .. Len(x) : x[i] # Slip!SLIP_END

LEMMA EscapePlain == ASSUME NEW c \in Octets PROVE Plain(Slip!Escape(c)) /\ Slip!Escape(c) # <<>>
  BY DEF Plain, Slip!Escape, Slip!SLIP_END, Slip!SLIP_ESC, Slip!SLIP_ESC_END, Slip!SLIP_ESC_ESC

LEMMA BothPlain ==
    ASSUME NEW x \in Bytes, NEW y \in Bytes
    PROVE  /\ Plain(x) /\ Plain(y) => Plain(x \o y)
           /\ y # <<>> => x \o y # <<>>
  BY DEF Plain, Bytes

LEMMA EscapedPlain ==
    ASSUME NEW p \in Bytes
    PROVE  /\ Slip!Escaped(p) \in Bytes /\ Plain(Slip!Escaped(p))
           /\ p # <<>> => Slip!Escaped(p) # <<>>
<1> DEFINE T == {x \in Bytes : /\ Slip!Escaped(x) \in Bytes /\ Plain(Slip!Escaped(x))
                               /\ x # <<>> => Slip!Escaped(x) # <<>>}
<1>1. p \in Seq(Octets)
  BY DEF Bytes
<1>2. <<>> \in T
  <2>1. <<>> \in Bytes /\ Plain(<<>>)
    BY DEF Bytes, Plain
  <2> QED
    BY <2>1, EscapedNone, Zenon
<1>3. ASSUME NEW x \in T, NEW c \in Octets PROVE Append(x, c) \in T
  <2>1. x \in Bytes /\ Append(x, c) \in Bytes
    BY DEF Bytes
  <2>2. Slip!Escaped(Append(x, c)) = Slip!Escaped(x) \o Slip!Escape(c) /\ Slip!Escaped(x) \in Bytes
    BY <2>1, EscapedMore
  <2>3. Slip!Escape(c) \in Bytes /\ Plain(Slip!Escape(c)) /\ Slip!Escape(c) # <<>>
    BY EscapeType, EscapePlain
  <2>4. Slip!Escaped(x) \o Slip!Escape(c) \in Bytes
    BY <2>2, <2>3 DEF Bytes
  <2>5. Plain(Slip!Escaped(x) \o Slip!Escape(c)) /\ Slip!Escaped(x) \o Slip!Escape(c) # <<>>
    BY <2>2, <2>3, BothPlain
  <2> QED
    BY <2>1, <2>2, <2>4, <2>5
<1>4. \A i \in 1 .. Len(p) : SubSeq(p, 1, i - 1) \in T => Append(SubSeq(p, 1, i - 1), p[i]) \in T
  <2>1. \A i \in 1 .. Len(p) : p[i] \in Octets
    BY <1>1
  <2>2. \A x \in T, c \in Octets : Append(x, c) \in T
    BY <1>3
  <2> HIDE DEF T
  <2> QED
    BY <2>1, <2>2, Zenon
<1> HIDE DEF T
<1>5. p \in T
  BY <1>1, <1>2, <1>4, Piecewise
<1> QED
  BY <1>5 DEF T

(* A receiver, byte by byte, and for a stream after another.                *)
Dec(x, e, g) == [cur |-> x, esc |-> e, got |-> g]

LEMMA DecType == ASSUME NEW x \in Bytes, NEW e \in BOOLEAN, NEW g \in Seq(Bytes) PROVE Dec(x, e, g) \in Decodings
  BY DEF Dec, Decodings

LEMMA DecodesSecond ==
    ASSUME NEW x, NEW g, NEW c
    PROVE  Slip!Decode(Dec(x, TRUE, g), c) = Dec(Append(x, Slip!Unescaped(c)), FALSE, g)
  BY DEF Slip!Decode, Dec, Slip!SLIP_ESC, Slip!SLIP_END

LEMMA DecodesFirst ==
    ASSUME NEW x, NEW g
    PROVE  Slip!Decode(Dec(x, FALSE, g), Slip!SLIP_ESC) = Dec(x, TRUE, g)
  BY DEF Slip!Decode, Dec, Slip!SLIP_ESC, Slip!SLIP_END

LEMMA DecodesEnd ==
    ASSUME NEW x, NEW g
    PROVE  Slip!Decode(Dec(x, FALSE, g), Slip!SLIP_END) = Dec(<<>>, FALSE, IF x = <<>> THEN g ELSE Append(g, x))
  BY DEF Slip!Decode, Dec, Slip!SLIP_ESC, Slip!SLIP_END

LEMMA DecodesOther ==
    ASSUME NEW x, NEW g, NEW c, c \notin {Slip!SLIP_ESC, Slip!SLIP_END}
    PROVE  Slip!Decode(Dec(x, FALSE, g), c) = Dec(Append(x, c), FALSE, g)
  BY DEF Slip!Decode, Dec, Slip!SLIP_ESC, Slip!SLIP_END

LEMMA DecodingNone == ASSUME NEW s \in Decodings PROVE Slip!Decoding(s, <<>>) = s
<1>1. <<>> \in Seq(Octets)
  OBVIOUS
<1> QED
  BY <1>1, DecodingIsRun, DecodeSteps, RunOfNone

LEMMA DecodingOne ==
    ASSUME NEW s \in Decodings, NEW c \in Octets PROVE Slip!Decoding(s, <<c>>) = Slip!Decode(s, c)
<1>1. <<c>> \in Seq(Octets)
  OBVIOUS
<1>2. Run(Decodes, s, <<c>>) = Decodes[<<s, c>>]
  BY DecodeSteps, RunOfOne
<1>3. Decodes[<<s, c>>] = Slip!Decode(s, c)
  BY DEF Decodes
<1> QED
  BY <1>1, <1>2, <1>3, DecodingIsRun

LEMMA DecodingType == ASSUME NEW s \in Decodings, NEW x \in Bytes PROVE Slip!Decoding(s, x) \in Decodings
<1>1. x \in Seq(Octets)
  BY DEF Bytes
<1>2. \A t \in Decodings, i \in 1 .. Len(x) : Decodes[<<t, x[i]>>] \in Decodings
  BY <1>1, DecodeSteps DEF Steps
<1>3. Run(Decodes, s, x) \in Decodings
  BY <1>1, <1>2, DecodeSteps, RunStays
<1> QED
  BY <1>1, <1>3, DecodingIsRun

LEMMA DecodingBoth ==
    ASSUME NEW s \in Decodings, NEW x \in Bytes, NEW y \in Bytes
    PROVE  Slip!Decoding(s, x \o y) = Slip!Decoding(Slip!Decoding(s, x), y)
<1>1. x \in Seq(Octets) /\ y \in Seq(Octets) /\ x \o y \in Seq(Octets)
  BY DEF Bytes
<1>2. Run(Decodes, s, x \o y) = Run(Decodes, Run(Decodes, s, x), y)
  BY <1>1, DecodeSteps, RunOfBoth
<1>3. Slip!Decoding(s, x) \in Decodings
  BY DecodingType
<1> QED
  BY <1>1, <1>2, <1>3, DecodingIsRun

LEMMA DecodesEscape ==
    ASSUME NEW x \in Bytes, NEW g \in Seq(Bytes), NEW c \in Octets
    PROVE  Slip!Decoding(Dec(x, FALSE, g), Slip!Escape(c)) = Dec(Append(x, c), FALSE, g)
<1> DEFINE plain == Dec(x, FALSE, g)
           half == Dec(x, TRUE, g)
<1>0. plain \in Decodings /\ half \in Decodings
  BY DecType
<1>1. CASE c \notin {Slip!SLIP_ESC, Slip!SLIP_END}
  <2>1. Slip!Escape(c) = <<c>>
    BY <1>1 DEF Slip!Escape
  <2>2. Slip!Decode(plain, c) = Dec(Append(x, c), FALSE, g)
    BY <1>1, DecodesOther
  <2> HIDE DEF plain
  <2>3. Slip!Decoding(plain, <<c>>) = Slip!Decode(plain, c)
    BY <1>0, DecodingOne
  <2> QED
    BY <2>1, <2>2, <2>3 DEF plain
<1>2. ASSUME NEW d \in Octets, Slip!Escape(c) = <<Slip!SLIP_ESC, d>>, Slip!Unescaped(d) = c
      PROVE  Slip!Decoding(Dec(x, FALSE, g), Slip!Escape(c)) = Dec(Append(x, c), FALSE, g)
  <2>1. PICK e \in Octets : e = Slip!SLIP_ESC
    BY OctetsOf
  <2>2. <<e, d>> = <<e>> \o <<d>> /\ <<e>> \in Bytes /\ <<d>> \in Bytes
    BY DEF Bytes
  <2>3. Slip!Decode(plain, e) = half
    BY <2>1, DecodesFirst
  <2>4. Slip!Decode(half, d) = Dec(Append(x, Slip!Unescaped(d)), FALSE, g)
    BY DecodesSecond
  <2> HIDE DEF plain, half
  <2>5. Slip!Decoding(plain, <<e>>) = Slip!Decode(plain, e) /\ Slip!Decoding(half, <<d>>) = Slip!Decode(half, d)
    BY <1>0, DecodingOne
  <2>6. Slip!Decoding(plain, <<e>> \o <<d>>) = Slip!Decoding(Slip!Decoding(plain, <<e>>), <<d>>)
    BY <1>0, <2>2, DecodingBoth
  <2>7. Slip!Escape(c) = <<e>> \o <<d>>
    BY <1>2, <2>1, <2>2, Zenon
  <2>8. Slip!Decoding(plain, <<e>> \o <<d>>) = Dec(Append(x, c), FALSE, g)
    BY <1>2, <2>3, <2>4, <2>5, <2>6, Zenon
  <2> QED
    BY <2>7, <2>8, Zenon DEF plain
<1>3. CASE c = Slip!SLIP_END
  <2>1. Slip!Escape(c) = <<Slip!SLIP_ESC, Slip!SLIP_ESC_END>> /\ Slip!Unescaped(Slip!SLIP_ESC_END) = c
    BY <1>3 DEF Slip!Escape, Slip!Unescaped, Slip!SLIP_END, Slip!SLIP_ESC, Slip!SLIP_ESC_END, Slip!SLIP_ESC_ESC
  <2> QED
    BY <1>2, <2>1, OctetsOf
<1>4. CASE c = Slip!SLIP_ESC
  <2>1. Slip!Escape(c) = <<Slip!SLIP_ESC, Slip!SLIP_ESC_ESC>> /\ Slip!Unescaped(Slip!SLIP_ESC_ESC) = c
    BY <1>4 DEF Slip!Escape, Slip!Unescaped, Slip!SLIP_END, Slip!SLIP_ESC, Slip!SLIP_ESC_END, Slip!SLIP_ESC_ESC
  <2> QED
    BY <1>2, <2>1, OctetsOf
<1> QED
  BY <1>1, <1>3, <1>4

LEMMA DecodesEscaped ==
    ASSUME NEW p \in Bytes, NEW g \in Seq(Bytes)
    PROVE  Slip!Decoding(Dec(<<>>, FALSE, g), Slip!Escaped(p)) = Dec(p, FALSE, g)
<1> DEFINE T == {x \in Bytes : Slip!Decoding(Dec(<<>>, FALSE, g), Slip!Escaped(x)) = Dec(x, FALSE, g)}
<1>1. <<>> \in Bytes /\ p \in Seq(Octets)
  BY DEF Bytes
<1>2. Dec(<<>>, FALSE, g) \in Decodings
  BY <1>1, DecType
<1>3. <<>> \in T
  BY <1>1, <1>2, EscapedNone, DecodingNone, Zenon
<1>4. ASSUME NEW x \in T, NEW c \in Octets PROVE Append(x, c) \in T
  <2>1. x \in Bytes /\ Append(x, c) \in Bytes
    BY DEF Bytes
  <2>2. Slip!Escaped(Append(x, c)) = Slip!Escaped(x) \o Slip!Escape(c) /\ Slip!Escaped(x) \in Bytes
    BY <2>1, EscapedMore
  <2>3. Slip!Escape(c) \in Bytes
    BY EscapeType
  <2>4. Slip!Decoding(Dec(<<>>, FALSE, g), Slip!Escaped(x) \o Slip!Escape(c)) =
            Slip!Decoding(Slip!Decoding(Dec(<<>>, FALSE, g), Slip!Escaped(x)), Slip!Escape(c))
    BY <1>2, <2>2, <2>3, DecodingBoth
  <2>5. Slip!Decoding(Dec(<<>>, FALSE, g), Slip!Escaped(x)) = Dec(x, FALSE, g)
    OBVIOUS
  <2>6. Slip!Decoding(Dec(x, FALSE, g), Slip!Escape(c)) = Dec(Append(x, c), FALSE, g)
    BY <2>1, DecodesEscape
  <2> QED
    BY <2>1, <2>2, <2>4, <2>5, <2>6, Zenon
<1>5. \A i \in 1 .. Len(p) : SubSeq(p, 1, i - 1) \in T => Append(SubSeq(p, 1, i - 1), p[i]) \in T
  <2>1. \A i \in 1 .. Len(p) : p[i] \in Octets
    BY <1>1
  <2>2. \A x \in T, c \in Octets : Append(x, c) \in T
    BY <1>4
  <2> HIDE DEF T
  <2> QED
    BY <2>1, <2>2, Zenon
<1> HIDE DEF T
<1>6. p \in T
  BY <1>1, <1>3, <1>5, Piecewise
<1> QED
  BY <1>6 DEF T

OnLine(p) == Append(Slip!Escaped(p), Slip!SLIP_END)

LEMMA DecodesPacket ==
    ASSUME NEW p \in Bytes, p # <<>>, NEW g \in Seq(Bytes)
    PROVE  /\ OnLine(p) \in Bytes
           /\ Slip!Decoding(Dec(<<>>, FALSE, g), OnLine(p)) = Dec(<<>>, FALSE, Append(g, p))
<1>1. <<>> \in Bytes /\ <<Slip!SLIP_END>> \in Bytes
  BY OctetsOf DEF Bytes
<1>2. Slip!Escaped(p) \in Bytes
  BY EscapedPlain
<1>3. OnLine(p) = Slip!Escaped(p) \o <<Slip!SLIP_END>> /\ OnLine(p) \in Bytes
  BY <1>2, AppendIs, OctetsOf DEF Bytes, OnLine
<1>4. Dec(<<>>, FALSE, g) \in Decodings /\ Dec(p, FALSE, g) \in Decodings
  BY <1>1, DecType
<1>5. Slip!Decoding(Dec(<<>>, FALSE, g), OnLine(p)) =
          Slip!Decoding(Slip!Decoding(Dec(<<>>, FALSE, g), Slip!Escaped(p)), <<Slip!SLIP_END>>)
  <2>1. PICK e \in Bytes : e = <<Slip!SLIP_END>>
    BY <1>1
  <2>2. Slip!Decoding(Dec(<<>>, FALSE, g), Slip!Escaped(p) \o e) =
            Slip!Decoding(Slip!Decoding(Dec(<<>>, FALSE, g), Slip!Escaped(p)), e)
    BY <1>2, <1>4, DecodingBoth
  <2> QED
    BY <1>3, <2>1, <2>2, Zenon
<1>6. Slip!Decoding(Dec(p, FALSE, g), <<Slip!SLIP_END>>) = Slip!Decode(Dec(p, FALSE, g), Slip!SLIP_END)
  BY <1>4, DecodingOne, OctetsOf
<1>7. Slip!Decode(Dec(p, FALSE, g), Slip!SLIP_END) = Dec(<<>>, FALSE, Append(g, p))
  BY DecodesEnd
<1> QED
  BY <1>3, <1>5, <1>6, <1>7, DecodesEscaped

(* What a receiver has got it keeps.                                        *)
LEMMA PrefixOfBoth ==
    ASSUME NEW C, NEW x \in Seq(C), NEW u \in Seq(C) PROVE Slip!IsPrefix(x, x \o u)
<1>1. Len(x) \in Nat /\ Len(u) \in Nat /\ Len(x \o u) = Len(x) + Len(u)
  OBVIOUS
<1>2. \A i \in 1 .. Len(x) : (x \o u)[i] = x[i]
  OBVIOUS
<1>3. SubSeq(x, 1, Len(x)) = [i \in 1 .. Len(x) |-> x[i]] /\ SubSeq(x \o u, 1, Len(x)) = [i \in 1 .. Len(x) |-> x[i]]
  BY <1>1, <1>2
<1> QED
  BY <1>1, <1>3 DEF Slip!IsPrefix

LEMMA DecodingGrows ==
    ASSUME NEW s \in Decodings, NEW x \in Bytes
    PROVE  Slip!IsPrefix(s.got, Slip!Decoding(s, x).got)
<1> DEFINE T == {t \in Decodings : \E u \in Seq(Bytes) : t.got = s.got \o u}
<1>1. x \in Seq(Octets) /\ s.got \in Seq(Bytes) /\ <<>> \in Seq(Bytes)
  BY DEF Bytes, Decodings
<1>2. s \in T
  <2>1. s.got = s.got \o <<>>
    BY <1>1
  <2> QED
    BY <1>1, <2>1
<1>3. ASSUME NEW t \in T, NEW c \in Octets PROVE Slip!Decode(t, c) \in T
  <2>1. PICK u \in Seq(Bytes) : t.got = s.got \o u
    OBVIOUS
  <2>2. t.cur \in Bytes /\ t.esc \in BOOLEAN /\ t \in Decodings
    BY DEF Decodings
  <2>3. Slip!Decode(t, c) \in Decodings
    <3>1. Decodes[<<t, c>>] \in Decodings
      BY <2>2, DecodeSteps DEF Steps
    <3> QED
      BY <2>2, <3>1 DEF Decodes
  <2>4. Slip!Decode(t, c).got \in {t.got, Append(t.got, t.cur)}
    BY <2>2 DEF Slip!Decode, Decodings
  <2>5. Append(t.got, t.cur) = s.got \o Append(u, t.cur) /\ Append(u, t.cur) \in Seq(Bytes)
    <3>1. PICK a \in Seq(Bytes), d \in Bytes : a = s.got /\ d = t.cur
      BY <1>1, <2>2
    <3>2. Append(u, d) \in Seq(Bytes)
      OBVIOUS
    <3>3. Append(a \o u, d) = a \o Append(u, d)
      BY SMTT(30)
    <3> QED
      BY <2>1, <3>1, <3>2, <3>3, Zenon
  <2>6. \E v \in Seq(Bytes) : Slip!Decode(t, c).got = s.got \o v
    BY <2>1, <2>4, <2>5
  <2> QED
    BY <2>3, <2>6
<1>4. \A t \in T, i \in 1 .. Len(x) : Decodes[<<t, x[i]>>] \in T
  <2>1. \A i \in 1 .. Len(x) : x[i] \in Octets
    BY <1>1
  <2>2. \A t \in T, c \in Octets : Decodes[<<t, c>>] = Slip!Decode(t, c)
    BY DEF Decodes
  <2>3. \A t \in T, c \in Octets : Slip!Decode(t, c) \in T
    BY <1>3
  <2> HIDE DEF T
  <2> QED
    BY <2>1, <2>2, <2>3, Zenon
<1>5. T \subseteq Decodings
  OBVIOUS
<1> HIDE DEF T
<1>6. Run(Decodes, s, x) \in T
  BY <1>1, <1>2, <1>4, <1>5, DecodeSteps, RunStays
<1>7. Slip!Decoding(s, x) \in T
  BY <1>1, <1>6, DecodingIsRun
<1>8. PICK u \in Seq(Bytes) : Slip!Decoding(s, x).got = s.got \o u
  BY <1>7 DEF T
<1> QED
  BY <1>1, <1>8, PrefixOfBoth

-----------------------------------------------------------------------------
(* The host's buffer: within its size, with the first end of a packet known *)
(* and the ends counted, unless a packet did not fit.                       *)
Ends(buf) == {i \in 1 .. Len(buf) : buf[i] = Slip!SLIP_END}

FirstEnd(buf, e) ==
    IF e = 0 THEN Plain(buf)
    ELSE e \in 1 .. Len(buf) /\ buf[e] = Slip!SLIP_END /\ \A i \in 1 .. e - 1 : buf[i] # Slip!SLIP_END

Counts(buf, e, n) == FirstEnd(buf, e) /\ n = Cardinality(Ends(buf))

Sound(begin) ==
    {b \in Buffers : /\ Len(b.buf) <= OutSize /\ b.packet_end \in 0 .. Len(b.buf) /\ begin \in 0 .. b.packet_end
                     /\ ~b.overflow => Counts(b.buf, b.packet_end, b.count)}

LEMMA EndsFinite == ASSUME NEW buf \in Bytes PROVE IsFiniteSet(Ends(buf)) /\ Cardinality(Ends(buf)) \in Nat
<1>1. Len(buf) \in Nat /\ Ends(buf) \subseteq 1 .. Len(buf)
  BY DEF Bytes, Ends
<1>2. IsFiniteSet(1 .. Len(buf))
  BY <1>1, FS_Interval
<1>3. IsFiniteSet(Ends(buf))
  BY <1>1, <1>2, FS_Subset
<1> QED
  BY <1>3, FS_CardinalityType

LEMMA MoreCounts ==
    ASSUME NEW buf \in Bytes, NEW e \in Nat, NEW n \in Nat, Counts(buf, e, n), NEW c \in Octets
    PROVE  Counts(Append(buf, c), IF c = Slip!SLIP_END /\ e = 0 THEN Len(buf) + 1 ELSE e,
                  n + (IF c = Slip!SLIP_END THEN 1 ELSE 0))
<1> DEFINE more == Append(buf, c)
           m == Len(buf)
           f == IF c = Slip!SLIP_END /\ e = 0 THEN m + 1 ELSE e
<1>1. m \in Nat /\ Len(more) = m + 1 /\ more[m + 1] = c /\ \A i \in 1 .. m : more[i] = buf[i]
  BY DEF Bytes
<1> HIDE DEF more, m
<1>2. FirstEnd(buf, e)
  BY DEF Counts
<1>3. FirstEnd(more, f)
  <2>1. CASE e # 0
    <3>1. e \in 1 .. m /\ buf[e] = Slip!SLIP_END /\ \A i \in 1 .. e - 1 : buf[i] # Slip!SLIP_END
      BY <1>2, <2>1 DEF FirstEnd, m
    <3>2. e \in 1 .. m + 1 /\ \A i \in 1 .. e - 1 : i \in 1 .. m
      BY <1>1, <3>1
    <3> QED
      BY <1>1, <2>1, <3>1, <3>2 DEF FirstEnd
  <2>2. CASE e = 0
    <3>1. \A i \in 1 .. m : buf[i] # Slip!SLIP_END
      BY <1>2, <2>2 DEF FirstEnd, Plain, m
    <3>2. CASE c = Slip!SLIP_END
      BY <1>1, <2>2, <3>1, <3>2 DEF FirstEnd
    <3>3. CASE c # Slip!SLIP_END
      <4>1. \A i \in 1 .. m + 1 : i \in 1 .. m \/ i = m + 1
        BY <1>1
      <4>2. Plain(more)
        BY <1>1, <3>1, <3>3, <4>1 DEF Plain
      <4> QED
        BY <2>2, <3>3, <4>2 DEF FirstEnd
    <3> QED
      BY <3>2, <3>3
  <2> QED
    BY <2>1, <2>2
<1>4. n = Cardinality(Ends(buf)) /\ IsFiniteSet(Ends(buf))
  BY EndsFinite DEF Counts
<1>5. n + (IF c = Slip!SLIP_END THEN 1 ELSE 0) = Cardinality(Ends(more))
  <2>1. \A i : i \in 1 .. m + 1 <=> i \in 1 .. m \/ i = m + 1
    BY <1>1
  <2>2. m + 1 \notin 1 .. m
    BY <1>1
  <2>3. CASE c = Slip!SLIP_END
    <3>1. Ends(more) = Ends(buf) \cup {m + 1} /\ m + 1 \notin Ends(buf)
      BY <1>1, <2>1, <2>2, <2>3 DEF Ends, m
    <3>2. Cardinality(Ends(buf) \cup {m + 1}) = Cardinality(Ends(buf)) + 1
      BY <1>4, <3>1, FS_AddElement
    <3> QED
      BY <1>4, <2>3, <3>1, <3>2
  <2>4. CASE c # Slip!SLIP_END
    <3>1. Ends(more) = Ends(buf)
      BY <1>1, <2>1, <2>2, <2>4 DEF Ends, m
    <3> QED
      BY <1>4, <2>4, <3>1
  <2> QED
    BY <2>3, <2>4
<1> QED
  BY <1>3, <1>5 DEF Counts, more, m

LEMMA SendSound ==
    ASSUME NEW begin \in Nat, NEW b \in Sound(begin), NEW c \in Octets
    PROVE  Slip!slip_send(b, c) \in Sound(begin)
<1> DEFINE r == Slip!slip_send(b, c)
<1>1. /\ b \in Buffers /\ b.buf \in Bytes /\ b.packet_end \in Nat /\ b.count \in Nat /\ b.overflow \in BOOLEAN
      /\ Len(b.buf) \in Nat
  BY DEF Sound, Buffers, Bytes
<1>2. r \in Buffers
  <2>1. Sends[<<b, c>>] \in Buffers
    BY <1>1, SendSteps DEF Steps
  <2>2. Sends[<<b, c>>] = Slip!slip_send(b, c)
    BY <1>1 DEF Sends
  <2> QED
    BY <2>1, <2>2
<1>3. OutSize \in Nat
  BY NodesAssumption DEF Slip!SlipAssumption
<1>4. CASE b.overflow \/ Len(b.buf) >= OutSize
  <2>1. r.buf = b.buf /\ r.packet_end = b.packet_end /\ r.overflow = TRUE
    BY <1>1, <1>4 DEF Slip!slip_send, Buffers
  <2>2. Len(b.buf) <= OutSize /\ b.packet_end \in 0 .. Len(b.buf) /\ begin \in 0 .. b.packet_end
    BY DEF Sound
  <2> HIDE DEF r
  <2>3. r \in Sound(begin)
    BY <1>2, <2>1, <2>2 DEF Sound
  <2> QED
    BY <2>3 DEF r
<1>5. CASE ~b.overflow /\ Len(b.buf) < OutSize
  <2> DEFINE e == IF c = Slip!SLIP_END /\ b.packet_end = 0 THEN Len(b.buf) + 1 ELSE b.packet_end
             n == b.count + (IF c = Slip!SLIP_END THEN 1 ELSE 0)
  <2>1. r = [buf |-> Append(b.buf, c), count |-> n, overflow |-> FALSE, packet_end |-> e]
    BY <1>1, <1>3, <1>5 DEF Slip!slip_send
  <2>2. Counts(Append(b.buf, c), e, n)
    <3>1. Counts(b.buf, b.packet_end, b.count)
      BY <1>5 DEF Sound
    <3> QED
      BY <1>1, <3>1, MoreCounts
  <2>3. Len(Append(b.buf, c)) = Len(b.buf) + 1
    BY <1>1 DEF Bytes
  <2>4. b.packet_end \in 0 .. Len(b.buf) /\ begin \in 0 .. b.packet_end
    BY DEF Sound
  <2>5. e \in 0 .. Len(b.buf) + 1 /\ begin \in 0 .. e
    BY <1>1, <2>4
  <2>6. Len(Append(b.buf, c)) <= OutSize
    BY <1>1, <1>3, <1>5, <2>3
  <2> HIDE DEF e, n
  <2>7. r.buf = Append(b.buf, c) /\ r.packet_end = e /\ r.count = n
    BY <2>1
  <2> HIDE DEF r
  <2>8. r \in Sound(begin)
    BY <1>2, <2>2, <2>3, <2>5, <2>6, <2>7 DEF Sound
  <2> QED
    BY <2>8 DEF r
<1> QED
  BY <1>1, <1>3, <1>4, <1>5

LEMMA SentSound ==
    ASSUME NEW begin \in Nat, NEW b \in Sound(begin), NEW x \in Bytes
    PROVE  Slip!sent_bytes(b, x) \in Sound(begin)
<1>1. x \in Seq(Octets) /\ b \in Buffers /\ Sound(begin) \subseteq Buffers
  BY DEF Bytes, Sound
<1>2. \A t \in Sound(begin), i \in 1 .. Len(x) : Sends[<<t, x[i]>>] \in Sound(begin)
  <2>1. \A i \in 1 .. Len(x) : x[i] \in Octets
    BY <1>1
  <2>2. \A t \in Sound(begin), c \in Octets : Sends[<<t, c>>] = Slip!slip_send(t, c)
    BY <1>1 DEF Sends
  <2> QED
    BY <2>1, <2>2, SendSound
<1>3. Run(Sends, b, x) \in Sound(begin)
  BY <1>1, <1>2, SendSteps, RunStays
<1> QED
  BY <1>1, <1>3, SentIsRun

(* What fits is in the buffer, after what was there.                        *)
LEMMA SentMore ==
    ASSUME NEW b \in Buffers, NEW y \in Bytes, NEW c \in Octets
    PROVE  /\ Slip!sent_bytes(b, y) \in Buffers
           /\ Slip!sent_bytes(b, Append(y, c)) = Slip!slip_send(Slip!sent_bytes(b, y), c)
<1>1. PICK z \in Seq(Octets) : z = <<c>>
  BY Single, Zenon
<1>2. PICK v \in Seq(Octets) : v = Append(y, c)
  BY AppendIs, Zenon DEF Bytes
<1>3. v = y \o z /\ y \in Seq(Octets)
  BY <1>1, <1>2 DEF Bytes
<1>4. Slip!sent_bytes(b, v) = Run(Sends, b, v)
  BY SentIsRun
<1>5. Slip!sent_bytes(b, y) = Run(Sends, b, y)
  BY <1>3, SentIsRun
<1>6. Run(Sends, b, y \o z) = Run(Sends, Run(Sends, b, y), z)
  BY <1>3, SendSteps, RunOfBoth
<1>7. \A s \in Buffers : Run(Sends, s, <<c>>) = Sends[<<s, c>>]
  BY SendSteps, RunOfOne
<1>8. Run(Sends, b, y) \in Buffers
  <2>1. \A t \in Buffers, i \in 1 .. Len(y) : Sends[<<t, y[i]>>] \in Buffers
    BY <1>3, SendSteps DEF Steps
  <2> QED
    BY <1>3, <2>1, SendSteps, RunStays
<1>9. \A s \in Buffers : Sends[<<s, c>>] = Slip!slip_send(s, c)
  BY DEF Sends
<1> QED
  BY <1>1, <1>2, <1>3, <1>4, <1>5, <1>6, <1>7, <1>8, <1>9, Zenon

AllSent(b, y) == ~Slip!sent_bytes(b, y).overflow => Slip!sent_bytes(b, y).buf = b.buf \o y

LEMMA AllSentMore ==
    ASSUME NEW b \in Buffers, NEW y \in Bytes, NEW c \in Octets, AllSent(b, y) PROVE AllSent(b, Append(y, c))
<1> DEFINE r == Slip!sent_bytes(b, y)
           q == Slip!sent_bytes(b, Append(y, c))
<1>1. r \in Buffers /\ q = Slip!slip_send(r, c)
  BY SentMore
<1>2. ~r.overflow => r.buf = b.buf \o y
  BY DEF AllSent
<1> HIDE DEF r, q
<1>3. ASSUME ~q.overflow PROVE q.buf = b.buf \o Append(y, c)
  <2>1. ~r.overflow /\ q.buf = Append(r.buf, c)
    BY <1>1, <1>3 DEF Slip!slip_send, Buffers
  <2>2. b.buf \in Seq(Octets) /\ y \in Seq(Octets)
    BY DEF Buffers, Bytes
  <2>3. Append(b.buf \o y, c) = b.buf \o Append(y, c)
    <3>1. \A u, w \in Seq(Octets) : Append(u \o w, c) = u \o Append(w, c)
      OBVIOUS
    <3> QED
      BY <2>2, <3>1, Zenon
  <2> QED
    BY <1>2, <2>1, <2>3
<1> QED
  BY <1>3 DEF AllSent, q

LEMMA SentAll == ASSUME NEW b \in Buffers, NEW x \in Bytes PROVE AllSent(b, x)
<1> DEFINE T == {y \in Bytes : AllSent(b, y)}
<1>1. x \in Seq(Octets) /\ <<>> \in Seq(Octets) /\ <<>> \in Bytes /\ b.buf \in Seq(Octets)
  BY DEF Bytes, Buffers
<1>2. Slip!sent_bytes(b, <<>>) = b
  BY <1>1, SentIsRun, SendSteps, RunOfNone
<1>3. <<>> \in T
  <2>1. b.buf = b.buf \o <<>>
    BY <1>1
  <2> QED
    BY <1>1, <1>2, <2>1 DEF AllSent
<1>4. \A y \in T, c \in Octets : Append(y, c) \in T
  <2>1. \A y \in Bytes, c \in Octets : Append(y, c) \in Bytes
    BY DEF Bytes
  <2> QED
    BY <2>1, AllSentMore
<1>5. \A i \in 1 .. Len(x) : SubSeq(x, 1, i - 1) \in T => Append(SubSeq(x, 1, i - 1), x[i]) \in T
  <2>1. \A i \in 1 .. Len(x) : x[i] \in Octets
    BY <1>1
  <2> HIDE DEF T
  <2> QED
    BY <1>4, <2>1, Zenon
<1> HIDE DEF T
<1>6. x \in T
  BY <1>1, <1>3, <1>5, Piecewise
<1> QED
  BY <1>6 DEF T

(* The host's side of the line: what is written and what is still in the    *)
(* buffer is the packets, whole and in order; an end never follows another, *)
(* so that the next packet's end is not at its beginning.                   *)
Apart(buf) ==
    /\ buf # <<>> => buf[Len(buf)] = Slip!SLIP_END
    /\ \A i \in 2 .. Len(buf) : ~(buf[i - 1] = Slip!SLIP_END /\ buf[i] = Slip!SLIP_END)

Pending(buf, begin) == SubSeq(buf, begin + 1, Len(buf))

HostBuffer == [buf |-> slip_buf, packet_end |-> slip_packet_end, count |-> slip_packet_count, overflow |-> exited]

Whole(written, pending, given) == Slip!Decoding(Slip!Start, written \o pending) = Dec(<<>>, FALSE, given)

OutInv ==
    /\ line \in Bytes /\ packets \in Seq(Bytes) /\ waiting \in BOOLEAN /\ exited \in BOOLEAN
    /\ slip_begin \in Nat /\ HostBuffer \in Sound(slip_begin)
    /\ ~exited => Apart(slip_buf) /\ Whole(line, Pending(slip_buf, slip_begin), packets)
    /\ Slip!IsPrefix(Slip!Decoded(line), packets)

LEMMA StartIs == Slip!Start = Dec(<<>>, FALSE, <<>>) /\ Slip!Start \in Decodings /\ <<>> \in Bytes
<1>1. <<>> \in Bytes /\ <<>> \in Seq(Bytes)
  BY DEF Bytes
<1>2. Slip!Start = Dec(<<>>, FALSE, <<>>)
  BY DEF Slip!Start, Dec
<1> QED
  BY <1>1, <1>2, DecType

LEMMA HostTypes ==
    ASSUME OutInv
    PROVE  /\ slip_buf \in Bytes /\ slip_packet_end \in Nat /\ slip_packet_count \in Nat /\ slip_begin \in Nat
           /\ Len(slip_buf) \in Nat /\ Len(slip_buf) <= OutSize
           /\ slip_packet_end \in 0 .. Len(slip_buf) /\ slip_begin \in 0 .. slip_packet_end
           /\ ~exited => Counts(slip_buf, slip_packet_end, slip_packet_count)
           /\ Pending(slip_buf, slip_begin) \in Bytes
<1>1. HostBuffer \in Sound(slip_begin) /\ slip_begin \in Nat
  BY DEF OutInv
<1>2. HostBuffer \in Buffers
  BY <1>1 DEF Sound
<1>3. slip_buf \in Bytes /\ slip_packet_end \in Nat /\ slip_packet_count \in Nat
  BY <1>2 DEF Buffers, HostBuffer
<1>4. /\ Len(slip_buf) <= OutSize /\ slip_packet_end \in 0 .. Len(slip_buf) /\ slip_begin \in 0 .. slip_packet_end
      /\ ~exited => Counts(slip_buf, slip_packet_end, slip_packet_count)
  BY <1>1 DEF Sound, HostBuffer
<1>5. Len(slip_buf) \in Nat
  BY <1>3 DEF Bytes
<1>6. Pending(slip_buf, slip_begin) \in Bytes
  <2>1. \A i \in slip_begin + 1 .. Len(slip_buf) : slip_buf[i] \in Octets
    BY <1>1, <1>3, <1>5 DEF Bytes
  <2> QED
    BY <1>1, <1>5, <2>1, SubSeqProperties DEF Pending, Bytes
<1> QED
  BY <1>1, <1>3, <1>4, <1>5, <1>6

(* Packets that are whole on the line and in the buffer are whole as far as  *)
(* they are on the line.                                                    *)
LEMMA WholeSoFar ==
    ASSUME NEW x \in Bytes, NEW y \in Bytes, NEW g \in Seq(Bytes), Whole(x, y, g)
    PROVE  Slip!IsPrefix(Slip!Decoded(x), g)
<1>1. Slip!Start \in Decodings
  BY StartIs
<1>2. Slip!Decoding(Slip!Start, x) \in Decodings
  BY <1>1, DecodingType
<1>3. Slip!Decoding(Slip!Start, x \o y) = Slip!Decoding(Slip!Decoding(Slip!Start, x), y)
  BY <1>1, DecodingBoth
<1>4. Slip!IsPrefix(Slip!Decoding(Slip!Start, x).got, Slip!Decoding(Slip!Decoding(Slip!Start, x), y).got)
  BY <1>2, DecodingGrows
<1>5. Slip!Decoding(Slip!Start, x \o y).got = g
  BY DEF Whole, Dec
<1> QED
  BY <1>3, <1>4, <1>5 DEF Slip!Decoded

LEMMA PrefixGrows ==
    ASSUME NEW C, NEW x \in Seq(C), NEW y \in Seq(C), NEW c \in C, Slip!IsPrefix(x, y)
    PROVE  Slip!IsPrefix(x, Append(y, c))
<1>1. Len(x) \in Nat /\ Len(y) \in Nat /\ Len(x) <= Len(y) /\ Len(Append(y, c)) = Len(y) + 1
  BY DEF Slip!IsPrefix
<1>2. \A i \in 1 .. Len(x) : Append(y, c)[i] = y[i]
  BY <1>1
<1>3. SubSeq(Append(y, c), 1, Len(x)) = SubSeq(y, 1, Len(x))
  BY <1>1, <1>2
<1> QED
  BY <1>1, <1>3 DEF Slip!IsPrefix

(* Parts of sequences, by their elements.                                   *)
IsSlice(t, s, b, e) ==
    /\ t = SubSeq(s, b + 1, e) /\ Len(t) = e - b
    /\ \A i \in 1 .. Len(t), j \in 1 .. Len(s) : j = b + i => t[i] = s[j]

IsJoined(z, x, y) ==
    /\ z = x \o y /\ Len(z) = Len(x) + Len(y)
    /\ \A i \in 1 .. Len(x) : z[i] = x[i]
    /\ \A i \in 1 .. Len(y), j \in 1 .. Len(z) : j = Len(x) + i => z[j] = y[i]

LEMMA Slice ==
    ASSUME NEW C, NEW s \in Seq(C), NEW b \in Nat, NEW e \in Nat, b <= e, e <= Len(s)
    PROVE  \E t \in Seq(C) : IsSlice(t, s, b, e)
<1> DEFINE t == SubSeq(s, b + 1, e)
<1>1. \A i \in b + 1 .. e : s[i] \in C
  OBVIOUS
<1>2. b + 1 \in Int /\ e \in Int /\ e - (b + 1) + 1 = e - b
  OBVIOUS
<1>3. Len(t) = IF b + 1 <= e THEN e - (b + 1) + 1 ELSE 0
  BY <1>1, <1>2, SubSeqProperties
<1>4. t \in Seq(C) /\ \A i \in 1 .. e - (b + 1) + 1 : t[i] = s[b + 1 + i - 1]
  BY <1>1, <1>2, SubSeqProperties
<1>5. \A i \in 1 .. e - b : b + 1 + i - 1 = b + i
  OBVIOUS
<1>6. t = SubSeq(s, b + 1, e)
  OBVIOUS
<1> HIDE DEF t
<1>7. Len(t) = e - b /\ \A i \in 1 .. e - b : t[i] = s[b + i]
  BY <1>2, <1>3, <1>4, <1>5
<1>8. \A i \in 1 .. Len(t), j \in 1 .. Len(s) : j = b + i => t[i] = s[j]
  BY <1>7
<1> QED
  BY <1>4, <1>6, <1>7, <1>8, Zenon DEF IsSlice

LEMMA Joined ==
    ASSUME NEW C, NEW x \in Seq(C), NEW y \in Seq(C)
    PROVE  \E z \in Seq(C) : IsJoined(z, x, y)
<1> DEFINE z == x \o y
<1>1. PICK m, n \in Nat : m = Len(x) /\ n = Len(y)
  OBVIOUS
<1>2. z \in Seq(C) /\ Len(z) = m + n /\ \A i \in 1 .. m + n : z[i] = IF i <= m THEN x[i] ELSE y[i - m]
  BY <1>1, ConcatProperties
<1>3. z = x \o y
  OBVIOUS
<1> HIDE DEF z
<1>4. \A i \in 1 .. m : z[i] = x[i]
  BY <1>1, <1>2
<1>5. ASSUME NEW i \in 1 .. n, NEW j \in 1 .. m + n, j = m + i PROVE z[j] = y[i]
  <2>1. ~(j <= m) /\ j - m = i
    BY <1>1, <1>5
  <2> QED
    BY <1>2, <2>1
<1>6. IsJoined(z, x, y)
  <2>1. \A i \in 1 .. Len(y), j \in 1 .. Len(z) : j = Len(x) + i => z[j] = y[i]
    BY <1>1, <1>2, <1>5
  <2> QED
    BY <1>1, <1>2, <1>3, <1>4, <2>1 DEF IsJoined
<1> QED
  BY <1>2, <1>6

LEMMA PendingMore ==
    ASSUME NEW buf \in Seq(Octets), NEW x \in Seq(Octets), NEW begin \in Nat, begin <= Len(buf)
    PROVE  Pending(buf \o x, begin) = Pending(buf, begin) \o x
<1>1. PICK m, n \in Nat : m = Len(buf) /\ n = Len(x)
  OBVIOUS
<1>2. PICK all \in Seq(Octets) : IsJoined(all, buf, x)
  BY Joined
<1>3. Len(all) = m + n
  BY <1>1, <1>2 DEF IsJoined
<1>4. PICK rest \in Seq(Octets) : IsSlice(rest, buf, begin, m)
  <2>1. begin <= m /\ m <= Len(buf)
    BY <1>1
  <2> QED
    BY <2>1, Slice
<1>5. PICK left \in Seq(Octets) : IsSlice(left, all, begin, m + n)
  <2>1. PICK e \in Nat : e = m + n /\ begin <= e /\ e <= Len(all)
    BY <1>1, <1>3
  <2>2. \E t \in Seq(Octets) : IsSlice(t, all, begin, e)
    BY <2>1, Slice
  <2> QED
    BY <2>1, <2>2
<1>6. PICK both \in Seq(Octets) : IsJoined(both, rest, x)
  BY Joined
<1>7. Len(rest) = m - begin /\ Len(left) = m + n - begin /\ Len(both) = m - begin + n
  <2>1. Len(rest) = m - begin /\ Len(left) = m + n - begin
    BY <1>4, <1>5 DEF IsSlice
  <2>2. Len(both) = Len(rest) + Len(x)
    BY <1>6 DEF IsJoined
  <2> QED
    BY <1>1, <2>1, <2>2
<1>8. ASSUME NEW i \in 1 .. Len(left) PROVE left[i] = both[i]
  <2>1. PICK j \in 1 .. m + n : j = begin + i
    BY <1>1, <1>7
  <2>2. left[i] = all[j]
    BY <1>3, <1>5, <2>1 DEF IsSlice
  <2>3. CASE i <= m - begin
    <3>1. i \in 1 .. Len(rest) /\ j \in 1 .. Len(buf)
      BY <1>1, <1>7, <2>1, <2>3
    <3>2. all[j] = buf[j]
      BY <1>2, <3>1 DEF IsJoined
    <3>3. rest[i] = buf[j]
      BY <1>4, <2>1, <3>1 DEF IsSlice
    <3>4. both[i] = rest[i]
      BY <1>6, <3>1 DEF IsJoined
    <3> QED
      BY <2>2, <3>2, <3>3, <3>4
  <2>4. CASE i > m - begin
    <3>1. PICK k \in 1 .. n : i = m - begin + k /\ j = m + k
      <4>1. i - (m - begin) \in 1 .. n /\ i = m - begin + (i - (m - begin)) /\ j = m + (i - (m - begin))
        BY <1>1, <1>7, <2>1, <2>4
      <4> QED
        BY <4>1
    <3>2. k \in 1 .. Len(x) /\ i \in 1 .. Len(both) /\ j \in 1 .. Len(all)
      BY <1>1, <1>3, <1>7, <2>1
    <3>3. all[j] = x[k]
      BY <1>1, <1>2, <3>1, <3>2 DEF IsJoined
    <3>4. both[i] = x[k]
      BY <1>6, <1>7, <3>1, <3>2 DEF IsJoined
    <3> QED
      BY <2>2, <3>3, <3>4
  <2> QED
    BY <1>1, <1>7, <2>3, <2>4
<1>9. Len(left) = Len(both)
  BY <1>1, <1>7
<1>10. left = both
  BY <1>8, <1>9, SeqEqual
<1>11. /\ all = buf \o x /\ rest = SubSeq(buf, begin + 1, m) /\ both = rest \o x
       /\ left = SubSeq(all, begin + 1, Len(all))
  BY <1>2, <1>3, <1>4, <1>5, <1>6 DEF IsJoined, IsSlice
<1> QED
  BY <1>1, <1>10, <1>11, Zenon DEF Pending

LEMMA ApartMore ==
    ASSUME NEW buf \in Bytes, Apart(buf), NEW p \in Bytes, p # <<>> PROVE Apart(buf \o OnLine(p))
<1> DEFINE e == Slip!Escaped(p)
           m == Len(buf)
           n == Len(e)
           all == buf \o OnLine(p)
<1>1. e \in Seq(Octets) /\ buf \in Seq(Octets) /\ m \in Nat /\ n \in Nat /\ n # 0 /\ \A i \in 1 .. n : e[i] # Slip!SLIP_END
  BY EscapedPlain DEF Plain, Bytes
<1>2. OnLine(p) = Append(e, Slip!SLIP_END) /\ Slip!SLIP_END \in Octets
  BY OctetsOf DEF OnLine
<1> HIDE DEF e
<1>8. PICK o \in Seq(Octets) : o = OnLine(p) /\ IsJoined(o, e, <<Slip!SLIP_END>>)
  <2>1. PICK y \in Seq(Octets) : y = <<Slip!SLIP_END>>
    BY OctetsOf, Single, Zenon
  <2>2. PICK z \in Seq(Octets) : IsJoined(z, e, y)
    BY <1>1, Joined
  <2>3. OnLine(p) = e \o <<Slip!SLIP_END>>
    BY <1>1, <1>2
  <2>4. z = e \o y
    BY <2>2 DEF IsJoined
  <2> QED
    BY <2>1, <2>2, <2>3, <2>4, Zenon
<1>9. PICK z \in Seq(Octets) : IsJoined(z, buf, o)
  BY <1>1, Joined
<1>10. all = z /\ Len(z) = m + Len(o)
  BY <1>8, <1>9 DEF IsJoined
<1> HIDE DEF m, n, all
<1>11. Len(o) = n + 1 /\ o[n + 1] = Slip!SLIP_END /\ \A i \in 1 .. n : o[i] = e[i]
  <2>1. Len(o) = n + 1 /\ \A i \in 1 .. n : o[i] = e[i]
    BY <1>8 DEF IsJoined, n
  <2>2. n + 1 \in 1 .. Len(o) /\ 1 \in 1 .. Len(<<Slip!SLIP_END>>) /\ <<Slip!SLIP_END>>[1] = Slip!SLIP_END
    BY <1>1, <2>1
  <2>3. o[n + 1] = <<Slip!SLIP_END>>[1]
    BY <1>8, <2>2 DEF IsJoined, n
  <2> QED
    BY <2>1, <2>2, <2>3
<1>3. /\ Len(all) = m + n + 1 /\ all # <<>>
      /\ \A i \in 1 .. m : all[i] = buf[i]
      /\ \A i \in m + 1 .. m + n : all[i] = e[i - m]
      /\ all[m + n + 1] = Slip!SLIP_END
  <2>1. Len(all) = m + n + 1 /\ Len(all) # 0
    BY <1>1, <1>10, <1>11
  <2>2. all # <<>>
    BY <2>1
  <2>3. \A i \in 1 .. m : all[i] = buf[i]
    BY <1>9, <1>10 DEF IsJoined, m
  <2>4. ASSUME NEW k \in 1 .. n + 1, NEW i \in 1 .. m + n + 1, i = m + k PROVE all[i] = o[k]
    <3>1. k \in 1 .. Len(o) /\ i \in 1 .. Len(z)
      BY <1>10, <1>11, <2>1
    <3> QED
      BY <1>9, <1>10, <2>4, <3>1 DEF IsJoined, m
  <2>5. ASSUME NEW i \in m + 1 .. m + n PROVE all[i] = e[i - m]
    <3>1. i - m \in 1 .. n /\ i - m \in 1 .. n + 1 /\ i = m + (i - m) /\ i \in 1 .. m + n + 1
      BY <1>1
    <3> QED
      BY <1>11, <2>4, <3>1
  <2>6. all[m + n + 1] = Slip!SLIP_END
    <3>1. n + 1 \in 1 .. n + 1 /\ m + n + 1 = m + (n + 1) /\ m + n + 1 \in 1 .. m + n + 1
      BY <1>1
    <3> QED
      BY <1>11, <2>4, <3>1
  <2> QED
    BY <2>1, <2>2, <2>3, <2>5, <2>6
<1>4. \A i \in m + 1 .. m + n : i - m \in 1 .. n
  BY <1>1
<1>5. ASSUME NEW i \in 2 .. m + n + 1, all[i - 1] = Slip!SLIP_END, all[i] = Slip!SLIP_END PROVE FALSE
  <2>1. CASE i <= m
    <3>1. i \in 2 .. m /\ i \in 1 .. m /\ i - 1 \in 1 .. m
      BY <1>1, <2>1
    <3> QED
      BY <1>3, <1>5, <3>1 DEF Apart, m
  <2>2. CASE i \in m + 1 .. m + n
    BY <1>1, <1>3, <1>4, <1>5, <2>2
  <2>3. CASE i = m + n + 1
    <3>1. i - 1 \in m + 1 .. m + n
      BY <1>1, <2>3
    <3> QED
      BY <1>1, <1>3, <1>4, <1>5, <3>1
  <2> QED
    BY <1>1, <2>1, <2>2, <2>3
<1> QED
  BY <1>1, <1>3, <1>5 DEF Apart, all

LEMMA OutBegins == Slip!Init => OutInv
<1> SUFFICES ASSUME Slip!Init PROVE OutInv
  OBVIOUS
<1> DEFINE one == <<Slip!SLIP_END>>
           b == [buf |-> <<>>, packet_end |-> 0, count |-> 0, overflow |-> FALSE]
           r == Slip!slip_send(b, Slip!SLIP_END)
<1>1. OutSize \in Nat /\ OutSize >= 1
  BY NodesAssumption DEF Slip!SlipAssumption
<1>2. <<>> \in Bytes /\ Len(<<>>) = 0 /\ b \in Buffers
  BY DEF Bytes, Buffers
<1>3. b \in Sound(0)
  <2>1. Ends(<<>>) = {} /\ Plain(<<>>)
    BY DEF Ends, Plain
  <2>2. Counts(<<>>, 0, 0)
    BY <2>1, FS_EmptySet DEF Counts, FirstEnd
  <2> QED
    BY <1>1, <1>2, <2>2 DEF Sound
<1>4. r \in Sound(0)
  BY <1>3, OctetsOf, SendSound
<1>5. r.buf = one /\ r.packet_end = 1 /\ r.count = 1 /\ r.overflow = FALSE
  BY <1>1, <1>2 DEF Slip!slip_send
<1>6. /\ slip_buf = r.buf /\ slip_packet_end = r.packet_end /\ slip_packet_count = r.count /\ slip_begin = 0
      /\ line = <<>> /\ packets = <<>> /\ waiting = FALSE /\ exited \in {r.overflow, TRUE}
  BY DEF Slip!Init
<1> HIDE DEF r, b
<1>7. HostBuffer \in Sound(0)
  <2>1. r \in Buffers /\ Len(r.buf) <= OutSize /\ r.packet_end \in 0 .. Len(r.buf) /\ 0 \in 0 .. r.packet_end
        /\ Counts(r.buf, r.packet_end, r.count)
    BY <1>4, <1>5 DEF Sound
  <2>2. HostBuffer \in Buffers
    BY <1>5, <1>6, <2>1 DEF HostBuffer, Buffers
  <2>3. HostBuffer.buf = r.buf /\ HostBuffer.packet_end = r.packet_end /\ HostBuffer.count = r.count
    BY <1>6 DEF HostBuffer
  <2> QED
    BY <2>1, <2>2, <2>3 DEF Sound
<1>8. Apart(slip_buf)
  BY <1>5, <1>6 DEF Apart
<1>9. Whole(line, Pending(slip_buf, slip_begin), packets)
  <2>1. line \o Pending(slip_buf, slip_begin) = one
    <3>1. PICK o \in Seq(Octets) : o = one /\ Len(o) = 1
      BY OctetsOf, Single, Zenon
    <3>2. SubSeq(o, 0 + 1, Len(o)) = o /\ <<>> \o o = o
      <4>1. SubSeq(o, 1, Len(o)) = o
        BY SubSeqFull
      <4> QED
        BY <4>1, ConcatEmptySeq
    <3> QED
      BY <1>5, <1>6, <3>1, <3>2, Zenon DEF Pending
  <2>2. Slip!Decoding(Slip!Start, one) = Slip!Decode(Slip!Start, Slip!SLIP_END)
    BY StartIs, OctetsOf, DecodingOne
  <2>3. Slip!Decode(Slip!Start, Slip!SLIP_END) = Dec(<<>>, FALSE, <<>>)
    BY StartIs, DecodesEnd
  <2> QED
    BY <1>6, <2>1, <2>2, <2>3 DEF Whole
<1>10. Slip!IsPrefix(Slip!Decoded(line), packets)
  <2>1. Slip!Decoded(<<>>) = <<>>
    <3>1. Slip!Decoding(Slip!Start, <<>>) = Slip!Start
      BY StartIs, DecodingNone
    <3>2. Slip!Start.got = <<>>
      BY DEF Slip!Start
    <3> QED
      BY <3>1, <3>2, Zenon DEF Slip!Decoded
  <2> QED
    BY <1>6, <2>1 DEF Slip!IsPrefix
<1>11. line \in Bytes /\ packets \in Seq(Bytes) /\ waiting \in BOOLEAN /\ exited \in BOOLEAN /\ slip_begin \in Nat
  <2>1. <<>> \in Seq(Bytes)
    OBVIOUS
  <2> QED
    BY <1>2, <1>5, <1>6, <2>1
<1> QED
  BY <1>6, <1>7, <1>8, <1>9, <1>10, <1>11 DEF OutInv

LEMMA OutKeeps ==
    ASSUME OutInv, UNCHANGED <<line, packets, slip_buf, slip_begin, slip_packet_end, slip_packet_count, exited>>,
           waiting' \in BOOLEAN
    PROVE  OutInv'
  BY DEF OutInv, HostBuffer

LEMMA WriteKeeps ==
    ASSUME OutInv, NEW packet \in SlipPackets, Slip!write_to_slip(packet) PROVE OutInv'
<1>1. packet \in Bytes /\ packet # <<>>
  BY NodesAssumption DEF Slip!SlipAssumption, Bytes
<1>2. PICK x \in Bytes : x = OnLine(packet)
  <2>1. packets \in Seq(Bytes)
    BY DEF OutInv
  <2>2. OnLine(packet) \in Bytes
    BY <1>1, <2>1, DecodesPacket
  <2> QED
    BY <2>2
<1>3. PICK r : r = Slip!sent_bytes(Slip!Buffer, x)
  OBVIOUS
<1>4. /\ ~exited /\ slip_buf' = r.buf /\ slip_packet_end' = r.packet_end /\ slip_packet_count' = r.count
      /\ exited' = r.overflow /\ packets' = Append(packets, packet)
      /\ UNCHANGED <<slip_begin, waiting, line>>
  BY <1>2, <1>3 DEF Slip!write_to_slip, OnLine
<1>5. /\ line \in Bytes /\ packets \in Seq(Bytes) /\ waiting \in BOOLEAN /\ exited \in BOOLEAN /\ slip_begin \in Nat
      /\ HostBuffer \in Sound(slip_begin) /\ Apart(slip_buf)
      /\ Whole(line, Pending(slip_buf, slip_begin), packets) /\ Slip!IsPrefix(Slip!Decoded(line), packets)
  BY <1>4 DEF OutInv
<1>6. Slip!Buffer = HostBuffer /\ HostBuffer \in Buffers /\ HostBuffer.buf = slip_buf
  BY <1>4, <1>5 DEF Slip!Buffer, HostBuffer, Sound
<1>7. r \in Sound(slip_begin)
  BY <1>3, <1>5, <1>6, SentSound
<1>8. ~r.overflow => r.buf = slip_buf \o x
  BY <1>3, <1>6, SentAll DEF AllSent
<1>9. HostBuffer' = r
  BY <1>4, <1>7 DEF HostBuffer, Sound, Buffers
<1>10. packets' \in Seq(Bytes)
  BY <1>1, <1>4, <1>5
<1>11. ASSUME ~r.overflow PROVE Apart(slip_buf') /\ Whole(line, Pending(slip_buf', slip_begin), packets')
  <2>1. slip_buf' = slip_buf \o x
    BY <1>4, <1>8, <1>11
  <2>2. slip_buf \in Bytes /\ slip_begin <= Len(slip_buf) /\ Pending(slip_buf, slip_begin) \in Bytes
    BY HostTypes
  <2>3. Apart(slip_buf')
    BY <1>1, <1>2, <1>5, <2>1, <2>2, ApartMore
  <2>4. PICK p \in Bytes : p = Pending(slip_buf, slip_begin)
    BY <2>2
  <2>5. Pending(slip_buf', slip_begin) = p \o x
    BY <1>5, <2>1, <2>2, <2>4, PendingMore DEF Bytes
  <2>6. PICK lp \in Bytes : lp = line \o p
    <3>1. line \in Seq(Octets) /\ p \in Seq(Octets) /\ Bytes = Seq(Octets)
      BY <1>5 DEF Bytes
    <3>2. \E z \in Seq(Octets) : IsJoined(z, line, p)
      BY <3>1, Joined
    <3> QED
      BY <3>1, <3>2, Zenon DEF IsJoined
  <2>7. line \o (p \o x) = lp \o x
    <3>1. line \in Seq(Octets) /\ p \in Seq(Octets) /\ x \in Seq(Octets)
      BY <1>5 DEF Bytes
    <3>2. line \o (p \o x) = (line \o p) \o x
      BY <3>1, ConcatAssociative, SMTT(30)
    <3> QED
      BY <2>6, <3>2
  <2>8. Slip!Decoding(Slip!Start, lp) = Dec(<<>>, FALSE, packets)
    BY <1>5, <2>4, <2>6 DEF Whole
  <2>9. Slip!Decoding(Slip!Start, lp \o x) = Slip!Decoding(Slip!Decoding(Slip!Start, lp), x)
    BY StartIs, DecodingBoth
  <2>10. Slip!Decoding(Dec(<<>>, FALSE, packets), x) = Dec(<<>>, FALSE, Append(packets, packet))
    BY <1>1, <1>2, <1>5, DecodesPacket
  <2>11. Whole(line, Pending(slip_buf', slip_begin), packets')
    BY <1>4, <2>5, <2>7, <2>8, <2>9, <2>10, Zenon DEF Whole
  <2> QED
    BY <2>3, <2>11
<1>12. Slip!IsPrefix(Slip!Decoded(line), packets')
  <2>1. Slip!Decoded(line) \in Seq(Bytes)
    BY <1>5, StartIs, DecodingType DEF Slip!Decoded, Decodings
  <2> QED
    BY <1>1, <1>4, <1>5, <2>1, PrefixGrows
<1>13. r.overflow \in BOOLEAN
  BY <1>7 DEF Sound, Buffers
<1> QED
  BY <1>4, <1>5, <1>7, <1>9, <1>10, <1>11, <1>12, <1>13 DEF OutInv

(* The next packet's end, once a packet is written.                         *)
LEMMA NextEndIs ==
    ASSUME NEW buf \in Bytes, buf # <<>> => buf[1] # Slip!SLIP_END
    PROVE  Slip!NextEnd(buf) \in 0 .. Len(buf) /\ FirstEnd(buf, Slip!NextEnd(buf))
<1> DEFINE ends == {i \in 2 .. Len(buf) : buf[i] = Slip!SLIP_END}
           least == CHOOSE i \in ends : \A m \in ends : i <= m
<1>1. Len(buf) \in Nat /\ (buf = <<>> <=> Len(buf) = 0)
  BY DEF Bytes
<1>2. CASE ends = {}
  <2>1. Slip!NextEnd(buf) = 0
    BY <1>2 DEF Slip!NextEnd
  <2>2. \A i \in 1 .. Len(buf) : i = 1 \/ i \in 2 .. Len(buf)
    BY <1>1
  <2>3. Plain(buf)
    BY <1>1, <1>2, <2>2 DEF Plain
  <2> QED
    BY <1>1, <2>1, <2>3 DEF FirstEnd
<1>3. CASE ends # {}
  <2> DEFINE Less == {ss \in Nat \X Nat : ss[1] < ss[2]}
  <2>1. ends \in SUBSET Nat
    OBVIOUS
  <2> HIDE DEF ends
  <2>2. \E i \in ends : \A m \in ends : i <= m
    <3>1. IsWellFoundedOn(Less, Nat)
      BY NatLessThanWellFounded DEF OpToRel
    <3> HIDE DEF Less
    <3>2. PICK i \in ends : \A m \in ends : ~(<<m, i>> \in Less)
      BY <1>3, <2>1, <3>1, WFMin
    <3>3. ASSUME NEW m \in ends PROVE i <= m
      <4>1. m \in Nat /\ i \in Nat /\ <<m, i>> \notin Less
        BY <2>1, <3>2
      <4> QED
        BY <4>1 DEF Less
    <3> QED
      BY <3>3
  <2>3. least \in ends /\ \A m \in ends : least <= m
    BY <2>2
  <2>4. Slip!NextEnd(buf) = least
    BY <1>3 DEF Slip!NextEnd, ends
  <2> HIDE DEF least
  <2>5. least \in 2 .. Len(buf) /\ buf[least] = Slip!SLIP_END
    BY <2>3 DEF ends
  <2>6. ASSUME NEW i \in 1 .. least - 1 PROVE buf[i] # Slip!SLIP_END
    <3>1. CASE i = 1
      BY <1>1, <2>5, <3>1
    <3>2. CASE i # 1
      <4>1. i \in 2 .. Len(buf) /\ ~(least <= i)
        BY <1>1, <2>5, <3>2
      <4>2. i \notin ends
        BY <2>3, <4>1
      <4> QED
        BY <4>1, <4>2 DEF ends
    <3> QED
      BY <3>1, <3>2
  <2>7. least \in 1 .. Len(buf) /\ least # 0 /\ least \in 0 .. Len(buf)
    BY <1>1, <2>5
  <2> QED
    BY <2>4, <2>5, <2>6, <2>7 DEF FirstEnd
<1> QED
  BY <1>2, <1>3

(* What is left of the buffer when its first packet is written.             *)
LEMMA Shifted ==
    ASSUME NEW buf \in Seq(Octets), NEW e \in 1 .. Len(buf), NEW n \in Nat, Counts(buf, e, n), Apart(buf),
           NEW rest \in Seq(Octets), IsSlice(rest, buf, e, Len(buf))
    PROVE  /\ rest # <<>> => rest[1] # Slip!SLIP_END
           /\ Apart(rest) /\ n - 1 \in Nat /\ n - 1 = Cardinality(Ends(rest))
<1>1. PICK m, k \in Nat : m = Len(buf) /\ k = Len(rest)
  OBVIOUS
<1>2. e \in 1 .. m /\ k = m - e /\ \A i \in 1 .. k, j \in 1 .. m : j = e + i => rest[i] = buf[j]
  BY <1>1 DEF IsSlice
<1>3. \A i \in 1 .. k : e + i \in 1 .. m /\ rest[i] = buf[e + i]
  BY <1>1, <1>2
<1>4. buf[e] = Slip!SLIP_END /\ \A i \in 1 .. e - 1 : buf[i] # Slip!SLIP_END
  BY <1>2 DEF Counts, FirstEnd
<1>5. \A i \in 2 .. m : ~(buf[i - 1] = Slip!SLIP_END /\ buf[i] = Slip!SLIP_END)
  BY <1>1 DEF Apart
<1>6. k # 0 => buf[m] = Slip!SLIP_END
  <2>1. k # 0 => buf # <<>>
    BY <1>1, <1>2
  <2> QED
    BY <1>1, <2>1 DEF Apart
<1>7. rest # <<>> => k # 0
  BY <1>1
<1>8. ASSUME k # 0 PROVE rest[1] # Slip!SLIP_END
  <2>1. 1 \in 1 .. k /\ e + 1 \in 2 .. m /\ e + 1 - 1 = e
    BY <1>1, <1>2, <1>8
  <2> QED
    BY <1>3, <1>4, <1>5, <2>1
<1>9. ASSUME k # 0 PROVE rest[k] = Slip!SLIP_END
  <2>1. k \in 1 .. k /\ e + k = m
    BY <1>1, <1>2, <1>9
  <2> QED
    BY <1>3, <1>6, <1>9, <2>1
<1>10. ASSUME NEW i \in 2 .. k PROVE ~(rest[i - 1] = Slip!SLIP_END /\ rest[i] = Slip!SLIP_END)
  <2>1. i \in 1 .. k /\ i - 1 \in 1 .. k /\ e + i \in 2 .. m /\ e + (i - 1) = (e + i) - 1
    BY <1>1, <1>2
  <2>2. rest[i] = buf[e + i] /\ rest[i - 1] = buf[(e + i) - 1]
    BY <1>3, <2>1
  <2> QED
    BY <1>5, <2>1, <2>2
<1>11. Apart(rest)
  BY <1>1, <1>7, <1>9, <1>10 DEF Apart
<1>12. n = Cardinality(Ends(buf)) /\ IsFiniteSet(Ends(buf)) /\ IsFiniteSet(Ends(rest))
  BY EndsFinite DEF Counts, Bytes
<1>13. Cardinality(Ends(rest)) = Cardinality(Ends(buf) \ {e})
  <2> DEFINE f == [i \in Ends(rest) |-> e + i]
             S == Ends(rest)
             T == Ends(buf) \ {e}
  <2>1. \A i \in S : i \in 1 .. k /\ rest[i] = Slip!SLIP_END
    BY <1>1 DEF Ends
  <2>2. \A j : j \in T <=> j \in 1 .. m /\ buf[j] = Slip!SLIP_END /\ j # e
    BY <1>1 DEF Ends
  <2>3. \A i \in S : e + i \in T
    <3>1. \A i \in S : e + i \in 1 .. m /\ buf[e + i] = Slip!SLIP_END /\ e + i # e
      BY <1>1, <1>2, <1>3, <2>1
    <3> QED
      BY <2>2, <3>1
  <2>4. \A j \in T : j - e \in S /\ e + (j - e) = j
    <3> SUFFICES ASSUME NEW j \in T PROVE j - e \in S /\ e + (j - e) = j
      OBVIOUS
    <3>1. j \in 1 .. m /\ buf[j] = Slip!SLIP_END /\ j # e
      BY <2>2
    <3>2. ~(j \in 1 .. e - 1)
      BY <1>4, <3>1
    <3>3. j - e \in 1 .. k /\ e + (j - e) = j
      BY <1>1, <1>2, <3>1, <3>2
    <3>4. rest[j - e] = Slip!SLIP_END
      BY <1>3, <3>1, <3>3
    <3> QED
      BY <1>1, <3>3, <3>4 DEF Ends
  <2>5. \A i \in S : i \in Nat
    BY <1>1, <2>1
  <2> HIDE DEF S, T
  <2>6. f \in [S -> T]
    BY <2>3 DEF S
  <2>7. \A i, j \in S : f[i] = f[j] => i = j
    BY <1>1, <1>2, <2>5 DEF S
  <2>8. \A j \in T : \E i \in S : f[i] = j
    BY <2>4 DEF S
  <2>9. f \in Bijection(S, T)
    BY <2>6, <2>7, <2>8 DEF Bijection, Injection, Surjection, IsInjective
  <2>10. ExistsBijection(S, T)
    BY <2>9 DEF ExistsBijection
  <2>11. IsFiniteSet(S)
    BY <1>12 DEF S
  <2>12. Cardinality(S) = Cardinality(T)
    BY <2>10, <2>11, FS_Bijection
  <2> QED
    BY <2>12 DEF S, T
<1>14. e \in Ends(buf)
  BY <1>1, <1>2, <1>4 DEF Ends
<1>15. Cardinality(Ends(buf) \ {e}) = n - 1 /\ Cardinality(Ends(rest)) \in Nat
  BY <1>12, <1>14, FS_RemoveElement, EndsFinite DEF Bytes
<1> QED
  BY <1>7, <1>8, <1>11, <1>13, <1>15

(* Some of a packet is written, or the rest of it.                          *)
LEMMA FlushKeeps ==
    ASSUME OutInv, NEW n \in 1 .. slip_packet_end - slip_begin, Slip!slip_flushbuf(n) PROVE OutInv'
<1>1. /\ ~exited /\ UNCHANGED <<packets, exited>>
      /\ line' = line \o SubSeq(slip_buf, slip_begin + 1, slip_begin + n)
      /\ IF slip_begin + n < slip_packet_end
         THEN slip_begin' = slip_begin + n /\ UNCHANGED <<slip_buf, slip_packet_end, slip_packet_count, waiting>>
         ELSE /\ slip_buf' = SubSeq(slip_buf, slip_packet_end + 1, Len(slip_buf))
              /\ slip_begin' = 0 /\ slip_packet_end' = Slip!NextEnd(slip_buf')
              /\ slip_packet_count' = slip_packet_count - 1 /\ waiting' = (slip_buf' # <<>>)
  BY DEF Slip!slip_flushbuf
<1>2. /\ line \in Seq(Octets) /\ packets \in Seq(Bytes) /\ waiting \in BOOLEAN /\ exited \in BOOLEAN
      /\ Apart(slip_buf) /\ Whole(line, Pending(slip_buf, slip_begin), packets)
  BY <1>1 DEF OutInv, Bytes
<1>3. /\ slip_buf \in Seq(Octets) /\ slip_packet_end \in Nat /\ slip_packet_count \in Nat /\ slip_begin \in Nat
      /\ Len(slip_buf) \in Nat /\ Len(slip_buf) <= OutSize
      /\ slip_packet_end \in 0 .. Len(slip_buf) /\ slip_begin \in 0 .. slip_packet_end
      /\ Counts(slip_buf, slip_packet_end, slip_packet_count)
  BY <1>1, HostTypes DEF Bytes
<1>4. PICK k \in Nat : k = slip_begin + n /\ slip_begin <= k /\ k <= slip_packet_end /\ k <= Len(slip_buf) /\ k >= 1
  BY <1>3
<1>5. PICK t \in Seq(Octets) : IsSlice(t, slip_buf, slip_begin, k)
  BY <1>3, <1>4, Slice
<1>6. PICK rest \in Seq(Octets) : IsSlice(rest, slip_buf, k, Len(slip_buf))
  <2>1. PICK m \in Nat : m = Len(slip_buf) /\ k <= m /\ m <= Len(slip_buf)
    BY <1>3, <1>4
  <2>2. \E r \in Seq(Octets) : IsSlice(r, slip_buf, k, m)
    BY <1>3, <2>1, Slice
  <2> QED
    BY <2>1, <2>2, Zenon
<1>7. t = SubSeq(slip_buf, slip_begin + 1, k) /\ rest = SubSeq(slip_buf, k + 1, Len(slip_buf))
  BY <1>5, <1>6 DEF IsSlice
<1>8. Pending(slip_buf, slip_begin) = t \o rest
  <2>1. /\ slip_begin + 1 \in 1 .. Len(slip_buf) + 1 /\ k \in (slip_begin + 1) - 1 .. Len(slip_buf)
        /\ Len(slip_buf) \in k .. Len(slip_buf)
    BY <1>3, <1>4
  <2>2. SubSeq(slip_buf, slip_begin + 1, k) \o SubSeq(slip_buf, k + 1, Len(slip_buf)) =
            SubSeq(slip_buf, slip_begin + 1, Len(slip_buf))
    BY <1>3, <2>1, ConcatAdjacentSubSeq
  <2> QED
    BY <1>7, <2>2, Zenon DEF Pending
<1>9. PICK more \in Seq(Octets) : IsJoined(more, line, t)
  BY <1>2, Joined
<1>10. more = line \o t /\ line' = more
  BY <1>1, <1>4, <1>7, <1>9, Zenon DEF IsJoined
<1>11. Whole(line', rest, packets)
  <2>1. PICK u \in Seq(Octets) : u = line
    BY <1>2
  <2>2. (u \o t) \o rest = u \o (t \o rest)
    BY ConcatAssociative, SMTT(30)
  <2> QED
    BY <1>2, <1>8, <1>10, <2>1, <2>2, Zenon DEF Whole
<1>12. Slip!IsPrefix(Slip!Decoded(line'), packets')
  <2>1. more \in Bytes /\ rest \in Bytes
    BY DEF Bytes
  <2> QED
    BY <1>1, <1>2, <1>10, <1>11, <2>1, WholeSoFar
<1>13. CASE k < slip_packet_end
  <2>1. slip_begin' = k /\ UNCHANGED <<slip_buf, slip_packet_end, slip_packet_count, waiting>>
    BY <1>1, <1>4, <1>13
  <2>2. HostBuffer' \in Sound(slip_begin')
    <3>1. HostBuffer' = HostBuffer /\ HostBuffer.packet_end = slip_packet_end
      BY <1>1, <2>1 DEF HostBuffer
    <3>2. HostBuffer \in Sound(slip_begin)
      BY DEF OutInv
    <3>3. k \in 0 .. slip_packet_end
      BY <1>3, <1>4
    <3> QED
      BY <2>1, <3>1, <3>2, <3>3 DEF Sound
  <2>3. Pending(slip_buf', slip_begin') = rest
    BY <1>7, <2>1, Zenon DEF Pending
  <2> QED
    BY <1>1, <1>2, <1>4, <1>10, <1>11, <1>12, <2>1, <2>2, <2>3 DEF OutInv, Bytes
<1>14. CASE ~(k < slip_packet_end)
  <2>1. k = slip_packet_end
    BY <1>3, <1>4, <1>14
  <2>2. /\ slip_buf' = rest /\ slip_begin' = 0 /\ slip_packet_end' = Slip!NextEnd(rest)
        /\ slip_packet_count' = slip_packet_count - 1 /\ waiting' \in BOOLEAN
    BY <1>1, <1>4, <1>7, <1>14, <2>1
  <2>3. /\ rest # <<>> => rest[1] # Slip!SLIP_END
        /\ Apart(rest) /\ slip_packet_count - 1 \in Nat /\ slip_packet_count - 1 = Cardinality(Ends(rest))
    <3>1. k \in 1 .. Len(slip_buf)
      BY <1>3, <1>4
    <3> QED
      BY <1>2, <1>3, <1>6, <2>1, <3>1, Shifted
  <2>4. Slip!NextEnd(rest) \in 0 .. Len(rest) /\ FirstEnd(rest, Slip!NextEnd(rest))
    BY <2>3, NextEndIs DEF Bytes
  <2>5. Len(rest) \in Nat /\ Len(rest) <= OutSize
    <3>1. Len(rest) = Len(slip_buf) - k
      BY <1>6 DEF IsSlice
    <3>2. OutSize \in Nat
      BY NodesAssumption DEF Slip!SlipAssumption
    <3> QED
      BY <1>3, <1>4, <3>1, <3>2
  <2>6. HostBuffer' \in Sound(0)
    <3> DEFINE b == HostBuffer'
    <3>1. /\ b = [buf |-> rest, packet_end |-> Slip!NextEnd(rest), count |-> slip_packet_count - 1, overflow |-> exited]
      BY <1>1, <2>2 DEF HostBuffer
    <3>2. Slip!NextEnd(rest) \in Nat /\ 0 \in 0 .. Slip!NextEnd(rest)
      BY <2>4
    <3>3. Counts(rest, Slip!NextEnd(rest), slip_packet_count - 1)
      BY <2>3, <2>4 DEF Counts
    <3> HIDE DEF b
    <3>4. b \in Buffers
      BY <1>2, <2>3, <3>1, <3>2 DEF Buffers, Bytes
    <3>5. b.buf = rest /\ b.packet_end = Slip!NextEnd(rest) /\ b.count = slip_packet_count - 1
      BY <3>1
    <3>6. b \in Sound(0)
      BY <2>4, <2>5, <3>2, <3>3, <3>4, <3>5 DEF Sound
    <3> QED
      BY <3>6 DEF b
  <2>7. Pending(slip_buf', slip_begin') = rest
    <3>1. SubSeq(rest, 1, Len(rest)) = rest
      BY SubSeqFull
    <3> QED
      BY <2>2, <3>1 DEF Pending
  <2>8. slip_begin' \in Nat /\ HostBuffer' \in Sound(slip_begin') /\ Apart(slip_buf')
    BY <2>2, <2>3, <2>6
  <2>9. line' \in Bytes /\ packets' \in Seq(Bytes) /\ exited' \in BOOLEAN
    BY <1>1, <1>2, <1>10 DEF Bytes
  <2> QED
    BY <1>1, <1>11, <1>12, <2>2, <2>7, <2>8, <2>9 DEF OutInv
<1> QED
  BY <1>13, <1>14

(* The program gives up.                                                    *)
LEMMA ExitKeeps ==
    ASSUME OutInv, exited' = TRUE,
           UNCHANGED <<line, packets, slip_buf, slip_begin, slip_packet_end, slip_packet_count, waiting>>
    PROVE  OutInv'
<1>1. HostBuffer' \in Sound(slip_begin)
  <2> DEFINE b == HostBuffer'
  <2>3. b = [buf |-> slip_buf, packet_end |-> slip_packet_end, count |-> slip_packet_count, overflow |-> TRUE]
    BY DEF HostBuffer
  <2> HIDE DEF b
  <2>4. slip_buf \in Bytes /\ slip_packet_end \in Nat /\ slip_packet_count \in Nat
    BY HostTypes
  <2>5. /\ Len(slip_buf) <= OutSize /\ slip_packet_end \in 0 .. Len(slip_buf)
        /\ slip_begin \in 0 .. slip_packet_end
    BY HostTypes
  <2>6. b \in Buffers /\ b.overflow = TRUE /\ b.buf = slip_buf /\ b.packet_end = slip_packet_end
    BY <2>3, <2>4 DEF Buffers
  <2>7. b \in Sound(slip_begin)
    BY <2>5, <2>6 DEF Sound
  <2> QED
    BY <2>7 DEF b
<1> QED
  BY <1>1 DEF OutInv

LEMMA OutStep == ASSUME OutInv, Slip!Next PROVE OutInv'
<1>1. OutInv => waiting \in BOOLEAN /\ exited \in BOOLEAN
  BY DEF OutInv
<1>2. ASSUME NEW packet \in SlipPackets, Slip!write_to_slip(packet) PROVE OutInv'
  BY <1>2, WriteKeeps
<1>3. ASSUME NEW n \in 1 .. Len(wire), Slip!serial_input(n) PROVE OutInv'
  BY <1>1, <1>3, OutKeeps DEF Slip!serial_input, Slip!output
<1>4. ASSUME NEW n \in 1 .. slip_packet_end - slip_begin, Slip!slip_flushbuf(n) PROVE OutInv'
  BY <1>4, FlushKeeps
<1>5. CASE Slip!write_fails \/ Slip!read_fails
  BY <1>5, ExitKeeps DEF Slip!write_fails, Slip!read_fails, Slip!output
<1>6. CASE Slip!timer_expired
  BY <1>6, OutKeeps DEF Slip!timer_expired
<1>7. ASSUME NEW frame \in Frames, Slip!slip_send_packet(frame) PROVE OutInv'
  BY <1>1, <1>7, OutKeeps DEF Slip!slip_send_packet, Slip!output
<1>8. ASSUME NEW c \in {"a", Slip!Newline}, Slip!putchar(c) PROVE OutInv'
  BY <1>1, <1>8, OutKeeps DEF Slip!putchar, Slip!output
<1> QED
  BY <1>2, <1>3, <1>4, <1>5, <1>6, <1>7, <1>8 DEF Slip!Next, Slip!handle_fd

LEMMA SameCardinality == ASSUME NEW S PROVE Slip!Cardinality(S) = Cardinality(S)
  BY Zenon DEF Cardinality, Slip!Cardinality

(* What the run checks of the host's side follows.                          *)
LEMMA OutShows == OutInv => Slip!PacketsWritten
<1> SUFFICES ASSUME OutInv PROVE Slip!PacketsWritten
  OBVIOUS
<1>1. ASSUME ~exited PROVE Slip!Decoded(line \o SubSeq(slip_buf, slip_begin + 1, Len(slip_buf))) = packets
  <2>1. Slip!Decoding(Slip!Start, line \o SubSeq(slip_buf, slip_begin + 1, Len(slip_buf))) = Dec(<<>>, FALSE, packets)
    BY <1>1, Zenon DEF OutInv, Whole, Pending
  <2>2. Dec(<<>>, FALSE, packets).got = packets
    BY DEF Dec
  <2> QED
    BY <2>1, <2>2, Zenon DEF Slip!Decoded
<1>2. ASSUME ~exited PROVE slip_packet_count = Cardinality({i \in DOMAIN slip_buf : slip_buf[i] = Slip!SLIP_END})
  <2>1. slip_buf \in Seq(Octets) /\ Counts(slip_buf, slip_packet_end, slip_packet_count)
    BY <1>2, HostTypes DEF Bytes
  <2>2. DOMAIN slip_buf = 1 .. Len(slip_buf)
    BY <2>1
  <2> QED
    BY <2>1, <2>2 DEF Counts, Ends
<1>3. Slip!IsPrefix(Slip!Decoded(line), packets)
  BY DEF OutInv
<1> QED
  BY <1>1, <1>2, <1>3, SameCardinality, Zenon DEF Slip!PacketsWritten

-----------------------------------------------------------------------------
(* The radio's side: what the host has in hand, and what it will have when  *)
(* it has read all that has come.  A receiver that has settled holds        *)
(* nothing but debug output, and has been given all the frames.             *)
In(x, e, g, v) == [inbuf |-> x, esc |-> e, got |-> g, verbose |-> v]

Room(v) ==
    {s \in Readings : /\ s.verbose = v /\ Len(s.inbuf) <= InSize
                      /\ s.esc => Len(s.inbuf) < InSize}

Debug == {"a", Slip!Newline, Slip!DEBUG_LINE_MARKER}
Quiet(x) == \A i \in 1 .. Len(x) : x[i] \in Debug

Settled(g, v) == {s \in Room(v) : ~s.esc /\ Quiet(s.inbuf) /\ s.got = g}

Held == In(inbuf, ungot, received, verbose)

InInv ==
    /\ emitted \in Seq(Bytes \ {<<>>}) /\ wire \in Bytes /\ debug_frame \in BOOLEAN /\ traffic \in 0 .. MaxTraffic
    /\ verbose \in BOOLEAN /\ Held \in Room(verbose)
    /\ Slip!Fitting(emitted) => Slip!read_bytes(Held, wire) \in Settled(Slip!Expected(emitted), verbose)

LEMMA InType ==
    ASSUME NEW x \in Bytes, NEW e \in BOOLEAN, NEW g \in Hands, NEW v \in BOOLEAN
    PROVE  In(x, e, g, v) \in Readings
  BY DEF In, Readings

LEMMA InIs ==
    ASSUME NEW t \in Readings
    PROVE  /\ t = In(t.inbuf, t.esc, t.got, t.verbose)
           /\ t.inbuf \in Bytes /\ Len(t.inbuf) \in Nat /\ t.esc \in BOOLEAN /\ t.got \in Hands /\ t.verbose \in BOOLEAN
<1>1. t.inbuf \in Bytes /\ t.esc \in BOOLEAN /\ t.got \in Hands /\ t.verbose \in BOOLEAN
  BY DEF Readings
<1>2. Len(t.inbuf) \in Nat
  BY <1>1 DEF Bytes
<1>3. t = In(t.inbuf, t.esc, t.got, t.verbose)
  BY DEF Readings, In
<1> QED
  BY <1>1, <1>2, <1>3

(* One byte, where there is room for it.                                    *)
LEMMA WithEsc ==
    ASSUME NEW t \in Readings, NEW d PROVE [t EXCEPT !.esc = d] = In(t.inbuf, d, t.got, t.verbose)
  BY DEF In, Readings

LEMMA WithByte ==
    ASSUME NEW t \in Readings, NEW d, NEW y
    PROVE  [t EXCEPT !.esc = d, !.inbuf = y] = In(y, d, t.got, t.verbose)
<1>1. PICK s : s = [t EXCEPT !.esc = d]
  OBVIOUS
<1>2. s = In(t.inbuf, d, t.got, t.verbose)
  BY <1>1 DEF In, Readings
<1>3. [s EXCEPT !.inbuf = y] = In(y, d, t.got, t.verbose)
  BY <1>2 DEF In
<1> QED
  BY <1>1, <1>3, Zenon

LEMMA WithFrame ==
    ASSUME NEW t \in Readings, NEW y, NEW h
    PROVE  [t EXCEPT !.inbuf = y, !.got = h] = In(y, t.esc, h, t.verbose)
<1>1. PICK s : s = [t EXCEPT !.inbuf = y]
  OBVIOUS
<1>2. s = In(y, t.esc, t.got, t.verbose)
  BY <1>1 DEF In, Readings
<1>3. [s EXCEPT !.got = h] = In(y, t.esc, h, t.verbose)
  BY <1>2 DEF In
<1> QED
  BY <1>1, <1>3, Zenon

LEMMA FreshIs ==
    ASSUME NEW t \in Readings, Len(t.inbuf) < InSize PROVE Slip!Fresh(t) = t
<1>1. Len(t.inbuf) \in Nat /\ InSize \in Nat
  BY InIs, NodesAssumption DEF Slip!SlipAssumption
<1> QED
  BY <1>1 DEF Slip!Fresh

LEMMA StoreIs ==
    ASSUME NEW t \in Readings, NEW c, t.verbose => c # Slip!Newline
    PROVE  Slip!Store(t, c) = In(Append(t.inbuf, c), FALSE, t.got, t.verbose)
<1>1. Slip!Store(t, c) = [t EXCEPT !.esc = FALSE, !.inbuf = Append(t.inbuf, c)]
  BY DEF Slip!Store
<1> QED
  BY <1>1, WithByte, Zenon

LEMMA ReadsFirst ==
    ASSUME NEW x \in Bytes, Len(x) < InSize, NEW g \in Hands, NEW v \in BOOLEAN
    PROVE  Slip!read_byte(In(x, FALSE, g, v), Slip!SLIP_ESC) = In(x, TRUE, g, v)
<1>1. PICK s \in Readings : s = In(x, FALSE, g, v)
  BY InType
<1>2. s.inbuf = x /\ s.esc = FALSE /\ s.got = g /\ s.verbose = v
  BY <1>1 DEF In
<1>3. Slip!Fresh(s) = s
  BY <1>2, FreshIs
<1>4. Slip!read_byte(s, Slip!SLIP_ESC) = [s EXCEPT !.esc = TRUE]
  BY <1>2, <1>3 DEF Slip!read_byte, Slip!SLIP_ESC, Slip!SLIP_END
<1> QED
  BY <1>1, <1>2, <1>4, WithEsc, Zenon

LEMMA ReadsOther ==
    ASSUME NEW x \in Bytes, Len(x) < InSize, NEW g \in Hands, NEW v \in BOOLEAN,
           NEW c, c \notin {Slip!SLIP_ESC, Slip!SLIP_END}, v => c # Slip!Newline
    PROVE  Slip!read_byte(In(x, FALSE, g, v), c) = In(Append(x, c), FALSE, g, v)
<1>1. PICK s \in Readings : s = In(x, FALSE, g, v)
  BY InType
<1>2. s.inbuf = x /\ s.esc = FALSE /\ s.got = g /\ s.verbose = v
  BY <1>1 DEF In
<1>3. Slip!Fresh(s) = s
  BY <1>2, FreshIs
<1>4. s.verbose => c # Slip!Newline
  BY <1>2
<1>5. Slip!Store(s, c) = In(Append(s.inbuf, c), FALSE, s.got, s.verbose)
  BY <1>4, StoreIs, Zenon
<1>6. Slip!read_byte(s, c) = Slip!Store(s, c)
  BY <1>2, <1>3 DEF Slip!read_byte
<1> QED
  BY <1>1, <1>2, <1>5, <1>6, Zenon

LEMMA ReadsSecond ==
    ASSUME NEW x \in Bytes, Len(x) < InSize, NEW g \in Hands, NEW v \in BOOLEAN,
           NEW c, v => Slip!Unescaped(c) # Slip!Newline
    PROVE  Slip!read_byte(In(x, TRUE, g, v), c) = In(Append(x, Slip!Unescaped(c)), FALSE, g, v)
<1>1. PICK s \in Readings : s = In(x, TRUE, g, v)
  BY InType
<1>2. s.inbuf = x /\ s.esc = TRUE /\ s.got = g /\ s.verbose = v
  BY <1>1 DEF In
<1>3. Slip!Fresh(s) = s
  BY <1>2, FreshIs
<1>4. PICK d : d = Slip!Unescaped(c) /\ (s.verbose => d # Slip!Newline)
  BY <1>2
<1>5. Slip!Store(s, d) = In(Append(s.inbuf, d), FALSE, s.got, s.verbose)
  BY <1>4, StoreIs, Zenon
<1>6. Slip!read_byte(s, c) = Slip!Store(s, d)
  BY <1>2, <1>3, <1>4 DEF Slip!read_byte
<1> QED
  BY <1>1, <1>2, <1>4, <1>5, <1>6, Zenon

LEMMA ReadsEnd ==
    ASSUME NEW x \in Bytes, Len(x) < InSize, x # <<>>, NEW g \in Hands, NEW v \in BOOLEAN
    PROVE  Slip!read_byte(In(x, FALSE, g, v), Slip!SLIP_END) = In(<<>>, FALSE, g \o Slip!HandedOn(x), v)
<1>1. PICK s \in Readings : s = In(x, FALSE, g, v)
  BY InType
<1>2. s.inbuf = x /\ s.esc = FALSE /\ s.got = g /\ s.verbose = v
  BY <1>1 DEF In
<1>3. Slip!Fresh(s) = s
  BY <1>2, FreshIs
<1>4. PICK h : h = IF s.inbuf = <<>> THEN s.got ELSE s.got \o Slip!HandedOn(s.inbuf)
  OBVIOUS
<1>5. Slip!read_byte(s, Slip!SLIP_END) = [s EXCEPT !.inbuf = <<>>, !.got = h]
  BY <1>2, <1>3, <1>4 DEF Slip!read_byte, Slip!SLIP_ESC, Slip!SLIP_END
<1>6. h = g \o Slip!HandedOn(x)
  BY <1>2, <1>4, Zenon
<1>7. [s EXCEPT !.inbuf = <<>>, !.got = h] = In(<<>>, s.esc, h, s.verbose)
  BY WithFrame, Zenon
<1> QED
  BY <1>1, <1>2, <1>5, <1>6, <1>7, Zenon

(* Bytes are read into the room there is.                                   *)
LEMMA RoomKept ==
    ASSUME NEW v \in BOOLEAN, NEW t \in Room(v), NEW c \in Octets PROVE Slip!read_byte(t, c) \in Room(v)
<1> DEFINE s == Slip!Fresh(t)
           r == Slip!read_byte(t, c)
<1>1. InSize \in Nat /\ InSize >= 1
  BY NodesAssumption DEF Slip!SlipAssumption
<1>2. /\ t \in Readings /\ t.verbose = v /\ Len(t.inbuf) <= InSize /\ (t.esc => Len(t.inbuf) < InSize)
      /\ t.inbuf \in Bytes /\ Len(t.inbuf) \in Nat /\ t.esc \in BOOLEAN
  BY InIs DEF Room
<1>3. r \in Readings
  <2>1. Reads[<<t, c>>] \in Readings
    BY <1>2, ReadSteps DEF Steps
  <2>2. Reads[<<t, c>>] = Slip!read_byte(t, c)
    BY <1>2 DEF Reads
  <2> QED
    BY <2>1, <2>2
<1>4. /\ s \in Readings /\ s.verbose = v /\ Len(s.inbuf) < InSize /\ s.inbuf \in Bytes /\ Len(s.inbuf) \in Nat
      /\ s.esc \in BOOLEAN
  <2>1. CASE Len(t.inbuf) >= InSize /\ ~t.esc
    <3>1. s = [t EXCEPT !.inbuf = <<>>]
      BY <2>1 DEF Slip!Fresh
    <3>2. <<>> \in Bytes /\ Len(<<>>) = 0
      BY DEF Bytes
    <3> HIDE DEF s
    <3> QED
      BY <1>1, <1>2, <3>1, <3>2 DEF Readings
  <2>2. CASE ~(Len(t.inbuf) >= InSize /\ ~t.esc)
    <3>1. s = t
      BY <2>2 DEF Slip!Fresh
    <3> HIDE DEF s
    <3> QED
      BY <1>1, <1>2, <2>2, <3>1
  <2> QED
    BY <2>1, <2>2
<1> HIDE DEF s
<1>5. ASSUME NEW d \in Octets
      PROVE  /\ Slip!Store(s, d).verbose = v /\ Slip!Store(s, d).esc = FALSE
             /\ Len(Slip!Store(s, d).inbuf) <= InSize
  <2> DEFINE more == Append(s.inbuf, d)
             x == IF s.verbose /\ d = Slip!Newline /\ Slip!is_sensible_string(more) THEN <<>> ELSE more
  <2>1. Len(more) <= InSize /\ Len(<<>>) <= InSize
    BY <1>1, <1>4 DEF Bytes
  <2>2. Len(x) <= InSize
    BY <2>1
  <2>3. Slip!Store(s, d) = [s EXCEPT !.esc = FALSE, !.inbuf = x]
    BY Zenon DEF Slip!Store
  <2> HIDE DEF x
  <2> QED
    BY <1>4, <2>2, <2>3 DEF Readings
<1>6. r.verbose = v /\ Len(r.inbuf) <= InSize /\ (r.esc => Len(r.inbuf) < InSize)
  <2>1. CASE s.esc
    <3>1. r = Slip!Store(s, Slip!Unescaped(c))
      BY <2>1 DEF Slip!read_byte, s
    <3> HIDE DEF r
    <3> QED
      BY <1>5, <3>1, UnescapedType
  <2>2. CASE ~s.esc /\ c = Slip!SLIP_ESC
    <3>1. r = [s EXCEPT !.esc = TRUE]
      BY <2>2 DEF Slip!read_byte, s, Slip!SLIP_ESC, Slip!SLIP_END
    <3> HIDE DEF r
    <3> QED
      BY <1>1, <1>4, <3>1 DEF Readings
  <2>3. CASE ~s.esc /\ c = Slip!SLIP_END
    <3> DEFINE g == IF s.inbuf = <<>> THEN s.got ELSE s.got \o Slip!HandedOn(s.inbuf)
    <3>1. r = [s EXCEPT !.inbuf = <<>>, !.got = g]
      BY <2>3 DEF Slip!read_byte, s, Slip!SLIP_ESC, Slip!SLIP_END
    <3> HIDE DEF r, g
    <3>2. r.verbose = v /\ r.inbuf = <<>> /\ r.esc = FALSE
      BY <1>4, <2>3, <3>1 DEF Readings
    <3> QED
      BY <1>1, <3>2
  <2>4. CASE ~s.esc /\ c \notin {Slip!SLIP_ESC, Slip!SLIP_END}
    <3>1. r = Slip!Store(s, c)
      BY <2>4 DEF Slip!read_byte, s
    <3> HIDE DEF r
    <3> QED
      BY <1>5, <3>1
  <2> QED
    BY <1>4, <2>1, <2>2, <2>3, <2>4
<1> QED
  BY <1>3, <1>6 DEF Room

(* An ESC put back is read as it was the first time.                        *)
LEMMA ReadAgain ==
    ASSUME NEW v \in BOOLEAN, NEW x \in Bytes, NEW g \in Hands, In(x, TRUE, g, v) \in Room(v)
    PROVE  /\ In(x, FALSE, g, v) \in Room(v)
           /\ Slip!read_byte(In(x, FALSE, g, v), Slip!SLIP_ESC) = In(x, TRUE, g, v)
<1>1. Len(x) < InSize
  BY DEF Room, In
<1>2. In(x, FALSE, g, v) \in Readings
  BY InType
<1>3. In(x, FALSE, g, v) \in Room(v)
  <2>1. Len(x) \in Nat /\ InSize \in Nat
    BY NodesAssumption DEF Bytes, Slip!SlipAssumption
  <2> QED
    BY <1>1, <1>2, <2>1 DEF Room, In
<1> QED
  BY <1>1, <1>3, ReadsFirst

(* Many bytes, and a stream after another.                                  *)
LEMMA ReadingNone == ASSUME NEW s \in Readings PROVE Slip!read_bytes(s, <<>>) = s
<1>1. <<>> \in Seq(Octets)
  OBVIOUS
<1> QED
  BY <1>1, ReadIsRun, ReadSteps, RunOfNone

LEMMA ReadingOne ==
    ASSUME NEW s \in Readings, NEW c \in Octets PROVE Slip!read_bytes(s, <<c>>) = Slip!read_byte(s, c)
<1>1. <<c>> \in Seq(Octets)
  OBVIOUS
<1>2. Run(Reads, s, <<c>>) = Reads[<<s, c>>]
  BY ReadSteps, RunOfOne
<1>3. Reads[<<s, c>>] = Slip!read_byte(s, c)
  BY DEF Reads
<1> QED
  BY <1>1, <1>2, <1>3, ReadIsRun

LEMMA ReadingStays ==
    ASSUME NEW x \in Bytes, NEW T, T \subseteq Readings, NEW s \in T,
           \A t \in T, i \in 1 .. Len(x) : Slip!read_byte(t, x[i]) \in T
    PROVE  Slip!read_bytes(s, x) \in T
<1>1. x \in Seq(Octets) /\ \A i \in 1 .. Len(x) : x[i] \in Octets
  BY DEF Bytes
<1>2. \A t \in T, i \in 1 .. Len(x) : Reads[<<t, x[i]>>] \in T
  <2>1. \A t \in Readings, c \in Octets : Reads[<<t, c>>] = Slip!read_byte(t, c)
    BY DEF Reads
  <2> QED
    BY <1>1, <2>1, Zenon
<1>3. Run(Reads, s, x) \in T
  BY <1>1, <1>2, ReadSteps, RunStays
<1> QED
  BY <1>1, <1>3, ReadIsRun

LEMMA ReadingType == ASSUME NEW s \in Readings, NEW x \in Bytes PROVE Slip!read_bytes(s, x) \in Readings
<1>1. \A t \in Readings, c \in Octets : Slip!read_byte(t, c) \in Readings
  <2>1. \A t \in Readings, c \in Octets : Reads[<<t, c>>] = Slip!read_byte(t, c)
    BY DEF Reads
  <2>2. \A t \in Readings, c \in Octets : Reads[<<t, c>>] \in Readings
    BY ReadSteps DEF Steps
  <2> QED
    BY <2>1, <2>2, Zenon
<1>2. \A i \in 1 .. Len(x) : x[i] \in Octets
  BY DEF Bytes
<1> QED
  BY <1>1, <1>2, ReadingStays

LEMMA ReadingBoth ==
    ASSUME NEW s \in Readings, NEW x \in Bytes, NEW y \in Bytes
    PROVE  Slip!read_bytes(s, x \o y) = Slip!read_bytes(Slip!read_bytes(s, x), y)
<1>1. x \in Seq(Octets) /\ y \in Seq(Octets) /\ x \o y \in Seq(Octets)
  BY DEF Bytes
<1>2. Run(Reads, s, x \o y) = Run(Reads, Run(Reads, s, x), y)
  BY <1>1, ReadSteps, RunOfBoth
<1>3. Slip!read_bytes(s, x) \in Readings
  BY ReadingType
<1> QED
  BY <1>1, <1>2, <1>3, ReadIsRun

LEMMA ReadingInRoom ==
    ASSUME NEW v \in BOOLEAN, NEW s \in Room(v), NEW x \in Bytes PROVE Slip!read_bytes(s, x) \in Room(v)
<1>1. \A i \in 1 .. Len(x) : x[i] \in Octets
  BY DEF Bytes
<1>2. Room(v) \subseteq Readings
  BY DEF Room
<1> QED
  BY <1>1, <1>2, RoomKept, ReadingStays

(* What the host has been given it keeps.                                   *)
LEMMA ReadingGrows ==
    ASSUME NEW s \in Readings, NEW x \in Bytes
    PROVE  Slip!IsPrefix(s.got, Slip!read_bytes(s, x).got)
<1> DEFINE H == {"cmd_input", "slip_packet_input"} \X Bytes
           T == {t \in Readings : \E u \in Seq(H) : t.got = s.got \o u}
<1>1. s.got \in Seq(H) /\ <<>> \in Seq(H) /\ Hands = Seq(H)
  BY InIs DEF Hands
<1> HIDE DEF H
<1>2. s \in T
  <2>1. s.got = s.got \o <<>>
    BY <1>1
  <2> QED
    BY <1>1, <2>1
<1>3. ASSUME NEW t \in T, NEW c \in Octets PROVE Slip!read_byte(t, c) \in T
  <2>1. PICK u \in Seq(H) : t.got = s.got \o u
    OBVIOUS
  <2>2. t \in Readings /\ t.inbuf \in Bytes /\ t.esc \in BOOLEAN
    BY InIs
  <2>3. Slip!read_byte(t, c) \in Readings
    <3>1. Reads[<<t, c>>] \in Readings /\ Reads[<<t, c>>] = Slip!read_byte(t, c)
      BY <2>2, ReadSteps DEF Steps, Reads
    <3> QED
      BY <3>1
  <2> DEFINE f == Slip!Fresh(t)
  <2>4. f.got = t.got /\ f \in Readings
    <3>1. <<>> \in Bytes
      BY DEF Bytes
    <3>2. [t EXCEPT !.inbuf = <<>>].got = t.got /\ [t EXCEPT !.inbuf = <<>>] \in Readings
      BY <2>2, <3>1 DEF Readings
    <3> QED
      BY <2>2, <3>2 DEF Slip!Fresh
  <2>5. \A d : Slip!Store(f, d).got = f.got
    BY <2>4 DEF Slip!Store, Readings
  <2>6. [f EXCEPT !.esc = TRUE].got = f.got
    BY <2>4 DEF Readings
  <2>7. \A h : [f EXCEPT !.inbuf = <<>>, !.got = h].got = h
    BY <2>4 DEF Readings
  <2>8. f.esc \in BOOLEAN
    BY <2>4, InIs
  <2>9. Slip!read_byte(t, c).got \in {t.got, t.got \o Slip!HandedOn(f.inbuf)}
    <3> HIDE DEF f
    <3>1. CASE f.esc
      <4>1. Slip!read_byte(t, c) = Slip!Store(f, Slip!Unescaped(c))
        BY <3>1 DEF Slip!read_byte, f
      <4> QED
        BY <2>4, <2>5, <4>1, Zenon
    <3>2. CASE ~f.esc /\ c = Slip!SLIP_ESC
      <4>1. Slip!read_byte(t, c) = [f EXCEPT !.esc = TRUE]
        BY <3>2 DEF Slip!read_byte, f, Slip!SLIP_ESC, Slip!SLIP_END
      <4> QED
        BY <2>4, <2>6, <4>1, Zenon
    <3>3. CASE ~f.esc /\ c = Slip!SLIP_END
      <4>1. PICK h : h = IF f.inbuf = <<>> THEN f.got ELSE f.got \o Slip!HandedOn(f.inbuf)
        OBVIOUS
      <4>2. Slip!read_byte(t, c) = [f EXCEPT !.inbuf = <<>>, !.got = h]
        BY <3>3, <4>1 DEF Slip!read_byte, f, Slip!SLIP_ESC, Slip!SLIP_END
      <4>3. Slip!read_byte(t, c).got = h
        BY <2>7, <4>2, Zenon
      <4> QED
        BY <2>4, <4>1, <4>3, Zenon
    <3>4. CASE ~f.esc /\ c \notin {Slip!SLIP_ESC, Slip!SLIP_END}
      <4>1. Slip!read_byte(t, c) = Slip!Store(f, c)
        BY <3>4 DEF Slip!read_byte, f
      <4> QED
        BY <2>4, <2>5, <4>1, Zenon
    <3> QED
      BY <2>8, <3>1, <3>2, <3>3, <3>4
  <2>10. PICK d \in Seq(H) : d = Slip!HandedOn(f.inbuf)
    <3>1. f.inbuf \in Bytes
      BY <2>4, InIs
    <3> HIDE DEF f
    <3> QED
      BY <1>1, <3>1, HandedOnType
  <2> HIDE DEF f
  <2>11. t.got \o d = s.got \o (u \o d) /\ u \o d \in Seq(H)
    <3>1. PICK a \in Seq(H) : a = s.got
      BY <1>1
    <3>2. (a \o u) \o d = a \o (u \o d)
      BY ConcatAssociative, SMTT(30)
    <3>3. u \o d \in Seq(H)
      BY ConcatProperties
    <3> QED
      BY <2>1, <3>1, <3>2, <3>3, Zenon
  <2>12. \E w \in Seq(H) : Slip!read_byte(t, c).got = s.got \o w
    BY <2>1, <2>9, <2>10, <2>11, Zenon
  <2> QED
    BY <2>3, <2>12
<1>4. T \subseteq Readings /\ \A i \in 1 .. Len(x) : x[i] \in Octets
  BY DEF Bytes
<1> HIDE DEF T
<1>5. Slip!read_bytes(s, x) \in T
  BY <1>2, <1>3, <1>4, ReadingStays
<1>6. PICK u \in Seq(H) : Slip!read_bytes(s, x).got = s.got \o u
  BY <1>5 DEF T
<1> QED
  BY <1>1, <1>6, PrefixOfBoth

(* What the radio's frames make.                                            *)
LEMMA ExpectedMore ==
    ASSUME NEW frames \in Seq(Bytes), NEW f \in Bytes
    PROVE  /\ Slip!Expected(frames) \in Hands
           /\ Slip!Expected(Append(frames, f)) = Slip!Expected(frames) \o Slip!HandedOn(f)
<1>1. PICK z \in Seq(Bytes) : z = <<f>>
  BY Single, Zenon
<1>2. PICK w \in Seq(Bytes) : w = Append(frames, f)
  BY AppendIs, Zenon
<1>3. w = frames \o z
  BY <1>1, <1>2
<1>4. <<>> \in Hands
  BY DEF Hands
<1>5. Slip!Expected(w) = Run(HandsOn, <<>>, w)
  BY ExpectedIsRun
<1>6. Slip!Expected(frames) = Run(HandsOn, <<>>, frames)
  BY ExpectedIsRun
<1>7. Run(HandsOn, <<>>, frames) \in Hands
  <2>1. \A t \in Hands, i \in 1 .. Len(frames) : HandsOn[<<t, frames[i]>>] \in Hands
    BY HandSteps DEF Steps
  <2> QED
    BY <1>4, <2>1, HandSteps, RunStays
<1>8. Run(HandsOn, <<>>, frames \o z) = Run(HandsOn, Run(HandsOn, <<>>, frames), z)
  <2>1. \A s \in Hands : Run(HandsOn, s, frames \o z) = Run(HandsOn, Run(HandsOn, s, frames), z)
    BY HandSteps, RunOfBoth
  <2> QED
    BY <1>4, <2>1, Zenon
<1>9. \A s \in Hands : Run(HandsOn, s, <<f>>) = HandsOn[<<s, f>>]
  BY HandSteps, RunOfOne
<1>10. \A s \in Hands : HandsOn[<<s, f>>] = s \o Slip!HandedOn(f)
  BY DEF HandsOn
<1> QED
  BY <1>1, <1>2, <1>3, <1>5, <1>6, <1>7, <1>8, <1>9, <1>10, Zenon

(* Debug output leaves the host settled, and so does the end of a frame.     *)
LEMMA QuietHandsNothing == ASSUME NEW x \in Bytes, Quiet(x), x # <<>> PROVE Slip!HandedOn(x) = <<>>
<1>1. Len(x) \in Nat /\ Len(x) # 0
  BY DEF Bytes
<1>2. \A i \in 1 .. Len(x) : x[i] \in Slip!Printable
  BY DEF Quiet, Debug, Slip!Printable
<1>3. Slip!is_sensible_string(x)
  <2>1. \A i \in 2 .. Len(x) : i \in 1 .. Len(x)
    BY <1>1
  <2> QED
    BY <1>2, <2>1 DEF Slip!is_sensible_string
<1>4. x[1] \in Debug
  <2>1. 1 \in 1 .. Len(x)
    BY <1>1
  <2> QED
    BY <2>1 DEF Quiet
<1> QED
  BY <1>3, <1>4 DEF Slip!HandedOn, Debug, Slip!Newline, Slip!DEBUG_LINE_MARKER

LEMMA FreshSettled ==
    ASSUME NEW v \in BOOLEAN, NEW g \in Hands, NEW t \in Settled(g, v)
    PROVE  \E x \in Bytes : Quiet(x) /\ Slip!Fresh(t) = In(x, FALSE, g, v)
<1>1. t \in Readings /\ t.verbose = v /\ t.esc = FALSE /\ Quiet(t.inbuf) /\ t.got = g
  BY InIs DEF Settled, Room
<1>2. t.inbuf \in Bytes /\ t = In(t.inbuf, t.esc, t.got, t.verbose)
  BY <1>1, InIs
<1>3. <<>> \in Bytes /\ Quiet(<<>>)
  BY DEF Bytes, Quiet
<1>4. [t EXCEPT !.inbuf = <<>>] = In(<<>>, t.esc, t.got, t.verbose)
  BY <1>1 DEF In, Readings
<1>5. CASE Len(t.inbuf) >= InSize /\ ~t.esc
  <2>1. Slip!Fresh(t) = [t EXCEPT !.inbuf = <<>>]
    BY <1>5, Zenon DEF Slip!Fresh
  <2> QED
    BY <1>1, <1>3, <1>4, <2>1, Zenon
<1>6. CASE ~(Len(t.inbuf) >= InSize /\ ~t.esc)
  <2>1. Slip!Fresh(t) = t
    BY <1>6, Zenon DEF Slip!Fresh
  <2> QED
    BY <1>1, <1>2, <2>1, Zenon
<1> QED
  BY <1>5, <1>6

LEMMA EndSettles ==
    ASSUME NEW v \in BOOLEAN, NEW g \in Hands, NEW t \in Settled(g, v)
    PROVE  Slip!read_byte(t, Slip!SLIP_END) = In(<<>>, FALSE, g, v)
<1>1. PICK x \in Bytes : Quiet(x) /\ Slip!Fresh(t) = In(x, FALSE, g, v)
  BY FreshSettled
<1>2. PICK s \in Readings : s = In(x, FALSE, g, v)
  BY InType
<1>3. s.inbuf = x /\ s.esc = FALSE /\ s.got = g /\ s.verbose = v
  BY <1>2 DEF In
<1>4. PICK h : h = IF s.inbuf = <<>> THEN s.got ELSE s.got \o Slip!HandedOn(s.inbuf)
  OBVIOUS
<1>5. Slip!read_byte(t, Slip!SLIP_END) = [s EXCEPT !.inbuf = <<>>, !.got = h]
  BY <1>1, <1>2, <1>3, <1>4 DEF Slip!read_byte, Slip!SLIP_ESC, Slip!SLIP_END
<1>6. h = g
  <2>1. CASE x = <<>>
    BY <1>3, <1>4, <2>1
  <2>2. CASE x # <<>>
    <3>1. Slip!HandedOn(x) = <<>>
      BY <1>1, <2>2, QuietHandsNothing
    <3>2. g \o <<>> = g
      BY DEF Hands
    <3> QED
      BY <1>3, <1>4, <2>2, <3>1, <3>2, Zenon
  <2> QED
    BY <2>1, <2>2
<1>7. [s EXCEPT !.inbuf = <<>>, !.got = h] = In(<<>>, s.esc, h, s.verbose)
  BY WithFrame, Zenon
<1> QED
  BY <1>3, <1>5, <1>6, <1>7, Zenon

LEMMA NothingSettled ==
    ASSUME NEW v \in BOOLEAN, NEW g \in Hands PROVE In(<<>>, FALSE, g, v) \in Settled(g, v)
<1>1. <<>> \in Bytes /\ Quiet(<<>>) /\ InSize \in Nat /\ Len(<<>>) = 0
  BY NodesAssumption DEF Bytes, Quiet, Slip!SlipAssumption
<1>2. In(<<>>, FALSE, g, v) \in Readings
  BY <1>1, InType
<1> QED
  BY <1>1, <1>2 DEF Settled, Room, In

LEMMA SettledKept ==
    ASSUME NEW v \in BOOLEAN, NEW g \in Hands, NEW t \in Settled(g, v), NEW c \in {Slip!SLIP_END} \cup Debug
    PROVE  Slip!read_byte(t, c) \in Settled(g, v)
<1>1. CASE c = Slip!SLIP_END
  <2>1. Slip!read_byte(t, Slip!SLIP_END) = In(<<>>, FALSE, g, v)
    BY EndSettles
  <2>2. In(<<>>, FALSE, g, v) \in Settled(g, v)
    BY NothingSettled
  <2> QED
    BY <1>1, <2>1, <2>2, Zenon
<1>2. CASE c \in Debug
  <2>1. PICK x \in Bytes : Quiet(x) /\ Slip!Fresh(t) = In(x, FALSE, g, v)
    BY FreshSettled
  <2>2. PICK s \in Readings : s = In(x, FALSE, g, v)
    BY InType
  <2>3. s.inbuf = x /\ s.esc = FALSE /\ s.got = g /\ s.verbose = v
    BY <2>2 DEF In
  <2>4. c \in Octets /\ c \notin {Slip!SLIP_ESC, Slip!SLIP_END}
    BY <1>2, OctetsOf DEF Debug, Slip!SLIP_ESC, Slip!SLIP_END, Slip!Newline, Slip!DEBUG_LINE_MARKER
  <2>5. Slip!read_byte(t, c) = Slip!Store(s, c)
    BY <2>1, <2>2, <2>3, <2>4 DEF Slip!read_byte
  <2>6. PICK y : y = IF s.verbose /\ c = Slip!Newline /\ Slip!is_sensible_string(Append(s.inbuf, c)) THEN <<>>
                     ELSE Append(s.inbuf, c)
    OBVIOUS
  <2>7. Slip!Store(s, c) = In(y, FALSE, g, v)
    <3>1. Slip!Store(s, c) = [s EXCEPT !.esc = FALSE, !.inbuf = y]
      BY <2>6, Zenon DEF Slip!Store
    <3> QED
      BY <2>3, <3>1, WithByte, Zenon
  <2>8. Quiet(y)
    <3>1. Quiet(<<>>)
      BY DEF Quiet
    <3>2. PICK z \in Seq(Octets) : z = Append(x, c)
      BY <2>4, AppendIs, Zenon DEF Bytes
    <3>3. Len(z) = Len(x) + 1 /\ z[Len(x) + 1] = c /\ \A i \in 1 .. Len(x) : z[i] = x[i]
      BY <2>4, <3>2 DEF Bytes
    <3>4. Len(x) \in Nat
      BY DEF Bytes
    <3>5. \A i \in 1 .. Len(x) + 1 : i \in 1 .. Len(x) \/ i = Len(x) + 1
      BY <3>4
    <3>6. Quiet(z)
      BY <1>2, <2>1, <3>3, <3>5 DEF Quiet
    <3> QED
      BY <2>3, <2>6, <3>1, <3>2, <3>6, Zenon
  <2>9. In(y, FALSE, g, v) \in Room(v)
    <3>1. t \in Room(v)
      BY DEF Settled
    <3>2. Slip!read_byte(t, c) \in Room(v)
      BY <2>4, <3>1, RoomKept
    <3> QED
      BY <2>5, <2>7, <3>2
  <2>10. In(y, FALSE, g, v).inbuf = y /\ In(y, FALSE, g, v).esc = FALSE /\ In(y, FALSE, g, v).got = g
    BY DEF In
  <2>11. In(y, FALSE, g, v) \in Settled(g, v)
    BY <2>8, <2>9, <2>10 DEF Settled
  <2> QED
    BY <2>5, <2>7, <2>11
<1> QED
  BY <1>1, <1>2

LEMMA StaysSettled ==
    ASSUME NEW v \in BOOLEAN, NEW g \in Hands, NEW t \in Settled(g, v), NEW x \in Bytes,
           \A i \in 1 .. Len(x) : x[i] \in {Slip!SLIP_END} \cup Debug
    PROVE  Slip!read_bytes(t, x) \in Settled(g, v)
<1>1. Settled(g, v) \subseteq Readings
  BY DEF Settled, Room
<1> QED
  BY <1>1, SettledKept, ReadingStays

(* A frame that fits, from its first byte to its last.                      *)
LEMMA ReadsEscape ==
    ASSUME NEW x \in Bytes, Len(x) < InSize, NEW g \in Hands, NEW v \in BOOLEAN, NEW c \in Octets,
           v => c # Slip!Newline
    PROVE  Slip!read_bytes(In(x, FALSE, g, v), Slip!Escape(c)) = In(Append(x, c), FALSE, g, v)
<1> DEFINE plain == In(x, FALSE, g, v)
           half == In(x, TRUE, g, v)
<1>0. plain \in Readings /\ half \in Readings
  BY InType
<1>1. CASE c \notin {Slip!SLIP_ESC, Slip!SLIP_END}
  <2>1. Slip!Escape(c) = <<c>>
    BY <1>1 DEF Slip!Escape
  <2>2. Slip!read_byte(plain, c) = In(Append(x, c), FALSE, g, v)
    BY <1>1, ReadsOther
  <2> HIDE DEF plain
  <2>3. Slip!read_bytes(plain, <<c>>) = Slip!read_byte(plain, c)
    BY <1>0, ReadingOne
  <2> QED
    BY <2>1, <2>2, <2>3, Zenon DEF plain
<1>2. ASSUME NEW d \in Octets, Slip!Escape(c) = <<Slip!SLIP_ESC, d>>, Slip!Unescaped(d) = c
      PROVE  Slip!read_bytes(In(x, FALSE, g, v), Slip!Escape(c)) = In(Append(x, c), FALSE, g, v)
  <2>1. PICK e \in Octets : e = Slip!SLIP_ESC
    BY OctetsOf
  <2>2. <<e, d>> = <<e>> \o <<d>> /\ <<e>> \in Bytes /\ <<d>> \in Bytes
    BY DEF Bytes
  <2>3. Slip!read_byte(plain, e) = half
    BY <2>1, ReadsFirst
  <2>4. Slip!read_byte(half, d) = In(Append(x, Slip!Unescaped(d)), FALSE, g, v)
    <3>1. v => Slip!Unescaped(d) # Slip!Newline
      BY <1>2
    <3> QED
      BY <3>1, ReadsSecond, Zenon
  <2> HIDE DEF plain, half
  <2>5. Slip!read_bytes(plain, <<e>>) = Slip!read_byte(plain, e) /\ Slip!read_bytes(half, <<d>>) = Slip!read_byte(half, d)
    BY <1>0, ReadingOne
  <2>6. Slip!read_bytes(plain, <<e>> \o <<d>>) = Slip!read_bytes(Slip!read_bytes(plain, <<e>>), <<d>>)
    BY <1>0, <2>2, ReadingBoth
  <2>7. Slip!Escape(c) = <<e>> \o <<d>>
    BY <1>2, <2>1, <2>2, Zenon
  <2>8. Slip!read_bytes(plain, <<e>> \o <<d>>) = In(Append(x, c), FALSE, g, v)
    BY <1>2, <2>3, <2>4, <2>5, <2>6, Zenon
  <2> QED
    BY <2>7, <2>8, Zenon DEF plain
<1>3. CASE c = Slip!SLIP_END
  <2>1. Slip!Escape(c) = <<Slip!SLIP_ESC, Slip!SLIP_ESC_END>> /\ Slip!Unescaped(Slip!SLIP_ESC_END) = c
    BY <1>3 DEF Slip!Escape, Slip!Unescaped, Slip!SLIP_END, Slip!SLIP_ESC, Slip!SLIP_ESC_END, Slip!SLIP_ESC_ESC
  <2> QED
    BY <1>2, <2>1, OctetsOf
<1>4. CASE c = Slip!SLIP_ESC
  <2>1. Slip!Escape(c) = <<Slip!SLIP_ESC, Slip!SLIP_ESC_ESC>> /\ Slip!Unescaped(Slip!SLIP_ESC_ESC) = c
    BY <1>4 DEF Slip!Escape, Slip!Unescaped, Slip!SLIP_END, Slip!SLIP_ESC, Slip!SLIP_ESC_END, Slip!SLIP_ESC_ESC
  <2> QED
    BY <1>2, <2>1, OctetsOf
<1> QED
  BY <1>1, <1>3, <1>4

Fits(f, v) == Len(f) < InSize /\ (v => \A i \in 1 .. Len(f) : f[i] # Slip!Newline)

LEMMA ReadsEscaped ==
    ASSUME NEW f \in Bytes, NEW g \in Hands, NEW v \in BOOLEAN, Fits(f, v)
    PROVE  Slip!read_bytes(In(<<>>, FALSE, g, v), Slip!Escaped(f)) = In(f, FALSE, g, v)
<1> DEFINE T == {x \in Bytes : Slip!read_bytes(In(<<>>, FALSE, g, v), Slip!Escaped(x)) = In(x, FALSE, g, v)}
<1>1. <<>> \in Bytes /\ f \in Seq(Octets)
  BY DEF Bytes
<1>2. In(<<>>, FALSE, g, v) \in Readings
  BY <1>1, InType
<1>3. <<>> \in T
  BY <1>1, <1>2, EscapedNone, ReadingNone, Zenon
<1>4. ASSUME NEW x \in T, Len(x) < InSize, NEW c \in Octets, v => c # Slip!Newline PROVE Append(x, c) \in T
  <2>1. x \in Bytes /\ Append(x, c) \in Bytes
    BY DEF Bytes
  <2>2. Slip!Escaped(Append(x, c)) = Slip!Escaped(x) \o Slip!Escape(c) /\ Slip!Escaped(x) \in Bytes
    BY <2>1, EscapedMore
  <2>3. Slip!Escape(c) \in Bytes
    BY EscapeType
  <2>4. Slip!read_bytes(In(<<>>, FALSE, g, v), Slip!Escaped(x) \o Slip!Escape(c)) =
            Slip!read_bytes(Slip!read_bytes(In(<<>>, FALSE, g, v), Slip!Escaped(x)), Slip!Escape(c))
    BY <1>2, <2>2, <2>3, ReadingBoth
  <2>5. Slip!read_bytes(In(<<>>, FALSE, g, v), Slip!Escaped(x)) = In(x, FALSE, g, v)
    OBVIOUS
  <2>6. Slip!read_bytes(In(x, FALSE, g, v), Slip!Escape(c)) = In(Append(x, c), FALSE, g, v)
    BY <1>4, <2>1, ReadsEscape
  <2> QED
    BY <2>1, <2>2, <2>4, <2>5, <2>6, Zenon
<1>5. \A i \in 1 .. Len(f) : SubSeq(f, 1, i - 1) \in T => Append(SubSeq(f, 1, i - 1), f[i]) \in T
  <2>1. ASSUME NEW i \in 1 .. Len(f) PROVE f[i] \in Octets /\ Len(SubSeq(f, 1, i - 1)) < InSize /\ (v => f[i] # Slip!Newline)
    <3>1. InSize \in Nat
      BY NodesAssumption DEF Slip!SlipAssumption
    <3>2. Len(SubSeq(f, 1, i - 1)) = i - 1 /\ Len(f) \in Nat
      BY <1>1
    <3> QED
      BY <1>1, <3>1, <3>2 DEF Fits
  <2>2. \A x \in T, c \in Octets : Len(x) < InSize /\ (v => c # Slip!Newline) => Append(x, c) \in T
    BY <1>4
  <2> HIDE DEF T
  <2> QED
    BY <2>1, <2>2, Zenon
<1> HIDE DEF T
<1>6. f \in T
  BY <1>1, <1>3, <1>5, Piecewise
<1> QED
  BY <1>6 DEF T

LEMMA ReadsFrame ==
    ASSUME NEW v \in BOOLEAN, NEW s \in Readings, NEW g \in Hands, NEW w \in Bytes,
           Slip!read_bytes(s, w) \in Settled(g, v), NEW f \in Bytes, f # <<>>, Fits(f, v)
    PROVE  /\ w \o <<Slip!SLIP_END>> \o Slip!Escaped(f) \o <<Slip!SLIP_END>> \in Bytes
           /\ Slip!read_bytes(s, w \o <<Slip!SLIP_END>> \o Slip!Escaped(f) \o <<Slip!SLIP_END>>) \in
                  Settled(g \o Slip!HandedOn(f), v)
<1>1. PICK e \in Bytes : e = <<Slip!SLIP_END>>
  BY OctetsOf, Single, Zenon DEF Bytes
<1>2. PICK b \in Bytes : b = Slip!Escaped(f)
  BY EscapedPlain
<1>3. PICK x \in Bytes : x = w \o e
  <2>1. w \o e \in Bytes
    BY ConcatProperties DEF Bytes
  <2> QED
    BY <2>1
<1>4. PICK y \in Bytes : y = x \o b
  <2>1. x \o b \in Bytes
    BY ConcatProperties DEF Bytes
  <2> QED
    BY <2>1
<1>5. PICK z \in Bytes : z = y \o e
  <2>1. y \o e \in Bytes
    BY ConcatProperties DEF Bytes
  <2> QED
    BY <2>1
<1>6. PICK t \in Readings : t = Slip!read_bytes(s, w) /\ t \in Settled(g, v)
  BY ReadingType
<1>7. PICK h \in Hands : h = g \o Slip!HandedOn(f)
  <2>1. PICK d \in Hands : d = Slip!HandedOn(f)
    BY HandedOnType
  <2>2. g \o d \in Hands
    BY ConcatProperties DEF Hands
  <2> QED
    BY <2>1, <2>2
<1>8. \A r \in Readings : Slip!read_bytes(r, e) = Slip!read_byte(r, Slip!SLIP_END)
  BY <1>1, ReadingOne, OctetsOf, Zenon
<1>9. <<>> \in Bytes
  BY DEF Bytes
<1>10. In(<<>>, FALSE, g, v) \in Readings /\ In(f, FALSE, g, v) \in Readings
  BY <1>9, InType
<1>11. Slip!read_bytes(s, x) = In(<<>>, FALSE, g, v)
  <2>1. Slip!read_bytes(s, w \o e) = Slip!read_bytes(Slip!read_bytes(s, w), e)
    BY ReadingBoth
  <2>2. Slip!read_byte(t, Slip!SLIP_END) = In(<<>>, FALSE, g, v)
    BY <1>6, EndSettles
  <2> QED
    BY <1>3, <1>6, <1>8, <2>1, <2>2, Zenon
<1>12. Slip!read_bytes(s, y) = In(f, FALSE, g, v)
  <2>1. Slip!read_bytes(s, x \o b) = Slip!read_bytes(Slip!read_bytes(s, x), b)
    BY ReadingBoth
  <2>2. Slip!read_bytes(In(<<>>, FALSE, g, v), Slip!Escaped(f)) = In(f, FALSE, g, v)
    BY ReadsEscaped
  <2> QED
    BY <1>2, <1>4, <1>11, <2>1, <2>2, Zenon
<1>13. Slip!read_bytes(s, z) = In(<<>>, FALSE, h, v)
  <2>1. Slip!read_bytes(s, y \o e) = Slip!read_bytes(Slip!read_bytes(s, y), e)
    BY ReadingBoth
  <2>2. Slip!read_byte(In(f, FALSE, g, v), Slip!SLIP_END) = In(<<>>, FALSE, g \o Slip!HandedOn(f), v)
    BY ReadsEnd DEF Fits
  <2> QED
    BY <1>5, <1>7, <1>8, <1>10, <1>12, <2>1, <2>2, Zenon
<1>14. In(<<>>, FALSE, h, v) \in Settled(h, v)
  BY NothingSettled
<1>15. w \o <<Slip!SLIP_END>> \o Slip!Escaped(f) \o <<Slip!SLIP_END>> = z
  BY <1>1, <1>2, <1>3, <1>4, <1>5, Zenon
<1> QED
  BY <1>7, <1>13, <1>14, <1>15, Zenon

(* What has come is read in pieces, and an ESC that is the last byte of one  *)
(* with the next.                                                           *)
LEMMA ReadsPiece ==
    ASSUME NEW v \in BOOLEAN, NEW x \in Bytes, NEW e \in BOOLEAN, NEW g \in Hands, In(x, e, g, v) \in Room(v),
           NEW y \in Bytes
    PROVE  Slip!read_bytes(In(x, FALSE, g, v), (IF e THEN <<Slip!SLIP_ESC>> ELSE <<>>) \o y) =
               Slip!read_bytes(In(x, e, g, v), y)
<1>1. CASE ~e
  <2>1. <<>> \o y = y
    BY ConcatEmptySeq DEF Bytes
  <2>2. e = FALSE
    BY <1>1
  <2> QED
    BY <1>1, <2>1, <2>2, Zenon
<1>2. CASE e
  <2>1. PICK c \in Bytes : c = <<Slip!SLIP_ESC>>
    BY OctetsOf, Single, Zenon DEF Bytes
  <2>2. e = TRUE
    BY <1>2
  <2>3. In(x, FALSE, g, v) \in Readings
    BY InType
  <2>4. Slip!read_bytes(In(x, FALSE, g, v), c \o y) = Slip!read_bytes(Slip!read_bytes(In(x, FALSE, g, v), c), y)
    BY <2>3, ReadingBoth
  <2>5. Slip!read_bytes(In(x, FALSE, g, v), c) = Slip!read_byte(In(x, FALSE, g, v), Slip!SLIP_ESC)
    BY <2>1, <2>3, ReadingOne, OctetsOf, Zenon
  <2>6. Slip!read_byte(In(x, FALSE, g, v), Slip!SLIP_ESC) = In(x, TRUE, g, v)
    BY <2>2, ReadAgain
  <2> QED
    BY <1>2, <2>1, <2>2, <2>4, <2>5, <2>6, Zenon
<1> QED
  BY <1>1, <1>2

LEMMA HeldIs ==
    ASSUME InInv
    PROVE  /\ Held \in Readings /\ Held \in Room(verbose)
           /\ inbuf \in Bytes /\ ungot \in BOOLEAN /\ received \in Hands /\ verbose \in BOOLEAN
           /\ Len(inbuf) \in Nat /\ Len(inbuf) <= InSize /\ emitted \in Seq(Bytes)
           /\ Slip!Expected(emitted) \in Hands
<1>1. Held \in Room(verbose) /\ Held \in Readings /\ verbose \in BOOLEAN
  BY DEF InInv, Room
<1>2. Held.inbuf = inbuf /\ Held.esc = ungot /\ Held.got = received /\ Held.verbose = verbose
  BY DEF Held, In
<1>3. Held.inbuf \in Bytes /\ Len(Held.inbuf) \in Nat /\ Held.esc \in BOOLEAN /\ Held.got \in Hands
  BY <1>1, InIs
<1>4. Len(Held.inbuf) <= InSize
  BY <1>1 DEF Room
<1>5. emitted \in Seq(Bytes)
  BY DEF InInv
<1>6. Slip!Expected(emitted) \in Hands
  <2>1. <<>> \in Bytes
    BY DEF Bytes
  <2> QED
    BY <1>5, <2>1, ExpectedMore
<1> QED
  BY <1>1, <1>2, <1>3, <1>4, <1>5, <1>6, Zenon

LEMMA InBegins == Slip!Init => InInv
<1> SUFFICES ASSUME Slip!Init PROVE InInv
  OBVIOUS
<1>1. /\ inbuf = <<>> /\ ungot = FALSE /\ wire = <<>> /\ debug_frame = FALSE /\ emitted = <<>> /\ received = <<>>
      /\ traffic = 0 /\ verbose \in BOOLEAN
  BY DEF Slip!Init
<1>2. <<>> \in Bytes /\ <<>> \in Hands /\ <<>> \in Seq(Bytes \ {<<>>}) /\ <<>> \in Seq(Bytes)
  BY DEF Bytes, Hands
<1>3. Held = In(<<>>, FALSE, <<>>, verbose)
  BY <1>1 DEF Held
<1>4. Held \in Settled(<<>>, verbose)
  BY <1>1, <1>2, <1>3, NothingSettled
<1>5. Held \in Room(verbose) /\ Held \in Readings
  BY <1>4 DEF Settled, Room
<1>6. Slip!read_bytes(Held, wire) = Held
  BY <1>1, <1>5, ReadingNone
<1>7. Slip!Expected(emitted) = <<>>
  BY <1>1, <1>2, ExpectedIsRun, HandSteps, RunOfNone
<1>8. traffic \in 0 .. MaxTraffic
  BY <1>1, NodesAssumption DEF Slip!SlipAssumption
<1>9. emitted \in Seq(Bytes \ {<<>>}) /\ wire \in Bytes /\ debug_frame \in BOOLEAN
  BY <1>1, <1>2
<1>10. Slip!read_bytes(Held, wire) \in Settled(Slip!Expected(emitted), verbose)
  BY <1>4, <1>6, <1>7
<1> QED
  BY <1>1, <1>5, <1>8, <1>9, <1>10, Zenon DEF InInv

LEMMA InKeeps ==
    ASSUME InInv, UNCHANGED <<verbose, inbuf, ungot, received, wire, debug_frame, emitted>>,
           traffic' \in 0 .. MaxTraffic
    PROVE  InInv'
<1>1. Held' = Held
  BY DEF Held, In
<1>2. Slip!Fitting(emitted)' = Slip!Fitting(emitted)
  BY DEF Slip!Fitting
<1> QED
  BY <1>1, <1>2 DEF InInv

LEMMA SerialKeeps ==
    ASSUME InInv, NEW n \in 1 .. Len(wire), Slip!serial_input(n) PROVE InInv'
<1>1. wire \in Seq(Octets) /\ Len(wire) \in Nat /\ n \in Nat /\ n <= Len(wire)
  BY DEF InInv, Bytes
<1>2. PICK x \in Seq(Octets) : IsSlice(x, wire, 0, n)
  BY <1>1, Slice
<1>3. PICK y \in Seq(Octets) : IsSlice(y, wire, n, Len(wire))
  <2>1. PICK m \in Nat : m = Len(wire) /\ n <= m /\ m <= Len(wire)
    BY <1>1
  <2>2. \E r \in Seq(Octets) : IsSlice(r, wire, n, m)
    BY <1>1, <2>1, Slice, SMTT(30)
  <2> QED
    BY <2>1, <2>2, Zenon
<1>4. x = SubSeq(wire, 1, n) /\ y = SubSeq(wire, n + 1, Len(wire))
  BY <1>2, <1>3 DEF IsSlice
<1>5. wire = x \o y
  <2>1. 1 \in 1 .. Len(wire) + 1 /\ n \in 1 - 1 .. Len(wire) /\ Len(wire) \in n .. Len(wire)
    BY <1>1
  <2>2. SubSeq(wire, 1, n) \o SubSeq(wire, n + 1, Len(wire)) = SubSeq(wire, 1, Len(wire))
    BY <1>1, <2>1, ConcatAdjacentSubSeq
  <2>3. SubSeq(wire, 1, Len(wire)) = wire
    BY <1>1, SubSeqFull
  <2>4. x \o y = SubSeq(wire, 1, Len(wire))
    BY <1>4, <2>2, Zenon
  <2> QED
    BY <2>3, <2>4, Zenon
<1>6. x \in Bytes /\ y \in Bytes
  BY DEF Bytes
<1>7. /\ Held \in Readings /\ Held \in Room(verbose) /\ inbuf \in Bytes /\ ungot \in BOOLEAN /\ received \in Hands
      /\ verbose \in BOOLEAN
  BY HeldIs
<1>8. PICK s : s = Slip!read_bytes(In(inbuf, FALSE, received, verbose),
                                   (IF ungot THEN <<Slip!SLIP_ESC>> ELSE <<>>) \o x)
  OBVIOUS
<1>9. /\ inbuf' = s.inbuf /\ ungot' = s.esc /\ received' = s.got /\ wire' = y
      /\ UNCHANGED <<verbose, debug_frame, emitted, traffic>>
  BY <1>4, <1>8 DEF Slip!serial_input, In
<1>10. s = Slip!read_bytes(Held, x)
  <2>1. In(inbuf, ungot, received, verbose) \in Room(verbose)
    BY <1>7 DEF Held
  <2>2. x \in Bytes /\ inbuf \in Bytes /\ ungot \in BOOLEAN /\ received \in Hands /\ verbose \in BOOLEAN
    BY <1>6, <1>7
  <2>3. Slip!read_bytes(In(inbuf, FALSE, received, verbose), (IF ungot THEN <<Slip!SLIP_ESC>> ELSE <<>>) \o x) =
            Slip!read_bytes(In(inbuf, ungot, received, verbose), x)
    BY <2>1, <2>2, ReadsPiece, ZenonT(30)
  <2> QED
    BY <1>8, <2>3, Zenon DEF Held
<1>11. s \in Room(verbose)
  BY <1>6, <1>7, <1>10, ReadingInRoom
<1>12. Held' = s
  <2>1. s \in Readings /\ s.verbose = verbose
    BY <1>11 DEF Room
  <2>2. s = In(s.inbuf, s.esc, s.got, s.verbose)
    BY <2>1, InIs
  <2>3. Held' = In(inbuf', ungot', received', verbose')
    BY DEF Held, In
  <2> QED
    BY <1>9, <2>1, <2>2, <2>3, Zenon
<1>13. Slip!read_bytes(Held, wire) = Slip!read_bytes(s, wire')
  BY <1>5, <1>6, <1>7, <1>9, <1>10, ReadingBoth, Zenon
<1>14. Slip!Fitting(emitted)' = Slip!Fitting(emitted)
  BY <1>9 DEF Slip!Fitting
<1> QED
  BY <1>6, <1>9, <1>11, <1>12, <1>13, <1>14 DEF InInv

LEMMA FrameKeeps ==
    ASSUME InInv, NEW frame \in Frames, Slip!slip_send_packet(frame) PROVE InInv'
<1>1. frame \in Bytes /\ frame # <<>> /\ MaxTraffic \in Nat
  BY NodesAssumption DEF Slip!SlipAssumption, Bytes
<1>2. /\ wire' = wire \o <<Slip!SLIP_END>> \o Slip!Escaped(frame) \o <<Slip!SLIP_END>>
      /\ emitted' = Append(emitted, frame) /\ traffic < MaxTraffic /\ traffic' = traffic + 1
      /\ UNCHANGED <<verbose, inbuf, ungot, received, debug_frame>>
  BY DEF Slip!slip_send_packet, Slip!input
<1>3. /\ Held \in Readings /\ Held \in Room(verbose) /\ verbose \in BOOLEAN /\ emitted \in Seq(Bytes)
      /\ Slip!Expected(emitted) \in Hands
  BY HeldIs
<1>4. wire \in Bytes /\ emitted \in Seq(Bytes \ {<<>>}) /\ traffic \in 0 .. MaxTraffic /\ debug_frame \in BOOLEAN
  BY DEF InInv
<1>5. Held' = Held /\ verbose' = verbose
  BY <1>2 DEF Held, In
<1>6. emitted' \in Seq(Bytes \ {<<>>}) /\ traffic' \in 0 .. MaxTraffic /\ debug_frame' \in BOOLEAN
  BY <1>1, <1>2, <1>4
<1>7. Slip!Expected(emitted') = Slip!Expected(emitted) \o Slip!HandedOn(frame)
  BY <1>1, <1>2, <1>3, ExpectedMore
<1>8. wire' \in Bytes
  <2>1. PICK e \in Seq(Octets) : e = <<Slip!SLIP_END>>
    BY OctetsOf, Single, Zenon
  <2>2. PICK b \in Seq(Octets) : b = Slip!Escaped(frame)
    BY <1>1, EscapedPlain DEF Bytes
  <2>3. wire \o e \o b \o e \in Seq(Octets)
    BY <1>4 DEF Bytes
  <2> QED
    BY <1>2, <2>1, <2>2, <2>3, Zenon DEF Bytes
<1>9. ASSUME Slip!Fitting(emitted)'
      PROVE  Slip!read_bytes(Held, wire') \in Settled(Slip!Expected(emitted'), verbose)
  <2>1. Slip!Fitting(emitted) /\ Fits(frame, verbose)
    <3>1. /\ Len(emitted) \in Nat /\ Len(emitted') = Len(emitted) + 1 /\ emitted'[Len(emitted) + 1] = frame
          /\ \A i \in 1 .. Len(emitted) : emitted'[i] = emitted[i]
      BY <1>1, <1>2, <1>3
    <3>2. DOMAIN emitted' = 1 .. Len(emitted) + 1 /\ DOMAIN emitted = 1 .. Len(emitted)
      BY <1>1, <1>2, <1>3, <3>1
    <3>3. \A i \in 1 .. Len(emitted) + 1 :
              /\ Len(emitted'[i]) < InSize
              /\ verbose => \A j \in DOMAIN emitted'[i] : emitted'[i][j] # Slip!Newline
      BY <1>2, <1>9, <3>2 DEF Slip!Fitting
    <3>4. Len(emitted) + 1 \in 1 .. Len(emitted) + 1 /\ \A i \in 1 .. Len(emitted) : i \in 1 .. Len(emitted) + 1
      BY <3>1
    <3>5. DOMAIN frame = 1 .. Len(frame)
      BY <1>1 DEF Bytes
    <3>6. Fits(frame, verbose)
      BY <3>1, <3>3, <3>4, <3>5 DEF Fits
    <3>7. Slip!Fitting(emitted)
      BY <3>1, <3>2, <3>3, <3>4, Zenon DEF Slip!Fitting
    <3> QED
      BY <3>6, <3>7
  <2>2. Slip!read_bytes(Held, wire) \in Settled(Slip!Expected(emitted), verbose)
    BY <2>1 DEF InInv
  <2> QED
    BY <1>1, <1>2, <1>3, <1>4, <1>7, <2>1, <2>2, ReadsFrame, Zenon
<1> QED
  BY <1>3, <1>5, <1>6, <1>8, <1>9 DEF InInv

LEMMA PutcharKeeps ==
    ASSUME InInv, NEW c \in {"a", Slip!Newline}, Slip!putchar(c) PROVE InInv'
<1> DEFINE Quiets == {Slip!SLIP_END} \cup Debug
<1>1. PICK x : x = IF debug_frame THEN <<>> ELSE <<Slip!SLIP_END, Slip!DEBUG_LINE_MARKER>>
  OBVIOUS
<1>2. PICK y : y = IF c = Slip!Newline THEN <<c, Slip!SLIP_END>> ELSE <<c>>
  OBVIOUS
<1>3. c \in Quiets /\ Slip!SLIP_END \in Quiets /\ Slip!DEBUG_LINE_MARKER \in Quiets /\ Quiets \subseteq Octets
  BY OctetsOf DEF Debug
<1> HIDE DEF Quiets
<1>4. x \in Seq(Quiets) /\ y \in Seq(Quiets)
  <2>1. <<>> \in Seq(Quiets)
    OBVIOUS
  <2>2. <<Slip!SLIP_END, Slip!DEBUG_LINE_MARKER>> \in Seq(Quiets) /\ <<c, Slip!SLIP_END>> \in Seq(Quiets)
    BY <1>3, Double, Zenon
  <2>3. <<c>> \in Seq(Quiets)
    BY <1>3, Single, Zenon
  <2> QED
    BY <1>1, <1>2, <2>1, <2>2, <2>3, Zenon
<1>5. wire \in Bytes /\ traffic \in 0 .. MaxTraffic /\ MaxTraffic \in Nat
  BY NodesAssumption DEF InInv, Slip!SlipAssumption
<1>6. /\ wire' = (wire \o x) \o y /\ debug_frame' \in BOOLEAN /\ traffic' \in 0 .. MaxTraffic
      /\ UNCHANGED <<verbose, inbuf, ungot, received, emitted>>
  <2>1. /\ wire' = wire \o (IF debug_frame THEN <<>> ELSE <<Slip!SLIP_END, Slip!DEBUG_LINE_MARKER>>)
                        \o (IF c = Slip!Newline THEN <<c, Slip!SLIP_END>> ELSE <<c>>)
        /\ debug_frame' = (c # Slip!Newline) /\ traffic < MaxTraffic /\ traffic' = traffic + 1
        /\ UNCHANGED <<verbose, inbuf, ungot, received, emitted>>
    BY Zenon DEF Slip!putchar, Slip!input
  <2>2. wire' = (wire \o x) \o y
    BY <1>1, <1>2, <2>1, Zenon
  <2> QED
    <3>1. debug_frame' \in BOOLEAN
      BY <2>1
    <3>2. traffic < MaxTraffic /\ traffic' = traffic + 1
      BY <2>1, Zenon
    <3>3. traffic' \in 0 .. MaxTraffic
      BY <1>5, <3>2
    <3> QED
      BY <2>1, <2>2, <3>1, <3>3, Zenon
<1>7. x \in Bytes /\ y \in Bytes
  <2>1. ASSUME NEW z \in Seq(Quiets) PROVE z \in Seq(Octets)
    <3>1. \A i \in 1 .. Len(z) : z[i] \in Quiets
      OBVIOUS
    <3>2. \A i \in 1 .. Len(z) : z[i] \in Octets
      BY <1>3, <3>1
    <3>3. Len(z) \in Nat /\ z = [i \in 1 .. Len(z) |-> z[i]]
      OBVIOUS
    <3> QED
      BY <3>2, <3>3
  <2> QED
    BY <1>4, <2>1 DEF Bytes
<1>8. wire \o x \in Bytes /\ (wire \o x) \o y \in Bytes
  BY <1>5, <1>7 DEF Bytes
<1>9. (\A i \in 1 .. Len(x) : x[i] \in Quiets) /\ (\A i \in 1 .. Len(y) : y[i] \in Quiets)
  BY <1>4
<1>10. /\ Held \in Readings /\ Held \in Room(verbose) /\ verbose \in BOOLEAN /\ Slip!Expected(emitted) \in Hands
       /\ emitted \in Seq(Bytes \ {<<>>})
  BY HeldIs DEF InInv
<1>11. ASSUME Slip!Fitting(emitted)
       PROVE  Slip!read_bytes(Held, (wire \o x) \o y) \in Settled(Slip!Expected(emitted), verbose)
  <2>1. PICK g \in Hands : g = Slip!Expected(emitted)
    BY <1>10
  <2>2. Slip!read_bytes(Held, wire) \in Settled(g, verbose)
    BY <1>11, <2>1 DEF InInv
  <2>3. Slip!read_bytes(Slip!read_bytes(Held, wire), x) \in Settled(g, verbose)
    BY <1>7, <1>9, <1>10, <2>2, StaysSettled DEF Quiets
  <2>4. Slip!read_bytes(Slip!read_bytes(Slip!read_bytes(Held, wire), x), y) \in Settled(g, verbose)
    BY <1>7, <1>9, <1>10, <2>3, StaysSettled DEF Quiets
  <2>5. Slip!read_bytes(Held, wire \o x) = Slip!read_bytes(Slip!read_bytes(Held, wire), x)
    BY <1>5, <1>7, <1>10, ReadingBoth
  <2>6. PICK wx \in Bytes : wx = wire \o x
    BY <1>8
  <2>7. Slip!read_bytes(Held, wx \o y) = Slip!read_bytes(Slip!read_bytes(Held, wx), y)
    BY <1>7, <1>10, ReadingBoth
  <2> QED
    BY <2>1, <2>4, <2>5, <2>6, <2>7, Zenon
<1>12. Held' = Held /\ Slip!Fitting(emitted)' = Slip!Fitting(emitted) /\ verbose' = verbose
  BY <1>6 DEF Held, In, Slip!Fitting
<1> QED
  BY <1>6, <1>8, <1>10, <1>11, <1>12 DEF InInv

LEMMA InStep == ASSUME InInv, Slip!Next PROVE InInv'
<1>1. traffic \in 0 .. MaxTraffic /\ MaxTraffic \in Nat
  BY NodesAssumption DEF InInv, Slip!SlipAssumption
<1>2. ASSUME NEW packet \in SlipPackets, Slip!write_to_slip(packet) PROVE InInv'
  <2>1. traffic' \in 0 .. MaxTraffic /\ UNCHANGED <<verbose, inbuf, ungot, received, wire, debug_frame, emitted>>
    BY <1>1, <1>2 DEF Slip!write_to_slip, Slip!input, Slip!radio
  <2> QED
    BY <2>1, InKeeps
<1>3. ASSUME NEW n \in 1 .. Len(wire), Slip!serial_input(n) PROVE InInv'
  BY <1>3, SerialKeeps
<1>4. ASSUME NEW n \in 1 .. slip_packet_end - slip_begin, Slip!slip_flushbuf(n) PROVE InInv'
  BY <1>1, <1>4, InKeeps DEF Slip!slip_flushbuf, Slip!input, Slip!radio
<1>5. CASE Slip!write_fails \/ Slip!read_fails
  BY <1>1, <1>5, InKeeps DEF Slip!write_fails, Slip!read_fails, Slip!input, Slip!radio
<1>6. CASE Slip!timer_expired
  BY <1>1, <1>6, InKeeps DEF Slip!timer_expired, Slip!input, Slip!radio
<1>7. ASSUME NEW frame \in Frames, Slip!slip_send_packet(frame) PROVE InInv'
  BY <1>7, FrameKeeps
<1>8. ASSUME NEW c \in {"a", Slip!Newline}, Slip!putchar(c) PROVE InInv'
  BY <1>8, PutcharKeeps
<1> QED
  BY <1>2, <1>3, <1>4, <1>5, <1>6, <1>7, <1>8 DEF Slip!Next, Slip!handle_fd

(* What the run checks of the radio's side follows.                         *)
LEMMA InShows == InInv => Slip!FramesReceived
<1> SUFFICES ASSUME InInv, Slip!Fitting(emitted)
             PROVE  IF wire = <<>> THEN received = Slip!Expected(emitted)
                    ELSE Slip!IsPrefix(received, Slip!Expected(emitted))
  BY DEF Slip!FramesReceived
<1>1. Held \in Readings
  BY HeldIs
<1>2. Held.got = received
  BY DEF Held, In
<1>3. wire \in Bytes /\ Slip!read_bytes(Held, wire).got = Slip!Expected(emitted)
  BY DEF InInv, Settled
<1>4. CASE wire = <<>>
  <2>1. Slip!read_bytes(Held, <<>>) = Held
    BY <1>1, ReadingNone
  <2> QED
    BY <1>2, <1>3, <1>4, <2>1, Zenon
<1>5. CASE wire # <<>>
  <2>1. Slip!IsPrefix(Held.got, Slip!read_bytes(Held, wire).got)
    BY <1>1, <1>3, ReadingGrows
  <2> QED
    BY <1>2, <1>3, <1>5, <2>1, Zenon
<1> QED
  BY <1>4, <1>5

-----------------------------------------------------------------------------
(* The programs side by side: each keeps its own invariant, which a step of *)
(* another program does not touch.                                          *)
NodesInv ==
    /\ IInv
    /\ program = "border-router" => Router!IInv /\ Router!Settled
    /\ program = "serial-line" => OutInv /\ InInv

LEMMA NoMoteInv == NoMote => IInv
<1> SUFFICES ASSUME NoMote PROVE IInv
  OBVIOUS
<1>1. RequestsConsistent
  <2>1. TypeOK
    <3>1. up \in BOOLEAN
      BY DEF NoMote
    <3> QED
      BY <3>1, TriesAssumption DEF NoMote, TypeOK
  <2>2. TimerWhileYielded /\ ReturnedForGood
    BY DEF NoMote, TimerWhileYielded, ReturnedForGood, Returned
  <2> QED
    BY <2>1, <2>2 DEF RequestsConsistent
<1>2. UsedOnce /\ AwaitsOwn /\ TakesOwn /\ Counted
  BY TriesAssumption DEF NoMote, UsedOnce, AwaitsOwn, Own, TakesOwn, Counted
<1> QED
  BY <1>1, <1>2 DEF IInv

LEMMA RouterBegins == ASSUME Router!Init PROVE Router!IInv /\ Router!Settled
<1>1. Router!IInv
  BY NodesAssumption, Router!InitIInv
<1>2. Router!Settled
  BY DEF Router!Init, Router!Settled
<1> QED
  BY <1>1, <1>2

LEMMA RouterGoesOn ==
    ASSUME Router!IInv, Router!Settled, [Router!Next]_(Router!vars) PROVE Router!IInv' /\ Router!Settled'
<1>1. Router!IInv'
  BY NodesAssumption, Router!NextIInv
<1>2. Router!Settled'
  BY NodesAssumption, Router!SettledStep, Router!SettledStutter
<1> QED
  BY <1>1, <1>2

LEMMA NodesBegin == AllInit => NodesInv
  BY InitIInv, NoMoteInv, RouterBegins, OutBegins, InBegins DEF AllInit, NodesInv

LEMMA RouterRests == UNCHANGED router => UNCHANGED Router!vars
  BY DEF router, Router!vars, Router!host, Router!rdc, Router!firmware

LEMMA SlipRests == ASSUME OutInv, InInv, UNCHANGED slip PROVE OutInv' /\ InInv'
<1>1. traffic' \in 0 .. MaxTraffic /\ waiting' \in BOOLEAN
  BY DEF OutInv, InInv, slip
<1> QED
  BY <1>1, OutKeeps, InKeeps DEF slip

LEMMA NodesStep == NodesInv /\ [AllNext]_allvars => NodesInv'
<1> SUFFICES ASSUME NodesInv, [AllNext]_allvars PROVE NodesInv'
  OBVIOUS
<1>1. program' = program
  BY DEF AllNext, allvars
<1>2. [Next]_vars /\ IInv
  BY DEF AllNext, allvars, NodesInv
<1>3. program = "border-router" => [Router!Next]_(Router!vars) /\ Router!IInv /\ Router!Settled
  BY RouterRests DEF AllNext, allvars, NodesInv
<1>4. ASSUME program = "serial-line" PROVE OutInv' /\ InInv'
  <2>1. OutInv /\ InInv /\ (Slip!Next \/ UNCHANGED slip)
    BY <1>4 DEF AllNext, allvars, NodesInv
  <2> QED
    BY <2>1, OutStep, InStep, SlipRests
<1> QED
  BY <1>1, <1>2, <1>3, <1>4, NextKeeps, RouterGoesOn DEF NodesInv

THEOREM NodesInvariance == AllSpec => []NodesInv
  BY NodesBegin, NodesStep, PTL DEF AllSpec

(* List, timer and protothread of each request of the mote agree, and the    *)
(* variables of the border router's two programs have their types.           *)
THEOREM NodesAreConsistent == AllSpec => []StatesConsistent
<1>1. ASSUME NodesInv, program = "border-router" PROVE Router!TypeOK
  BY <1>1 DEF NodesInv, Router!IInv
<1>2. NodesInv => StatesConsistent
  BY <1>1 DEF NodesInv, IInv, StatesConsistent
<1> QED
  BY <1>2, NodesInvariance, PTL

(* The report of a packet calls that packet's callback, once, as long as     *)
(* fewer packets were sent after it than the host and the radio have places. *)
THEOREM CallbacksAreOwn == AllSpec => []OwnCallback
<1>1. ASSUME NodesInv, program = "border-router" PROVE Router!OwnCallback
  BY <1>1 DEF NodesInv, Router!IInv, Router!Tracked
<1>2. NodesInv => OwnCallback
  BY <1>1 DEF OwnCallback
<1> QED
  BY <1>2, NodesInvariance, PTL

(* While the radio answers within the second, the border router keeps its    *)
(* address once it has its prefix.                                           *)
THEOREM AddressesAreKept == AllSpec => []AddressKept
<1>1. ASSUME NodesInv, program = "border-router" PROVE Router!AddressKept
  BY <1>1 DEF NodesInv, Router!Settled, Router!AddressKept
<1>2. NodesInv => AddressKept
  BY <1>1 DEF AddressKept
<1> QED
  BY <1>2, NodesInvariance, PTL

(* Packets pass the serial line unchanged and in order, both ways, however   *)
(* few bytes a write takes or a read gives, whatever debug output comes      *)
(* between them, and through buffers of any size that are never left.        *)
THEOREM LinesAreFaithful == AllSpec => []LineFaithful
<1>1. ASSUME NodesInv, program = "serial-line" PROVE Slip!TypeOK /\ Slip!LineFaithful
  <2>1. OutInv /\ InInv
    BY <1>1 DEF NodesInv
  <2>2. /\ slip_packet_count \in Nat /\ Len(slip_buf) <= OutSize
        /\ slip_packet_end \in 0 .. Len(slip_buf) /\ slip_begin \in 0 .. slip_packet_end
    BY <2>1, HostTypes
  <2>3. Len(inbuf) <= InSize /\ verbose \in BOOLEAN /\ ungot \in BOOLEAN
    BY <2>1, HeldIs
  <2>4. waiting \in BOOLEAN /\ exited \in BOOLEAN /\ debug_frame \in BOOLEAN /\ traffic \in 0 .. MaxTraffic
    BY <2>1 DEF OutInv, InInv
  <2>5. Slip!TypeOK
    BY <2>2, <2>3, <2>4 DEF Slip!TypeOK
  <2>6. Slip!PacketsWritten /\ Slip!FramesReceived
    BY <2>1, OutShows, InShows
  <2> QED
    BY <2>5, <2>6 DEF Slip!LineFaithful
<1>2. NodesInv => LineFaithful
  BY <1>1 DEF LineFaithful
<1> QED
  BY <1>2, NodesInvariance, PTL

(* The mote goes on only under the topic id given for its own topic.         *)
THEOREM OwnTopicIds == AllSpec => []OwnTopicId
<1>1. NodesInv => OwnTopicId
  BY DEF NodesInv, IInv, TakesOwn, OwnTopicId
<1> QED
  BY <1>1, NodesInvariance, PTL
=============================================================================
