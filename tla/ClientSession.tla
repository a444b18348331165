---------------------------- MODULE ClientSession ----------------------------
(***************************************************************************)
(* What the gateway promises about one client, without messages, tables,   *)
(* timers or connections: a client is idle, in the will dialogue or active;*)
(* requests are pending only on an active client and at most one of a      *)
(* kind; and a request of the gateway to the client is sent at most        *)
(* MaxSends times and then given up.                                       *)
(***************************************************************************)
EXTENDS Naturals

CONSTANT MaxSends   \* a positive number

Requests == {"Regack", "Suback", "Unsuback", "Puback"}

VARIABLES
    phase,    \* "idle", "willTopic", "willMsg" or "active"
    pending,  \* the requests that wait for an answer
    sends,    \* how often the gateway's request to the client was sent
    up        \* the gateway runs

vars == <<phase, pending, sends, up>>

Init == phase = "idle" /\ pending = {} /\ sends = 0 /\ up = TRUE

AskWillTopic ==
    /\ phase = "idle"
    /\ phase' = "willTopic" /\ sends' = 1 /\ UNCHANGED pending
AskWillMsg ==
    /\ phase = "willTopic"
    /\ phase' = "willMsg" /\ sends' = 1 /\ UNCHANGED pending
Open ==
    /\ phase \in {"idle", "willMsg"}
    /\ phase' = "active" /\ sends' = 0 /\ UNCHANGED pending
OpenFails ==
    /\ phase = "willMsg"
    /\ phase' = "idle" /\ sends' = 0 /\ UNCHANGED pending
Ask(r) ==
    /\ phase = "active" /\ r \notin pending
    /\ pending' = pending \cup {r}
    /\ sends' = IF r = "Regack" THEN 1 ELSE sends
    /\ UNCHANGED phase
Answer(r) ==
    /\ r \in pending
    /\ pending' = pending \ {r}
    /\ sends' = IF r = "Regack" THEN 0 ELSE sends
    /\ UNCHANGED phase
Close ==
    phase' = "idle" /\ pending' = {} /\ sends' = 0

Resend ==
    /\ 0 < sends /\ sends < MaxSends
    /\ sends' = sends + 1 /\ UNCHANGED <<phase, pending>>
GiveUp ==
    /\ sends = MaxSends /\ sends' = 0
    /\ phase' = IF phase = "active" THEN "active" ELSE "idle"
    /\ pending' = pending \ {"Regack"}
Retry == up /\ (Resend \/ GiveUp) /\ UNCHANGED up

Stop == up' = FALSE /\ UNCHANGED <<phase, pending, sends>>

Next ==
    /\ up
    /\ \/ /\ UNCHANGED up
          /\ \/ AskWillTopic \/ AskWillMsg \/ Open \/ OpenFails \/ Close
             \/ \E r \in Requests : Ask(r) \/ Answer(r)
             \/ Resend \/ GiveUp
       \/ Stop

Spec == Init /\ [][Next]_vars
FairSpec == Spec /\ WF_vars(Retry)
=============================================================================
