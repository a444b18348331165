------------------------------ MODULE MqttDemo ------------------------------
(* The demo firmware src/ictp/mqtt/mqtt-demo.c: one Contiki process whose    *)
(* state machine keeps a connection to an MQTT broker.  The MQTT library and *)
(* the network are external: the library calls mqtt_event from a process of  *)
(* its own.  Contiki runs one process at a time, a requested poll before any *)
(* queued event; an event timer that is set again does not take back the     *)
(* event it has already posted.  LEDs and the payload are left out.          *)
EXTENDS Integers, Sequences

CONSTANTS
    AttemptLimits,         \* values of RECONNECT_ATTEMPTS (the code has RETRY_FOREVER)
    RETRY_FOREVER,
    EventTypeLengths,      \* lengths of DEFAULT_EVENT_TYPE_ID (the code's is 6)
    AttemptValues,         \* connect_attempt counts modulo this (256)
    CONNECTION_STABLE_TIME, NET_CONNECT_PERIODIC, STATE_MACHINE_PERIODIC,
    RECONNECT_INTERVAL, PUBLISH_INTERVAL    \* in ticks

DemoAssumption ==
    /\ AttemptLimits \subseteq Nat \ {0} /\ EventTypeLengths \subseteq Nat
    /\ AttemptValues \in Nat \ {0, 1} /\ CONNECTION_STABLE_TIME \in Nat /\ NET_CONNECT_PERIODIC \in Nat
    /\ STATE_MACHINE_PERIODIC \in Nat /\ RECONNECT_INTERVAL \in Nat /\ PUBLISH_INTERVAL \in Nat

VARIABLES
    RECONNECT_ATTEMPTS, event_type,   \* how the firmware was built
    state, connect_attempt,
    timer,            \* ticks left of publish_periodic_timer, or Stopped
    life,             \* ticks left of connection_life
    events, poll,     \* the process's queued events; a requested poll
    link,             \* the library's connection
    out_buffer_sent,
    address,          \* the node has a preferred global address
    \* History
    subscribed,       \* a SUBSCRIBE was sent on this connection
    attempts,         \* mqtt_connects since the connection was last found stable
    wait,             \* ticks left of the announced pause
    hurried           \* the pause began with an old timer event queued, or a button was pressed

build == <<RECONNECT_ATTEMPTS, event_type>>
library == <<link, out_buffer_sent, address>>
history == <<subscribed, attempts, wait, hurried>>
vars == <<build, state, connect_attempt, timer, life, events, poll, library, history>>

Stopped == -1
BUFFER_SIZE == 24

Least(i, j) == IF i < j THEN i ELSE j

(* construct_client_id, construct_sub_topic and construct_pub_topic:        *)
(* "d:" and six bytes in hex; "zolertia/cmd/l"; "zolertia/evt/" and a name. *)
Fits(length) == length < BUFFER_SIZE
update_config(type) ==
    IF Fits(2 + 6 * 2) /\ Fits(13 + 1) /\ Fits(13 + type) THEN "INIT" ELSE "CONFIG_ERROR"

Init ==
    /\ RECONNECT_ATTEMPTS \in AttemptLimits /\ event_type \in EventTypeLengths
    /\ state = update_config(event_type) /\ timer = (IF state = "INIT" THEN 0 ELSE Stopped)
    /\ connect_attempt = 0 /\ life = 0 /\ events = <<>> /\ poll = FALSE
    /\ link = "none" /\ out_buffer_sent = TRUE /\ address = FALSE
    /\ subscribed = FALSE /\ attempts = 0 /\ wait = 0 /\ hurried = FALSE

-----------------------------------------------------------------------------
(* state_machine, for one call of it.                                       *)
connect_to_broker ==
    /\ state' = "CONNECTING" /\ link' = "connecting"
    /\ attempts' = Least(attempts + 1, AttemptValues)

Registered(attempt) ==
    /\ connect_attempt' = attempt /\ timer' = NET_CONNECT_PERIODIC
    /\ IF address THEN connect_to_broker ELSE state' = "REGISTERED" /\ UNCHANGED <<link, attempts>>
    /\ UNCHANGED <<out_buffer_sent, subscribed, wait>>

Connecting ==
    /\ timer' = STATE_MACHINE_PERIODIC
    /\ UNCHANGED <<state, connect_attempt, link, out_buffer_sent, subscribed, attempts, wait>>

(* A connection older than CONNECTION_STABLE_TIME starts the count again.   *)
NoteStable ==
    IF life = 0 THEN connect_attempt' = 0 /\ attempts' = 0
    ELSE UNCHANGED <<connect_attempt, attempts>>

subscribe == subscribed' = TRUE /\ state' = "PUBLISHING"

(* Nothing is sent while a packet is under way.                             *)
(* Mutant: the timer is only set again after a message.                     *)
Bug_Connected ==
    /\ NoteStable
    /\ IF link = "up" /\ out_buffer_sent
       THEN /\ out_buffer_sent' = FALSE /\ timer' = PUBLISH_INTERVAL
            /\ IF state = "CONNECTED" THEN subscribe ELSE UNCHANGED <<state, subscribed>>
       ELSE UNCHANGED <<timer, out_buffer_sent, state, subscribed>>
    /\ UNCHANGED <<link, wait>>

Connected ==
    /\ NoteStable
    /\ IF link = "up" /\ out_buffer_sent
       THEN /\ out_buffer_sent' = FALSE /\ timer' = PUBLISH_INTERVAL
            /\ IF state = "CONNECTED" THEN subscribe ELSE UNCHANGED <<state, subscribed>>
       ELSE timer' = STATE_MACHINE_PERIODIC /\ UNCHANGED <<out_buffer_sent, state, subscribed>>
    /\ UNCHANGED <<link, wait>>

Next_attempt == (connect_attempt + 1) % AttemptValues

Interval == RECONNECT_INTERVAL * 2 ^ Least(Next_attempt, 3)

(* Mutant: one attempt more.                                                *)
Bug_MayRetry == connect_attempt <= RECONNECT_ATTEMPTS \/ RECONNECT_ATTEMPTS = RETRY_FOREVER

MayRetry == connect_attempt < RECONNECT_ATTEMPTS \/ RECONNECT_ATTEMPTS = RETRY_FOREVER

Disconnected ==
    /\ IF MayRetry
       THEN /\ state' = "REGISTERED" /\ connect_attempt' = Next_attempt
            /\ wait' = Interval /\ timer' = Interval
       ELSE state' = "ERROR" /\ timer' = STATE_MACHINE_PERIODIC /\ UNCHANGED <<connect_attempt, wait>>
    /\ UNCHANGED <<link, out_buffer_sent, subscribed, attempts>>

Idle == UNCHANGED <<state, connect_attempt, timer, link, out_buffer_sent, subscribed, attempts, wait>>

state_machine ==
    CASE state = "INIT"                      -> Registered(1)
      [] state = "REGISTERED"                -> Registered(connect_attempt)
      [] state = "CONNECTING"                -> Connecting
      [] state \in {"CONNECTED", "PUBLISHING"} -> Connected
      [] state = "DISCONNECTED"              -> Disconnected
      [] OTHER                               -> Idle

(* The process thread: a poll, a timer event and the button run the state   *)
(* machine; the button first leaves the state ERROR.                        *)
Polled ==
    /\ poll /\ poll' = FALSE /\ state_machine
    /\ hurried' = (IF state = "DISCONNECTED" THEN events # <<>> ELSE hurried)
    /\ UNCHANGED <<build, life, events, address>>

Timed ==
    /\ ~poll /\ events # <<>> /\ Head(events) = "timer" /\ events' = Tail(events) /\ state_machine
    /\ UNCHANGED <<build, life, poll, address, hurried>>

Pressed ==
    /\ ~poll /\ events # <<>> /\ Head(events) = "button" /\ events' = Tail(events) /\ hurried' = TRUE
    /\ IF state = "ERROR"
       THEN /\ connect_attempt' = 1 /\ timer' = NET_CONNECT_PERIODIC
            /\ IF address THEN /\ state' = "CONNECTING" /\ link' = "connecting" /\ attempts' = 1
               ELSE state' = "REGISTERED" /\ link' = link /\ attempts' = 0
            /\ UNCHANGED <<out_buffer_sent, subscribed, wait>>
       ELSE state_machine
    /\ UNCHANGED <<build, life, poll, address>>

-----------------------------------------------------------------------------
(* mqtt_event, called by the library: connected; disconnected, whether a    *)
(* connection or an attempt.  Other events change nothing.                  *)
MQTT_EVENT_CONNECTED ==
    /\ link = "connecting" /\ link' = "up" /\ out_buffer_sent' \in BOOLEAN
    /\ life' = CONNECTION_STABLE_TIME /\ state' = "CONNECTED" /\ subscribed' = FALSE
    /\ UNCHANGED <<build, connect_attempt, timer, events, poll, address, attempts, wait, hurried>>

(* Mutant: only a connection can be lost.                                   *)
Bug_MQTT_EVENT_DISCONNECTED ==
    /\ link # "none" /\ link' = "none"
    /\ state' = (IF state = "CONNECTING" THEN state ELSE "DISCONNECTED") /\ poll' = TRUE
    /\ UNCHANGED <<build, connect_attempt, timer, life, events, out_buffer_sent, address, history>>

MQTT_EVENT_DISCONNECTED ==
    /\ link # "none" /\ link' = "none" /\ state' = "DISCONNECTED" /\ poll' = TRUE
    /\ UNCHANGED <<build, connect_attempt, timer, life, events, out_buffer_sent, address, history>>

(* External: a packet is acknowledged; the address comes and goes; the      *)
(* button; the timer library; time, which is slow for the scheduler.        *)
Sent ==
    /\ link = "up" /\ ~out_buffer_sent /\ out_buffer_sent' = TRUE
    /\ UNCHANGED <<build, state, connect_attempt, timer, life, events, poll, link, address, history>>

AddressChanges ==
    /\ address' = ~address
    /\ UNCHANGED <<build, state, connect_attempt, timer, life, events, poll, link, out_buffer_sent,
                   history>>

Button ==
    /\ events \in {<<>>, <<"timer">>} /\ events' = Append(events, "button")
    /\ UNCHANGED <<build, state, connect_attempt, timer, life, poll, library, history>>

Expire ==
    /\ timer = 0 /\ timer' = Stopped /\ events' = Append(events, "timer")
    /\ UNCHANGED <<build, state, connect_attempt, life, poll, library, history>>

Tick ==
    /\ timer # 0 /\ events = <<>> /\ ~poll
    /\ timer' = (IF timer = Stopped THEN Stopped ELSE timer - 1)
    /\ life' = (IF life = 0 THEN 0 ELSE life - 1) /\ wait' = (IF wait = 0 THEN 0 ELSE wait - 1)
    /\ UNCHANGED <<build, state, connect_attempt, events, poll, library, subscribed, attempts, hurried>>

Process == Polled \/ Timed \/ Pressed

Next ==
    \/ Process
    \/ MQTT_EVENT_CONNECTED \/ MQTT_EVENT_DISCONNECTED \/ Sent
    \/ AddressChanges \/ Button \/ Expire \/ Tick

Spec == Init /\ [][Next]_vars

(* Contiki schedules the process and its timer, time passes, and the        *)
(* library ends every attempt and reports what it has sent.                 *)
FairSpec ==
    /\ Spec /\ WF_vars(Process) /\ WF_vars(Expire) /\ WF_vars(Tick) /\ WF_vars(Sent)
    /\ WF_vars(link = "connecting" /\ (MQTT_EVENT_CONNECTED \/ MQTT_EVENT_DISCONNECTED))

-----------------------------------------------------------------------------
(* Every variable has its type; connect_attempt is a byte.                  *)
TypeOK ==
    /\ RECONNECT_ATTEMPTS \in AttemptLimits /\ event_type \in EventTypeLengths
    /\ state \in {"INIT", "REGISTERED", "CONNECTING", "CONNECTED", "PUBLISHING", "DISCONNECTED",
                  "CONFIG_ERROR", "ERROR"}
    /\ connect_attempt \in 0 .. AttemptValues - 1 /\ timer \in Nat \cup {Stopped}
    /\ life \in Nat /\ events \in Seq({"timer", "button"}) /\ poll \in BOOLEAN
    /\ link \in {"none", "connecting", "up"} /\ out_buffer_sent \in BOOLEAN /\ address \in BOOLEAN
    /\ subscribed \in BOOLEAN /\ attempts \in Nat /\ wait \in Nat /\ hurried \in BOOLEAN

(* Outside the error states the state machine will run again: its timer     *)
(* runs, or has posted its event, or a poll was requested.                  *)
StaysScheduled ==
    state \notin {"CONFIG_ERROR", "ERROR"} => timer # Stopped \/ poll \/ \E i \in DOMAIN events : events[i] = "timer"

(* The state machine and the library agree: a lost connection was noticed,  *)
(* so that nothing is published, and no attempt awaited, without one.       *)
StateFollowsLink ==
    /\ link = "connecting" <=> state = "CONNECTING"
    /\ link = "up" <=> state \in {"CONNECTED", "PUBLISHING"}

(* The demo publishes on a connection only after it subscribed on it.       *)
SubscribedFirst == state = "PUBLISHING" => subscribed

(* State machine, timer and library agree, whatever came between two runs.  *)
StateConsistent == TypeOK /\ StaysScheduled /\ StateFollowsLink /\ SubscribedFirst

(* RECONNECT_ATTEMPTS attempts are made, from the start and again after a   *)
(* connection was found stable, before the demo gives up; if it may retry   *)
(* for ever it never does.                                                  *)
GivesUpAfter == state = "ERROR" => RECONNECT_ATTEMPTS # RETRY_FOREVER /\ attempts = RECONNECT_ATTEMPTS

(* The pause announced before a new attempt is kept, but for a button, or a *)
(* timer event that was queued already when the pause began.                *)
PauseKept == link = "connecting" => wait = 0 \/ hurried

(* A lost connection is retried as configured: as often, and not sooner.    *)
RetriesAsConfigured == GivesUpAfter /\ PauseKept

(* With an address, a demo that retries for ever makes another attempt      *)
(* after every one that failed and every connection that was lost.          *)
KeepsTrying ==
    RECONNECT_ATTEMPTS = RETRY_FOREVER /\ update_config(event_type) = "INIT" /\ <>[]address
        => (link = "none" ~> link # "none")

(* A new connection is used: the demo subscribes and publishes on it, or    *)
(* the connection is lost first.                                            *)
UsesConnection == state = "CONNECTED" ~> state \in {"PUBLISHING", "DISCONNECTED"}
=============================================================================
