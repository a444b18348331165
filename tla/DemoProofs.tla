----------------------------- MODULE DemoProofs -----------------------------
(***************************************************************************)
(* Safety of MqttDemo for every build of the firmware: any limit of        *)
(* attempts, any periods and pauses, any width of the attempt counter.     *)
(***************************************************************************)
EXTENDS MqttDemo, TLAPS

(* connect_attempt counts the attempts since the connection was last stable; *)
(* in REGISTERED the next one is counted already.  A limit the counter       *)
(* cannot reach is never reached.                                           *)
Counted ==
    /\ RECONNECT_ATTEMPTS # RETRY_FOREVER /\ RECONNECT_ATTEMPTS < AttemptValues =>
           /\ connect_attempt <= RECONNECT_ATTEMPTS
           /\ attempts = IF state = "REGISTERED" THEN connect_attempt - 1 ELSE connect_attempt
    /\ state = "INIT" => connect_attempt = 0
    /\ state = "ERROR" => RECONNECT_ATTEMPTS # RETRY_FOREVER /\ connect_attempt >= RECONNECT_ATTEMPTS

(* A lost connection is noticed in a poll, before any timer event; and the   *)
(* pause that follows is over when its timer has run out.                   *)
Paused ==
    /\ state = "DISCONNECTED" => poll
    /\ wait > 0 /\ ~hurried =>
           \/ state = "ERROR"
           \/ /\ state = "REGISTERED" /\ timer = wait /\ ~poll
              /\ \A i \in DOMAIN events : events[i] = "button"

Agreed == StaysScheduled /\ StateFollowsLink /\ SubscribedFirst
DemoInv == TypeOK /\ Agreed /\ Counted /\ Paused

States == {"INIT", "REGISTERED", "CONNECTING", "CONNECTED", "PUBLISHING", "DISCONNECTED",
           "CONFIG_ERROR", "ERROR"}

-----------------------------------------------------------------------------
(* The pause doubles up to eight times RECONNECT_INTERVAL.                  *)
LEMMA IntervalIs ==
    ASSUME DemoAssumption, connect_attempt \in Nat PROVE Interval \in Nat
  <1>1. Next_attempt \in Nat
    BY DEF DemoAssumption, Next_attempt
  <1>2. Least(Next_attempt, 3) \in {0, 1, 2, 3}
    BY <1>1 DEF Least
  <1>3. 2 ^ 0 \in Nat /\ 2 ^ 1 \in Nat /\ 2 ^ 2 \in Nat /\ 2 ^ 3 \in Nat
    OBVIOUS
  <1>4. 2 ^ Least(Next_attempt, 3) \in Nat
    BY <1>2, <1>3
  <1>. QED BY <1>4 DEF DemoAssumption, Interval

LEMMA DemoInit == ASSUME DemoAssumption, Init PROVE DemoInv
  <1>1. TypeOK
    <2>1. /\ poll \in BOOLEAN /\ out_buffer_sent \in BOOLEAN /\ address \in BOOLEAN
          /\ subscribed \in BOOLEAN /\ hurried \in BOOLEAN
      BY DEF Init
    <2>2. state \in {"INIT", "CONFIG_ERROR"} /\ timer \in Nat \cup {Stopped}
      BY DEF Init, update_config
    <2>. QED BY <2>1, <2>2 DEF DemoAssumption, Init, TypeOK
  <1>2. Agreed
    BY DEF Init, Agreed, StaysScheduled, StateFollowsLink, SubscribedFirst, update_config, Stopped
  <1>3. Counted /\ Paused
    BY DEF DemoAssumption, Init, Counted, Paused, update_config
  <1>. QED BY <1>1, <1>2, <1>3 DEF DemoInv

(* What one call of state_machine does, in terms of the invariant.          *)
MachineTyped ==
    /\ state' \in States /\ connect_attempt' \in 0 .. AttemptValues - 1
    /\ timer' \in Nat \cup {Stopped} /\ link' \in {"none", "connecting", "up"}
    /\ attempts' \in Nat /\ wait' \in Nat

LEMMA MachineIs ==
    ASSUME DemoAssumption, DemoInv, build' = build, state_machine
    PROVE  /\ MachineTyped
           /\ state' \notin {"CONFIG_ERROR", "ERROR"} => timer' # Stopped
           /\ StateFollowsLink' /\ SubscribedFirst' /\ Counted'
  <1>0. /\ TypeOK /\ Counted /\ StateFollowsLink /\ SubscribedFirst
        /\ UNCHANGED <<RECONNECT_ATTEMPTS, event_type>>
    BY DEF DemoInv, Agreed, build
  <1>1. CASE state \in {"INIT", "REGISTERED"}
    <2>1. PICK n \in 0 .. AttemptValues - 1 :
              /\ Registered(n) /\ (IF state = "INIT" THEN n = 1 ELSE n = connect_attempt)
      BY <1>0, <1>1 DEF state_machine, TypeOK, DemoAssumption
    <2>2. \/ connect_to_broker
          \/ state' = "REGISTERED" /\ UNCHANGED <<link, attempts>>
      BY <2>1 DEF Registered
    <2>3. /\ connect_attempt' = n /\ timer' = NET_CONNECT_PERIODIC
          /\ UNCHANGED <<out_buffer_sent, subscribed, wait>>
      BY <2>1 DEF Registered
    <2>4. attempts \in Nat /\ Least(attempts + 1, AttemptValues) \in Nat
      BY <1>0 DEF TypeOK, Least, DemoAssumption
    <2>5. MachineTyped /\ timer' # Stopped
      BY <1>0, <2>2, <2>3, <2>4 DEF MachineTyped, TypeOK, DemoAssumption, connect_to_broker, States, Stopped
    <2>6. StateFollowsLink' /\ SubscribedFirst'
      BY <1>0, <1>1, <2>2, <2>3 DEF StateFollowsLink, SubscribedFirst, connect_to_broker
    <2>7. Counted'
      <3>1. CASE RECONNECT_ATTEMPTS # RETRY_FOREVER /\ RECONNECT_ATTEMPTS < AttemptValues
        <4>1. RECONNECT_ATTEMPTS \in Nat \ {0} /\ AttemptValues \in Nat /\ connect_attempt \in Nat
          BY <1>0 DEF TypeOK, DemoAssumption
        <4>2. attempts = n - 1 /\ n <= RECONNECT_ATTEMPTS
          BY <1>0, <1>1, <2>1, <2>4, <3>1, <4>1 DEF Counted
        <4>3. state' = "CONNECTING" => attempts' = n
          BY <2>2, <2>4, <3>1, <4>1, <4>2 DEF connect_to_broker, Least
        <4>. QED BY <1>0, <2>2, <2>3, <4>2, <4>3 DEF Counted, connect_to_broker
      <3>2. CASE ~(RECONNECT_ATTEMPTS # RETRY_FOREVER /\ RECONNECT_ATTEMPTS < AttemptValues)
        BY <1>0, <2>2, <3>2 DEF Counted, connect_to_broker
      <3>. QED BY <3>1, <3>2
    <2>. QED BY <2>5, <2>6, <2>7
  <1>2. CASE state = "CONNECTING"
    <2>1. Connecting
      BY <1>2 DEF state_machine
    <2>2. MachineTyped /\ timer' # Stopped
      BY <1>0, <2>1 DEF MachineTyped, Connecting, TypeOK, DemoAssumption, States, Stopped
    <2>. QED BY <1>0, <1>2, <2>1, <2>2 DEF Connecting, StateFollowsLink, SubscribedFirst, Counted
  <1>3. CASE state \in {"CONNECTED", "PUBLISHING"}
    <2>1. Connected
      BY <1>3 DEF state_machine
    <2>2. /\ state' \in {"CONNECTED", "PUBLISHING"} /\ (state' = "PUBLISHING" => subscribed')
          /\ link' = link /\ wait' = wait /\ timer' \in Nat
      BY <1>0, <1>3, <2>1 DEF Connected, subscribe, SubscribedFirst, DemoAssumption
    <2>3. /\ \/ connect_attempt' = 0 /\ attempts' = 0
             \/ UNCHANGED <<connect_attempt, attempts>>
      BY <2>1 DEF Connected, NoteStable
    <2>4. MachineTyped /\ timer' # Stopped
      BY <1>0, <2>2, <2>3 DEF MachineTyped, TypeOK, DemoAssumption, States, Stopped
    <2>5. StateFollowsLink' /\ SubscribedFirst'
      BY <1>0, <1>3, <2>2 DEF StateFollowsLink, SubscribedFirst
    <2>6. Counted'
      BY <1>0, <1>3, <2>2, <2>3 DEF Counted, TypeOK, DemoAssumption
    <2>. QED BY <2>4, <2>5, <2>6
  <1>4. CASE state = "DISCONNECTED"
    <2>1. Disconnected
      BY <1>4 DEF state_machine
    <2>2. connect_attempt \in Nat /\ Interval \in Nat /\ Next_attempt \in 0 .. AttemptValues - 1
      BY <1>0, IntervalIs DEF TypeOK, DemoAssumption, Next_attempt
    <2>3. MachineTyped /\ timer' # Stopped
      BY <1>0, <2>1, <2>2 DEF MachineTyped, Disconnected, TypeOK, DemoAssumption, States, Stopped
    <2>4. StateFollowsLink' /\ SubscribedFirst'
      BY <1>0, <1>4, <2>1 DEF Disconnected, StateFollowsLink, SubscribedFirst
    <2>5. Counted'
      <3>1. CASE MayRetry
        <4>1. state' = "REGISTERED" /\ connect_attempt' = Next_attempt /\ attempts' = attempts
          BY <2>1, <3>1 DEF Disconnected
        <4>2. CASE RECONNECT_ATTEMPTS # RETRY_FOREVER /\ RECONNECT_ATTEMPTS < AttemptValues
          <5>1. RECONNECT_ATTEMPTS \in Nat /\ AttemptValues \in Nat \ {0} /\ connect_attempt < RECONNECT_ATTEMPTS
            BY <1>0, <3>1, <4>2 DEF TypeOK, DemoAssumption, MayRetry
          <5>2. Next_attempt = connect_attempt + 1
            BY <2>2, <4>2, <5>1 DEF Next_attempt
          <5>3. attempts = connect_attempt
            BY <1>0, <1>4, <4>2 DEF Counted
          <5>. QED BY <1>0, <2>2, <4>1, <5>1, <5>2, <5>3 DEF Counted
        <4>. QED BY <1>0, <4>1, <4>2 DEF Counted
      <3>2. CASE ~MayRetry
        <4>1. state' = "ERROR" /\ UNCHANGED <<connect_attempt, attempts>>
          BY <2>1, <3>2 DEF Disconnected
        <4>2. RECONNECT_ATTEMPTS # RETRY_FOREVER /\ connect_attempt >= RECONNECT_ATTEMPTS
          BY <1>0, <2>2, <3>2 DEF MayRetry, TypeOK, DemoAssumption
        <4>. QED BY <1>0, <1>4, <4>1, <4>2 DEF Counted
      <3>. QED BY <3>1, <3>2
    <2>. QED BY <2>3, <2>4, <2>5
  <1>5. CASE state \in {"CONFIG_ERROR", "ERROR"}
    <2>1. Idle
      BY <1>5 DEF state_machine
    <2>2. MachineTyped
      BY <1>0, <2>1 DEF MachineTyped, Idle, TypeOK, States
    <2>. QED BY <1>0, <1>5, <2>1, <2>2 DEF Idle, StateFollowsLink, SubscribedFirst, Counted
  <1>. QED BY <1>1, <1>2, <1>3, <1>4, <1>5 DEF DemoInv, TypeOK

(* One of the fields of TypeOK a call of state_machine leaves alone or sets. *)
LEMMA MachineFlags ==
    ASSUME DemoInv, state_machine
    PROVE  out_buffer_sent' \in BOOLEAN /\ subscribed' \in BOOLEAN
  BY DEF DemoInv, TypeOK, state_machine, Registered, Connecting, Connected, Disconnected, Idle, subscribe

(* Only a lost connection announces a pause.                                *)
LEMMA MachineWaits ==
    ASSUME DemoInv, state_machine
    PROVE  \/ wait' = wait
           \/ state = "DISCONNECTED" /\ state' = "REGISTERED" /\ wait' = timer'
  BY DEF DemoInv, TypeOK, state_machine, Registered, Connecting, Connected, Disconnected, Idle

LEMMA PolledSafe == ASSUME DemoAssumption, DemoInv, Polled PROVE DemoInv'
  <1>0. /\ state_machine /\ build' = build /\ poll /\ poll' = FALSE
        /\ UNCHANGED <<RECONNECT_ATTEMPTS, event_type, life, events, address>>
    BY DEF Polled, build
  <1>1. /\ MachineTyped /\ (state' \notin {"CONFIG_ERROR", "ERROR"} => timer' # Stopped)
        /\ StateFollowsLink' /\ SubscribedFirst' /\ Counted'
    BY <1>0, MachineIs
  <1>2. hurried' \in BOOLEAN
    BY DEF Polled, DemoInv, TypeOK
  <1>3. TypeOK'
    BY <1>0, <1>1, <1>2, MachineFlags DEF DemoInv, TypeOK, MachineTyped, States
  <1>4. Agreed'
    BY <1>1 DEF Agreed, StaysScheduled
  <1>5. Paused'
    <2>1. state' # "DISCONNECTED"
      BY <1>0 DEF DemoInv, TypeOK, state_machine, Registered, connect_to_broker, Connecting, Connected,
                  subscribe, Disconnected, Idle
    <2>2. CASE state = "DISCONNECTED"
      <3>1. Disconnected /\ hurried' = (events # <<>>)
        BY <1>0, <2>2 DEF state_machine, Polled
      <3>2. state' = "ERROR" \/ (state' = "REGISTERED" /\ timer' = wait')
        BY <3>1 DEF Disconnected
      <3>3. events' # <<>> \/ DOMAIN events' = {}
        OBVIOUS
      <3>. QED BY <1>0, <2>1, <3>1, <3>2, <3>3 DEF Paused
    <2>3. CASE state # "DISCONNECTED"
      <3>1. wait' = wait /\ hurried' = hurried
        BY <1>0, <2>3, MachineWaits DEF Polled
      <3>2. CASE state = "ERROR"
        <4>1. state' = "ERROR"
          BY <1>0, <3>2 DEF state_machine, Idle
        <4>. QED BY <2>1, <4>1 DEF Paused
      <3>3. CASE state # "ERROR"
        BY <1>0, <2>1, <3>1, <3>3 DEF DemoInv, Paused
      <3>. QED BY <3>2, <3>3
    <2>. QED BY <2>2, <2>3
  <1>. QED BY <1>1, <1>3, <1>4, <1>5 DEF DemoInv

LEMMA TimedSafe == ASSUME DemoAssumption, DemoInv, Timed PROVE DemoInv'
  <1>0. /\ state_machine /\ build' = build /\ ~poll /\ events # <<>> /\ Head(events) = "timer"
        /\ events' = Tail(events)
        /\ UNCHANGED <<RECONNECT_ATTEMPTS, event_type, life, poll, address, hurried>>
    BY DEF Timed, build
  <1>1. /\ MachineTyped /\ (state' \notin {"CONFIG_ERROR", "ERROR"} => timer' # Stopped)
        /\ StateFollowsLink' /\ SubscribedFirst' /\ Counted'
    BY <1>0, MachineIs
  <1>2. events' \in Seq({"timer", "button"})
    BY <1>0 DEF DemoInv, TypeOK
  <1>3. TypeOK'
    BY <1>0, <1>1, <1>2, MachineFlags DEF DemoInv, TypeOK, MachineTyped, States
  <1>4. Agreed'
    BY <1>1 DEF Agreed, StaysScheduled
  <1>5. Paused'
    <2>1. state # "DISCONNECTED"
      BY <1>0 DEF DemoInv, Paused
    <2>2. state' # "DISCONNECTED" /\ wait' = wait
      BY <1>0, <2>1, MachineWaits DEF DemoInv, TypeOK, state_machine, Registered, connect_to_broker, Connecting,
                  Connected, subscribe, Idle
    <2>3. ~(\A i \in DOMAIN events : events[i] = "button")
      <3>1. 1 \in DOMAIN events /\ events[1] = "timer"
        BY <1>0 DEF DemoInv, TypeOK
      <3>. QED BY <3>1
    <2>4. state = "ERROR" => state' = "ERROR"
      BY <1>0 DEF state_machine, Idle
    <2>. QED BY <1>0, <2>2, <2>3, <2>4 DEF DemoInv, Paused
  <1>. QED BY <1>1, <1>3, <1>4, <1>5 DEF DemoInv

(* The button makes a fresh start after the last attempt.                   *)
LEMMA PressedSafe == ASSUME DemoAssumption, DemoInv, Pressed PROVE DemoInv'
  <1>0. /\ build' = build /\ ~poll /\ events # <<>> /\ events' = Tail(events) /\ hurried' = TRUE
        /\ UNCHANGED <<RECONNECT_ATTEMPTS, event_type, life, poll, address>>
    BY DEF Pressed, build
  <1>1. /\ MachineTyped /\ (state' \notin {"CONFIG_ERROR", "ERROR"} => timer' # Stopped)
        /\ StateFollowsLink' /\ SubscribedFirst' /\ Counted'
        /\ out_buffer_sent' \in BOOLEAN /\ subscribed' \in BOOLEAN
    <2>1. CASE state = "ERROR"
      <3>1. /\ connect_attempt' = 1 /\ timer' = NET_CONNECT_PERIODIC
            /\ \/ state' = "CONNECTING" /\ link' = "connecting" /\ attempts' = 1
               \/ state' = "REGISTERED" /\ link' = link /\ attempts' = 0
            /\ UNCHANGED <<out_buffer_sent, subscribed, wait>>
        BY <2>1 DEF Pressed
      <3>2. MachineTyped /\ timer' # Stopped
        BY <3>1 DEF MachineTyped, DemoInv, TypeOK, DemoAssumption, States, Stopped
      <3>3. StateFollowsLink' /\ SubscribedFirst'
        BY <2>1, <3>1 DEF DemoInv, Agreed, StateFollowsLink, SubscribedFirst
      <3>4. RECONNECT_ATTEMPTS \in Nat \ {0}
        BY DEF DemoInv, TypeOK, DemoAssumption
      <3>5. Counted'
        BY <1>0, <3>1, <3>4 DEF Counted
      <3>. QED BY <3>1, <3>2, <3>3, <3>5 DEF DemoInv, TypeOK
    <2>2. CASE state # "ERROR"
      <3>1. state_machine
        BY <2>2 DEF Pressed
      <3>. QED BY <1>0, <3>1, MachineIs, MachineFlags
    <2>. QED BY <2>1, <2>2
  <1>2. events' \in Seq({"timer", "button"})
    BY <1>0 DEF DemoInv, TypeOK
  <1>3. hurried' \in BOOLEAN
    BY <1>0
  <1>4. TypeOK'
    BY <1>0, <1>1, <1>2, <1>3 DEF DemoInv, TypeOK, MachineTyped, States
  <1>5. Agreed'
    BY <1>1 DEF Agreed, StaysScheduled
  <1>6. Paused'
    <2>1. state # "DISCONNECTED"
      BY <1>0 DEF DemoInv, Paused
    <2>2. state' # "DISCONNECTED"
      BY <2>1 DEF Pressed, DemoInv, TypeOK, state_machine, Registered, connect_to_broker, Connecting,
                  Connected, subscribe, Idle
    <2>. QED BY <1>0, <2>2 DEF Paused
  <1>. QED BY <1>1, <1>4, <1>5, <1>6 DEF DemoInv

-----------------------------------------------------------------------------
LEMMA ConnectedSafe == ASSUME DemoAssumption, DemoInv, MQTT_EVENT_CONNECTED PROVE DemoInv'
  <1>0. /\ link = "connecting" /\ link' = "up" /\ life' = CONNECTION_STABLE_TIME /\ state' = "CONNECTED"
        /\ UNCHANGED <<RECONNECT_ATTEMPTS, event_type, connect_attempt, timer, events, poll, address,
                       attempts, wait, hurried>>
    BY DEF MQTT_EVENT_CONNECTED, build
  <1>1. state = "CONNECTING"
    BY <1>0 DEF DemoInv, Agreed, StateFollowsLink
  <1>2. out_buffer_sent' \in BOOLEAN /\ subscribed' \in BOOLEAN
    BY DEF MQTT_EVENT_CONNECTED
  <1>3. TypeOK'
    BY <1>0, <1>2 DEF DemoInv, TypeOK, DemoAssumption
  <1>4. Agreed'
    BY <1>0, <1>1 DEF DemoInv, Agreed, StaysScheduled, StateFollowsLink, SubscribedFirst
  <1>5. Counted' /\ Paused'
    BY <1>0, <1>1 DEF DemoInv, Counted, Paused
  <1>. QED BY <1>3, <1>4, <1>5 DEF DemoInv

LEMMA DisconnectedSafe == ASSUME DemoAssumption, DemoInv, MQTT_EVENT_DISCONNECTED PROVE DemoInv'
  <1>0. /\ link # "none" /\ link' = "none" /\ state' = "DISCONNECTED" /\ poll' = TRUE
        /\ UNCHANGED <<RECONNECT_ATTEMPTS, event_type, connect_attempt, timer, life, events, out_buffer_sent,
                       address, subscribed, attempts, wait, hurried>>
    BY DEF MQTT_EVENT_DISCONNECTED, build, history
  <1>1. state \in {"CONNECTING", "CONNECTED", "PUBLISHING"}
    BY <1>0 DEF DemoInv, TypeOK, Agreed, StateFollowsLink
  <1>2. TypeOK'
    <2>1. poll' \in BOOLEAN
      BY <1>0
    <2>. QED BY <1>0, <2>1 DEF DemoInv, TypeOK
  <1>3. Agreed'
    BY <1>0 DEF DemoInv, Agreed, StaysScheduled, StateFollowsLink, SubscribedFirst
  <1>4. Counted' /\ Paused'
    BY <1>0, <1>1 DEF DemoInv, Counted, Paused
  <1>. QED BY <1>2, <1>3, <1>4 DEF DemoInv

(* The library, the address and the button touch little of this.            *)
LEMMA SentSafe == ASSUME DemoInv, Sent \/ AddressChanges \/ UNCHANGED vars PROVE DemoInv'
  <1>0. UNCHANGED <<RECONNECT_ATTEMPTS, event_type, state, connect_attempt, timer, life, events, poll, link,
                    subscribed, attempts, wait, hurried>>
    BY DEF Sent, AddressChanges, vars, build, library, history
  <1>1. out_buffer_sent' \in BOOLEAN /\ address' \in BOOLEAN
    BY DEF DemoInv, TypeOK, Sent, AddressChanges, vars, library
  <1>. QED BY <1>0, <1>1 DEF DemoInv, TypeOK, Agreed, StaysScheduled, StateFollowsLink, SubscribedFirst, Counted, Paused

LEMMA ButtonSafe == ASSUME DemoInv, Button PROVE DemoInv'
  <1>0. /\ events' = Append(events, "button")
        /\ UNCHANGED <<RECONNECT_ATTEMPTS, event_type, state, connect_attempt, timer, life, poll, link,
                       out_buffer_sent, address, subscribed, attempts, wait, hurried>>
    BY DEF Button, build, library, history
  <1>1. /\ events \in Seq({"timer", "button"}) /\ events' \in Seq({"timer", "button"})
        /\ \A i \in DOMAIN events : i \in DOMAIN events' /\ events'[i] = events[i]
        /\ \A i \in DOMAIN events' : events'[i] = "button" \/ (i \in DOMAIN events /\ events'[i] = events[i])
    BY <1>0 DEF DemoInv, TypeOK
  <1>2. TypeOK'
    BY <1>0, <1>1 DEF DemoInv, TypeOK
  <1>3. Agreed'
    BY <1>0, <1>1 DEF DemoInv, Agreed, StaysScheduled, StateFollowsLink, SubscribedFirst
  <1>4. Counted' /\ Paused'
    BY <1>0, <1>1 DEF DemoInv, Counted, Paused
  <1>. QED BY <1>2, <1>3, <1>4 DEF DemoInv

LEMMA ExpireSafe == ASSUME DemoInv, Expire PROVE DemoInv'
  <1>0. /\ events' = Append(events, "timer") /\ timer = 0 /\ timer' = Stopped
        /\ UNCHANGED <<RECONNECT_ATTEMPTS, event_type, state, connect_attempt, life, poll, link,
                       out_buffer_sent, address, subscribed, attempts, wait, hurried>>
    BY DEF Expire, build, library, history
  <1>1. /\ events \in Seq({"timer", "button"}) /\ events' \in Seq({"timer", "button"})
        /\ Len(events) + 1 \in DOMAIN events' /\ events'[Len(events) + 1] = "timer"
    BY <1>0 DEF DemoInv, TypeOK
  <1>2. TypeOK'
    BY <1>0, <1>1 DEF DemoInv, TypeOK
  <1>3. Agreed'
    BY <1>0, <1>1 DEF DemoInv, Agreed, StaysScheduled, StateFollowsLink, SubscribedFirst
  <1>4. Counted'
    BY <1>0 DEF DemoInv, Counted
  <1>5. Paused'
    BY <1>0 DEF DemoInv, Paused
  <1>. QED BY <1>2, <1>3, <1>4, <1>5 DEF DemoInv

LEMMA TickSafe == ASSUME DemoInv, Tick PROVE DemoInv'
  <1>0. /\ timer # 0 /\ timer' = (IF timer = Stopped THEN Stopped ELSE timer - 1)
        /\ life' = (IF life = 0 THEN 0 ELSE life - 1) /\ wait' = (IF wait = 0 THEN 0 ELSE wait - 1)
        /\ UNCHANGED <<RECONNECT_ATTEMPTS, event_type, state, connect_attempt, events, poll, link,
                       out_buffer_sent, address, subscribed, attempts, hurried>>
    BY DEF Tick, build, library
  <1>1. /\ timer \in Nat \cup {Stopped} /\ life \in Nat /\ wait \in Nat
    BY DEF DemoInv, TypeOK
  <1>2. /\ timer' \in Nat \cup {Stopped} /\ life' \in Nat /\ wait' \in Nat
        /\ (timer # Stopped => timer' # Stopped)
        /\ wait' > 0 => wait > 0 /\ wait' = wait - 1 /\ (timer = wait => timer' = wait')
    BY <1>0, <1>1 DEF Stopped
  <1>3. TypeOK'
    BY <1>0, <1>2 DEF DemoInv, TypeOK
  <1>4. Agreed'
    BY <1>0, <1>2 DEF DemoInv, Agreed, StaysScheduled, StateFollowsLink, SubscribedFirst
  <1>5. Counted'
    BY <1>0 DEF DemoInv, Counted
  <1>6. Paused'
    BY <1>0, <1>2 DEF DemoInv, Paused
  <1>. QED BY <1>3, <1>4, <1>5, <1>6 DEF DemoInv

LEMMA DemoStep == ASSUME DemoAssumption, DemoInv, [Next]_vars PROVE DemoInv'
  BY PolledSafe, TimedSafe, PressedSafe, ConnectedSafe, DisconnectedSafe, SentSafe, ButtonSafe, ExpireSafe,
     TickSafe DEF Next, Process

(* The limit is reached exactly; the pause is over before the next attempt.  *)
LEMMA DemoRetries == ASSUME DemoAssumption, DemoInv PROVE RetriesAsConfigured
  <1>1. GivesUpAfter
    <2>. SUFFICES ASSUME state = "ERROR"
                  PROVE  RECONNECT_ATTEMPTS # RETRY_FOREVER /\ attempts = RECONNECT_ATTEMPTS
      BY DEF GivesUpAfter
    <2>1. RECONNECT_ATTEMPTS \in Nat /\ connect_attempt \in 0 .. AttemptValues - 1 /\ AttemptValues \in Nat
      BY DEF DemoInv, TypeOK, DemoAssumption
    <2>2. RECONNECT_ATTEMPTS # RETRY_FOREVER /\ connect_attempt >= RECONNECT_ATTEMPTS
      BY DEF DemoInv, Counted
    <2>3. RECONNECT_ATTEMPTS < AttemptValues
      BY <2>1, <2>2
    <2>. QED BY <2>1, <2>2, <2>3 DEF DemoInv, Counted
  <1>2. PauseKept
    BY DEF DemoInv, TypeOK, Agreed, StateFollowsLink, Paused, PauseKept
  <1>. QED BY <1>1, <1>2 DEF RetriesAsConfigured

(* The state machine, its timer and the library agree, so that the demo     *)
(* never stops to run, nor publishes without a connection it subscribed on, *)
(* for any periods and any limit of attempts.                               *)
THEOREM DemoConsistent == ASSUME DemoAssumption PROVE Spec => []StateConsistent
  <1>1. Init => DemoInv
    BY DemoInit
  <1>2. DemoInv /\ [Next]_vars => DemoInv'
    BY DemoStep
  <1>3. DemoInv => StateConsistent
    BY DEF DemoInv, Agreed, StateConsistent
  <1>. QED BY <1>1, <1>2, <1>3, PTL DEF Spec

(* The demo gives up after the attempts it is built for, not earlier or     *)
(* later, and keeps the pause it announces, for any limit and any pause.    *)
THEOREM DemoRetriesAsConfigured == ASSUME DemoAssumption PROVE Spec => []RetriesAsConfigured
  <1>1. Init => DemoInv
    BY DemoInit
  <1>2. DemoInv /\ [Next]_vars => DemoInv'
    BY DemoStep
  <1>3. DemoInv => RetriesAsConfigured
    BY DemoRetries
  <1>. QED BY <1>1, <1>2, <1>3, PTL DEF Spec
=============================================================================
