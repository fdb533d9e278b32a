---------------------------- MODULE MillisClock ----------------------------
(***************************************************************************)
(* The timestamps of the session controller on a clock that wraps:         *)
(* millis() is an unsigned counter of 2 * Half milliseconds, ages are      *)
(* differences modulo that width, due times are compared as signed values  *)
(* and 0 stands for "no report" (allpowers_ble.cpp, loop()).               *)
(*                                                                         *)
(* AllpowersBLE keeps true ages instead; this module is about whether what *)
(* loop() computes is the true age.  The frames, entities and settings of  *)
(* a session are left to that module: the settings expire like the         *)
(* telemetry here, and whether a snapshot is there to send is open.        *)
(***************************************************************************)
EXTENDS Integers

CONSTANTS
  Half,               \* 2^31
  MaxLag,             \* the longest time between two iterations of loop()
  StaleTimeout,       \* stale_timeout_ms_
  KeepaliveInterval,  \* keepalive_interval_ms_
  WatchdogTimeout,    \* watchdog_timeout_ms_
  SettingsInterval,   \* settings_keepalive_interval_ms_
  QueryDelay,         \* DEVICE_NAME_QUERY_INITIAL_DELAY_MS
  QueryRetry,         \* DEVICE_NAME_QUERY_RETRY_INTERVAL_MS
  MaxAttempts         \* DEVICE_NAME_QUERY_MAX_ATTEMPTS

\* Every timeout together with a late iteration fits half the clock, and an
\* iteration is never late by the whole watchdog timeout.  The schema bounds no
\* timeout from above, but 2^31 ms are 24 days.
ASSUME ClockAssumption ==
  /\ Half \in Nat /\ MaxLag \in Nat \ {0}
  /\ StaleTimeout \in Nat \ {0} /\ StaleTimeout + MaxLag < Half
  /\ WatchdogTimeout \in Nat /\ WatchdogTimeout + MaxLag < Half
  /\ MaxLag < WatchdogTimeout
  /\ SettingsInterval \in Nat \ {0} /\ SettingsInterval + MaxLag < Half
  /\ KeepaliveInterval \in Nat \ {0} /\ KeepaliveInterval + MaxLag < Half
  /\ QueryDelay \in Nat /\ QueryDelay + MaxLag < Half
  /\ QueryRetry \in Nat /\ QueryRetry + MaxLag < Half
  /\ MaxAttempts \in Nat \ {0}

Wrap == 2 * Half

VARIABLES
  now,                        \* millis()
  looped,                     \* loop() has run since the clock moved
  session,                    \* "down", "served", or how far it is given up
  data_fresh,                 \* data_fresh_
  last_valid_packet_ms,       \* last_valid_packet_ms_
  last_protocol_packet_ms,    \* last_protocol_packet_ms_
  last_status_request_ms,     \* last_status_request_ms_
  last_settings_keepalive_ms, \* last_settings_keepalive_ms_
  keepalive_enabled,          \* settings_keepalive_enabled_
  initial,                    \* of the initial settings keepalive: pending
                              \* without and with a snapshot, or not at all
  query_active,               \* device_name_query_active_
  query_attempts,             \* device_name_query_attempts_
  next_device_name_query_ms,  \* next_device_name_query_ms_
  status_age,                 \* true age of the last status report, capped
  protocol_age,               \* true age of the last frame of a served session
  request_age,                \* true age of its last status request
  keepalive_age,              \* true age of its last settings write, or of
                              \* what else restarts the enabled keepalive
  query_wait                  \* true time until its next query is due

requestVars == <<last_status_request_ms, request_age>>
keepaliveVars == <<last_settings_keepalive_ms, keepalive_age>>
protocolVars == <<last_protocol_packet_ms, protocol_age>>
statusVars == <<data_fresh, last_valid_packet_ms, status_age>>
queryVars == <<query_active, query_attempts, next_device_name_query_ms,
               query_wait>>
vars == <<now, looped, session, keepalive_enabled, initial, statusVars,
          protocolVars, requestVars, keepaliveVars, queryVars>>

\* What the age of expired telemetry is capped at.
Expired == StaleTimeout + MaxLag + 1

-----------------------------------------------------------------------------
(* uint32_t arithmetic.                                                    *)

\* mutant: the ages stop at a wrap instead of following it
ElapsedUnlessWrapped(last) == IF now >= last THEN now - last ELSE 0

\* now - last
Elapsed(last) == IF now >= last THEN now - last ELSE now - last + Wrap

\* time + interval
Plus(time, interval) ==
  IF time + interval < Wrap THEN time + interval ELSE time + interval - Wrap

\* static_cast<int32_t>(now - time) >= 0
Due(time) == Elapsed(time) < Half

-----------------------------------------------------------------------------
Init ==
  /\ now = 1 /\ looped = FALSE   \* the boot takes longer than a millisecond
  /\ session = "down" /\ data_fresh = FALSE
  /\ keepalive_enabled \in BOOLEAN /\ initial = "done"
  /\ last_valid_packet_ms = 0 /\ last_protocol_packet_ms = 0
  /\ last_status_request_ms = 0 /\ last_settings_keepalive_ms = 0
  /\ query_active = FALSE /\ query_attempts = 0
  /\ next_device_name_query_ms = 0
  /\ status_age = 0 /\ protocol_age = 0 /\ request_age = 0
  /\ keepalive_age = 0 /\ query_wait = 0

\* reset_connection_state_, and what its caller makes of the session.
Reset(state) ==
  /\ session' = state
  /\ data_fresh' = FALSE /\ initial' = "done"
  /\ last_valid_packet_ms' = 0 /\ last_protocol_packet_ms' = 0
  /\ last_status_request_ms' = 0 /\ last_settings_keepalive_ms' = 0
  /\ query_active' = FALSE /\ query_attempts' = 0
  /\ next_device_name_query_ms' = 0
  /\ status_age' = 0 /\ protocol_age' = 0 /\ request_age' = 0
  /\ keepalive_age' = 0 /\ query_wait' = 0
  /\ UNCHANGED keepalive_enabled

RestartRequest == last_status_request_ms' = now /\ request_age' = 0

RestartKeepalive == last_settings_keepalive_ms' = now /\ keepalive_age' = 0

\* on_transport_ready_, start_connection_health_
Subscribed ==
  /\ session = "down"
  /\ session' = "served"
  /\ last_protocol_packet_ms' = now /\ protocol_age' = 0
  /\ RestartRequest /\ RestartKeepalive
  /\ initial' = IF keepalive_enabled THEN "pending" ELSE "done"
  /\ query_active' = TRUE /\ query_attempts' = 0
  /\ next_device_name_query_ms' = Plus(now, QueryDelay)
  /\ query_wait' = QueryDelay
  /\ UNCHANGED <<now, looped, keepalive_enabled, statusVars>>

\* A valid frame, and the reports among them that matter to the timestamps.
\* Reports still arrive in a session that is being given up.
ValidFrame ==
  /\ session # "down"
  /\ last_protocol_packet_ms' = now /\ protocol_age' = 0
  /\ UNCHANGED <<now, looped, session, keepalive_enabled, requestVars,
                 keepaliveVars>>

StatusReport ==
  /\ ValidFrame
  /\ data_fresh' = TRUE /\ last_valid_packet_ms' = now /\ status_age' = 0
  /\ UNCHANGED <<initial, queryVars>>

\* The first settings report makes the initial keepalive due.
SettingsReport ==
  /\ ValidFrame
  /\ initial' = IF initial = "pending" THEN "due" ELSE initial
  /\ UNCHANGED <<statusVars, queryVars>>

\* process_device_name_ with a usable name
DeviceNameReport ==
  /\ ValidFrame
  /\ query_active' = FALSE /\ query_wait' = 0
  /\ UNCHANGED <<initial, statusVars, query_attempts,
                 next_device_name_query_ms>>

\* on_transport_error_ and on_transport_disconnected_
TransportError ==
  /\ session # "down" /\ Reset("failing") /\ UNCHANGED <<now, looped>>

Disconnected ==
  /\ session # "down" /\ Reset("down") /\ UNCHANGED <<now, looped>>

\* An output or settings command that could be queued.  In a session that is
\* being given up it would set a timestamp that is not read any more.
CommandQueued ==
  /\ session = "served" /\ keepalive_enabled
  /\ RestartKeepalive
  /\ UNCHANGED <<now, looped, session, keepalive_enabled, initial, statusVars,
                 protocolVars, requestVars, queryVars>>

\* send_settings_keepalive_now, likewise
ManualKeepalive ==
  /\ session = "served" /\ initial # "pending"
  /\ initial' = "done"
  /\ RestartRequest /\ RestartKeepalive
  /\ UNCHANGED <<now, looped, session, keepalive_enabled, statusVars,
                 protocolVars, queryVars>>

\* set_settings_keepalive_enabled, at any time
SetKeepaliveEnabled ==
  /\ keepalive_enabled' = ~keepalive_enabled
  /\ initial' = IF keepalive_enabled' THEN initial ELSE "done"
  /\ RestartKeepalive
  /\ UNCHANGED <<now, looped, session, statusVars, protocolVars, requestVars,
                 queryVars>>

-----------------------------------------------------------------------------
(* loop()                                                                  *)

\* mutant: the report expires on the clock that wraps, without its age
StatusStaleByDate ==
  /\ data_fresh /\ last_valid_packet_ms # 0
  /\ now > Plus(last_valid_packet_ms, StaleTimeout)

\* mutant: nothing expires while a disconnect is awaited
StatusStaleUnlessClosing ==
  /\ session # "closing" /\ data_fresh /\ last_valid_packet_ms # 0
  /\ Elapsed(last_valid_packet_ms) > StaleTimeout

StatusStale ==
  /\ data_fresh /\ last_valid_packet_ms # 0
  /\ Elapsed(last_valid_packet_ms) > StaleTimeout

InitialDue == initial = "due"
QueryDue == query_active /\ Due(next_device_name_query_ms)
WatchdogDue == Elapsed(last_protocol_packet_ms) >= WatchdogTimeout
RequestDue == Elapsed(last_status_request_ms) >= KeepaliveInterval
KeepaliveDue ==
  keepalive_enabled /\ Elapsed(last_settings_keepalive_ms) >= SettingsInterval

Expire ==
  /\ looped' = TRUE
  /\ data_fresh' = (data_fresh /\ ~StatusStale)
  /\ last_valid_packet_ms' = IF StatusStale THEN 0 ELSE last_valid_packet_ms
  /\ status_age' = IF StatusStale THEN 0 ELSE status_age
  /\ UNCHANGED <<now, keepalive_enabled>>

LoopIdle ==
  /\ Expire
  /\ session \in {"down", "closing"}
  /\ UNCHANGED <<session, initial, protocolVars, requestVars, keepaliveVars,
                 queryVars>>

\* request_forced_reconnect_ for the scheduled reconnect
LoopForcedReconnect ==
  /\ Expire
  /\ session = "failing" /\ session' = "closing"
  /\ UNCHANGED <<initial, protocolVars, requestVars, keepaliveVars, queryVars>>

\* The initial keepalive postpones the query, and everything else.
LoopInitialKeepalive ==
  /\ Expire
  /\ session = "served" /\ InitialDue
  /\ initial' = "done"
  /\ RestartRequest /\ RestartKeepalive
  /\ next_device_name_query_ms' =
       IF query_active THEN Plus(now, QueryDelay) ELSE next_device_name_query_ms
  /\ query_wait' = IF query_active THEN QueryDelay ELSE 0
  /\ UNCHANGED <<session, protocolVars, query_active, query_attempts>>

\* The query that is due, if it can be queued; it ends with its last attempt.
SendQuery ==
  IF QueryDue
    THEN /\ query_attempts' = query_attempts + 1
         /\ query_active' = (query_attempts' < MaxAttempts)
         /\ next_device_name_query_ms' =
              IF query_active' THEN Plus(now, QueryRetry)
                               ELSE next_device_name_query_ms
         /\ query_wait' = IF query_active' THEN QueryRetry ELSE 0
    ELSE UNCHANGED queryVars

LoopWatchdog ==
  /\ Expire
  /\ session = "served" /\ ~InitialDue /\ WatchdogDue
  /\ SendQuery
  /\ session' = "closing"
  /\ UNCHANGED <<initial, protocolVars, requestVars, keepaliveVars>>

\* The periodic keepalive, with a snapshot to send.
LoopSettingsKeepalive ==
  /\ Expire
  /\ session = "served" /\ ~InitialDue /\ ~WatchdogDue /\ KeepaliveDue
  /\ SendQuery
  /\ RestartRequest /\ RestartKeepalive
  /\ UNCHANGED <<session, initial, protocolVars>>

\* No periodic keepalive is due, or there is no snapshot.
LoopStatusRequest ==
  /\ Expire
  /\ session = "served" /\ ~InitialDue /\ ~WatchdogDue
  /\ SendQuery
  /\ IF KeepaliveDue THEN RestartKeepalive ELSE UNCHANGED keepaliveVars
  /\ IF RequestDue THEN RestartRequest ELSE UNCHANGED requestVars
  /\ UNCHANGED <<session, initial, protocolVars>>

\* A refused query resets the session inside the iteration, which goes on with
\* timestamps of 0: depending on the uptime it finds the watchdog expired, or
\* the request due and refused, or nothing.  The two timestamps it may still set
\* are not read before Subscribed sets them anew.
LoopQueryRefused ==
  /\ looped' = TRUE
  /\ session = "served" /\ ~InitialDue /\ QueryDue
  /\ Reset(IF Elapsed(0) >= WatchdogTimeout \/ Elapsed(0) >= KeepaliveInterval
             THEN "closing" ELSE "failing")
  /\ UNCHANGED now

\* Any other refused write of loop().
LoopWriteRefused ==
  /\ looped' = TRUE
  /\ session = "served"
  /\ InitialDue \/ (~WatchdogDue /\ (RequestDue \/ KeepaliveDue))
  /\ Reset("closing")
  /\ UNCHANGED now

Loop ==
  \/ LoopIdle
  \/ LoopForcedReconnect
  \/ LoopInitialKeepalive
  \/ LoopWatchdog
  \/ LoopSettingsKeepalive
  \/ LoopStatusRequest
  \/ LoopQueryRefused
  \/ LoopWriteRefused

\* An age no property tells apart from a greater one.
Aged(age, lag, cap) == IF age + lag < cap THEN age + lag ELSE cap

\* The clock moves on, by at most MaxLag until loop() runs again.
Tick(lag) ==
  /\ looped /\ looped' = FALSE
  /\ now' = Plus(now, lag)
  /\ status_age' = IF data_fresh THEN Aged(status_age, lag, Expired) ELSE 0
  /\ protocol_age' = IF session = "served" THEN protocol_age + lag ELSE 0
  /\ request_age' = IF session = "served" THEN request_age + lag ELSE 0
  /\ keepalive_age' = IF session = "served" /\ keepalive_enabled
                        THEN keepalive_age + lag ELSE 0
  /\ query_wait' = IF session = "served" /\ query_active
                     THEN query_wait - lag ELSE 0
  /\ UNCHANGED <<session, keepalive_enabled, initial, data_fresh,
                 last_valid_packet_ms, last_protocol_packet_ms,
                 last_status_request_ms, last_settings_keepalive_ms,
                 query_active, query_attempts, next_device_name_query_ms>>

Next ==
  \/ Subscribed
  \/ StatusReport
  \/ SettingsReport
  \/ DeviceNameReport
  \/ TransportError
  \/ Disconnected
  \/ CommandQueued
  \/ ManualKeepalive
  \/ SetKeepaliveEnabled
  \/ Loop
  \/ \E lag \in 1..MaxLag : Tick(lag)

Spec == Init /\ [][Next]_vars

-----------------------------------------------------------------------------
(* Properties                                                              *)

TypeOK ==
  /\ now \in 0..(Wrap - 1) /\ looped \in BOOLEAN
  /\ session \in {"down", "served", "failing", "closing"}
  /\ data_fresh \in BOOLEAN /\ query_active \in BOOLEAN
  /\ keepalive_enabled \in BOOLEAN /\ initial \in {"pending", "due", "done"}
  /\ last_valid_packet_ms \in 0..(Wrap - 1)
  /\ last_protocol_packet_ms \in 0..(Wrap - 1)
  /\ last_status_request_ms \in 0..(Wrap - 1)
  /\ last_settings_keepalive_ms \in 0..(Wrap - 1)
  /\ next_device_name_query_ms \in 0..(Wrap - 1)
  /\ query_attempts \in 0..MaxAttempts
  /\ status_age \in 0..Expired
  /\ protocol_age \in Nat /\ request_age \in Nat /\ keepalive_age \in Nat
  /\ query_wait \in Int

\* Wherever loop() reads a timestamp it computes the true age, however often
\* the clock has wrapped and however long the keepalive was off, and a query is
\* due exactly when its time has come.
AgesAreTrue ==
  /\ data_fresh /\ last_valid_packet_ms # 0 =>
       Elapsed(last_valid_packet_ms) = status_age
  /\ session = "served" =>
       /\ Elapsed(last_protocol_packet_ms) = protocol_age
       /\ Elapsed(last_status_request_ms) = request_age
       /\ keepalive_enabled =>
            Elapsed(last_settings_keepalive_ms) = keepalive_age
       /\ QueryDue <=> query_active /\ query_wait <= 0

\* Telemetry on display is never older than the stale timeout once loop() has
\* run, unless its report came in the one millisecond whose timestamp is 0.
FreshIsRecent ==
  looped /\ data_fresh /\ last_valid_packet_ms # 0 =>
    status_age <= StaleTimeout

\* allpowers_ble.cpp:70-72: telemetry expires even while the link stays open.
FreshIsAlwaysRecent == looped /\ data_fresh => status_age <= StaleTimeout

\* Nothing happens early: the link is given up by the watchdog, telemetry is
\* dropped and a keepalive is sent only after the full time of each.
NothingExpiresEarly ==
  [][/\ LoopWatchdog => protocol_age >= WatchdogTimeout
     /\ Expire /\ data_fresh /\ ~data_fresh' => status_age > StaleTimeout
     /\ LoopSettingsKeepalive => keepalive_age >= SettingsInterval]_vars

-----------------------------------------------------------------------------
(* The inductive invariant: where loop() reads a timestamp, timestamp and  *)
(* true age add up to now, and no age comes near the width of the clock.   *)

\* How long loop() may not have run.
Lag == IF looped THEN 0 ELSE MaxLag

Since(last, age) == last + age = now \/ last + age = now + Wrap

StatusClock ==
  data_fresh /\ last_valid_packet_ms # 0 =>
    /\ Since(last_valid_packet_ms, status_age)
    /\ status_age <= StaleTimeout + Lag

ProtocolClock ==
  session = "served" =>
    /\ Since(last_protocol_packet_ms, protocol_age)
    /\ protocol_age < WatchdogTimeout + Lag
    /\ InitialDue => protocol_age <= Lag

RequestClock ==
  session = "served" =>
    /\ Since(last_status_request_ms, request_age)
    /\ request_age < KeepaliveInterval + Lag

KeepaliveClock ==
  session = "served" /\ keepalive_enabled =>
    /\ Since(last_settings_keepalive_ms, keepalive_age)
    /\ keepalive_age < SettingsInterval + Lag

QueryClock ==
  session = "served" /\ query_active =>
    /\ Since(next_device_name_query_ms, -query_wait)
         \/ next_device_name_query_ms + Wrap = now + query_wait
    /\ query_attempts < MaxAttempts
    /\ -Lag <= query_wait /\ query_wait < Half

Clocks ==
  /\ StatusClock
  /\ ProtocolClock
  /\ RequestClock
  /\ KeepaliveClock
  /\ QueryClock
=============================================================================
