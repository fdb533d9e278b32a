------------------------- MODULE MillisClock_proofs -------------------------
(* Proofs that loop() computes true ages on a clock that wraps, for every    *)
(* width of the clock and all timeouts that fit half of it.                  *)
(*                                                                           *)
(* The invariant Clocks says of each timestamp loop() may read that it and   *)
(* its true age add up to now, give or take one turn of the clock.  That     *)
(* alone is not inductive: an age must also stay below half a turn, and only *)
(* loop() keeps it there, by restarting or giving up what has become due.    *)
EXTENDS MillisClock, TLAPS

Times == 0..(Wrap - 1)

\* What the lemmas use of the assumption on the constants.
LEMMA Widths ==
  /\ Half \in Nat /\ Wrap = 2 * Half /\ Wrap \in Nat
  /\ MaxLag \in Nat /\ MaxLag > 0 /\ MaxLag < Half
  /\ StaleTimeout \in Nat /\ StaleTimeout + MaxLag < Half
  /\ WatchdogTimeout \in Nat /\ WatchdogTimeout + MaxLag < Half
  /\ MaxLag < WatchdogTimeout
  /\ SettingsInterval \in Nat /\ SettingsInterval > 0
  /\ SettingsInterval + MaxLag < Half
  /\ KeepaliveInterval \in Nat /\ KeepaliveInterval > 0
  /\ KeepaliveInterval + MaxLag < Half
  /\ QueryDelay \in Nat /\ QueryDelay + MaxLag < Half
  /\ QueryRetry \in Nat /\ QueryRetry + MaxLag < Half
  /\ MaxAttempts \in Nat /\ MaxAttempts > 0
  BY ClockAssumption DEF Wrap

\* A difference of two timestamps modulo the width is the true age.
LEMMA ElapsedIsAge ==
  ASSUME now \in Times, NEW last \in Times, NEW age \in Nat, age < Half,
         Since(last, age)
  PROVE  Elapsed(last) = age
  BY Widths DEF Times, Elapsed, Since

\* A difference of two timestamps is a time.
LEMMA ElapsedType ==
  ASSUME now \in Times, NEW last \in Times
  PROVE  Elapsed(last) \in Times
  BY Widths DEF Times, Elapsed

\* A due time is a timestamp that lies as far ahead as was asked.
LEMMA PlusIsLater ==
  ASSUME NEW time \in Times, NEW interval \in Nat, interval < Half
  PROVE  /\ Plus(time, interval) \in Times
         /\ \/ Plus(time, interval) = time + interval
            \/ Plus(time, interval) + Wrap = time + interval
  BY Widths DEF Times, Plus

\* As the clock moves, timestamp and age go on adding up to it.
LEMMA SinceTick ==
  ASSUME now \in Times, NEW last \in Times, NEW age \in Int, age < Half,
         NEW lag \in 1..MaxLag, now' = Plus(now, lag), Since(last, age)
  PROVE  last + (age + lag) = now' \/ last + (age + lag) = now' + Wrap
  BY Widths DEF Times, Plus, Since

-----------------------------------------------------------------------------
(* Types.                                                                  *)

Flags ==
  /\ looped \in BOOLEAN
  /\ session \in {"down", "served", "failing", "closing"}
  /\ data_fresh \in BOOLEAN /\ query_active \in BOOLEAN
  /\ keepalive_enabled \in BOOLEAN /\ initial \in {"pending", "due", "done"}

Stamps ==
  /\ now \in Times
  /\ last_valid_packet_ms \in Times
  /\ last_protocol_packet_ms \in Times
  /\ last_status_request_ms \in Times
  /\ last_settings_keepalive_ms \in Times
  /\ next_device_name_query_ms \in Times

Ages ==
  /\ query_attempts \in 0..MaxAttempts
  /\ status_age \in 0..Expired
  /\ protocol_age \in Nat /\ request_age \in Nat /\ keepalive_age \in Nat
  /\ query_wait \in Int

\* The three parts are the type invariant.
LEMMA Parts == TypeOK <=> Flags /\ Stamps /\ Ages
  BY DEF TypeOK, Flags, Stamps, Ages, Times

\* Sending a query keeps the types.
LEMMA SendQueryType ==
  ASSUME TypeOK, QueryClock, session = "served", SendQuery
  PROVE  /\ query_active' \in BOOLEAN
         /\ next_device_name_query_ms' \in Times
         /\ query_attempts' \in 0..MaxAttempts /\ query_wait' \in Int
<1>1. CASE QueryDue
  <2>1. query_active /\ query_attempts < MaxAttempts
    BY <1>1 DEF QueryDue, QueryClock
  <2>2. query_attempts \in 0..MaxAttempts /\ query_attempts' = query_attempts + 1
        /\ query_active' = (query_attempts' < MaxAttempts)
    BY <1>1 DEF TypeOK, SendQuery
  <2>3. query_attempts' \in 0..MaxAttempts /\ query_active' \in BOOLEAN
    BY <2>1, <2>2, Widths
  <2>4. Plus(now, QueryRetry) \in Times /\ next_device_name_query_ms \in Times
    BY PlusIsLater, Widths DEF TypeOK, Times
  <2>5. next_device_name_query_ms' \in Times
    BY <1>1, <2>4 DEF SendQuery
  <2>6. query_wait' \in Int
    BY <1>1, Widths DEF SendQuery
  <2> QED
    BY <2>3, <2>5, <2>6
<1>2. CASE ~QueryDue
  BY <1>2 DEF SendQuery, queryVars, TypeOK, Times
<1> QED
  BY <1>1, <1>2

\* Every handler keeps the flags in their types.
LEMMA FlagsStep ==
  ASSUME TypeOK, QueryClock, [Next]_vars
  PROVE  Flags'
<1> USE DEF Flags, statusVars, queryVars
<1>0. Flags
  BY Parts
<1>1. CASE Subscribed
  BY <1>0, <1>1 DEF Subscribed
<1>2. CASE StatusReport
  BY <1>0, <1>2 DEF StatusReport, ValidFrame
<1>3. CASE SettingsReport
  BY <1>0, <1>3 DEF SettingsReport, ValidFrame
<1>4. CASE DeviceNameReport
  BY <1>0, <1>4 DEF DeviceNameReport, ValidFrame
<1>5. CASE TransportError \/ Disconnected
  BY <1>0, <1>5 DEF TransportError, Disconnected, Reset
<1>6. CASE CommandQueued \/ ManualKeepalive
  BY <1>0, <1>6 DEF CommandQueued, ManualKeepalive
<1>7. CASE SetKeepaliveEnabled
  BY <1>0, <1>7 DEF SetKeepaliveEnabled
<1>8. CASE Loop
  <2>1. CASE LoopIdle \/ LoopForcedReconnect
    <3>1. data_fresh' \in BOOLEAN /\ looped' \in BOOLEAN
      BY <2>1, Zenon DEF LoopIdle, LoopForcedReconnect, Expire
    <3> QED
      BY <1>0, <2>1, <3>1 DEF LoopIdle, LoopForcedReconnect, Expire
  <2>2. CASE LoopInitialKeepalive
    <3>1. data_fresh' \in BOOLEAN /\ looped' \in BOOLEAN
      BY <2>2, Zenon DEF LoopInitialKeepalive, Expire
    <3> QED
      BY <1>0, <2>2, <3>1 DEF LoopInitialKeepalive, Expire
  <2>3. CASE LoopWatchdog \/ LoopSettingsKeepalive \/ LoopStatusRequest
    <3>1. data_fresh' \in BOOLEAN /\ looped' \in BOOLEAN
      BY <2>3, Zenon
      DEF LoopWatchdog, LoopSettingsKeepalive, LoopStatusRequest, Expire
    <3>2. session = "served" /\ SendQuery
      BY <2>3 DEF LoopWatchdog, LoopSettingsKeepalive, LoopStatusRequest
    <3>3. query_active' \in BOOLEAN
      BY <3>2, SendQueryType
    <3> QED
      BY <1>0, <2>3, <3>1, <3>3
      DEF LoopWatchdog, LoopSettingsKeepalive, LoopStatusRequest, Expire
  <2>4. CASE LoopQueryRefused \/ LoopWriteRefused
    BY <1>0, <2>4 DEF LoopQueryRefused, LoopWriteRefused, Reset
  <2> QED
    BY <1>8, <2>1, <2>2, <2>3, <2>4 DEF Loop
<1>9. CASE \E lag \in 1..MaxLag : Tick(lag)
  BY <1>0, <1>9 DEF Tick
<1>10. CASE UNCHANGED vars
  BY <1>0, <1>10 DEF vars
<1> QED
  BY <1>1, <1>2, <1>3, <1>4, <1>5, <1>6, <1>7, <1>8, <1>9, <1>10 DEF Next

\* Every handler keeps the timestamps within the width of the clock.
LEMMA StampsStep ==
  ASSUME TypeOK, QueryClock, [Next]_vars
  PROVE  Stamps'
<1> USE DEF Stamps, statusVars, protocolVars, requestVars, keepaliveVars,
            queryVars, RestartRequest, RestartKeepalive
<1>0. Stamps /\ 0 \in Times
  BY Parts, Widths DEF Times
<1>1. CASE Subscribed
  <2>1. Plus(now, QueryDelay) \in Times
    BY <1>0, PlusIsLater, Widths
  <2> QED
    BY <1>0, <1>1, <2>1 DEF Subscribed
<1>2. CASE StatusReport \/ SettingsReport \/ DeviceNameReport
  BY <1>0, <1>2 DEF StatusReport, SettingsReport, DeviceNameReport, ValidFrame
<1>3. CASE TransportError \/ Disconnected
  BY <1>0, <1>3 DEF TransportError, Disconnected, Reset
<1>4. CASE CommandQueued \/ ManualKeepalive \/ SetKeepaliveEnabled
  BY <1>0, <1>4 DEF CommandQueued, ManualKeepalive, SetKeepaliveEnabled
<1>5. CASE Loop
  <2>1. CASE LoopIdle \/ LoopForcedReconnect
    BY <1>0, <2>1 DEF LoopIdle, LoopForcedReconnect, Expire
  <2>2. CASE LoopInitialKeepalive
    <3>1. Plus(now, QueryDelay) \in Times
      BY <1>0, PlusIsLater, Widths
    <3> QED
      BY <1>0, <2>2, <3>1 DEF LoopInitialKeepalive, Expire
  <2>3. CASE LoopWatchdog \/ LoopSettingsKeepalive \/ LoopStatusRequest
    <3>1. session = "served" /\ SendQuery
      BY <2>3 DEF LoopWatchdog, LoopSettingsKeepalive, LoopStatusRequest
    <3>2. next_device_name_query_ms' \in Times
      BY <3>1, SendQueryType
    <3> QED
      BY <1>0, <2>3, <3>2
      DEF LoopWatchdog, LoopSettingsKeepalive, LoopStatusRequest, Expire
  <2>4. CASE LoopQueryRefused \/ LoopWriteRefused
    BY <1>0, <2>4 DEF LoopQueryRefused, LoopWriteRefused, Reset
  <2> QED
    BY <1>5, <2>1, <2>2, <2>3, <2>4 DEF Loop
<1>6. CASE \E lag \in 1..MaxLag : Tick(lag)
  <2>1. \A lag \in 1..MaxLag : Plus(now, lag) \in Times
    BY <1>0, PlusIsLater, Widths
  <2> QED
    BY <1>0, <1>6, <2>1 DEF Tick
<1>7. CASE UNCHANGED vars
  BY <1>0, <1>7 DEF vars
<1> QED
  BY <1>1, <1>2, <1>3, <1>4, <1>5, <1>6, <1>7 DEF Next

\* Every handler keeps the ages in their types.
LEMMA AgesStep ==
  ASSUME TypeOK, QueryClock, [Next]_vars
  PROVE  Ages'
<1> USE DEF Ages, statusVars, protocolVars, requestVars, keepaliveVars,
            queryVars, RestartRequest, RestartKeepalive
<1>0. Ages /\ 0 \in 0..Expired /\ 0 \in 0..MaxAttempts
  BY Parts, Widths DEF Expired
<1>1. CASE Subscribed
  BY <1>0, <1>1, Widths DEF Subscribed
<1>2. CASE StatusReport \/ SettingsReport \/ DeviceNameReport
  BY <1>0, <1>2 DEF StatusReport, SettingsReport, DeviceNameReport, ValidFrame
<1>3. CASE TransportError \/ Disconnected
  BY <1>0, <1>3 DEF TransportError, Disconnected, Reset
<1>4. CASE CommandQueued \/ ManualKeepalive \/ SetKeepaliveEnabled
  BY <1>0, <1>4 DEF CommandQueued, ManualKeepalive, SetKeepaliveEnabled
<1>5. CASE Loop
  <2>1. CASE LoopIdle \/ LoopForcedReconnect
    BY <1>0, <2>1 DEF LoopIdle, LoopForcedReconnect, Expire
  <2>2. CASE LoopInitialKeepalive
    BY <1>0, <2>2, Widths DEF LoopInitialKeepalive, Expire
  <2>3. CASE LoopWatchdog \/ LoopSettingsKeepalive \/ LoopStatusRequest
    <3>1. session = "served" /\ SendQuery
      BY <2>3 DEF LoopWatchdog, LoopSettingsKeepalive, LoopStatusRequest
    <3>2. query_attempts' \in 0..MaxAttempts /\ query_wait' \in Int
      BY <3>1, SendQueryType
    <3> QED
      BY <1>0, <2>3, <3>2
      DEF LoopWatchdog, LoopSettingsKeepalive, LoopStatusRequest, Expire
  <2>4. CASE LoopQueryRefused \/ LoopWriteRefused
    BY <1>0, <2>4 DEF LoopQueryRefused, LoopWriteRefused, Reset
  <2> QED
    BY <1>5, <2>1, <2>2, <2>3, <2>4 DEF Loop
<1>6. CASE \E lag \in 1..MaxLag : Tick(lag)
  BY <1>0, <1>6, Widths DEF Tick, Aged, Expired
<1>7. CASE UNCHANGED vars
  BY <1>0, <1>7 DEF vars
<1> QED
  BY <1>1, <1>2, <1>3, <1>4, <1>5, <1>6, <1>7 DEF Next
-----------------------------------------------------------------------------
(* The clocks.                                                             *)

\* loop() may be late by MaxLag until it has run, and not at all afterwards.
LEMMA LagRange == Lag \in Nat /\ Lag <= MaxLag /\ (looped => Lag = 0)
  BY Widths DEF Lag

\* The same after a step.
LEMMA LagNext ==
  /\ Lag' \in Nat /\ (~looped' => Lag' = MaxLag) /\ (looped' = looped => Lag' = Lag)
  BY Widths DEF Lag

\* Telemetry expires by the true age of its report.
LEMMA StatusStep ==
  ASSUME TypeOK, StatusClock, [Next]_vars
  PROVE  StatusClock'
<1> USE DEF statusVars
<1>0. /\ now \in Times /\ status_age \in Nat /\ last_valid_packet_ms \in Times
      /\ now \in Int /\ last_valid_packet_ms \in Int
      /\ Lag \in Nat /\ Lag' \in Nat
  BY Widths, LagRange, LagNext DEF TypeOK, Times
<1>1. ASSUME UNCHANGED <<now, looped, statusVars>>
      PROVE  StatusClock'
  BY <1>1 DEF StatusClock, Since, Lag
<1>2. ASSUME data_fresh' = FALSE
      PROVE  StatusClock'
  BY <1>2 DEF StatusClock
<1>3. CASE StatusReport
  <2>1. now' = now /\ last_valid_packet_ms' = now /\ status_age' = 0
    BY <1>3 DEF StatusReport, ValidFrame
  <2> QED
    BY <1>0, <2>1, Widths DEF StatusClock, Since, Lag
<1>4. CASE \/ Subscribed \/ SettingsReport \/ DeviceNameReport
           \/ CommandQueued \/ ManualKeepalive \/ SetKeepaliveEnabled
  BY <1>1, <1>4
  DEF Subscribed, SettingsReport, DeviceNameReport, ValidFrame, CommandQueued,
      ManualKeepalive, SetKeepaliveEnabled
<1>5. CASE TransportError \/ Disconnected \/ LoopQueryRefused \/ LoopWriteRefused
  BY <1>2, <1>5
  DEF TransportError, Disconnected, LoopQueryRefused, LoopWriteRefused, Reset
<1>6. CASE Loop /\ ~LoopQueryRefused /\ ~LoopWriteRefused
  <2>1. Expire
    BY <1>6
    DEF Loop, LoopIdle, LoopForcedReconnect, LoopInitialKeepalive,
        LoopWatchdog, LoopSettingsKeepalive, LoopStatusRequest
  <2>2. SUFFICES ASSUME data_fresh', last_valid_packet_ms' # 0
                 PROVE  StatusClock'
    BY DEF StatusClock
  <2>3. data_fresh /\ ~StatusStale
    BY <2>1, <2>2, Zenon DEF Expire
  <2>4. /\ last_valid_packet_ms' = last_valid_packet_ms
        /\ status_age' = status_age /\ now' = now
    BY <2>1, <2>3 DEF Expire
  <2>5. Since(last_valid_packet_ms, status_age) /\ status_age < Half
    BY <1>0, <2>2, <2>3, <2>4, LagRange, Widths DEF StatusClock
  <2>6. Elapsed(last_valid_packet_ms) = status_age
    BY <1>0, <2>5, ElapsedIsAge
  <2>7. status_age <= StaleTimeout
    BY <1>0, <2>2, <2>3, <2>4, <2>6, Widths DEF StatusStale
  <2> QED
    BY <1>0, <2>4, <2>5, <2>7, Widths DEF StatusClock, Since, Lag
<1>7. ASSUME NEW lag \in 1..MaxLag, Tick(lag)
      PROVE  StatusClock'
  <2>1. SUFFICES ASSUME data_fresh, last_valid_packet_ms # 0
                 PROVE  StatusClock'
    BY <1>7 DEF StatusClock, Tick
  <2>2. looped /\ Lag = 0 /\ Lag' = MaxLag /\ now' = Plus(now, lag)
    BY <1>7, LagRange, LagNext DEF Tick
  <2>3. Since(last_valid_packet_ms, status_age) /\ status_age <= StaleTimeout
    BY <2>1, <2>2, Widths DEF StatusClock
  <2>4. status_age' = status_age + lag
    BY <1>0, <1>7, <2>1, <2>3, Widths DEF Tick, Aged, Expired
  <2>5. status_age < Half
    BY <1>0, <2>3, Widths
  <2>6. \/ last_valid_packet_ms + status_age' = now'
        \/ last_valid_packet_ms + status_age' = now' + Wrap
    BY <1>0, <2>2, <2>3, <2>4, <2>5, SinceTick
  <2>7. last_valid_packet_ms' = last_valid_packet_ms
    BY <1>7 DEF Tick
  <2> QED
    BY <1>0, <2>2, <2>3, <2>4, <2>6, <2>7, Widths DEF StatusClock, Since, Lag
<1>8. CASE UNCHANGED vars
  BY <1>1, <1>8 DEF vars
<1> QED
  BY <1>3, <1>4, <1>5, <1>6, <1>7, <1>8 DEF Next

\* The watchdog counts true time since the last valid frame.  Only the initial
\* keepalive goes before it, which is due at most one late iteration after one.
LEMMA ProtocolStep ==
  ASSUME TypeOK, ProtocolClock, [Next]_vars
  PROVE  ProtocolClock'
<1> USE DEF protocolVars
<1>0. /\ now \in Times /\ protocol_age \in Nat
      /\ last_protocol_packet_ms \in Times
      /\ now \in Int /\ last_protocol_packet_ms \in Int
      /\ Lag \in Nat /\ Lag' \in Nat
  BY Widths, LagRange, LagNext DEF TypeOK, Times
<1>1. ASSUME UNCHANGED <<now, looped, session, protocolVars>>,
             InitialDue' => InitialDue
      PROVE  ProtocolClock'
  BY <1>1 DEF ProtocolClock, Since, Lag
<1>2. ASSUME session' # "served"
      PROVE  ProtocolClock'
  BY <1>2 DEF ProtocolClock
<1>3. CASE Subscribed \/ StatusReport \/ SettingsReport \/ DeviceNameReport
  <2>1. now' = now /\ last_protocol_packet_ms' = now /\ protocol_age' = 0
    BY <1>3
    DEF Subscribed, StatusReport, SettingsReport, DeviceNameReport, ValidFrame
  <2> QED
    BY <1>0, <2>1, Widths DEF ProtocolClock, Since, Lag
<1>4. CASE CommandQueued \/ ManualKeepalive \/ SetKeepaliveEnabled
  <2>1. UNCHANGED <<now, looped, session, protocolVars>>
    BY <1>4 DEF CommandQueued, ManualKeepalive, SetKeepaliveEnabled
  <2>2. InitialDue' => InitialDue
    BY <1>4
    DEF CommandQueued, ManualKeepalive, SetKeepaliveEnabled, InitialDue
  <2> QED
    BY <1>1, <2>1, <2>2
<1>5. CASE TransportError \/ Disconnected \/ LoopQueryRefused \/ LoopWriteRefused
  BY <1>2, <1>5
  DEF TransportError, Disconnected, LoopQueryRefused, LoopWriteRefused, Reset
<1>6. CASE LoopIdle \/ LoopForcedReconnect \/ LoopWatchdog
  BY <1>2, <1>6 DEF LoopIdle, LoopForcedReconnect, LoopWatchdog
<1>7. CASE LoopInitialKeepalive \/ LoopSettingsKeepalive \/ LoopStatusRequest
  <2>1. /\ session = "served" /\ session' = session /\ now' = now
        /\ UNCHANGED protocolVars
    BY <1>7
    DEF LoopInitialKeepalive, LoopSettingsKeepalive, LoopStatusRequest, Expire
  <2>2. /\ Since(last_protocol_packet_ms, protocol_age)
        /\ protocol_age < WatchdogTimeout + Lag
        /\ InitialDue => protocol_age <= Lag
    BY <2>1 DEF ProtocolClock
  <2>3. ~InitialDue'
    BY <1>7
    DEF LoopInitialKeepalive, LoopSettingsKeepalive, LoopStatusRequest,
        InitialDue
  <2>4. protocol_age < WatchdogTimeout
    <3>1. CASE LoopInitialKeepalive
      BY <1>0, <2>2, <3>1, LagRange, Widths DEF LoopInitialKeepalive
    <3>2. CASE ~WatchdogDue
      <4>1. protocol_age < Half
        BY <1>0, <2>2, LagRange, Widths
      <4>2. Elapsed(last_protocol_packet_ms) = protocol_age
        BY <1>0, <2>2, <4>1, ElapsedIsAge
      <4> QED
        BY <1>0, <3>2, <4>2, Widths DEF WatchdogDue
    <3> QED
      BY <1>7, <3>1, <3>2 DEF LoopSettingsKeepalive, LoopStatusRequest
  <2> QED
    BY <1>0, <2>1, <2>2, <2>3, <2>4, Widths DEF ProtocolClock, Since, Lag
<1>8. ASSUME NEW lag \in 1..MaxLag, Tick(lag)
      PROVE  ProtocolClock'
  <2>1. SUFFICES ASSUME session = "served"
                 PROVE  ProtocolClock'
    BY <1>8 DEF ProtocolClock, Tick
  <2>2. looped /\ Lag = 0 /\ Lag' = MaxLag /\ now' = Plus(now, lag)
    BY <1>8, LagRange, LagNext DEF Tick
  <2>3. /\ Since(last_protocol_packet_ms, protocol_age)
        /\ protocol_age < WatchdogTimeout /\ (InitialDue => protocol_age <= 0)
    BY <1>0, <2>1, <2>2, Widths DEF ProtocolClock
  <2>4. /\ protocol_age' = protocol_age + lag
        /\ UNCHANGED <<last_protocol_packet_ms, initial>>
    BY <1>8, <2>1 DEF Tick
  <2>5. protocol_age < Half
    BY <1>0, <2>3, Widths
  <2>6. \/ last_protocol_packet_ms + protocol_age' = now'
        \/ last_protocol_packet_ms + protocol_age' = now' + Wrap
    BY <1>0, <2>2, <2>3, <2>4, <2>5, SinceTick
  <2> QED
    BY <1>0, <2>2, <2>3, <2>4, <2>6, Widths
    DEF ProtocolClock, Since, Lag, InitialDue
<1>9. CASE UNCHANGED vars
  BY <1>1, <1>9 DEF vars, InitialDue
<1> QED
  BY <1>3, <1>4, <1>5, <1>6, <1>7, <1>8, <1>9 DEF Next, Loop

\* The status request counts true time since the last one, or since a settings
\* frame that took its place.
LEMMA RequestStep ==
  ASSUME TypeOK, ProtocolClock, RequestClock, [Next]_vars
  PROVE  RequestClock'
<1> USE DEF requestVars, RestartRequest
<1>0. /\ now \in Times /\ request_age \in Nat
      /\ last_status_request_ms \in Times
      /\ now \in Int /\ last_status_request_ms \in Int
      /\ Lag \in Nat /\ Lag' \in Nat
  BY Widths, LagRange, LagNext DEF TypeOK, Times
<1>1. ASSUME UNCHANGED <<now, looped, session, requestVars>>
      PROVE  RequestClock'
  BY <1>1 DEF RequestClock, Since, Lag
<1>2. ASSUME session' # "served"
      PROVE  RequestClock'
  BY <1>2 DEF RequestClock
<1>3. ASSUME now' = now, RestartRequest
      PROVE  RequestClock'
  BY <1>0, <1>3, Widths DEF RequestClock, Since, Lag
<1>4. CASE Subscribed \/ ManualKeepalive
  BY <1>3, <1>4 DEF Subscribed, ManualKeepalive
<1>5. CASE \/ StatusReport \/ SettingsReport \/ DeviceNameReport
           \/ CommandQueued \/ SetKeepaliveEnabled
  BY <1>1, <1>5
  DEF StatusReport, SettingsReport, DeviceNameReport, ValidFrame,
      CommandQueued, SetKeepaliveEnabled
<1>6. CASE \/ TransportError \/ Disconnected \/ LoopQueryRefused
           \/ LoopWriteRefused \/ LoopIdle \/ LoopForcedReconnect
           \/ LoopWatchdog
  BY <1>2, <1>6
  DEF TransportError, Disconnected, LoopQueryRefused, LoopWriteRefused, Reset,
      LoopIdle, LoopForcedReconnect, LoopWatchdog
<1>7. CASE LoopInitialKeepalive \/ LoopSettingsKeepalive
  BY <1>3, <1>7 DEF LoopInitialKeepalive, LoopSettingsKeepalive, Expire
<1>8. CASE LoopStatusRequest
  <2>1. session = "served" /\ now' = now
    BY <1>8 DEF LoopStatusRequest, Expire
  <2>2. CASE RequestDue
    BY <1>3, <1>8, <2>1, <2>2 DEF LoopStatusRequest
  <2>3. CASE ~RequestDue
    <3>1. /\ Since(last_status_request_ms, request_age)
          /\ request_age < KeepaliveInterval + Lag
      BY <2>1 DEF RequestClock
    <3>2. request_age < Half
      BY <1>0, <3>1, LagRange, Widths
    <3>3. Elapsed(last_status_request_ms) = request_age
      BY <1>0, <3>1, <3>2, ElapsedIsAge
    <3>4. request_age < KeepaliveInterval
      BY <1>0, <2>3, <3>3, Widths DEF RequestDue
    <3>5. UNCHANGED requestVars
      BY <1>8, <2>3 DEF LoopStatusRequest
    <3> QED
      BY <1>0, <2>1, <3>1, <3>4, <3>5, Widths DEF RequestClock, Since, Lag
  <2> QED
    BY <2>2, <2>3
<1>9. ASSUME NEW lag \in 1..MaxLag, Tick(lag)
      PROVE  RequestClock'
  <2>1. SUFFICES ASSUME session = "served"
                 PROVE  RequestClock'
    BY <1>9 DEF RequestClock, Tick
  <2>2. looped /\ Lag = 0 /\ Lag' = MaxLag /\ now' = Plus(now, lag)
    BY <1>9, LagRange, LagNext DEF Tick
  <2>3. /\ Since(last_status_request_ms, request_age)
        /\ request_age < KeepaliveInterval
    BY <1>0, <2>1, <2>2, Widths DEF RequestClock
  <2>4. /\ request_age' = request_age + lag
        /\ UNCHANGED last_status_request_ms
    BY <1>9, <2>1 DEF Tick
  <2>5. request_age < Half
    BY <1>0, <2>3, Widths
  <2>6. \/ last_status_request_ms + request_age' = now'
        \/ last_status_request_ms + request_age' = now' + Wrap
    BY <1>0, <2>2, <2>3, <2>4, <2>5, SinceTick
  <2> QED
    BY <1>0, <2>2, <2>3, <2>4, <2>6, Widths DEF RequestClock, Since, Lag
<1>10. CASE UNCHANGED vars
  BY <1>1, <1>10 DEF vars
<1> QED
  BY <1>4, <1>5, <1>6, <1>7, <1>8, <1>9, <1>10 DEF Next, Loop
\* The keepalive counts true time since the last settings frame, and starts over
\* when it is enabled.
LEMMA KeepaliveStep ==
  ASSUME TypeOK, KeepaliveClock, [Next]_vars
  PROVE  KeepaliveClock'
<1> USE DEF keepaliveVars, RestartKeepalive
<1>0. /\ now \in Times /\ keepalive_age \in Nat
      /\ last_settings_keepalive_ms \in Times
      /\ now \in Int /\ last_settings_keepalive_ms \in Int
      /\ Lag \in Nat
  BY Widths, LagRange DEF TypeOK, Times
<1>1. ASSUME UNCHANGED <<now, looped, session, keepalive_enabled, keepaliveVars>>
      PROVE  KeepaliveClock'
  BY <1>1 DEF KeepaliveClock, Since, Lag
<1>2. ASSUME session' # "served"
      PROVE  KeepaliveClock'
  BY <1>2 DEF KeepaliveClock
<1>3. ASSUME now' = now, RestartKeepalive
      PROVE  KeepaliveClock'
  BY <1>0, <1>3, Widths DEF KeepaliveClock, Since, Lag
<1>4. CASE \/ Subscribed \/ ManualKeepalive \/ CommandQueued
           \/ SetKeepaliveEnabled
  BY <1>3, <1>4
  DEF Subscribed, ManualKeepalive, CommandQueued, SetKeepaliveEnabled
<1>5. CASE StatusReport \/ SettingsReport \/ DeviceNameReport
  BY <1>1, <1>5
  DEF StatusReport, SettingsReport, DeviceNameReport, ValidFrame
<1>6. CASE \/ TransportError \/ Disconnected \/ LoopQueryRefused
           \/ LoopWriteRefused \/ LoopIdle \/ LoopForcedReconnect
           \/ LoopWatchdog
  BY <1>2, <1>6
  DEF TransportError, Disconnected, LoopQueryRefused, LoopWriteRefused, Reset,
      LoopIdle, LoopForcedReconnect, LoopWatchdog
<1>7. CASE LoopInitialKeepalive \/ LoopSettingsKeepalive
  BY <1>3, <1>7 DEF LoopInitialKeepalive, LoopSettingsKeepalive, Expire
<1>8. CASE LoopStatusRequest
  <2>1. session = "served" /\ now' = now /\ keepalive_enabled' = keepalive_enabled
    BY <1>8 DEF LoopStatusRequest, Expire
  <2>2. CASE KeepaliveDue
    BY <1>3, <1>8, <2>1, <2>2 DEF LoopStatusRequest
  <2>3. CASE ~KeepaliveDue /\ keepalive_enabled
    <3>1. /\ Since(last_settings_keepalive_ms, keepalive_age)
          /\ keepalive_age < SettingsInterval + Lag
      BY <2>1, <2>3 DEF KeepaliveClock
    <3>2. keepalive_age < Half
      BY <1>0, <3>1, LagRange, Widths
    <3>3. Elapsed(last_settings_keepalive_ms) = keepalive_age
      BY <1>0, <3>1, <3>2, ElapsedIsAge
    <3>4. keepalive_age < SettingsInterval
      BY <1>0, <2>3, <3>3, Widths DEF KeepaliveDue
    <3>5. UNCHANGED keepaliveVars
      BY <1>8, <2>3 DEF LoopStatusRequest
    <3> QED
      BY <1>0, <2>1, <3>1, <3>4, <3>5, Widths DEF KeepaliveClock, Since, Lag
  <2>4. CASE ~keepalive_enabled
    BY <2>1, <2>4 DEF KeepaliveClock
  <2> QED
    BY <2>2, <2>3, <2>4
<1>9. ASSUME NEW lag \in 1..MaxLag, Tick(lag)
      PROVE  KeepaliveClock'
  <2>1. SUFFICES ASSUME session = "served", keepalive_enabled
                 PROVE  KeepaliveClock'
    BY <1>9 DEF KeepaliveClock, Tick
  <2>2. looped /\ Lag = 0 /\ now' = Plus(now, lag)
    BY <1>9, LagRange DEF Tick
  <2>3. /\ Since(last_settings_keepalive_ms, keepalive_age)
        /\ keepalive_age < SettingsInterval
    BY <1>0, <2>1, <2>2, Widths DEF KeepaliveClock
  <2>4. /\ keepalive_age' = keepalive_age + lag /\ ~looped'
        /\ UNCHANGED last_settings_keepalive_ms
    BY <1>9, <2>1 DEF Tick
  <2>5. keepalive_age < Half
    BY <1>0, <2>3, Widths
  <2>6. \/ last_settings_keepalive_ms + keepalive_age' = now'
        \/ last_settings_keepalive_ms + keepalive_age' = now' + Wrap
    BY <1>0, <2>2, <2>3, <2>4, <2>5, SinceTick
  <2> QED
    BY <1>0, <2>3, <2>4, <2>6, Widths DEF KeepaliveClock, Since, Lag
<1>10. CASE UNCHANGED vars
  BY <1>1, <1>10 DEF vars
<1> QED
  BY <1>4, <1>5, <1>6, <1>7, <1>8, <1>9, <1>10 DEF Next, Loop

\* What QueryClock says of the timestamp of the query that is due in wait.
QueryStamp(time, wait) ==
  time = now + wait \/ time = now + wait + Wrap \/ time + Wrap = now + wait

\* The disjuncts of QueryClock, as sums of integers.
LEMMA QueryStamps ==
  ASSUME TypeOK
  PROVE  QueryStamp(next_device_name_query_ms, query_wait)
           <=> \/ Since(next_device_name_query_ms, -query_wait)
               \/ next_device_name_query_ms + Wrap = now + query_wait
  BY Widths DEF TypeOK, Since, QueryStamp, Wrap

\* A query is due exactly when its time has come.
LEMMA QueryDueIsTrue ==
  ASSUME TypeOK, QueryClock, session = "served", query_active
  PROVE  QueryDue <=> query_wait <= 0
<1>1. /\ QueryStamp(next_device_name_query_ms, query_wait)
      /\ -Lag <= query_wait /\ query_wait < Half
  BY QueryStamps DEF QueryClock
<1>2. -Half < query_wait /\ query_wait \in Int /\ now \in 0..(Wrap - 1)
      /\ next_device_name_query_ms \in 0..(Wrap - 1)
  BY <1>1, LagRange, Widths DEF TypeOK
<1>3. Elapsed(next_device_name_query_ms) < Half <=> query_wait <= 0
  BY <1>1, <1>2, Widths DEF Elapsed, QueryStamp
<1> QED
  BY <1>3 DEF QueryDue, Due

\* A query that will be due after some interval.
LEMMA QueryScheduled ==
  ASSUME TypeOK, NEW interval \in Nat, interval < Half, now' = now,
         next_device_name_query_ms' = Plus(now, interval),
         query_wait' = interval,
         query_active' => query_attempts' < MaxAttempts
  PROVE  QueryClock'
<1>1. /\ now \in Int /\ next_device_name_query_ms' \in Int
      /\ \/ next_device_name_query_ms' = now + interval
         \/ next_device_name_query_ms' + Wrap = now + interval
  BY PlusIsLater, Widths DEF TypeOK, Times
<1> QED
  BY <1>1, Widths DEF QueryClock, Since, Lag

\* An iteration of loop() that only sends what is due of the query.
LEMMA QuerySent ==
  ASSUME TypeOK, QueryClock, session = "served", SendQuery, now' = now,
         looped' = TRUE
  PROVE  QueryClock'
<1>1. CASE QueryDue /\ query_active'
  <2>1. query_active' = (query_attempts' < MaxAttempts)
    BY <1>1 DEF SendQuery
  <2>2. query_attempts' < MaxAttempts
    BY <1>1, <2>1, Zenon
  <2>3. /\ next_device_name_query_ms' = Plus(now, QueryRetry)
        /\ query_wait' = QueryRetry
    BY <1>1 DEF SendQuery
  <2>4. QueryRetry \in Nat /\ QueryRetry < Half
    BY Widths
  <2> QED
    BY <2>2, <2>3, <2>4, QueryScheduled
<1>2. CASE QueryDue /\ ~query_active'
  BY <1>2 DEF QueryClock
<1>3. CASE ~QueryDue /\ query_active
  <2>1. query_wait > 0
    BY <1>3, QueryDueIsTrue DEF TypeOK
  <2>2. UNCHANGED queryVars
    BY <1>3 DEF SendQuery
  <2> QED
    BY <1>3, <2>1, <2>2, Widths DEF QueryClock, Since, Lag, queryVars, TypeOK
<1>4. CASE ~QueryDue /\ ~query_active
  BY <1>4 DEF SendQuery, queryVars, QueryClock
<1> QED
  BY <1>1, <1>2, <1>3, <1>4

\* The query waits for its true time and stops at its last attempt.
LEMMA QueryStep ==
  ASSUME TypeOK, QueryClock, [Next]_vars
  PROVE  QueryClock'
<1> USE DEF queryVars
<1>1. ASSUME UNCHANGED <<now, looped, session, queryVars>>
      PROVE  QueryClock'
  BY <1>1 DEF QueryClock, Since, Lag
<1>2. ASSUME session' # "served" \/ query_active' = FALSE
      PROVE  QueryClock'
  BY <1>2 DEF QueryClock
<1>3. CASE Subscribed
  BY <1>3, QueryScheduled, Widths DEF Subscribed
<1>4. CASE \/ StatusReport \/ SettingsReport \/ CommandQueued
           \/ ManualKeepalive \/ SetKeepaliveEnabled
  BY <1>1, <1>4
  DEF StatusReport, SettingsReport, ValidFrame, CommandQueued,
      ManualKeepalive, SetKeepaliveEnabled
<1>5. CASE \/ DeviceNameReport \/ TransportError \/ Disconnected
           \/ LoopQueryRefused \/ LoopWriteRefused
  BY <1>2, <1>5
  DEF DeviceNameReport, TransportError, Disconnected, LoopQueryRefused,
      LoopWriteRefused, Reset
<1>6. CASE LoopIdle \/ LoopForcedReconnect \/ LoopWatchdog
  BY <1>2, <1>6 DEF LoopIdle, LoopForcedReconnect, LoopWatchdog
<1>7. CASE LoopInitialKeepalive
  <2>1. CASE query_active
    <3>1. query_attempts < MaxAttempts
      BY <1>7, <2>1 DEF LoopInitialKeepalive, QueryClock
    <3> QED
      BY <1>7, <2>1, <3>1, QueryScheduled, Widths
      DEF LoopInitialKeepalive, Expire
  <2>2. CASE ~query_active
    BY <1>7, <2>2 DEF LoopInitialKeepalive, QueryClock
  <2> QED
    BY <2>1, <2>2
<1>8. CASE LoopSettingsKeepalive \/ LoopStatusRequest
  BY <1>8, QuerySent DEF LoopSettingsKeepalive, LoopStatusRequest, Expire
<1>9. ASSUME NEW lag \in 1..MaxLag, Tick(lag)
      PROVE  QueryClock'
  <2>1. SUFFICES ASSUME session = "served", query_active
                 PROVE  QueryClock'
    BY <1>9 DEF QueryClock, Tick
  <2>2. looped /\ Lag = 0 /\ now' = Plus(now, lag) /\ ~looped'
    BY <1>9, LagRange DEF Tick
  <2>3. /\ QueryStamp(next_device_name_query_ms, query_wait)
        /\ query_attempts < MaxAttempts
        /\ 0 <= query_wait /\ query_wait < Half /\ query_wait \in Int
    BY <2>1, <2>2, QueryStamps DEF QueryClock, TypeOK
  <2>4. /\ query_wait' = query_wait - lag
        /\ UNCHANGED <<next_device_name_query_ms, query_attempts>>
    BY <1>9, <2>1 DEF Tick
  <2>5. /\ now \in 0..(Wrap - 1) /\ next_device_name_query_ms \in 0..(Wrap - 1)
        /\ now' = now + lag \/ now' = now + lag - Wrap
    BY <2>2, PlusIsLater, Widths DEF Plus, TypeOK
  <2>6. \/ next_device_name_query_ms - query_wait' = now'
        \/ next_device_name_query_ms - query_wait' = now' + Wrap
        \/ next_device_name_query_ms + Wrap = now' + query_wait'
    BY <2>3, <2>4, <2>5, Widths DEF QueryStamp
  <2>7. /\ -MaxLag <= query_wait' /\ query_wait' < Half
        /\ query_wait' \in Int /\ now' \in Int
    BY <2>3, <2>4, <2>5, Widths
  <2>8. Lag' = MaxLag
    BY <2>2 DEF Lag
  <2>9. \/ Since(next_device_name_query_ms, -query_wait)'
        \/ (next_device_name_query_ms + Wrap = now + query_wait)'
    BY <2>4, <2>5, <2>6, <2>7, Widths DEF Since
  <2> QED
    BY <2>3, <2>4, <2>7, <2>8, <2>9 DEF QueryClock
<1>10. CASE UNCHANGED vars
  BY <1>1, <1>10 DEF vars
<1> QED
  BY <1>3, <1>4, <1>5, <1>6, <1>7, <1>8, <1>9, <1>10 DEF Next, Loop

-----------------------------------------------------------------------------
\* The inductive invariant of the theorems.
ClocksInv == TypeOK /\ Clocks

\* It holds in every reachable state.
LEMMA ClocksInvariant == Spec => []ClocksInv
<1>1. Init => ClocksInv
  <2> SUFFICES ASSUME Init PROVE ClocksInv
    OBVIOUS
  <2>1. Flags
    BY DEF Init, Flags
  <2>2. Stamps /\ Ages
    BY Widths DEF Init, Stamps, Ages, Times, Expired
  <2>3. Clocks
    BY DEF Init, Clocks, StatusClock, ProtocolClock, RequestClock,
           KeepaliveClock, QueryClock
  <2> QED
    BY <2>1, <2>2, <2>3, Parts DEF ClocksInv
<1>2. ClocksInv /\ [Next]_vars => ClocksInv'
  <2> SUFFICES ASSUME ClocksInv, [Next]_vars PROVE ClocksInv'
    OBVIOUS
  <2>1. TypeOK /\ Clocks
    BY DEF ClocksInv
  <2>2. Clocks'
    BY <2>1, StatusStep, ProtocolStep, RequestStep, KeepaliveStep, QueryStep
    DEF Clocks
  <2>3. Flags' /\ Stamps' /\ Ages'
    BY <2>1, FlagsStep, StampsStep, AgesStep DEF Clocks
  <2>4. TypeOK'
    BY <2>3 DEF TypeOK, Flags, Stamps, Ages, Times
  <2> QED
    BY <2>2, <2>4 DEF ClocksInv
<1> QED
  BY <1>1, <1>2, PTL DEF Spec

\* Every timestamp is one the clock can show, and no query is sent more often
\* than its attempts allow.
THEOREM ClockTypes == Spec => []TypeOK
<1>1. ClocksInv => TypeOK
  BY DEF ClocksInv
<1> QED
  BY <1>1, ClocksInvariant, PTL

\* However often the clock wraps, loop() computes the true age of whatever it
\* looks at, and finds a query due exactly when its time has come.
THEOREM LoopReadsTrueAges == Spec => []AgesAreTrue
<1>1. ClocksInv => AgesAreTrue
  <2> SUFFICES ASSUME TypeOK, Clocks PROVE AgesAreTrue
    BY DEF ClocksInv
  <2> USE DEF Clocks
  <2>0. now \in Times
    BY DEF TypeOK, Times
  <2>1. ASSUME data_fresh, last_valid_packet_ms # 0
        PROVE  Elapsed(last_valid_packet_ms) = status_age
    <3>1. Since(last_valid_packet_ms, status_age) /\ status_age < Half
      BY <2>1, LagRange, Widths DEF StatusClock, TypeOK
    <3> QED
      BY <2>0, <3>1, ElapsedIsAge, Widths DEF TypeOK, Times
  <2>2. ASSUME session = "served"
        PROVE  Elapsed(last_protocol_packet_ms) = protocol_age
    <3>1. Since(last_protocol_packet_ms, protocol_age) /\ protocol_age < Half
      BY <2>2, LagRange, Widths DEF ProtocolClock, TypeOK
    <3> QED
      BY <2>0, <3>1, ElapsedIsAge DEF TypeOK, Times
  <2>3. ASSUME session = "served"
        PROVE  Elapsed(last_status_request_ms) = request_age
    <3>1. Since(last_status_request_ms, request_age) /\ request_age < Half
      BY <2>3, LagRange, Widths DEF RequestClock, TypeOK
    <3> QED
      BY <2>0, <3>1, ElapsedIsAge DEF TypeOK, Times
  <2>4. ASSUME session = "served", keepalive_enabled
        PROVE  Elapsed(last_settings_keepalive_ms) = keepalive_age
    <3>1. Since(last_settings_keepalive_ms, keepalive_age)
          /\ keepalive_age < Half
      BY <2>4, LagRange, Widths DEF KeepaliveClock, TypeOK
    <3> QED
      BY <2>0, <3>1, ElapsedIsAge DEF TypeOK, Times
  <2>5. ASSUME session = "served"
        PROVE  QueryDue <=> query_active /\ query_wait <= 0
    <3>1. CASE query_active
      BY <2>5, <3>1, QueryDueIsTrue
    <3>2. CASE ~query_active
      BY <3>2 DEF QueryDue
    <3> QED
      BY <3>1, <3>2
  <2> QED
    BY <2>1, <2>2, <2>3, <2>4, <2>5 DEF AgesAreTrue
<1> QED
  BY <1>1, ClocksInvariant, PTL

\* No telemetry stays on display beyond the stale timeout once loop() has run,
\* but for a report that came in the millisecond of timestamp 0.
THEOREM DisplayedTelemetryIsRecent == Spec => []FreshIsRecent
<1>1. ClocksInv => FreshIsRecent
  BY LagRange, Widths
  DEF ClocksInv, Clocks, StatusClock, FreshIsRecent, TypeOK
<1> QED
  BY <1>1, ClocksInvariant, PTL

\* The watchdog, the expiry of telemetry and the keepalive never fire early.
THEOREM TimeoutsAreFull == Spec => NothingExpiresEarly
<1>1. ClocksInv /\ [Next]_vars =>
        [/\ LoopWatchdog => protocol_age >= WatchdogTimeout
         /\ Expire /\ data_fresh /\ ~data_fresh' => status_age > StaleTimeout
         /\ LoopSettingsKeepalive => keepalive_age >= SettingsInterval]_vars
  <2> SUFFICES ASSUME TypeOK, Clocks
      PROVE  /\ LoopWatchdog => protocol_age >= WatchdogTimeout
             /\ Expire /\ data_fresh /\ ~data_fresh' => status_age > StaleTimeout
             /\ LoopSettingsKeepalive => keepalive_age >= SettingsInterval
    BY DEF ClocksInv
  <2> USE DEF Clocks
  <2>0. now \in Times
    BY DEF TypeOK, Times
  <2>1. ASSUME LoopWatchdog
        PROVE  protocol_age >= WatchdogTimeout
    <3>1. session = "served" /\ WatchdogDue
      BY <2>1 DEF LoopWatchdog
    <3>2. Since(last_protocol_packet_ms, protocol_age) /\ protocol_age < Half
      BY <3>1, LagRange, Widths DEF ProtocolClock, TypeOK
    <3>3. Elapsed(last_protocol_packet_ms) = protocol_age
      BY <2>0, <3>2, ElapsedIsAge DEF TypeOK, Times
    <3> QED
      BY <3>1, <3>3 DEF WatchdogDue
  <2>2. ASSUME Expire, data_fresh, ~data_fresh'
        PROVE  status_age > StaleTimeout
    <3>1. StatusStale
      BY <2>2, Zenon DEF Expire
    <3>2. Since(last_valid_packet_ms, status_age) /\ status_age < Half
      BY <3>1, LagRange, Widths DEF StatusStale, StatusClock, TypeOK
    <3>3. Elapsed(last_valid_packet_ms) = status_age
      BY <2>0, <3>2, ElapsedIsAge, Widths DEF TypeOK, Times
    <3> QED
      BY <3>1, <3>3 DEF StatusStale
  <2>3. ASSUME LoopSettingsKeepalive
        PROVE  keepalive_age >= SettingsInterval
    <3>1. session = "served" /\ KeepaliveDue /\ keepalive_enabled
      BY <2>3 DEF LoopSettingsKeepalive, KeepaliveDue
    <3>2. Since(last_settings_keepalive_ms, keepalive_age)
          /\ keepalive_age < Half
      BY <3>1, LagRange, Widths DEF KeepaliveClock, TypeOK
    <3>3. Elapsed(last_settings_keepalive_ms) = keepalive_age
      BY <2>0, <3>2, ElapsedIsAge DEF TypeOK, Times
    <3> QED
      BY <3>1, <3>3 DEF KeepaliveDue
  <2> QED
    BY <2>1, <2>2, <2>3
<1> QED
  BY <1>1, ClocksInvariant, PTL DEF Spec, NothingExpiresEarly
=============================================================================
