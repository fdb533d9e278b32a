---------------------------- MODULE AllpowersBLE ----------------------------
(***************************************************************************)
(* The BLE session controller of an ALLPOWERS power station together with  *)
(* the GATT transport it inherits from (allpowers_ble.cpp and              *)
(* allpowers_ble_transport.cpp).  ESPHome dispatches BLE client events,    *)
(* entity commands and loop() from one main loop, so every handler is one  *)
(* atomic action; what interleaves is the order of the handlers.           *)
(*                                                                         *)
(* Time is kept as ages: x_age stands for millis() - last_x_ms_.  An age   *)
(* the code does not read is held at 0.  The counters saturate where the   *)
(* code stops telling their values apart.                                  *)
(***************************************************************************)
EXTENDS Integers, Sequences

CONSTANTS
  Outputs,            \* the switched outputs of the status bitmap
  Fields,             \* the fields that share the settings command
  Values,             \* what a settings field may hold; 0 before any report
  Options,            \* Options[f]: the values a command may give field f
  Shown,              \* fields whose entity invalidate_settings_entities_ clears
  Unknown,            \* an entity without a state, or no report yet
  StaleTimeout,       \* stale_timeout_ms_ in ticks, 0 disables the expiry
  KeepaliveInterval,  \* keepalive_interval_ms_, between status requests
  WatchdogTimeout,    \* watchdog_timeout_ms_
  SettingsIntervals,  \* the settings keepalive intervals a user may select
  DeviceNameEnabled,  \* experimental_device_name_enabled_ with its text entity
  QueryDelay,         \* DEVICE_NAME_QUERY_INITIAL_DELAY_MS
  QueryRetry,         \* DEVICE_NAME_QUERY_RETRY_INTERVAL_MS
  MaxAttempts         \* DEVICE_NAME_QUERY_MAX_ATTEMPTS

\* __init__.py:79-93 rejects a configuration whose watchdog does not exceed
\* the keepalive interval, and every interval of zero.
ASSUME TimingAssumption ==
  /\ StaleTimeout \in Nat
  /\ KeepaliveInterval \in Nat \ {0}
  /\ WatchdogTimeout \in Nat
  /\ KeepaliveInterval < WatchdogTimeout
  /\ SettingsIntervals \subseteq Nat \ {0}
  /\ SettingsIntervals # {}
  /\ QueryDelay \in Nat
  /\ QueryRetry \in Nat
  /\ MaxAttempts \in Nat \ {0}
  /\ DeviceNameEnabled \in BOOLEAN

ASSUME DataAssumption ==
  /\ 0 \in Values
  /\ Options \in [Fields -> SUBSET Values]
  /\ Shown \subseteq Fields
  /\ Unknown \notin Values
  /\ Unknown \notin [Fields -> Values]
  /\ Unknown \notin [Outputs -> BOOLEAN]

VARIABLES
  \* The transport and the BLE client that drives it
  link,                 \* how far the GATT session has come
  node_state,           \* node_state: ESTABLISHED or any other client state
  handles,              \* notify_handle_ # 0 and write_handle_ # 0
  unacked,              \* an accepted write has its WRITE_CHAR event to come
  disconnects,          \* disconnect() calls in this session, capped at 2
  \* The connection health of the controller
  health_active,        \* connection_health_active_
  reconnect_pending,    \* forced_reconnect_pending_
  disconnect_requested, \* disconnect_requested_
  protocol_age,         \* since last_protocol_packet_ms_
  request_age,          \* since last_status_request_ms_
  \* Telemetry
  data_fresh,           \* data_fresh_, and have_status_: every site sets both
  outputs,              \* ac_on_, dc_on_, light_on_
  status_age,           \* since last_valid_packet_ms_
  telemetry,            \* what the data entities show
  controls_available,   \* what controls_available_binary_sensor_ shows
  connected,            \* what connected_binary_sensor_ shows
  \* Settings
  settings_fresh,       \* settings_fresh_, and have_settings_: likewise
  have_snapshot,        \* have_settings_snapshot_
  settings,             \* settings_flags_ and eco_time_
  settings_age,         \* since last_settings_packet_ms_
  settings_entities,    \* what the ECO sensor and the two selects show
  settings_available,   \* what settings_available_binary_sensor_ shows
  \* The settings keepalive
  keepalive_enabled,    \* settings_keepalive_enabled_
  keepalive_interval,   \* settings_keepalive_interval_ms_
  keepalive_age,        \* since last_settings_keepalive_ms_
  initial_pending,      \* initial_settings_keepalive_pending_
  \* The device-name query
  query_active,         \* device_name_query_active_
  query_attempts,       \* device_name_query_attempts_
  query_due,            \* until next_device_name_query_ms_
  \* The environment and history
  looped,               \* loop() has run since the last tick
  scheduled,            \* what was queued without a command since then
  tx,                   \* the frames the latest handler queued
  reported,             \* settings last reported in this session
  touched,              \* fields commanded since that report
  reported_outputs,     \* outputs last reported in this session
  touched_outputs,      \* outputs commanded since that report
  since_status,         \* since the last status report of this session
  since_settings,       \* since the last settings report of this session
  since_frame           \* since the last valid frame, or the subscription

transportVars == <<link, node_state, handles, unacked, disconnects>>
healthVars == <<health_active, reconnect_pending, disconnect_requested>>
timerVars == <<protocol_age, request_age, keepalive_age>>
statusVars == <<data_fresh, outputs, status_age, telemetry, controls_available,
                connected>>
settingsVars == <<settings_fresh, have_snapshot, settings, settings_age,
                  settings_entities, settings_available>>
configVars == <<keepalive_enabled, keepalive_interval>>
queryVars == <<query_active, query_attempts, query_due>>
reportVars == <<reported, touched, reported_outputs, touched_outputs,
                since_status, since_settings, since_frame>>

vars == <<transportVars, healthVars, timerVars, statusVars, settingsVars,
          configVars, initial_pending, queryVars, looped, scheduled, tx,
          reportVars>>

-----------------------------------------------------------------------------
(* Frames written to FFF2, and what the entities make of a snapshot.       *)

StatusRequestFrame == [kind |-> "status request"]
DeviceNameFrame == [kind |-> "device name"]
ControlFrame(o) == [kind |-> "control", outputs |-> o]
SettingsFrame(by, s) == [kind |-> "settings", by |-> by, settings |-> s]

\* Who wrote a settings frame: a command, or one of the three keepalives.
Senders == {"command", "initial", "periodic", "manual"}

Frames ==
  {StatusRequestFrame, DeviceNameFrame}
    \cup {ControlFrame(o) : o \in [Outputs -> BOOLEAN]}
    \cup {SettingsFrame(by, s) : by \in Senders, s \in [Fields -> Values]}

\* A value outside the verified options clears the entity instead.
PublishedSettings(s) ==
  [f \in Shown |-> IF s[f] \in Options[f] THEN s[f] ELSE Unknown]

NoSettingsShown == [f \in Shown |-> Unknown]

\* A clock that stops at the first value the code treats like every later one.
Older(age, cap) == IF age < cap THEN age + 1 ELSE age

Never == StaleTimeout + 2   \* the age of a report that did not come

-----------------------------------------------------------------------------
Init ==
  /\ link = "closed" /\ node_state = "OTHER"
  /\ handles = FALSE /\ unacked = FALSE /\ disconnects = 0
  /\ health_active = FALSE /\ reconnect_pending = FALSE
  /\ disconnect_requested = FALSE
  /\ protocol_age = 0 /\ request_age = 0
  /\ data_fresh = FALSE /\ outputs = [o \in Outputs |-> FALSE]
  /\ status_age = 0 /\ telemetry = Unknown /\ controls_available = FALSE
  /\ connected = FALSE
  /\ settings_fresh = FALSE /\ have_snapshot = FALSE
  /\ settings = [f \in Fields |-> 0] /\ settings_age = 0
  /\ settings_entities = NoSettingsShown /\ settings_available = FALSE
  /\ keepalive_enabled \in BOOLEAN /\ keepalive_interval \in SettingsIntervals
  /\ keepalive_age = 0 /\ initial_pending = FALSE
  /\ query_active = FALSE /\ query_attempts = 0 /\ query_due = 0
  /\ looped = FALSE /\ scheduled = "none" /\ tx = <<>>
  /\ reported = Unknown /\ touched = {}
  /\ reported_outputs = Unknown /\ touched_outputs = {}
  /\ since_status = Never /\ since_settings = Never
  /\ since_frame = 0

\* transport_ready_
Ready == node_state = "ESTABLISHED" /\ handles

\* mutant: commands are gated by the link alone
ControlsAvailableUngated == Ready

\* controls_available_
ControlsAvailable == Ready /\ data_fresh

\* mutant: an expired snapshot is good enough for a command
SettingsAvailableUnexpired == Ready /\ have_snapshot

\* settings_available_
SettingsAvailable == Ready /\ settings_fresh

-----------------------------------------------------------------------------
(* Pieces the handlers are made of.                                        *)

\* mutant: the reset forgets the settings snapshot flag
ResetKeepsSnapshot(pending, requested, shown) ==
  /\ health_active' = FALSE
  /\ reconnect_pending' = pending
  /\ disconnect_requested' = requested
  /\ protocol_age' = 0 /\ request_age' = 0 /\ keepalive_age' = 0
  /\ data_fresh' = FALSE /\ status_age' = 0
  /\ telemetry' = Unknown /\ controls_available' = FALSE
  /\ connected' = FALSE
  /\ settings_fresh' = FALSE /\ settings_age' = 0
  /\ settings_entities' = shown /\ settings_available' = FALSE
  /\ initial_pending' = FALSE
  /\ UNCHANGED <<outputs, settings, have_snapshot, configVars>>

\* mutant: the reset leaves the connection health active
ResetKeepsHealth(pending, requested, shown) ==
  /\ UNCHANGED health_active
  /\ reconnect_pending' = pending
  /\ disconnect_requested' = requested
  /\ protocol_age' = 0 /\ request_age' = 0 /\ keepalive_age' = 0
  /\ data_fresh' = FALSE /\ status_age' = 0
  /\ telemetry' = Unknown /\ controls_available' = FALSE
  /\ connected' = FALSE
  /\ settings_fresh' = FALSE /\ have_snapshot' = FALSE /\ settings_age' = 0
  /\ settings_entities' = shown /\ settings_available' = FALSE
  /\ initial_pending' = FALSE
  /\ UNCHANGED <<outputs, settings, configVars>>

\* mutant: the reset leaves BLE Connected as it was
ResetKeepsConnected(pending, requested, shown) ==
  /\ health_active' = FALSE
  /\ reconnect_pending' = pending
  /\ disconnect_requested' = requested
  /\ protocol_age' = 0 /\ request_age' = 0 /\ keepalive_age' = 0
  /\ data_fresh' = FALSE /\ status_age' = 0
  /\ telemetry' = Unknown /\ controls_available' = FALSE
  /\ UNCHANGED connected
  /\ settings_fresh' = FALSE /\ have_snapshot' = FALSE /\ settings_age' = 0
  /\ settings_entities' = shown /\ settings_available' = FALSE
  /\ initial_pending' = FALSE
  /\ UNCHANGED <<outputs, settings, configVars>>

\* reset_connection_state_, for the callers of on_transport_error_ and of
\* on_transport_disconnected_.  What the caller raises right after the reset
\* (schedule_forced_reconnect_, request_forced_reconnect_) and what it
\* publishes last are its parameters.  outputs, settings and the keepalive
\* configuration are kept.
ResetConnectionState(pending, requested, shown) ==
  /\ health_active' = FALSE
  /\ reconnect_pending' = pending
  /\ disconnect_requested' = requested
  /\ protocol_age' = 0 /\ request_age' = 0 /\ keepalive_age' = 0
  /\ data_fresh' = FALSE /\ status_age' = 0
  /\ telemetry' = Unknown /\ controls_available' = FALSE
  /\ connected' = FALSE
  /\ settings_fresh' = FALSE /\ have_snapshot' = FALSE /\ settings_age' = 0
  /\ settings_entities' = shown /\ settings_available' = FALSE
  /\ initial_pending' = FALSE
  /\ UNCHANGED <<outputs, settings, configVars>>

ResetQuery == query_active' = FALSE /\ query_attempts' = 0 /\ query_due' = 0

\* write_transport_frame_ when esp_ble_gattc_write_char accepts the frames.
WriteAccepted(frames) == tx' = frames /\ unacked' = TRUE

\* write_transport_frame_ when it does not: the handles go at once.
WriteRefused(accepted) ==
  /\ tx' = accepted
  /\ unacked' = (unacked \/ accepted # <<>>)
  /\ handles' = FALSE
  /\ UNCHANGED link

\* disconnect_transport_: parent()->disconnect() may or may not have moved
\* the client's state when it returns.
Disconnect ==
  /\ disconnects' = Older(disconnects, 2)
  /\ node_state' \in {node_state, "OTHER"}

NoDisconnect == UNCHANGED <<disconnects, node_state>>

NoFrame == tx' = <<>>

-----------------------------------------------------------------------------
(* BLE client events: AllpowersBLETransport::gattc_event_handler.          *)

\* ESP_GATTC_OPEN_EVT
Opened ==
  /\ link = "closed"
  /\ link' = "open"
  /\ connected' = TRUE
  /\ NoFrame
  /\ UNCHANGED <<node_state, handles, unacked, disconnects, healthVars,
                 timerVars, data_fresh, outputs, status_age, telemetry,
                 controls_available, settingsVars, configVars,
                 initial_pending, queryVars, looped, scheduled, reportVars>>

\* ESP_GATTC_DISCONNECT_EVT and ESP_GATTC_CLOSE_EVT, asked for or not.
Closed ==
  /\ link # "closed"
  /\ link' = "closed" /\ node_state' = "OTHER"
  /\ handles' = FALSE /\ unacked' = FALSE /\ disconnects' = 0
  /\ ResetConnectionState(FALSE, FALSE, NoSettingsShown)
  /\ ResetQuery
  /\ NoFrame
  /\ reported' = Unknown /\ touched' = {}
  /\ reported_outputs' = Unknown /\ touched_outputs' = {}
  /\ since_status' = Never /\ since_settings' = Never
  /\ since_frame' = 0 /\ scheduled' = "none"
  /\ UNCHANGED looped

\* mutant: a failed discovery schedules no reconnect
FailDiscoverySilently ==
  /\ link' = "failed"
  /\ handles' = FALSE
  /\ ResetConnectionState(FALSE, FALSE, NoSettingsShown)
  /\ ResetQuery
  /\ NoDisconnect /\ NoFrame
  /\ UNCHANGED <<unacked, looped, scheduled, reportVars>>

\* fail_discovery_, from ESP_GATTC_SEARCH_CMPL_EVT with an unusable service or
\* a registration that cannot be queued, or from ESP_GATTC_REG_FOR_NOTIFY_EVT.
FailDiscovery ==
  /\ link' = "failed"
  /\ handles' = FALSE
  /\ ResetConnectionState(TRUE, FALSE, NoSettingsShown)
  /\ ResetQuery
  /\ NoDisconnect /\ NoFrame
  /\ UNCHANGED <<unacked, looped, scheduled, reportVars>>

\* allpowers_ble_discovery.h: a characteristic is not found, lacks the property it
\* is needed for, or will do.
Characteristics == {"missing", "unsupported", "usable"}

EvaluateCharacteristics(notify, write) ==
  CASE notify = "missing"     -> "MISSING_NOTIFY_CHARACTERISTIC"
    [] notify # "missing" /\ write = "missing"
                              -> "MISSING_WRITE_CHARACTERISTIC"
    [] notify = "unsupported" /\ write # "missing" -> "NOTIFY_UNSUPPORTED"
    [] notify = "usable" /\ write = "unsupported"  -> "WRITE_UNSUPPORTED"
    [] OTHER                  -> "READY_TO_SUBSCRIBE"

EvaluateNotificationRegistration(queued, completed) ==
  CASE ~queued               -> "NOTIFICATION_REGISTRATION_QUEUE_FAILED"
    [] queued /\ completed   -> "SUBSCRIBED"
    [] queued /\ ~completed  -> "NOTIFICATION_REGISTRATION_FAILED"

DiscoveryFailed(result) == result \notin {"READY_TO_SUBSCRIBE", "SUBSCRIBED"}

\* What a completed search may have found
Discoveries ==
  {EvaluateCharacteristics(n, w) : n \in Characteristics, w \in Characteristics}

\* ESP_GATTC_SEARCH_CMPL_EVT
ServicesFound ==
  /\ link = "open"
  /\ \E discovery \in Discoveries : ~DiscoveryFailed(discovery)
  /\ link' = "registering"
  /\ handles' = TRUE
  /\ NoFrame
  /\ UNCHANGED <<node_state, unacked, disconnects, healthVars, timerVars,
                 statusVars, settingsVars, configVars, initial_pending,
                 queryVars, looped, scheduled, reportVars>>

\* The search found nothing usable, or the registration was not queued.
ServicesUnusable ==
  /\ link = "open"
  /\ \E discovery \in
          Discoveries \cup {EvaluateNotificationRegistration(FALSE, FALSE)} :
        DiscoveryFailed(discovery)
  /\ FailDiscovery

\* ESP_GATTC_REG_FOR_NOTIFY_EVT
NotificationsRefused ==
  /\ link = "registering" /\ handles
  /\ DiscoveryFailed(EvaluateNotificationRegistration(TRUE, FALSE))
  /\ FailDiscovery

\* on_transport_ready_: start_connection_health_, then the name query.
Subscribed ==
  /\ link = "registering" /\ handles
  /\ link' = "subscribed" /\ node_state' = "ESTABLISHED"
  /\ query_active' = DeviceNameEnabled
  /\ query_attempts' = 0
  /\ query_due' = IF DeviceNameEnabled THEN QueryDelay ELSE 0
  /\ since_frame' = 0
  /\ UNCHANGED <<disconnects, looped, reported, touched, reported_outputs,
                 touched_outputs, since_status, since_settings>>

SubscribedRequestQueued ==
  /\ Subscribed
  /\ health_active' = TRUE
  /\ reconnect_pending' = FALSE /\ disconnect_requested' = FALSE
  /\ protocol_age' = 0 /\ request_age' = 0 /\ keepalive_age' = 0
  /\ initial_pending' = keepalive_enabled
  /\ WriteAccepted(<<StatusRequestFrame>>)
  /\ scheduled' = "written"
  /\ UNCHANGED <<handles, statusVars, settingsVars, configVars>>

SubscribedRequestRefused ==
  /\ Subscribed
  /\ handles' = FALSE
  /\ ResetConnectionState(TRUE, FALSE, NoSettingsShown)
  /\ NoFrame
  /\ UNCHANGED <<unacked, scheduled>>

\* ESP_GATTC_WRITE_CHAR_EVT with ESP_GATT_OK, maybe not for the last write.
WriteAcknowledged ==
  /\ unacked
  /\ unacked' \in BOOLEAN
  /\ NoFrame
  /\ UNCHANGED <<link, node_state, handles, disconnects, healthVars, timerVars,
                 statusVars, settingsVars, configVars, initial_pending,
                 queryVars, looped, scheduled, reportVars>>

\* ESP_GATTC_WRITE_CHAR_EVT with an error, for the handle still known:
\* on_transport_error_ without reset_transport_state_.
WriteFailed ==
  /\ unacked /\ handles
  /\ unacked' \in BOOLEAN
  /\ ResetConnectionState(TRUE, FALSE, NoSettingsShown)
  /\ ResetQuery
  /\ NoDisconnect /\ NoFrame
  /\ UNCHANGED <<link, handles, looped, scheduled, reportVars>>

-----------------------------------------------------------------------------
(* Notifications: process_notification_ on the handle registered for.  The  *)
(* client turns them on at the station when it handles the registration     *)
(* event, so none comes before it.  A frame that validate_frame rejects     *)
(* changes only the error diagnostics.                                      *)

ValidFrame ==
  /\ link = "subscribed" /\ handles
  /\ protocol_age' = 0
  /\ since_frame' = 0
  /\ NoFrame
  /\ UNCHANGED <<transportVars, healthVars, request_age, keepalive_age,
                 configVars, initial_pending, looped>>

\* process_status_
StatusReport(o) ==
  /\ ValidFrame
  /\ outputs' = o
  /\ data_fresh' = TRUE /\ status_age' = 0
  /\ telemetry' = o
  /\ controls_available' = Ready
  /\ reported_outputs' = o /\ touched_outputs' = {} /\ since_status' = 0
  /\ UNCHANGED <<connected, settingsVars, queryVars, reported, touched,
                 since_settings, scheduled>>

\* process_settings_
SettingsReport(s) ==
  /\ ValidFrame
  /\ settings' = s
  /\ settings_fresh' = TRUE /\ have_snapshot' = TRUE /\ settings_age' = 0
  /\ settings_entities' = PublishedSettings(s)
  /\ settings_available' = Ready
  /\ reported' = s /\ touched' = {} /\ since_settings' = 0
  /\ scheduled' = IF scheduled = "written" THEN "answered" ELSE scheduled
  /\ UNCHANGED <<statusVars, queryVars, reported_outputs, touched_outputs,
                 since_status>>

\* process_device_name_ with a usable name ends the query.
DeviceNameReport ==
  /\ DeviceNameEnabled
  /\ ValidFrame
  /\ query_active' = FALSE /\ query_due' = 0
  /\ UNCHANGED <<statusVars, settingsVars, query_attempts, reported, touched,
                 reported_outputs, touched_outputs, since_status,
                 since_settings, scheduled>>

\* A payload that does not parse, an empty name, or a command family the
\* component does not know: the frame only proves that the link is alive.
OtherReport ==
  /\ ValidFrame
  /\ UNCHANGED <<statusVars, settingsVars, queryVars, reported, touched,
                 reported_outputs, touched_outputs, since_status,
                 since_settings, scheduled>>

-----------------------------------------------------------------------------
(* Entity commands.  A command the gate refuses changes nothing.           *)

\* request_output, with the bitmap send_control_frame_ could queue
RequestOutputQueued(o, state) ==
  /\ ControlsAvailable
  /\ outputs' = [outputs EXCEPT ![o] = state]
  /\ WriteAccepted(<<ControlFrame(outputs')>>)
  /\ keepalive_age' = IF keepalive_enabled THEN 0 ELSE keepalive_age
  /\ touched_outputs' = touched_outputs \cup {o}
  /\ UNCHANGED <<link, node_state, handles, disconnects, healthVars,
                 protocol_age, request_age, data_fresh, status_age, telemetry,
                 controls_available, connected, settingsVars, configVars,
                 initial_pending, queryVars, looped, scheduled, reported,
                 touched, reported_outputs, since_status, since_settings,
                 since_frame>>

\* and with the one it could not: outputs is rolled back.
RequestOutputRefused ==
  /\ Outputs # {}
  /\ ControlsAvailable
  /\ WriteRefused(<<>>)
  /\ ResetConnectionState(TRUE, FALSE, NoSettingsShown)
  /\ ResetQuery
  /\ NoDisconnect
  /\ UNCHANGED <<looped, scheduled, reportVars>>

\* request_eco_mode, request_eco_shutdown_time, request_work_mode and
\* request_car_charger: one field of the snapshot each.
RequestSettingUnchanged(f, v) ==
  /\ v \in Options[f]
  /\ SettingsAvailable
  /\ settings[f] = v
  /\ settings_entities' = PublishedSettings(settings)
  /\ NoFrame
  /\ UNCHANGED <<transportVars, healthVars, timerVars, statusVars,
                 settings_fresh, have_snapshot, settings, settings_age,
                 settings_available, configVars, initial_pending, queryVars,
                 looped, scheduled, reportVars>>

RequestSettingQueued(f, v) ==
  /\ v \in Options[f]
  /\ SettingsAvailable
  /\ settings[f] # v
  /\ settings' = [settings EXCEPT ![f] = v]
  /\ settings_entities' = PublishedSettings(settings')
  /\ WriteAccepted(<<SettingsFrame("command", settings')>>)
  /\ keepalive_age' = IF keepalive_enabled THEN 0 ELSE keepalive_age
  /\ touched' = touched \cup {f}
  /\ UNCHANGED <<link, node_state, handles, disconnects, healthVars,
                 protocol_age, request_age, statusVars, settings_fresh,
                 have_snapshot, settings_age, settings_available, configVars,
                 initial_pending, queryVars, looped, scheduled, reported,
                 reported_outputs, touched_outputs, since_status,
                 since_settings, since_frame>>

\* The reset inside the failed write comes before publish_settings_states_.
RequestSettingRefused(f, v) ==
  /\ v \in Options[f]
  /\ SettingsAvailable
  /\ settings[f] # v
  /\ WriteRefused(<<>>)
  /\ ResetConnectionState(TRUE, FALSE, PublishedSettings(settings))
  /\ ResetQuery
  /\ NoDisconnect
  /\ UNCHANGED <<looped, scheduled, reportVars>>

\* request_device_name with a name it accepts
RequestDeviceNameQueued ==
  /\ DeviceNameEnabled /\ Ready
  /\ WriteAccepted(<<DeviceNameFrame>>)
  /\ UNCHANGED <<link, node_state, handles, disconnects, healthVars, timerVars,
                 statusVars, settingsVars, configVars, initial_pending,
                 queryVars, looped, scheduled, reportVars>>

RequestDeviceNameRefused ==
  /\ DeviceNameEnabled /\ Ready
  /\ WriteRefused(<<>>)
  /\ ResetConnectionState(TRUE, FALSE, NoSettingsShown)
  /\ ResetQuery
  /\ NoDisconnect
  /\ UNCHANGED <<looped, scheduled, reportVars>>

\* mutant: any settings will do
ManualKeepaliveUngated == Ready /\ ~disconnect_requested

\* send_settings_keepalive_now, from the button entity
ManualKeepalive == Ready /\ ~disconnect_requested /\ have_snapshot

\* mutant: an accepted write counts as protocol traffic
ManualKeepaliveCountsAsTraffic ==
  /\ ManualKeepalive
  /\ initial_pending' = FALSE
  /\ WriteAccepted(<<SettingsFrame("manual", settings)>>)
  /\ keepalive_age' = 0 /\ request_age' = 0 /\ protocol_age' = 0
  /\ UNCHANGED <<link, node_state, handles, disconnects, healthVars,
                 statusVars, settingsVars, configVars, queryVars, looped,
                 scheduled, reportVars>>

ManualKeepaliveQueued ==
  /\ ManualKeepalive
  /\ initial_pending' = FALSE
  /\ WriteAccepted(<<SettingsFrame("manual", settings)>>)
  /\ keepalive_age' = 0 /\ request_age' = 0
  /\ UNCHANGED <<link, node_state, handles, disconnects, healthVars,
                 protocol_age, statusVars, settingsVars, configVars, queryVars,
                 looped, scheduled, reportVars>>

ManualKeepaliveRefused ==
  /\ ManualKeepalive
  /\ WriteRefused(<<>>)
  /\ ResetConnectionState(TRUE, FALSE, NoSettingsShown)
  /\ ResetQuery
  /\ NoDisconnect
  /\ UNCHANGED <<looped, scheduled, reportVars>>

\* set_settings_keepalive_enabled and set_settings_keepalive_interval
SetKeepaliveEnabled(enabled) ==
  /\ keepalive_enabled # enabled
  /\ keepalive_enabled' = enabled
  /\ initial_pending' = (initial_pending /\ enabled)
  /\ keepalive_age' = 0
  /\ NoFrame
  /\ UNCHANGED <<transportVars, healthVars, protocol_age, request_age,
                 statusVars, settingsVars, keepalive_interval, queryVars,
                 looped, scheduled, reportVars>>

SetKeepaliveInterval(interval) ==
  /\ keepalive_interval # interval
  /\ keepalive_interval' = interval
  /\ keepalive_age' = 0
  /\ NoFrame
  /\ UNCHANGED <<transportVars, healthVars, protocol_age, request_age,
                 statusVars, settingsVars, keepalive_enabled, initial_pending,
                 queryVars, looped, scheduled, reportVars>>

-----------------------------------------------------------------------------
(* loop(): the two expiries first, then the first branch that applies.     *)

StatusStale == StaleTimeout # 0 /\ data_fresh /\ status_age > StaleTimeout

\* mutant: the settings expiry reads the telemetry timer
SettingsStaleByStatus ==
  StaleTimeout # 0 /\ settings_fresh /\ status_age > StaleTimeout

SettingsStale ==
  StaleTimeout # 0 /\ settings_fresh /\ settings_age > StaleTimeout

\* mutant: expired telemetry keeps its last values on display
ExpireStatusQuietly ==
  /\ data_fresh' = (data_fresh /\ ~StatusStale)
  /\ status_age' = IF StatusStale THEN 0 ELSE status_age
  /\ controls_available' = (controls_available /\ ~StatusStale)
  /\ UNCHANGED <<outputs, telemetry, connected>>

ExpireStatus ==
  /\ data_fresh' = (data_fresh /\ ~StatusStale)
  /\ status_age' = IF StatusStale THEN 0 ELSE status_age
  /\ telemetry' = IF StatusStale THEN Unknown ELSE telemetry
  /\ controls_available' = (controls_available /\ ~StatusStale)
  /\ UNCHANGED <<outputs, connected>>

\* The snapshot itself survives: only commands need a fresh one.
ExpireSettings ==
  /\ settings_fresh' = (settings_fresh /\ ~SettingsStale)
  /\ settings_age' = IF SettingsStale THEN 0 ELSE settings_age
  /\ settings_entities' =
       IF SettingsStale THEN NoSettingsShown ELSE settings_entities
  /\ settings_available' = (settings_available /\ ~SettingsStale)
  /\ UNCHANGED <<have_snapshot, settings>>

\* The first frame queued without a command is remembered until the next tick,
\* and so is the one that follows it.
Remember ==
  scheduled' = CASE tx' = <<>> -> scheduled
                 [] tx' # <<>> /\ scheduled = "none" -> "written"
                 [] tx' # <<>> /\ scheduled # "none" -> "finished"

\* What every iteration does; no branch changes the configuration.
Iteration ==
  /\ looped' = TRUE
  /\ UNCHANGED <<link, reportVars>>

Expire == ExpireStatus /\ ExpireSettings /\ UNCHANGED configVars

\* The conditions of the branches.
Healthy == node_state = "ESTABLISHED" /\ health_active
Serving == ~disconnect_requested /\ ~reconnect_pending /\ Healthy
InitialDue == initial_pending /\ keepalive_enabled /\ have_snapshot
QueryDue == query_active /\ query_due = 0
WatchdogDue == protocol_age >= WatchdogTimeout
KeepaliveDue == keepalive_enabled /\ keepalive_age >= keepalive_interval
RequestDue == request_age >= KeepaliveInterval

\* mutant: the client's state is looked at before the scheduled reconnect
LoopIdleFirst ==
  /\ Iteration /\ Expire
  /\ disconnect_requested \/ ~Healthy
  /\ NoFrame
  /\ UNCHANGED <<node_state, handles, unacked, disconnects, healthVars,
                 timerVars, initial_pending, queryVars>>
  /\ Remember

\* Nothing to do: the close event is awaited, or no session is up.
LoopIdle ==
  /\ Iteration /\ Expire
  /\ disconnect_requested \/ (~reconnect_pending /\ ~Healthy)
  /\ NoFrame
  /\ UNCHANGED <<node_state, handles, unacked, disconnects, healthVars,
                 timerVars, initial_pending, queryVars>>
  /\ Remember

\* request_forced_reconnect_ without a reset: the scheduled one.
LoopForcedReconnect ==
  /\ Iteration /\ Expire
  /\ ~disconnect_requested /\ reconnect_pending
  /\ disconnect_requested' = TRUE /\ reconnect_pending' = FALSE
  /\ Disconnect
  /\ NoFrame
  /\ UNCHANGED <<handles, unacked, health_active, timerVars, initial_pending,
                 queryVars>>
  /\ Remember

\* The first keepalive of a session, as soon as there is a snapshot to send.
LoopInitialKeepalive ==
  /\ Iteration /\ Expire
  /\ Serving /\ InitialDue
  /\ initial_pending' = FALSE
  /\ WriteAccepted(<<SettingsFrame("initial", settings)>>)
  /\ keepalive_age' = 0 /\ request_age' = 0
  /\ query_due' = IF query_active THEN QueryDelay ELSE query_due
  /\ UNCHANGED <<node_state, handles, disconnects, healthVars, protocol_age,
                 query_active, query_attempts>>
  /\ Remember

\* The device-name query shares its iteration with what follows it.
QueryFrames == IF QueryDue THEN <<DeviceNameFrame>> ELSE <<>>

\* mutant: one attempt too many
SendQueryOnceMore ==
  IF QueryDue
    THEN /\ query_attempts' = query_attempts + 1
         /\ query_active' = (query_attempts' <= MaxAttempts)
         /\ query_due' = IF query_active' THEN QueryRetry ELSE 0
    ELSE UNCHANGED queryVars

SendQuery ==
  IF QueryDue
    THEN /\ query_attempts' = query_attempts + 1
         /\ query_active' = (query_attempts' < MaxAttempts)
         /\ query_due' = IF query_active' THEN QueryRetry ELSE 0
    ELSE UNCHANGED queryVars

LoopWatchdog ==
  /\ Iteration /\ Expire
  /\ Serving /\ ~InitialDue /\ WatchdogDue
  /\ SendQuery
  /\ tx' = QueryFrames /\ unacked' = (unacked \/ QueryDue)
  /\ disconnect_requested' = TRUE
  /\ Disconnect
  /\ UNCHANGED <<handles, health_active, reconnect_pending, timerVars,
                 initial_pending>>
  /\ Remember

\* mutant: the keepalive does not postpone the status request
KeepaliveThenRequest ==
  /\ Iteration /\ Expire
  /\ Serving /\ ~InitialDue /\ ~WatchdogDue /\ KeepaliveDue /\ have_snapshot
  /\ SendQuery
  /\ WriteAccepted(Append(QueryFrames, SettingsFrame("periodic", settings)))
  /\ keepalive_age' = 0
  /\ UNCHANGED <<node_state, handles, disconnects, healthVars, protocol_age,
                 request_age, initial_pending>>
  /\ Remember

LoopSettingsKeepalive ==
  /\ Iteration /\ Expire
  /\ Serving /\ ~InitialDue /\ ~WatchdogDue /\ KeepaliveDue /\ have_snapshot
  /\ SendQuery
  /\ WriteAccepted(Append(QueryFrames, SettingsFrame("periodic", settings)))
  /\ keepalive_age' = 0 /\ request_age' = 0
  /\ UNCHANGED <<node_state, handles, disconnects, healthVars, protocol_age,
                 initial_pending>>
  /\ Remember

\* A due keepalive without a snapshot is skipped and its timer restarted.
LoopStatusRequest ==
  /\ Iteration /\ Expire
  /\ Serving /\ ~InitialDue /\ ~WatchdogDue
  /\ ~(KeepaliveDue /\ have_snapshot)
  /\ SendQuery
  /\ LET frames == IF RequestDue THEN Append(QueryFrames, StatusRequestFrame)
                                 ELSE QueryFrames
     IN tx' = frames /\ unacked' = (unacked \/ frames # <<>>)
  /\ keepalive_age' = IF KeepaliveDue THEN 0 ELSE keepalive_age
  /\ request_age' = IF RequestDue THEN 0 ELSE request_age
  /\ UNCHANGED <<node_state, handles, disconnects, healthVars, protocol_age,
                 initial_pending>>
  /\ Remember

\* A refused query does not end the iteration: the rest of it reads the reset
\* timers, and whether one of them looks expired depends on the uptime.
LoopQueryRefused ==
  /\ Iteration
  /\ Serving /\ ~InitialDue /\ QueryDue
  /\ WriteRefused(<<>>)
  /\ ResetQuery
  /\ \/ ResetConnectionState(TRUE, FALSE, NoSettingsShown) /\ NoDisconnect
     \/ ResetConnectionState(FALSE, TRUE, NoSettingsShown) /\ Disconnect
  /\ Remember

\* Any other refused write: request_forced_reconnect_ in the same iteration.
LoopWriteRefused ==
  /\ Iteration
  /\ Serving
  /\ \/ InitialDue /\ WriteRefused(<<>>)
     \/ /\ ~InitialDue /\ ~WatchdogDue
        /\ (KeepaliveDue /\ have_snapshot) \/ RequestDue
        /\ WriteRefused(QueryFrames)
  /\ ResetConnectionState(FALSE, TRUE, NoSettingsShown)
  /\ ResetQuery
  /\ Disconnect
  /\ Remember

Loop ==
  \/ LoopIdle
  \/ LoopForcedReconnect
  \/ LoopInitialKeepalive
  \/ LoopWatchdog
  \/ LoopSettingsKeepalive
  \/ LoopStatusRequest
  \/ LoopQueryRefused
  \/ LoopWriteRefused

\* Time passes between two iterations, never across one: ESPHome calls loop()
\* far more often than the shortest timeout.
Tick ==
  /\ looped
  /\ looped' = FALSE /\ scheduled' = "none"
  /\ status_age' =
       IF data_fresh THEN Older(status_age, StaleTimeout + 1) ELSE 0
  /\ settings_age' =
       IF settings_fresh THEN Older(settings_age, StaleTimeout + 1) ELSE 0
  /\ protocol_age' =
       IF health_active THEN Older(protocol_age, WatchdogTimeout) ELSE 0
  /\ request_age' =
       IF health_active THEN Older(request_age, KeepaliveInterval) ELSE 0
  /\ keepalive_age' =
       IF health_active /\ keepalive_enabled
         THEN Older(keepalive_age, keepalive_interval) ELSE 0
  /\ query_due' = IF query_due > 0 THEN query_due - 1 ELSE 0
  /\ since_status' = Older(since_status, Never)
  /\ since_settings' = Older(since_settings, Never)
  /\ since_frame' =
       IF link = "subscribed" THEN Older(since_frame, WatchdogTimeout) ELSE 0
  /\ NoFrame
  /\ UNCHANGED <<transportVars, healthVars, data_fresh, outputs, telemetry,
                 controls_available, connected, settings_fresh, have_snapshot, settings,
                 settings_entities, settings_available, configVars,
                 initial_pending, query_active, query_attempts, reported,
                 touched, reported_outputs, touched_outputs>>

-----------------------------------------------------------------------------
ClientEvent ==
  \/ Opened
  \/ Closed
  \/ ServicesFound
  \/ ServicesUnusable
  \/ NotificationsRefused
  \/ SubscribedRequestQueued
  \/ SubscribedRequestRefused
  \/ WriteAcknowledged
  \/ WriteFailed

Notification ==
  \/ \E o \in [Outputs -> BOOLEAN] : StatusReport(o)
  \/ \E s \in [Fields -> Values] : SettingsReport(s)
  \/ DeviceNameReport
  \/ OtherReport

Command ==
  \/ \E o \in Outputs, state \in BOOLEAN : RequestOutputQueued(o, state)
  \/ RequestOutputRefused
  \/ \E f \in Fields, v \in Values :
       \/ RequestSettingUnchanged(f, v)
       \/ RequestSettingQueued(f, v)
       \/ RequestSettingRefused(f, v)
  \/ RequestDeviceNameQueued
  \/ RequestDeviceNameRefused
  \/ ManualKeepaliveQueued
  \/ ManualKeepaliveRefused
  \/ \E enabled \in BOOLEAN : SetKeepaliveEnabled(enabled)
  \/ \E interval \in SettingsIntervals : SetKeepaliveInterval(interval)

Next == ClientEvent \/ Notification \/ Command \/ Loop \/ Tick

Spec == Init /\ [][Next]_vars

\* The main loop keeps calling loop(), time goes on, and a link that was told
\* to close does close.
Fairness ==
  /\ WF_vars(Loop)
  /\ WF_vars(Tick)
  /\ WF_vars(disconnects > 0 /\ Closed)

FairSpec == Spec /\ Fairness

-----------------------------------------------------------------------------
(* Properties                                                              *)

Reports == [Fields -> Values] \cup {Unknown}
OutputReports == [Outputs -> BOOLEAN] \cup {Unknown}

SessionFlagsType ==
  /\ handles \in BOOLEAN /\ unacked \in BOOLEAN
  /\ health_active \in BOOLEAN /\ reconnect_pending \in BOOLEAN
  /\ disconnect_requested \in BOOLEAN /\ keepalive_enabled \in BOOLEAN
  /\ initial_pending \in BOOLEAN /\ query_active \in BOOLEAN
  /\ looped \in BOOLEAN
  /\ scheduled \in {"none", "written", "answered", "finished"}

ReportFlagsType ==
  /\ data_fresh \in BOOLEAN /\ controls_available \in BOOLEAN
  /\ connected \in BOOLEAN
  /\ settings_fresh \in BOOLEAN /\ have_snapshot \in BOOLEAN
  /\ settings_available \in BOOLEAN

FlagsType == SessionFlagsType /\ ReportFlagsType

ClocksType ==
  /\ disconnects \in 0..2
  /\ protocol_age \in 0..WatchdogTimeout
  /\ request_age \in 0..KeepaliveInterval
  /\ status_age \in 0..(StaleTimeout + 1)
  /\ settings_age \in 0..(StaleTimeout + 1)
  /\ keepalive_interval \in SettingsIntervals
  /\ keepalive_age \in 0..keepalive_interval
  /\ query_attempts \in 0..MaxAttempts /\ query_due \in Nat
  /\ since_status \in 0..Never /\ since_settings \in 0..Never
  /\ since_frame \in 0..WatchdogTimeout

DataType ==
  /\ link \in {"closed", "open", "registering", "subscribed", "failed"}
  /\ node_state \in {"ESTABLISHED", "OTHER"}
  /\ outputs \in [Outputs -> BOOLEAN] /\ telemetry \in OutputReports
  /\ settings \in [Fields -> Values]
  /\ settings_entities \in [Shown -> Values \cup {Unknown}]
  /\ reported \in Reports /\ touched \in SUBSET Fields
  /\ reported_outputs \in OutputReports
  /\ touched_outputs \in SUBSET Outputs
  /\ tx \in Seq(Frames)

\* Every variable has its type; ages stay below the value they saturate at and
\* a device-name query never exceeds its attempts.
TypeOK == FlagsType /\ ClocksType /\ DataType

Sent == {tx[i] : i \in DOMAIN tx}

\* Command 0x02 overwrites every setting of the station at once.  Whatever the
\* station received, it is told to change only fields a command touched: each
\* other field carries the value it last reported in this very session.
SettingsFramesPreserveUntouched ==
  \A frame \in Sent :
    frame.kind = "settings" =>
      /\ reported # Unknown
      /\ \A f \in Fields \ touched : frame.settings[f] = reported[f]

\* Whatever happens to the session, the component implements the writer of
\* SettingsWriter: command 0x02 carries the snapshot of this session, changed in at
\* most one field, and every reset forgets it although its values stay in memory.
SettingsSent == {frame \in Sent : frame.kind = "settings"}

Known == IF have_snapshot THEN settings ELSE Unknown

Written == IF SettingsSent = {} THEN Unknown
           ELSE (CHOOSE frame \in SettingsSent : TRUE).settings

Writer == INSTANCE SettingsWriter
  WITH None <- Unknown, up <- (link # "closed"),
       known <- Known, written <- Written

ImplementsWriter == Writer!Spec

\* The same of the output bitmap: AC, DC and light share one control command.
ControlFramesPreserveUntouched ==
  \A frame \in Sent :
    frame.kind = "control" =>
      /\ reported_outputs # Unknown
      /\ \A o \in Outputs \ touched_outputs :
           frame.outputs[o] = reported_outputs[o]

\* A command is built on a report no older than the stale timeout plus the one
\* iteration of loop() that expires it.
CommandsNeedFreshReports ==
  StaleTimeout # 0 =>
    \A frame \in Sent :
      /\ frame.kind = "control" => since_status <= StaleTimeout + 1
      /\ frame.kind = "settings" /\ frame.by = "command" =>
           since_settings <= StaleTimeout + 1

\* Telemetry is shown exactly while it is fresh, never beyond the stale timeout
\* once loop() has run, and never after the link has closed.
StaleTelemetryIsUnknown ==
  /\ telemetry # Unknown <=> data_fresh
  /\ controls_available => data_fresh /\ handles
  /\ StaleTimeout # 0 /\ looped /\ data_fresh => since_status <= StaleTimeout
  /\ link = "closed" => telemetry = Unknown

\* Settings Available is honest in the same way; and while it is on, the settings
\* entities show what the station reported in this session, but for the fields a
\* command has changed since without a report to confirm it.
SettingsAvailableIsHonest ==
  /\ settings_available => settings_fresh /\ handles
  /\ settings_available =>
       \A f \in Shown \ touched :
         settings_entities[f] = PublishedSettings(reported)[f]
  /\ settings_fresh => have_snapshot /\ reported # Unknown
  /\ StaleTimeout # 0 /\ looped /\ settings_fresh =>
       since_settings <= StaleTimeout
  /\ link = "closed" => ~settings_available

\* No session is forgotten: a link without usable handles, or one whose health
\* is not monitored, has a reconnect scheduled or under way.
NoOrphanSession ==
  /\ link = "subscribed" =>
       health_active \/ reconnect_pending \/ disconnect_requested
  /\ link \in {"registering", "subscribed", "failed"} /\ ~handles =>
       reconnect_pending \/ disconnect_requested
  /\ disconnect_requested => disconnects > 0

\* While the controller believes it serves a session, it can write: the
\* branches of loop() never meet a transport that is not ready.
ServingCanWrite ==
  health_active /\ ~disconnect_requested =>
    Ready /\ ~reconnect_pending /\ link = "subscribed"

\* A link without a valid frame for the watchdog timeout is being recycled as
\* soon as loop() has run, whatever else happened in the meantime.
WatchdogRecyclesSilentLink ==
  link = "subscribed" /\ since_frame >= WatchdogTimeout /\ looped =>
    disconnects > 0 \/ reconnect_pending

\* BLE Connected follows the open event and the reset of a session, two things that
\* need not agree: it never shows a link there is not, a served session is always shown
\* as connected, and it is off on a link only while that link is being ended.
ConnectedIsHonest ==
  /\ connected => link # "closed"
  /\ health_active => connected
  /\ ~connected /\ link # "closed" => reconnect_pending \/ disconnect_requested

\* allpowers_ble.cpp:127, 168: "Avoid submitting the periodic status request
\* back-to-back", "Space them so writes are not submitted back-to-back".  No
\* handler queues two frames.  After a subscription or an iteration of loop() that
\* queued one, no iteration of the same tick queues another, whatever is pressed or
\* received before it; but for one case, the first keepalive of a session, which
\* loop() queues as soon as a settings report has come.  The property is about the
\* frames the component queues by itself: what a user presses is not delayed, nor
\* does it delay them.  It holds where the name query is over before either interval
\* can expire, as with the defaults (6.5 s against 20 s and a minute).
QuerySpan == QueryDelay + (MaxAttempts - 1) * QueryRetry

WellSpaced ==
  /\ QueryDelay > 0 /\ QueryRetry > 0
  /\ KeepaliveInterval > QuerySpan
  /\ \A i \in SettingsIntervals : i > QuerySpan

InitialKeepalive(frame) == frame.kind = "settings" /\ frame.by = "initial"

Spaced ==
  /\ Len(tx') <= 1
  /\ Loop => CASE scheduled = "none" -> TRUE
               [] scheduled = "answered" -> \A frame \in Sent' :
                                              InitialKeepalive(frame)
               [] OTHER -> tx' = <<>>

NoBackToBackWrites == [][WellSpaced => Spaced]_vars

\* protocol.md:47, README.md:231: the guard keeps the component from asking for
\* a disconnect again while the close event is pending.
DisconnectsOnce == disconnects <= 1

\* allpowers_ble.cpp:799, README.md:222: settings that are not available are
\* not shown as the current device setting.
UnavailableSettingsAreUnknown ==
  ~settings_fresh => settings_entities = NoSettingsShown

\* Every scheduled or requested reconnect ends with the link closed.
ReconnectEndsSession ==
  (reconnect_pending \/ disconnect_requested) ~> (link = "closed")

\* A subscription on which no valid frame arrives any more does not last,
\* however often commands are sent on it.
SilentSessionEnds ==
  <>[][~Notification]_vars => []<>(link # "subscribed")

-----------------------------------------------------------------------------
(* The inductive invariants behind the safety properties above.            *)

\* Whatever loop() or a command would send now is what the station reported,
\* but for the fields touched since.
SnapshotsAreReported ==
  /\ settings_fresh => have_snapshot
  /\ have_snapshot =>
       /\ reported # Unknown
       /\ \A f \in Fields \ touched : settings[f] = reported[f]
  /\ data_fresh =>
       /\ reported_outputs # Unknown
       /\ \A o \in Outputs \ touched_outputs : outputs[o] = reported_outputs[o]

\* The frames of the latest handler carry the state that handler left behind; a
\* command is sent on a fresh report only.
FramesCarryState ==
  \A frame \in Sent :
    /\ frame.kind = "settings" =>
         /\ have_snapshot /\ frame.settings = settings
         /\ frame.by = "command" => settings_fresh
    /\ frame.kind = "control" => data_fresh /\ frame.outputs = outputs

\* While a report counts as fresh its age is true, and an iteration of loop()
\* leaves none beyond the timeout.
FreshAgesAreTrue ==
  StaleTimeout # 0 =>
    /\ data_fresh =>
         since_status = status_age /\ (looped => status_age <= StaleTimeout)
    /\ settings_fresh =>
         since_settings = settings_age
           /\ (looped => settings_age <= StaleTimeout)

\* What is shown as available or as telemetry is backed by the flags, and what the
\* settings entities show by the snapshot.
ShownIsFresh ==
  /\ telemetry # Unknown <=> data_fresh
  /\ controls_available => data_fresh /\ handles
  /\ settings_available => settings_fresh /\ handles
  /\ settings_available => settings_entities = PublishedSettings(settings)
  /\ link = "closed" => ~data_fresh /\ ~settings_fresh

\* The watchdog's clock is the true one, and the initial keepalive, which comes
\* before the watchdog in loop(), is due only right after a report.
WatchdogInv ==
  /\ initial_pending => keepalive_enabled
  /\ health_active => since_frame = protocol_age
  /\ health_active /\ ~disconnect_requested =>
       /\ looped => protocol_age < WatchdogTimeout
       /\ InitialDue => protocol_age <= 1 /\ (looped => protocol_age = 0)

\* How far the session has come decides which of the flags may be raised.
SessionInv ==
  /\ health_active => handles /\ link = "subscribed" /\ ~reconnect_pending
  /\ health_active /\ ~disconnect_requested => node_state = "ESTABLISHED"
  /\ node_state = "ESTABLISHED" \/ unacked => link = "subscribed"
  /\ link \in {"closed", "open"} => ~handles
  /\ link \in {"closed", "open", "registering"} =>
       ~reconnect_pending /\ ~disconnect_requested
  /\ link = "registering" => handles
  /\ link = "failed" => ~handles

\* While WellSpaced: an active name query has so little left to run that neither
\* interval can end before it, and it was looked at in this tick.
QueryIsAhead ==
  WellSpaced /\ health_active /\ ~disconnect_requested /\ query_active =>
    LET allowed == QueryDelay + query_attempts * QueryRetry IN
    /\ query_attempts < MaxAttempts
    /\ looped => query_due > 0
    /\ request_age + query_due <= allowed
    /\ keepalive_age + query_due <= allowed

\* Nothing is due in the tick in which a frame was queued without a command, save
\* the initial keepalive once a report has come; after it nothing is pending.
QuietAfterWrite ==
  WellSpaced /\ health_active /\ ~disconnect_requested =>
    /\ scheduled # "none" => ~QueryDue /\ ~RequestDue /\ ~KeepaliveDue
    /\ scheduled = "written" => ~InitialDue
    /\ scheduled = "finished" => ~initial_pending

\* The snapshot is of a subscribed session.
SnapshotOfSession == have_snapshot => link = "subscribed"
=============================================================================
