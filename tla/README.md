# A verified model of the ALLPOWERS BLE component

TLA+ specifications of the ESPHome external component in
`src/components/allpowers_ble`, the TLC runs that check them on small instances and the
proofs, checked by TLAPS, that carry every safety and action property of those runs to every value
of the constants.

## 1. The system

The component connects an ESP32 to an ALLPOWERS power station over Bluetooth LE.
It subscribes to the station's notifications (FFF1), decodes status and settings
frames into Home Assistant entities, and writes commands (FFF2) back.

| Part | Code | State it keeps | Operations | Hard because |
|---|---|---|---|---|
| Session controller | `allpowers_ble.cpp`, `.h` | freshness and ages of telemetry and settings, the settings snapshot, connection health, keepalive and query timers | `loop()`, transport callbacks, `process_notification_`, the `request_*` commands, `reset_connection_state_` | every handler may interleave with every other between two iterations of `loop()`; a refused write runs the whole reset inside the command that wrote |
| GATT transport | `allpowers_ble_transport.cpp`, `_discovery.h` | the client state, two handles | `gattc_event_handler`, `write_transport_frame_`, `disconnect_transport_`, `fail_discovery_` | asynchronous events: discovery, registration and write results fail at any stage, events for a closing link still arrive |
| Entities | `allpowers_ble_entities.cpp`, `switch.py`, `select.py`, `number.py`, `button.py`, `text.py` | restored keepalive settings, saved station name | user commands | read-modify-write of shared bitmaps |
| Protocol frames | `allpowers_ble_protocol.cpp` | none | parse, validate, build | two settings and three outputs share one command each |
| Protocol diagnostics | `allpowers_ble_diagnostics.h` | an error latch and three counters | record, start of a session | saturation, different things clear different counters |
| Connection policy | `packages/allpowers_ble.yaml` | desired connection, status text, running scripts | enable, disable, connect, disconnect and boot automations | scripts with delays that later events overtake |
| Configuration | `__init__.py` and the platforms | none at run time | validation, code generation | - |
| Home Assistant wrapper, examples, tests, scripts | `home_assistant`, `examples`, `tests`, `scripts` | none | - | - |

How they interact: the BLE client calls the transport's `gattc_event_handler`;
the transport calls the controller's `on_transport_*` and `process_notification_`
callbacks; the controller calls `write_transport_frame_` and
`disconnect_transport_`, and a write that cannot be queued calls back into
`on_transport_error_` **before it returns**. Entities call the controller; the
controller publishes into the entities. The package's automations act on the BLE
client only. All of it runs on ESPHome's single main loop, so a handler is never
interrupted: what interleaves is the order of handlers.

What makes each part correct:

- *Controller*: a write never changes what nobody touched; commands are built
  only on fresh reports of this session; expired data is not shown; the watchdog
  fires on silence whatever else goes on; scheduled writes are spaced.
- *Transport*: no session without usable handles is forgotten; a served session
  can write; a reconnect that was scheduled ends with the link closed.
- *Diagnostics*: counters saturate; the latch is cleared by a new session only.
- *Connection policy*: the client ends up as last asked, and the status text
  agrees with it.

## 2. The modules

| Module | What it is |
|---|---|
| `AllpowersBLE` | controller, transport and entity commands: state, actions, properties, and the inductive invariants the proofs use |
| `MCSettings`, `MCControls`, `MCSession` | instances for TLC |
| `AllpowersBLE_proofs` | type correctness, and that the snapshots agree with the reports |
| `SettingsWriter` | the abstract promise about settings, which `AllpowersBLE` implements |
| `AllpowersBLEFrames_proofs` | the read-modify-write theorems, and that `AllpowersBLE` implements `SettingsWriter` |
| `AllpowersBLESession_proofs` | the theorems about sessions and about the spacing of writes |
| `ConnectionPolicy` | the package's automations around the BLE client |
| `MCConnectionPolicy` | its instance for TLC |
| `ConnectionPolicy_proofs` | its types and its three safety properties, for delays of any length |
| `ProtocolDiagnostics` | error counters, latch, last error and the entities that show them |
| `MCProtocolDiagnostics` | its instance for TLC |
| `ProtocolDiagnostics_proofs` | the latch, the counters, the last error and the entities, for histories of any length |
| `StoredEntities` | station name, keepalive switch and interval number across restarts and power losses |
| `MCStoredEntities` | its instance for TLC |
| `StoredEntities_proofs` | all its properties, for any stations, names and choices |
| `MillisClock` | the timestamps of the controller on the 32-bit clock that wraps |
| `MCMillisClock` | its instance for TLC |
| `MillisClock_proofs` | its properties for any width of the clock and any timeouts below half of it |
| `Protocol` | frames, parsers, UTF-8, names and the settings bits, byte by byte |
| `MCProtocol` | its instance for TLC |
| `Protocol_proofs` | all its properties, for every report, every text of any length and all flags |

### AllpowersBLE

Controller and transport are one module because they call each other inside one
handler: a synchronous write failure resets the controller in the middle of its
own command. Each action is one whole handler in one of its outcomes, and the
outcomes of `esp_ble_gattc_write_char` (queued, refused) are separate actions
with the suffixes `Queued` and `Refused`.

| Actions | Code |
|---|---|
| `Opened`, `ServicesFound`, `ServicesUnusable`, `NotificationsRefused`, `SubscribedRequest*`, `WriteAcknowledged`, `WriteFailed`, `Closed` | the cases of `gattc_event_handler` with the callbacks they make; a subscription sends the first status request |
| `StatusReport`, `SettingsReport`, `DeviceNameReport`, `OtherReport` | `process_notification_` and the three `process_*_` functions |
| `RequestOutput*`, `RequestSetting*`, `RequestDeviceName*`, `ManualKeepalive*`, `SetKeepalive*` | the entity commands |
| `Loop*` | the branches of `loop()`, each with the two expiries before it |
| `Tick` | the passing of time |

`ResetConnectionState` is `reset_connection_state_`; its parameters are what the
callers do right after it. State is named as in the code, without the trailing
underscore.

Abstractions, and why they lose nothing the properties tell apart:

- **Time is kept as ages.** `protocol_age` stands for
  `millis() - last_protocol_packet_ms_`. An age stops growing at the first value
  the code treats like every later one. That the code's wrapping differences are
  these ages, and where its use of timestamp 0 for "none" makes them differ, is
  the subject of `MillisClock`.
- **Time does not pass across an iteration of `loop()`.** `Tick` waits for one:
  ESPHome calls `loop()` many times a second, the shortest timeout is seconds.
  Between a tick and the iteration any handlers may run, so commands do meet
  expired data that has not been noticed.
- **Pairs of flags that every site sets together are one variable**:
  `have_status_`/`data_fresh_`, `have_settings_`/`settings_fresh_`.
- **Outputs and fields are functions.** The settings bitmap with the ECO timeout
  is `settings \in [Fields -> Values]`, the requestable options of a field are
  `Options[f]`; a field with no options is a bit the component must preserve.
- **A characteristic is missing, unsupported or usable**; `EvaluateCharacteristics` and
  `EvaluateNotificationRegistration` give the results of `allpowers_ble_discovery.h`.
- `parent()->disconnect()` may or may not have changed the client's state when
  it returns; `Disconnect` allows both.
- Branches of `loop()` for a transport that is not ready are not actions: the
  invariant `ServingCanWrite`, checked and proved, says they are never taken. So is the
  write to a characteristic without a write property, which discovery excludes.
- When a device-name query is refused in `loop()`, the rest of the iteration
  compares `now` with timestamps that were just set to 0, so its outcome depends on the
  uptime; `LoopQueryRefused` allows each.
- Events of a link that is already closing still arrive until the close event:
  nothing in the guards of `WriteFailed` or of the reports excludes it. The close and
  the disconnect event run the same handler and are one action.

History variables, read by the properties only: `tx` (what the latest handler
queued), `reported`/`touched` and their output twins (what the station last
reported in this session and what commands changed since), `since_*` (true ages
of the last report or frame), `disconnects` (calls of `disconnect()` in this session), `looped`, and `scheduled` (what a
subscription or `loop()` has queued since the last tick: nothing, a frame, a frame that a settings
report has followed, or all it will).

Bounds, all in guards or types: ages saturate at the timeout they are compared
with, `since_*` one or two ticks later, `disconnects` at 2 (the property it serves tells 0, 1
and more apart). Nothing else is bounded: `Spec` has no state constraint.

### SettingsWriter

What a user may rely on when the station's settings can only be written all at
once: in a session the component is told the settings, may change one at a time
and write them again, and forgets them when the session ends or fails.
It has no handles, ages, flags or timers. In `AllpowersBLE`, `Known` is the
snapshot while `have_snapshot` is raised and `Written` what the settings frame of
the latest handler carried; `ImplementsWriter` says that every step of the
component is a step of the writer under this mapping or leaves it alone. The
interesting half is what the mapping hides: the snapshot's values are never erased in the code,
only disowned.

### ConnectionPolicy

The controller above sees a BLE client that connects somehow; this module says
when. Its variables are the ids of the YAML, without the prefix: `requested` is
`ble_connection_requested` (the switch shows it and nothing else),
`captured` and `capture_pending` the two globals of the name, `state` the status text.
A script or an automation runs without interruption up to a `delay`; what it has
left to wait is `wait_left` (script, while `waiting`) and `boot_left` (on_boot,
while `booting`), and what it does afterwards is an action of its own, `WaitOver`
and `BootDelayOver`. Every other action is one automation: `Advertisement`, `TurnOn`,
`TurnOff`, `Connected` (on_connect), `Closed` (on_disconnect).

The BLE client is ESPHome's and not in this repository. It is modelled by what
the package relies on: it claims an advertisement only while enabled and
auto-connecting; disabling it calls off an attempt and closes a link; on_disconnect
fires when an opened link has closed, not for an attempt without a link; on_connect of a
link may still be delivered after its close was requested. `ForcedReconnect` is the
component's `disconnect()`. The desired state is a RAM global, so a reboot is `Init`.

### ProtocolDiagnostics

`RecordError`, `ValidFrame` and `Subscribed` are `record_protocol_error_`,
`record_protocol_success_` and `reset_protocol_error_latch_` in the handlers that
call them; `SubscribedRefused` is the subscription whose first request fails in the same
handler; `IgnoredName` the one valid frame that records nothing; `Reboot` starts
over. A failure stands for a reason with its uptime. The history `log` is what
the properties count in: it defines what counters and latch ought to be,
independently of how they are kept.

### StoredEntities

What survives a restart and what only RAM knows. `*_flash` and `*_queued` are a preference as
ESPHome keeps it: a save goes to a queue, the queue is committed later (`Commit`), by an
orderly restart at the latest (`Restart`), and dropped by `PowerLoss`. Loading looks into the
queue first. `Setup` is the three `setup()` functions; a restart may be into firmware
built for another station, or for none (`NoAddress`), which is how the address "changes".
`StoreAndPublish`, `PublishStored`, `SwitchWritten` and `NumberControlled` are the functions of
`allpowers_ble_entities.cpp`, each with the outcomes its save may have; the switch also saves
what it shows at every start (`SavedAtStart`). `Advertisement` and
`DeviceNameResponse` are the two sources of a name; what one of them shows on the device-name
text is shown there too. A name is a value of `Names`, or `Unusable`: what
`normalize_station_name` rejects is the business of `Protocol`.

The flash is not assumed to hold what this firmware wrote: `NameRecords` and `MinuteRecords`
allow a name that no longer passes and minutes out of range. The histories are `heard` (which
names were ever received from which address; the flash of the first start counts as heard) and
`unsaved` (entities whose last save was refused).

### MillisClock

Only the timestamps: `now` is `millis()` modulo `2 * Half`, every timestamp is kept as the code
keeps it, zeros included, and beside each stands the true age. `Elapsed`, `Plus` and `Due` are
the unsigned difference, the unsigned sum and the signed comparison of the code. The session is
reduced to served, failing, closing or down; frames, entities and snapshots are left to
`AllpowersBLE`, so a keepalive that is due may or may not have a snapshot to send. A settings
report expires by the code that expires telemetry (with a timestamp of its own), so one of the two is kept. `Tick`
moves the clock by up to `MaxLag` between two iterations of `loop()`.

`ClockAssumption` asks that each timeout together with a late iteration is below half the
clock. The schema of `__init__.py` bounds no timeout from above, but 2^31 ms are 24 days.

`LoopQueryRefused` is the one place where the code itself depends on the uptime: after a reset in
the middle of `loop()` it goes on with timestamps of 0. Here the outcome is computed
(`Elapsed(0)`), in `AllpowersBLE` both are allowed.

### Protocol

A behavior is one report on its way (`StationFrame`, maybe `Damaged`), what the component makes of
it, and one command built on it; or a text typed byte by byte and written as a name. The station's side is external and
follows `docs/protocol.md` and the tests; everything else is a function of
`allpowers_ble_protocol.cpp`, of the same name where it has one.

Nothing here is recursive, so that it can be proved about. A byte is its eight bits: `&` and `|`
compute bit by bit, and `xor_bytes` has the bits that an odd number of bytes has, which is what its loop
leaves. The loop of `valid_utf8` is the set of positions at which its iterations begin: `Divides`
asks for such a set from the first byte to the end, `Char` is what one iteration accepts
(`Led`, `Codepoint`, `Surrogate`, `Least` are its tests). `Trimmed` cuts at the first and the last byte that is no space.

`ProtocolAssumption` says what a report can hold (bytes and 16-bit words, a name whose length fits its
byte), that the longest name fits a frame (96 in the code), and that `None` is
no value. `PlaceholdersAssumption` says that the table of placeholders is in lower case, as it
is in the code, which compares it with a name in lower case.

The properties compare with
definitions independent of the code: `WellFormed` is the table of well-formed UTF-8 byte sequences of the Unicode
standard, `Decoded` reads the settings as fields, `OutputsKeepTheirMeaning` knows which bit is which in reports
and in commands.

## 3. The runs

| Run | Instance | Checks |
|---|---|---|
| `settings` | two fields, one of them not requestable, two values, one output; stale timeout 1 tick, keepalive 2, watchdog 3 | `SettingsFramesPreserveUntouched`, `CommandsNeedFreshReports`, `SettingsAvailableIsHonest`, `ImplementsWriter` |
| `controls` | two outputs; same timing, and the user may change the keepalive interval to 3 | `ControlFramesPreserveUntouched`, `StaleTelemetryIsUnknown` |
| `session` | no data; status request every 4 ticks, watchdog 5, settings keepalive 4, query at 1 with 3 attempts 1 apart | `TypeOK`, `NoOrphanSession`, `ServingCanWrite`, `ConnectedIsHonest`, `WatchdogRecyclesSilentLink`, `NoBackToBackWrites`, and under fairness `ReconnectEndsSession`, `SilentSessionEnds` |
| `policy` | boot delay 3, name wait 2; connecting at boot or not | `TypeOK`, `OffStopsEverything`, `ClaimsAwaitName`, `StateFollowsPolicy`, `KeepsSearching`, `OffEndsConnection` |
| `diagnostics` | two failures, counters up to 3, six events between reboots | `CountsAreExact`, `LatchIsOfSession`, `LastErrorIsLatest`, `SensorsAgree` |
| `stored` | two stations and no address, two names, two choices of minutes, the name or the keepalive entities configured | `TypeOK`, `NamesComeFromThisStation`, `RestartKeepsValues`, `RepeatsAreNotSaved`, `UnusableNamesAreHarmless` |
| `clock` | a clock of 16 ms, iterations up to 2 ms late, timeouts of 2 to 5 ms, two query attempts | `AgesAreTrue`, `FreshIsRecent`, `NothingExpiresEarly` |
| `protocol` | all 256 settings bitmaps, version bytes with nibbles on both sides of 9, 63 status reports, every single-bit damage, truncation and extension; texts of four of 20 boundary bytes, names of four of 11 bytes where three are allowed | `DamageIsDetected`, `ReportsAreUnderstood`, `Utf8IsUnicode`, `NamesAreClean`, `CommandsAreFrames`, `NamesSurviveTheAir`, `OutputsKeepTheirMeaning`, `RequestsChangeTheirField` |
| `disconnect_once` | as `session` | `DisconnectsOnce`, violated |
| `unavailable_settings` | as `settings` | `UnavailableSettingsAreUnknown`, violated |
| `runs_end_with_session` | as `diagnostics` | `RunsEndWithSession`, violated |
| `zero_timestamp` | as `clock` | `FreshIsAlwaysRecent`, violated |

Why the bounds are enough. The read-modify-write properties compare one field
that is written with one that is not, so two fields and two values show every
case, and two outputs likewise. A stale timeout of one tick lies below the
watchdog, as with the defaults (30 s against 45 s), so telemetry expires in a live
session, while keepalives still go out. In `session` the intervals are longer than the
name query takes, as with the defaults (6.5 s against 20 s and a minute), which
is what makes `NoBackToBackWrites` non-vacuous; the other runs take shorter
intervals, where timers do fall due together.

`session` has no settings fields, but settings reports still arrive
(there is one value of no fields), so keepalives happen.

`ConnectionPolicy` is finite as it stands (328 states): the boot delay is longer than the
wait for a name, as with the defaults (10 s and 3 s), so the wait can run out, be restarted
and be overtaken while the boot delay is still running. In `diagnostics` six
events take a counter past its largest value and leave room for the valid frame or subscription that
clears it; `MaxLog` bounds nothing else.

`StoredEntities` is finite too. Leaking a name takes two stations, replacing one takes two
names; the third address is "none". The name and the two keepalive entities share no state, so
a configuration has the one or the other. Names and stations are interchangeable to the module, and no
property names one: hence the symmetry of the run.

In `clock` the timeouts come to 5 ms and an iteration is up to 2 ms late, so that 16 ms hold
every age, as the assumption wants, and sessions and the pauses of a switched-off keepalive
last over several wraps. `VIEW View` leaves out timestamps that the code sets again
before it reads them: those of a session that is not served, of a keepalive that is off, of a
query that is not active. No guard and no property reads them there.

In `protocol` the texts hold the smallest and largest byte of every column of the Unicode table, so every
row of it and every neighbour of a row occurs; every behavior is a few steps long and ends, hence
`CHECK_DEADLOCK FALSE`. The reports of a status are zero, full and mixed words. Names may have three
bytes instead of 96, so that a fourth can be too many, and the placeholders are those that fit.

Fairness of `ConnectionPolicy`: delays end, time goes on, an attempt that was called off
ends, a link that was told to close closes. Nothing is assumed of advertisements,
the user or an attempt that nobody called off. `KeepsSearching` supposes that the
switch is left alone from some point on: turning it on again and again does restart the wait
for ever. It promises that the client *may* connect, again and again; whether it does is up to the
station.

Fairness of the controller, in its `FairSpec` only: ESPHome keeps calling `loop()`; time goes on;
after `disconnect()` the client does close the link (a callback the Bluetooth stack
guarantees after a close request). Nothing is assumed of the station, of the
user or of a disconnect nobody asked for. `SilentSessionEnds` assumes that from some point on no
valid frame arrives and concludes that no subscription lasts, however often
the user writes.

Each property has a mutant in the module it is about: a definition with a plausible bug that
the property must catch under the same configuration. They are defined next to the
definition they mutate and commented `mutant`.

### Findings

1. `DisconnectsOnce`. `docs/protocol.md:47-48` promises that a guard prevents
   repeated disconnect requests while the close event is pending. A write error
   that arrives in that window goes through `reset_connection_state_`, which
   clears the guard and schedules another reconnect.
2. `UnavailableSettingsAreUnknown`. A refused settings write resets the session
   and clears the settings entities, and the command then publishes them again:
   the entities show settings while `Settings Available` is off.
3. `RunsEndWithSession`. README:215-216 says that the consecutive counter clears
   on subscription only, "not after the next valid packet"; a valid packet clears it.
4. `FreshIsAlwaysRecent`. Timestamp 0 means "no report", but it is also the time of a report that
   arrives in the millisecond in which `millis()` wraps. If it is the last status report, its telemetry
   never expires: it goes when the session does, not after `stale_timeout`.
   `FreshIsRecent` is what holds.

More differences between docs and code are left without a run:

- README:243-245 says that keepalives return what the station reported "unchanged". They return
  the local snapshot, with a change that no report has confirmed yet;
  `SettingsFramesPreserveUntouched` is the property the code has.
- README:205 and the package call BLE Connected the physical link state. The reset of a
  failed session publishes it as off while the link is still up; `ConnectedIsHonest` says what can
  be relied on.
- "Searching means enabled but not connected", says the package (353-354). Turning the switch on again
  on a connected link shows Searching until the link is lost.
- README:310 describes the device name as what the station returns. After an empty or unparsable
  answer the code shows the stored name there (298-301, 318-322), which an advertisement
  may have brought.
- ECO Mode Status, which README:269 counts on as confirmed, is published as soon as a command
  is queued; a comment in the code says that this is intended.
- A valid device-name frame does not end a run of errors
  while the name is not enabled (`IgnoredName`), although README:211 speaks of
  errors "without a valid packet".

## 4. The proofs

`TimingAssumption` (a watchdog longer than the request interval, no zero
intervals: what `__init__.py` rejects otherwise) and `DataAssumption` (0 is a
value, options are values, `Unknown` is none) are all that is assumed of `AllpowersBLE`.

- `TypeCorrect`: `Spec => []TypeOK`. `TypeOK` is not inductive: the attempts of the name query stay
  bounded only because an active query has one left, which `ClocksInv` adds. The proof
  goes by flags, clocks and data separately, one step per action.
- `SettingsWritesPreserve`, `ControlWritesPreserve`. A property of the frames of the last
  step cannot be inductive. Two invariants carry it:
  `SnapshotsAreReported` (while `have_snapshot` is raised, the local settings are the
  station's last report of this session except for touched fields; the same of the
  outputs while `data_fresh`) and `FramesCarryState` (a frame carries the state its handler
  left, under a raised flag). The flag is essential: the values outlive a reset.
- `WriterImplemented`: `Spec => ImplementsWriter`. With `FramesCarryState` a step that wrote
  settings wrote those it leaves known, so it is enough to see what each handler does to
  the session and the snapshot: keep both, forget, be told, or change one field.
- `CommandsAreFresh`, `StaleTelemetryIsHidden`, `AvailabilityIsHonest`, from three more invariants:
  `FreshAgesAreTrue` (while the flag is up, the age the code keeps and the true age agree up to
  where both stop), `ShownIsFresh` (what is on display or announced stands on a raised flag, and the settings
  entities show the snapshot) and
  `FramesCarryState`. The properties speak of true ages, which the expiries do not touch.
- `SessionsAreNotForgotten`, `ServedSessionsCanWrite`, `ConnectedIsTold`. `SessionInv` ties the
  flags to how far the GATT session has come: health is active only on a
  subscribed link with handles and nothing pending, and a write or a reconnect
  is outstanding only in a session.
- `WritesAreSpaced`. The history `scheduled` tells what a subscription or `loop()` has queued
  since the last tick, whatever handlers came in between. After a frame, `loop()` queues none in
  that tick, except the first keepalive of the session, which a settings report calls for; and
  no handler queues two. What is pressed is neither delayed nor does it delay the scheduled
  frames: a command may come right before a query. `WellSpaced`, the premise, asks that the
  name query takes less time than either interval. `QueryIsAhead`: the age of the last request and the time to the next query add up to
  no more than the query may still take, so no interval ends while a query is
  outstanding. `QuietAfterWrite`: once a frame is queued, nothing else is due until time
  passes, but for the initial keepalive once its report has come. The keepalive needs `SnapshotOfSession` as well: a snapshot belongs to a
  subscribed link, so a new session starts without one.
- `SilentLinksAreRecycled`. `WatchdogInv`: in a served session the age the watchdog reads is the
  true silence, which nothing but a valid frame restarts.
- `OffIsFinal`, `NamesAreAwaited`, `TextFollowsPolicy`, `PolicyTypes`, from `DelayAssumption`
  (delays are numbers, the wait for a name is not zero). The second and third are inductive together with
  the types. The first needs `DisabledHasNoLink`: between an OFF and the end of the
  wait that a new ON starts, the client is disabled while a connection is requested,
  and another OFF then finds nothing to close only because the first one saw to it.
- `LatchIsExact`, `CountersAreExact`, `LatestErrorIsShown`, `EntitiesAgree`, from `DiagnosticsAssumption`.
  Latch and counters are compared with the history, a sequence of events (`LogTyped`): the
  counters with the cardinality of the positions at which an error stands. Appending an event
  adds its position or does not, and saturation commutes with that.
- `ClockTypes`, `LoopReadsTrueAges`, `DisplayedTelemetryIsRecent`, `TimeoutsAreFull`, from
  `ClockAssumption`. The invariant is `Clocks`: wherever `loop()` reads a timestamp, timestamp and true age
  add up to `now`, once around the clock or not, and no age exceeds its timeout by more than the lag since
  the last iteration, because that iteration would have acted on it. With the assumption
  no age comes near the width of the clock, which makes the wrapped
  difference the age itself.
- `EntityTypes`, `NoNameFromAnotherStation`, `RestartsKeepValues`, `NoRepeatedFlashWrites`,
  `UnusableNamesChangeNothing`, from `EntitiesAssumption` and `NoneAssumption`. Two invariants: every name anywhere,
  in flash, queue or RAM, was heard from the address it is kept with, and `MirrorAgrees` (RAM mirrors the
  preference as a restart would load it, and the display shows it unless its save was refused).

- `DamageDetected`, `ReportsUnderstood`, from `ProtocolAssumption`. The invariant is `Arrival`: an undamaged
  report is the frame the station built, a damaged one is refused. What the parsers take out is
  compared with what was sent, field by field: flags, ECO time and both versions of a settings
  report too (`VersionsAreShown`: two nibbles are two decimal digits or the byte is shown as it is). A checksum is eight parities of sets of
  positions. An appended byte changes the parities of its own bits (`OddAppend`),
  which makes a sealed frame even; a flipped bit changes one of them
  (`OddExcept`); and a frame that is cut or runs on contradicts its length byte.
- `DecoderIsUnicode`. The decoder and the table cut a text into pieces in the same way
  (`Divides`), so it is enough that they accept the same pieces (`CharIsInTable`),
  one to four bytes at a time: what `&` leaves of a byte as arithmetic (`MaskedBytes`,
  `BytePayloads`), then the code point against each row. No induction over the text is needed.
- `CleanNamesOnly`. The first and the last byte that is no space exist because a set of
  positions has a least and a greatest element; what is between them is trimmed already
  (`TrimmedStays`). Controls are parts of one or two bytes (`SmallParts`), and a name that
  equals no placeholder in lower case differs from each at some byte in any case.
- `CommandsAreValid`, `NamesSurvive`, `OutputsKeep`. The invariant is `Commands`: outputs and settings
  stand on a report that passed `validate_frame`, and what was written is a valid frame, of the name that
  was typed if it is a name. `written` holds control, settings and name frames; the status request is a
  constant that is not an XOR envelope (`docs/protocol.md:40-41`), and nothing is claimed of it. The check byte of the control frame is computed by subtraction;
  `ControlCheck` and `ControlLead` show that it is the xor nevertheless.
  `OutputsOfReport` relates the outputs before a command to the report.
- `RequestsChangeOneField`: `Spec => RequestsChangeTheirField`. With `Commands` the settings are two
  bytes; `SettingABit` and `SettingTheMode` say which bits a request moves, `FieldsOfFlags` which field
  each bit belongs to, and `OptionShown` that the selects find their option again.

Model-checked only: liveness (`ReconnectEndsSession`, `SilentSessionEnds`, `KeepsSearching`,
`OffEndsConnection`), which is out of the prover's reach together with ENABLED. That the operators of
`Protocol` without recursion compute what the loops of the code compute is a matter of reading,
since induction over data is out of reach too.

## 5. What is not modelled, and the plan

Not modelled: log lines, the Python that runs at build time (what its schema
guarantees are the assumptions of the constants), the Home Assistant templates,
CI scripts. The BLE client, the preferences of ESPHome and the station are external: modelled by
what the code relies on. That the search and registration events come after an open event is not
assumed; if they do not, only the client can end the session.

What is left: an abstract session (a link is served, failing or down) that `AllpowersBLE`,
`MillisClock` and the client of `ConnectionPolicy` implement, so that the models meet.
