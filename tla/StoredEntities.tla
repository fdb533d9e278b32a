--------------------------- MODULE StoredEntities ---------------------------
(***************************************************************************)
(* The entities that outlive a restart (allpowers_ble_entities.cpp): the   *)
(* station name, the settings keepalive switch and its interval number,    *)
(* with the flash preferences behind them.  A name is received in an       *)
(* advertisement or in a response to command 0x35.                         *)
(*                                                                         *)
(* ESPHome queues what is saved and commits the queue to flash later, at   *)
(* the latest in an orderly restart; a power loss drops it.  Saving itself *)
(* may be refused.                                                         *)
(***************************************************************************)
EXTENDS Integers

CONSTANTS
  Configurations, \* sets of entities a firmware may be configured with
  Addresses,      \* the BLE MAC addresses the firmware is configured for
  NoAddress,      \* the address 0, for which no name is stored
  Names,          \* the station names normalize_station_name accepts
  Empty,          \* the empty name, and a text entity without a state
  Unusable,       \* a name it rejects, or a 0x35 payload that does not parse
  None,           \* a preference nothing was ever saved in, or none queued
  ConfigEnabled,  \* enable_settings_keepalive of the configuration
  ConfigMinutes,  \* settings_keepalive_interval of the configuration
  Choices         \* the minutes the number entity offers

Entities == {"name", "switch", "minutes"}

ASSUME EntitiesAssumption ==
  /\ Configurations \subseteq SUBSET Entities
  /\ NoAddress \in Addresses
  /\ Empty \notin Names /\ Unusable \notin Names /\ Empty # Unusable
  /\ ConfigEnabled \in BOOLEAN
  /\ ConfigMinutes \in 1..9 /\ Choices \subseteq 1..9

\* What the three preferences may hold: an earlier firmware or worn flash may have
\* left a name that no longer passes, or minutes out of range (here 0).
NameRecords == [address : Addresses, name : Names \cup {Empty, Unusable}]
MinuteRecords == Choices \cup {0}

ASSUME NoneAssumption ==
  None \notin NameRecords /\ None \notin MinuteRecords /\ None \notin BOOLEAN

VARIABLES
  name_flash, name_queued,        \* preference_ of the station name
  switch_flash, switch_queued,    \* the restored state of the switch
  minutes_flash, minutes_queued,  \* preference_ of the interval number
  configured,              \* the entities that exist
  address,                 \* get_station_address()
  stored_station_address,  \* stored_station_address_
  stored_name,             \* stored_name_
  station_name,            \* what the station name sensor shows
  device_name,             \* what device_name_text_ shows
  enabled,                 \* the switch, and settings_keepalive_enabled_
  minutes,                 \* the number, and settings_keepalive_interval_ms_
  heard,                   \* history: usable names received from an address
  unsaved                  \* history: entities whose last save was refused

flashVars == <<name_flash, switch_flash, minutes_flash>>
queueVars == <<name_queued, switch_queued, minutes_queued>>
nameVars == <<stored_station_address, stored_name, station_name, device_name>>
keepaliveVars == <<enabled, minutes, switch_queued, minutes_queued>>

vars == <<flashVars, queueVars, configured, address, nameVars, enabled,
          minutes, heard, unsaved>>

\* ESPPreferenceObject::load: the queue is looked up before the flash.
Loaded(flash, queued) == IF queued # None THEN queued ELSE flash

NameLoaded == Loaded(name_flash, name_queued)

-----------------------------------------------------------------------------
(* setup() of the three entities, at every start.                          *)

\* mutant: the stored name is restored whatever address it belongs to
RestoredNameAnyAddress(record, a) ==
  IF record # None /\ record.name \in Names THEN record.name ELSE Empty

\* What AllpowersBLEStationNameTextSensor::setup restores for address a.
RestoredName(record, a) ==
  IF record # None /\ record.address = a /\ record.name \in Names
    THEN record.name ELSE Empty

\* A name of another station is overwritten by an empty one.
MustClear(record, a) ==
  record # None /\ record.address # a /\ record.name # Empty

\* mutant: the configuration overrides what was stored
RestoredEnabledConfigured(record) == ConfigEnabled

\* AllpowersBLESettingsKeepaliveSwitch::setup
RestoredEnabled(record) == IF record = None THEN ConfigEnabled ELSE record

\* mutant: a number out of range is used as it is
RestoredMinutesUnchecked(record) ==
  IF record = None THEN ConfigMinutes ELSE record

\* AllpowersBLESettingsKeepaliveIntervalNumber::setup
RestoredMinutes(record) ==
  IF record \in 1..9 THEN record ELSE ConfigMinutes

\* ESPHome's publish_state in the setup() of the switch saves what it shows, and
\* that save may be refused as any other.
SavedAtStart(record) ==
  {None} \cup (IF "switch" \in configured THEN {RestoredEnabled(record)} ELSE {})

\* The setup() calls after a start for address a, with flash as it is kept.
Setup(a, name_kept, switch_kept, minutes_kept) ==
  /\ address' = a
  /\ name_flash' = name_kept
  /\ switch_flash' = switch_kept
  /\ minutes_flash' = minutes_kept
  /\ name_queued' \in
       {None} \cup (IF MustClear(name_kept, a)
                      THEN {[address |-> a, name |-> Empty]} ELSE {})
  /\ switch_queued' \in SavedAtStart(switch_kept)
  /\ minutes_queued' = None
  /\ stored_station_address' = IF name_kept = None THEN NoAddress ELSE a
  /\ stored_name' = RestoredName(name_kept, a)
  /\ station_name' = RestoredName(name_kept, a)
  /\ device_name' = Empty
  /\ enabled' = RestoredEnabled(switch_kept)
  /\ minutes' = RestoredMinutes(minutes_kept)
  /\ unsaved' = {}
  /\ UNCHANGED <<configured, heard>>

\* What the flash may hold for an entity, nothing if it does not exist.
Stored(entity, records) ==
  {None} \cup (IF entity \in configured THEN records ELSE {})

\* The first start of this firmware, on whatever the flash holds.
Init ==
  /\ configured \in Configurations
  /\ name_flash \in Stored("name", NameRecords)
  /\ switch_flash \in Stored("switch", BOOLEAN)
  /\ minutes_flash \in Stored("minutes", MinuteRecords)
  /\ address \in Addresses
  /\ name_queued \in
       {None} \cup (IF MustClear(name_flash, address)
                      THEN {[address |-> address, name |-> Empty]} ELSE {})
  /\ switch_queued \in SavedAtStart(switch_flash)
  /\ minutes_queued = None
  /\ stored_station_address = IF name_flash = None THEN NoAddress ELSE address
  /\ stored_name = RestoredName(name_flash, address)
  /\ station_name = stored_name
  /\ device_name = Empty
  /\ enabled = RestoredEnabled(switch_flash)
  /\ minutes = RestoredMinutes(minutes_flash)
  /\ heard = [a \in Addresses |->
                IF name_flash # None /\ name_flash.address = a
                  THEN {name_flash.name} \cap Names ELSE {}]
  /\ unsaved = {}

\* A restart that commits the queue first, maybe into firmware built for
\* another station.
Restart(a) ==
  Setup(a, NameLoaded, Loaded(switch_flash, switch_queued),
        Loaded(minutes_flash, minutes_queued))

PowerLoss(a) == Setup(a, name_flash, switch_flash, minutes_flash)

\* ESPHome writes the queue to flash.
Commit ==
  /\ <<name_queued, switch_queued, minutes_queued>> # <<None, None, None>>
  /\ name_flash' = NameLoaded
  /\ switch_flash' = Loaded(switch_flash, switch_queued)
  /\ minutes_flash' = Loaded(minutes_flash, minutes_queued)
  /\ name_queued' = None /\ switch_queued' = None /\ minutes_queued' = None
  /\ UNCHANGED <<configured, address, nameVars, enabled, minutes, heard,
                 unsaved>>

-----------------------------------------------------------------------------
(* update_station_name, from the advertisement trigger and from 0x35.      *)

AlreadyStored(name) ==
  stored_station_address = address /\ stored_name = name

\* mutant: every name that arrives is saved
StoreAlways(name) ==
  /\ station_name' = name
  /\ name_queued' = [address |-> address, name |-> name]
  /\ stored_station_address' = address /\ stored_name' = name
  /\ unsaved' = unsaved \ {"name"}

\* store_and_publish: what is stored already is not saved again, and what could
\* not be saved is shown all the same.
StoreAndPublish(name) ==
  /\ station_name' = name
  /\ \/ /\ address = NoAddress \/ AlreadyStored(name)
        /\ unsaved' = unsaved \ {"name"}
        /\ UNCHANGED <<name_queued, stored_station_address, stored_name>>
     \/ /\ address # NoAddress /\ ~AlreadyStored(name)
        /\ name_queued' = [address |-> address, name |-> name]
        /\ stored_station_address' = address /\ stored_name' = name
        /\ unsaved' = unsaved \ {"name"}
     \/ /\ address # NoAddress /\ ~AlreadyStored(name)
        /\ unsaved' = unsaved \cup {"name"}
        /\ UNCHANGED <<name_queued, stored_station_address, stored_name>>

HasStored ==
  address # NoAddress /\ stored_station_address = address /\ stored_name # Empty

\* mutant: an unusable name shows the stored one even if there is none
PublishStoredAnyway ==
  /\ station_name' = stored_name
  /\ UNCHANGED <<name_queued, stored_station_address, stored_name, unsaved>>

\* publish_stored: an unusable name brings back the stored one, if any.
PublishStored ==
  /\ station_name' = IF HasStored THEN stored_name ELSE station_name
  /\ UNCHANGED <<name_queued, stored_station_address, stored_name, unsaved>>

\* update_station_name; without the sensor nothing is kept.
UpdateStationName(name) ==
  /\ heard' = [heard EXCEPT ![address] = @ \cup ({name} \cap Names)]
  /\ \/ /\ "name" \in configured
        /\ IF name = Unusable THEN PublishStored ELSE StoreAndPublish(name)
     \/ /\ "name" \notin configured
        /\ UNCHANGED <<name_queued, stored_station_address, stored_name,
                       station_name, unsaved>>

Advertisement(name) ==
  /\ UpdateStationName(name)
  /\ UNCHANGED <<flashVars, configured, address, device_name, keepaliveVars>>

\* A frame of command 0x35: process_device_name_, or its payload is rejected.
DeviceNameResponse(name) ==
  /\ UpdateStationName(name)
  /\ device_name' = CASE name # Unusable -> name
                      [] name = Unusable /\ HasStored -> stored_name
                      [] OTHER -> device_name
  /\ UNCHANGED <<flashVars, configured, address, keepaliveVars>>

\* reset_connection_state_ clears the text of the device name.
ConnectionReset ==
  /\ device_name # Empty
  /\ device_name' = Empty
  /\ UNCHANGED <<flashVars, queueVars, configured, address,
                 stored_station_address, stored_name, station_name, enabled,
                 minutes, heard, unsaved>>

-----------------------------------------------------------------------------
(* The two keepalive entities, from the user.                              *)

\* AllpowersBLESettingsKeepaliveSwitch::write_state; ESPHome's publish_state
\* saves a state that differs from the one before.
SwitchWritten(state) ==
  /\ "switch" \in configured /\ state # enabled
  /\ enabled' = state
  /\ \/ switch_queued' = state /\ unsaved' = unsaved \ {"switch"}
     \/ UNCHANGED switch_queued /\ unsaved' = unsaved \cup {"switch"}
  /\ UNCHANGED <<flashVars, name_queued, minutes_queued, configured, address,
                 nameVars, minutes, heard>>

\* AllpowersBLESettingsKeepaliveIntervalNumber::control: the value shown already
\* is ignored, and the result of the save with it.
NumberControlled(value) ==
  /\ "minutes" \in configured /\ value # minutes
  /\ minutes' = value
  /\ \/ minutes_queued' = value /\ unsaved' = unsaved \ {"minutes"}
     \/ UNCHANGED minutes_queued /\ unsaved' = unsaved \cup {"minutes"}
  /\ UNCHANGED <<flashVars, name_queued, switch_queued, configured, address,
                 nameVars, enabled, heard>>

Next ==
  \/ \E a \in Addresses : Restart(a) \/ PowerLoss(a)
  \/ Commit
  \/ \E name \in Names \cup {Unusable} :
       Advertisement(name) \/ DeviceNameResponse(name)
  \/ ConnectionReset
  \/ \E state \in BOOLEAN : SwitchWritten(state)
  \/ \E value \in Choices : NumberControlled(value)

Spec == Init /\ [][Next]_vars

-----------------------------------------------------------------------------
(* Properties                                                              *)

TypeOK ==
  /\ name_flash \in NameRecords \cup {None}
  /\ name_queued \in NameRecords \cup {None}
  /\ switch_flash \in BOOLEAN \cup {None}
  /\ switch_queued \in BOOLEAN \cup {None}
  /\ minutes_flash \in MinuteRecords \cup {None}
  /\ minutes_queued \in MinuteRecords \cup {None}
  /\ address \in Addresses /\ stored_station_address \in Addresses
  /\ stored_name \in Names \cup {Empty}
  /\ station_name \in Names \cup {Empty}
  /\ device_name \in Names \cup {Empty}
  /\ enabled \in BOOLEAN /\ minutes \in 1..9
  /\ configured \in Configurations
  /\ heard \in [Addresses -> SUBSET Names]
  /\ unsaved \in SUBSET Entities

\* README.md:325-326, "a name cannot leak from one station to another": whatever
\* is shown or kept for the configured station was received from that station,
\* through restarts, changed addresses, refused clears and lost saves.
NamesComeFromThisStation ==
  {station_name, device_name, stored_name} \subseteq heard[address] \cup {Empty}

\* README.md:249: an orderly restart for the same station brings back what was
\* shown, unless the last save of it was refused.
RestartKeepsValues ==
  [][Restart(address) =>
       /\ address # NoAddress /\ "name" \notin unsaved =>
            station_name' = station_name
       /\ "switch" \notin unsaved => enabled' = enabled
       /\ "minutes" \notin unsaved => minutes' = minutes]_vars

\* README.md:323: "Repeated reception of the same name does not queue another
\* flash write", whether the name is in flash, queued or was restored.
RepeatsAreNotSaved ==
  [][\A name \in Names :
       NameLoaded = [address |-> address, name |-> name] =>
         (Advertisement(name) \/ DeviceNameResponse(name) =>
            UNCHANGED name_queued)]_vars

\* README.md:321: unusable names neither overwrite nor clear a stored one.  What
\* is shown they change only after a save was refused: back to the older name.
UnusableNamesAreHarmless ==
  [][Advertisement(Unusable) \/ DeviceNameResponse(Unusable) =>
       /\ UNCHANGED <<name_queued, stored_name>>
       /\ \/ UNCHANGED station_name
          \/ address # NoAddress /\ "name" \in unsaved]_vars

\* The inductive invariant: the names in RAM mirror the preference, and the name on
\* display is the stored one unless its save was refused.
MirrorAgrees ==
  /\ address # NoAddress =>
       /\ NameLoaded # None =>
            (NameLoaded.address = address => stored_station_address = address)
       /\ stored_name = RestoredName(NameLoaded, address)
       /\ "name" \notin unsaved => station_name = stored_name
  /\ "switch" \notin unsaved =>
       enabled = RestoredEnabled(Loaded(switch_flash, switch_queued))
  /\ "minutes" \notin unsaved =>
       minutes = RestoredMinutes(Loaded(minutes_flash, minutes_queued))
=============================================================================
