------------------------ MODULE StoredEntities_proofs ------------------------
(* Proofs about what survives a restart, for any addresses, names, choices   *)
(* and configurations.                                                       *)
(*                                                                           *)
(* What entities show and what their preferences hold is related by          *)
(* MirrorAgrees; where the names came from by Provenance, which also speaks  *)
(* of the records in flash and in the queue, of whatever address they are.   *)
EXTENDS StoredEntities, TLAPS

\* A usable name in a record was received from the address of the record.
Received(record) ==
  record # None /\ record.name \in Names => record.name \in heard[record.address]

Provenance ==
  /\ Received(name_flash)
  /\ Received(name_queued)
  /\ NamesComeFromThisStation

-----------------------------------------------------------------------------
(* What setup() restores.                                                  *)

LEMMA RecordFacts ==
  /\ \A record \in NameRecords : record # None
  /\ \A record \in NameRecords :
       record.address \in Addresses /\ record.name \in Names \cup {Empty, Unusable}
  /\ \A a \in Addresses, name \in Names \cup {Empty} :
       [address |-> a, name |-> name] \in NameRecords
  BY NoneAssumption DEF NameRecords

LEMMA RestoredNameType ==
  ASSUME NEW record, NEW a
  PROVE  RestoredName(record, a) \in Names \cup {Empty}
  BY DEF RestoredName

LEMMA RestoredEnabledType ==
  ASSUME NEW record \in BOOLEAN \cup {None}
  PROVE  RestoredEnabled(record) \in BOOLEAN
  BY EntitiesAssumption DEF RestoredEnabled

LEMMA RestoredMinutesType ==
  ASSUME NEW record
  PROVE  RestoredMinutes(record) \in 1..9
  BY EntitiesAssumption DEF RestoredMinutes

\* The save at start may be refused or not: the same state would be restored.
LEMMA SavedAtStartFacts ==
  ASSUME NEW record \in BOOLEAN \cup {None}, NEW queued \in SavedAtStart(record)
  PROVE  /\ queued \in BOOLEAN \cup {None}
         /\ RestoredEnabled(Loaded(record, queued)) = RestoredEnabled(record)
<1>1. queued = None \/ queued = RestoredEnabled(record)
  BY DEF SavedAtStart
<1>2. RestoredEnabled(record) \in BOOLEAN
  BY RestoredEnabledType
<1>3. CASE queued = None
  BY <1>3 DEF Loaded
<1>4. CASE queued = RestoredEnabled(record) /\ queued # None
  BY <1>2, <1>4 DEF Loaded, RestoredEnabled
<1> QED
  BY <1>1, <1>3, <1>4

\* Loading keeps to what flash and queue hold.
LEMMA LoadedType ==
  ASSUME TypeOK
  PROVE  /\ NameLoaded \in NameRecords \cup {None}
         /\ Loaded(switch_flash, switch_queued) \in BOOLEAN \cup {None}
         /\ Loaded(minutes_flash, minutes_queued) \in MinuteRecords \cup {None}
  BY DEF TypeOK, NameLoaded, Loaded

\* With an empty queue loading reads the flash.
LEMMA LoadedFlash == \A flash : Loaded(flash, None) = flash
  BY DEF Loaded

-----------------------------------------------------------------------------
(* Types.                                                                  *)

LEMMA SetupTypes ==
  ASSUME TypeOK, NEW a \in Addresses,
         NEW name_kept \in NameRecords \cup {None},
         NEW switch_kept \in BOOLEAN \cup {None},
         NEW minutes_kept \in MinuteRecords \cup {None},
         Setup(a, name_kept, switch_kept, minutes_kept)
  PROVE  TypeOK'
<1>1. [address |-> a, name |-> Empty] \in NameRecords
  BY RecordFacts
<1>2. name_queued' \in NameRecords \cup {None}
  BY <1>1 DEF Setup
<1>3. /\ stored_name' \in Names \cup {Empty}
      /\ station_name' \in Names \cup {Empty}
      /\ device_name' \in Names \cup {Empty}
  BY RestoredNameType DEF Setup
<1>4. enabled' \in BOOLEAN /\ minutes' \in 1..9
  BY RestoredEnabledType, RestoredMinutesType DEF Setup
<1>5. stored_station_address' \in Addresses
  BY EntitiesAssumption DEF Setup
<1>6. switch_queued' \in BOOLEAN \cup {None}
  BY SavedAtStartFacts DEF Setup
<1> QED
  BY <1>2, <1>3, <1>4, <1>5, <1>6 DEF Setup, TypeOK

LEMMA StoreAndPublishTypes ==
  ASSUME TypeOK, NEW name \in Names, StoreAndPublish(name)
  PROVE  /\ name_queued' \in NameRecords \cup {None}
         /\ stored_station_address' \in Addresses
         /\ stored_name' \in Names \cup {Empty}
         /\ station_name' \in Names \cup {Empty}
         /\ unsaved' \in SUBSET Entities
<1>1. [address |-> address, name |-> name] \in NameRecords
  BY RecordFacts DEF TypeOK
<1>2. "name" \in Entities
  BY DEF Entities
<1> QED
  BY <1>1, <1>2 DEF StoreAndPublish, TypeOK

LEMMA UpdateTypes ==
  ASSUME TypeOK, NEW name \in Names \cup {Unusable}, UpdateStationName(name)
  PROVE  /\ name_queued' \in NameRecords \cup {None}
         /\ stored_station_address' \in Addresses
         /\ stored_name' \in Names \cup {Empty}
         /\ station_name' \in Names \cup {Empty}
         /\ unsaved' \in SUBSET Entities
         /\ heard' \in [Addresses -> SUBSET Names]
<1>1. heard' \in [Addresses -> SUBSET Names]
  BY DEF UpdateStationName, TypeOK
<1>2. CASE "name" \in configured /\ name = Unusable
  BY <1>1, <1>2 DEF UpdateStationName, PublishStored, TypeOK
<1>3. CASE "name" \in configured /\ name # Unusable
  <2>1. StoreAndPublish(name) /\ name \in Names
    BY <1>3 DEF UpdateStationName
  <2> QED
    BY <1>1, <2>1, StoreAndPublishTypes
<1>4. CASE "name" \notin configured
  BY <1>1, <1>4 DEF UpdateStationName, TypeOK
<1> QED
  BY <1>2, <1>3, <1>4

LEMMA TypesStep ==
  ASSUME TypeOK, [Next]_vars
  PROVE  TypeOK'
<1>1. ASSUME NEW a \in Addresses, Restart(a) \/ PowerLoss(a)
      PROVE  TypeOK'
  BY <1>1, LoadedType, SetupTypes DEF Restart, PowerLoss, TypeOK
<1>2. CASE Commit
  BY <1>2, LoadedType DEF Commit, TypeOK, nameVars
<1>3. ASSUME NEW name \in Names \cup {Unusable}, Advertisement(name)
      PROVE  TypeOK'
  BY <1>3, UpdateTypes DEF Advertisement, flashVars, keepaliveVars, TypeOK
<1>4. ASSUME NEW name \in Names \cup {Unusable}, DeviceNameResponse(name)
      PROVE  TypeOK'
  <2>1. device_name' \in Names \cup {Empty}
    BY <1>4 DEF DeviceNameResponse, TypeOK
  <2> QED
    BY <1>4, <2>1, UpdateTypes
    DEF DeviceNameResponse, flashVars, keepaliveVars, TypeOK
<1>5. CASE ConnectionReset
  BY <1>5 DEF ConnectionReset, flashVars, queueVars, TypeOK
<1>6. ASSUME NEW state \in BOOLEAN, SwitchWritten(state)
      PROVE  TypeOK'
  <2>1. /\ switch_queued' \in BOOLEAN \cup {None} /\ enabled' \in BOOLEAN
        /\ unsaved' \in SUBSET Entities
    BY <1>6 DEF SwitchWritten, TypeOK, Entities
  <2> QED
    BY <1>6, <2>1 DEF SwitchWritten, flashVars, nameVars, TypeOK
<1>7. ASSUME NEW value \in Choices, NumberControlled(value)
      PROVE  TypeOK'
  <2>1. value \in 1..9 /\ value \in MinuteRecords
    BY EntitiesAssumption DEF MinuteRecords
  <2> QED
    BY <1>7, <2>1 DEF NumberControlled, flashVars, nameVars, TypeOK, Entities
<1>8. CASE UNCHANGED vars
  BY <1>8 DEF vars, flashVars, queueVars, nameVars, TypeOK
<1> QED
  BY <1>1, <1>2, <1>3, <1>4, <1>5, <1>6, <1>7, <1>8 DEF Next

LEMMA InitTypes == Init => TypeOK
<1> SUFFICES ASSUME Init PROVE TypeOK
  OBVIOUS
<1>1. /\ name_flash \in NameRecords \cup {None}
      /\ switch_flash \in BOOLEAN \cup {None}
      /\ minutes_flash \in MinuteRecords \cup {None}
      /\ address \in Addresses /\ configured \in Configurations
  BY DEF Init, Stored
<1>2. [address |-> address, name |-> Empty] \in NameRecords
  BY <1>1, RecordFacts
<1>3. name_queued \in NameRecords \cup {None}
  BY <1>2 DEF Init
<1>4. stored_name \in Names \cup {Empty} /\ station_name = stored_name
  BY RestoredNameType DEF Init
<1>5. enabled \in BOOLEAN /\ minutes \in 1..9
  BY <1>1, RestoredEnabledType, RestoredMinutesType DEF Init
<1>6. stored_station_address \in Addresses /\ device_name = Empty
      /\ switch_queued \in BOOLEAN \cup {None} /\ minutes_queued = None
      /\ unsaved = {}
  BY <1>1, EntitiesAssumption, SavedAtStartFacts DEF Init
<1>7. heard \in [Addresses -> SUBSET Names]
  BY DEF Init
<1> QED
  BY <1>1, <1>3, <1>4, <1>5, <1>6, <1>7 DEF TypeOK

\* Whatever was in flash at the first start, entities and preferences hold
\* values of their kinds: an interval out of range is never used.
THEOREM EntityTypes == Spec => []TypeOK
<1>1. TypeOK /\ [Next]_vars => TypeOK'
  BY TypesStep
<1> QED
  BY <1>1, InitTypes, PTL DEF Spec

-----------------------------------------------------------------------------
(* Names and the stations they came from.                                  *)

\* After a start, from records of whatever address.
LEMMA SetupProvenance ==
  ASSUME Provenance, NEW a \in Addresses,
         NEW name_kept, Received(name_kept),
         NEW switch_kept, NEW minutes_kept,
         Setup(a, name_kept, switch_kept, minutes_kept)
  PROVE  Provenance'
<1>1. UNCHANGED heard /\ name_flash' = name_kept /\ address' = a
  BY DEF Setup
<1>2. Received(name_flash)'
  BY <1>1 DEF Received
<1>3. name_queued' = None \/ name_queued' = [address |-> a, name |-> Empty]
  BY DEF Setup
<1>4. Received(name_queued)'
  BY <1>3, EntitiesAssumption DEF Received
<1>5. RestoredName(name_kept, a) \in heard[a] \cup {Empty}
  BY DEF RestoredName, Received
<1>6. /\ station_name' = RestoredName(name_kept, a)
      /\ stored_name' = RestoredName(name_kept, a)
      /\ device_name' = Empty
  BY DEF Setup
<1> QED
  BY <1>1, <1>2, <1>4, <1>5, <1>6 DEF Provenance, NamesComeFromThisStation

\* A name that arrives was heard from the address it is stored for.
LEMMA UpdateProvenance ==
  ASSUME TypeOK, Provenance, NEW name \in Names \cup {Unusable},
         UpdateStationName(name), UNCHANGED <<name_flash, address>>
  PROVE  /\ Received(name_flash)' /\ Received(name_queued)'
         /\ station_name' \in heard'[address] \cup {Empty}
         /\ stored_name' \in heard'[address] \cup {Empty}
         /\ heard[address] \subseteq heard'[address]
         /\ name \in Names => name \in heard'[address]
<1>1. /\ \A a \in Addresses : heard[a] \subseteq heard'[a]
      /\ name \in Names => name \in heard'[address]
      /\ address \in Addresses
  BY DEF UpdateStationName, TypeOK
<1>2. \A record \in NameRecords : record.address \in Addresses
  BY RecordFacts
<1>3. Received(name_flash)'
  BY <1>1, <1>2 DEF Received, Provenance, TypeOK
<1>4. /\ station_name \in heard[address] \cup {Empty}
      /\ stored_name \in heard[address] \cup {Empty}
  BY DEF Provenance, NamesComeFromThisStation
<1>5. ASSUME UNCHANGED name_queued
      PROVE  Received(name_queued)'
  BY <1>1, <1>2, <1>5 DEF Received, Provenance, TypeOK
<1>6. CASE "name" \in configured /\ name = Unusable
  BY <1>1, <1>3, <1>4, <1>5, <1>6 DEF UpdateStationName, PublishStored
<1>7. CASE "name" \in configured /\ name # Unusable
  <2>1. StoreAndPublish(name) /\ name \in Names
    BY <1>7 DEF UpdateStationName
  <2>2. \/ UNCHANGED <<name_queued, stored_name>>
        \/ /\ name_queued' = [address |-> address, name |-> name]
           /\ stored_name' = name
    BY <2>1 DEF StoreAndPublish
  <2>3. station_name' = name
    BY <2>1 DEF StoreAndPublish
  <2>4. Received(name_queued)'
    BY <1>1, <1>5, <2>1, <2>2 DEF Received
  <2> QED
    BY <1>1, <1>3, <1>4, <2>1, <2>2, <2>3, <2>4
<1>8. CASE "name" \notin configured
  BY <1>1, <1>3, <1>4, <1>5, <1>8 DEF UpdateStationName
<1> QED
  BY <1>6, <1>7, <1>8

LEMMA ProvenanceStep ==
  ASSUME TypeOK, Provenance, [Next]_vars
  PROVE  Provenance'
<1>1. ASSUME UNCHANGED <<name_flash, name_queued, address, nameVars, heard>>
      PROVE  Provenance'
  BY <1>1 DEF Provenance, Received, NamesComeFromThisStation, nameVars
<1>2. ASSUME NEW a \in Addresses, Restart(a) \/ PowerLoss(a)
      PROVE  Provenance'
  <2>1. Received(NameLoaded)
    BY DEF Provenance, Received, NameLoaded, Loaded
  <2> QED
    BY <1>2, <2>1, SetupProvenance DEF Restart, PowerLoss, Provenance
<1>3. CASE Commit
  BY <1>3
  DEF Commit, Provenance, Received, NameLoaded, Loaded,
      NamesComeFromThisStation, nameVars
<1>4. ASSUME NEW name \in Names \cup {Unusable}, Advertisement(name)
      PROVE  Provenance'
  <2>1. device_name \in heard[address] \cup {Empty}
    BY DEF Provenance, NamesComeFromThisStation
  <2> QED
    BY <1>4, <2>1, UpdateProvenance
    DEF Advertisement, flashVars, Provenance, NamesComeFromThisStation
<1>5. ASSUME NEW name \in Names \cup {Unusable}, DeviceNameResponse(name)
      PROVE  Provenance'
  <2>1. /\ device_name \in heard[address] \cup {Empty}
        /\ stored_name \in heard[address] \cup {Empty}
    BY DEF Provenance, NamesComeFromThisStation
  <2>2. /\ UpdateStationName(name) /\ UNCHANGED <<name_flash, address>>
        /\ device_name' \in {name, stored_name, device_name}
        /\ device_name' = name => name \in Names \/ device_name' = device_name
                                   \/ device_name' = stored_name
    BY <1>5 DEF DeviceNameResponse, flashVars
  <2>3. device_name' \in heard'[address] \cup {Empty}
    BY <2>1, <2>2, UpdateProvenance
  <2> QED
    BY <2>2, <2>3, UpdateProvenance DEF Provenance, NamesComeFromThisStation
<1>6. CASE ConnectionReset
  BY <1>6
  DEF ConnectionReset, flashVars, queueVars, Provenance, Received,
      NamesComeFromThisStation
<1>7. ASSUME NEW state, SwitchWritten(state) \/ NumberControlled(state)
      PROVE  Provenance'
  BY <1>1, <1>7 DEF SwitchWritten, NumberControlled, flashVars
<1>8. CASE UNCHANGED vars
  BY <1>1, <1>8 DEF vars, flashVars, queueVars
<1> QED
  BY <1>2, <1>3, <1>4, <1>5, <1>6, <1>7, <1>8 DEF Next

\* What is shown or kept for the configured station was received from it, even
\* after the firmware was built for another station and back again.
THEOREM NoNameFromAnotherStation == Spec => []NamesComeFromThisStation
<1>1. Init => Provenance
  <2> SUFFICES ASSUME Init PROVE Provenance
    OBVIOUS
  <2>1. TypeOK
    BY InitTypes
  <2>2. Received(name_flash)
    BY <2>1, RecordFacts DEF Init, Received, TypeOK
  <2>3. name_queued = None \/ name_queued = [address |-> address, name |-> Empty]
    BY DEF Init
  <2>4. Received(name_queued)
    BY <2>3, EntitiesAssumption DEF Received
  <2>5. RestoredName(name_flash, address) \in heard[address] \cup {Empty}
    BY <2>2 DEF RestoredName, Received
  <2> QED
    BY <2>2, <2>4, <2>5 DEF Init, Provenance, NamesComeFromThisStation
<1>2. TypeOK /\ Provenance /\ [Next]_vars => Provenance'
  BY ProvenanceStep
<1>3. Provenance => NamesComeFromThisStation
  BY DEF Provenance
<1> QED
  BY <1>1, <1>2, <1>3, EntityTypes, PTL DEF Spec

-----------------------------------------------------------------------------
(* What is shown and what would be restored.                               *)

\* After a start: a name of another station is gone, cleared or not.
LEMMA SetupMirror ==
  ASSUME NEW a \in Addresses, NEW name_kept \in NameRecords \cup {None},
         NEW switch_kept \in BOOLEAN \cup {None}, NEW minutes_kept,
         Setup(a, name_kept, switch_kept, minutes_kept)
  PROVE  MirrorAgrees'
<1>1. /\ name_flash' = name_kept /\ switch_flash' = switch_kept
      /\ minutes_flash' = minutes_kept /\ address' = a
      /\ minutes_queued' = None
      /\ stored_name' = RestoredName(name_kept, a)
      /\ station_name' = RestoredName(name_kept, a)
      /\ enabled' = RestoredEnabled(switch_kept)
      /\ minutes' = RestoredMinutes(minutes_kept)
      /\ stored_station_address' = IF name_kept = None THEN NoAddress ELSE a
  BY DEF Setup
<1>2. \/ name_queued' = None
      \/ /\ MustClear(name_kept, a)
         /\ name_queued' = [address |-> a, name |-> Empty]
  BY DEF Setup
<1>0. RestoredEnabled(Loaded(switch_flash, switch_queued))'
        = RestoredEnabled(switch_kept)
  <2>1. switch_queued' \in SavedAtStart(switch_kept)
    BY DEF Setup
  <2>2. RestoredEnabled(Loaded(switch_kept, switch_queued'))
          = RestoredEnabled(switch_kept)
    BY <2>1, SavedAtStartFacts
  <2>3. Loaded(switch_flash, switch_queued)' = Loaded(switch_kept, switch_queued')
    BY <1>1 DEF Loaded
  <2> QED
    BY <2>2, <2>3 DEF RestoredEnabled
<1>3. CASE name_queued' = None
  <2>1. NameLoaded' = name_kept
    BY <1>1, <1>3 DEF NameLoaded, Loaded
  <2> QED
    BY <1>0, <1>1, <2>1, LoadedFlash DEF MirrorAgrees
<1>4. CASE /\ MustClear(name_kept, a)
           /\ name_queued' = [address |-> a, name |-> Empty]
  <2>1. NameLoaded' = [address |-> a, name |-> Empty]
    BY <1>4, RecordFacts DEF NameLoaded, Loaded
  <2>2. RestoredName(name_kept, a) = Empty
    BY <1>4 DEF RestoredName, MustClear
  <2>3. RestoredName([address |-> a, name |-> Empty], a) = Empty
    BY DEF RestoredName
  <2>4. name_kept # None
    BY <1>4 DEF MustClear
  <2> QED
    BY <1>0, <1>1, <2>1, <2>2, <2>3, <2>4, LoadedFlash DEF MirrorAgrees
<1> QED
  BY <1>2, <1>3, <1>4

\* The part of MirrorAgrees about the name.
NameMirror ==
  address # NoAddress =>
    /\ NameLoaded # None =>
         (NameLoaded.address = address => stored_station_address = address)
    /\ stored_name = RestoredName(NameLoaded, address)
    /\ "name" \notin unsaved => station_name = stored_name

\* The part about the keepalive entities.
KeepaliveMirror ==
  /\ "switch" \notin unsaved =>
       enabled = RestoredEnabled(Loaded(switch_flash, switch_queued))
  /\ "minutes" \notin unsaved =>
       minutes = RestoredMinutes(Loaded(minutes_flash, minutes_queued))

LEMMA Mirrors == MirrorAgrees <=> NameMirror /\ KeepaliveMirror
  BY DEF MirrorAgrees, NameMirror, KeepaliveMirror

\* A name that was saved is the one that would be restored.
LEMMA UpdateNameMirror ==
  ASSUME TypeOK, NameMirror, NEW name \in Names \cup {Unusable},
         UpdateStationName(name), address' = address, name_flash' = name_flash
  PROVE  NameMirror'
<1>1. ASSUME UNCHANGED <<name_queued, stored_station_address, stored_name>>,
             address # NoAddress,
             "name" \notin unsaved' => station_name' = stored_name
      PROVE  NameMirror'
  BY <1>1 DEF NameMirror, NameLoaded
<1>2. CASE address = NoAddress
  BY <1>2 DEF NameMirror
<1>3. CASE address # NoAddress /\ "name" \in configured /\ name = Unusable
  <2>1. PublishStored
    BY <1>3 DEF UpdateStationName
  <2>2. "name" \notin unsaved => station_name = stored_name
    BY <1>3 DEF NameMirror
  <2>3. "name" \notin unsaved' => station_name' = stored_name
    BY <2>1, <2>2 DEF PublishStored
  <2> QED
    BY <1>1, <1>3, <2>1, <2>3 DEF PublishStored
<1>4. CASE address # NoAddress /\ "name" \in configured /\ name # Unusable
  <2>1. StoreAndPublish(name) /\ name \in Names
    BY <1>4 DEF UpdateStationName
  <2>2. CASE UNCHANGED <<name_queued, stored_station_address, stored_name>>
    <3>1. stored_name = name \/ unsaved' = unsaved \cup {"name"} \/ stored_name' = name
      BY <1>4, <2>1 DEF StoreAndPublish, AlreadyStored
    <3>2. "name" \notin unsaved' => station_name' = stored_name
      BY <2>1, <2>2, <3>1 DEF StoreAndPublish
    <3> QED
      BY <1>1, <1>4, <2>2, <3>2
  <2>3. CASE /\ name_queued' = [address |-> address, name |-> name]
             /\ stored_station_address' = address /\ stored_name' = name
    <3>1. NameLoaded' = [address |-> address, name |-> name]
      BY <2>1, <2>3, RecordFacts DEF NameLoaded, Loaded, TypeOK
    <3>2. /\ [address |-> address, name |-> name] # None
          /\ [address |-> address, name |-> name].address = address
          /\ [address |-> address, name |-> name].name = name
      BY <2>1, RecordFacts DEF TypeOK
    <3>3. RestoredName([address |-> address, name |-> name], address) = name
      BY <2>1, <3>2 DEF RestoredName
    <3>4. station_name' = name
      BY <2>1 DEF StoreAndPublish
    <3> QED
      BY <2>3, <3>1, <3>3, <3>4 DEF NameMirror
  <2> QED
    BY <2>1, <2>2, <2>3 DEF StoreAndPublish
<1>5. CASE address # NoAddress /\ "name" \notin configured
  BY <1>1, <1>5 DEF UpdateStationName, NameMirror
<1> QED
  BY <1>2, <1>3, <1>4, <1>5

LEMMA UpdateMirror ==
  ASSUME TypeOK, MirrorAgrees, NEW name \in Names \cup {Unusable},
         UpdateStationName(name), UNCHANGED <<flashVars, address, keepaliveVars>>
  PROVE  MirrorAgrees'
<1>1. NameMirror /\ KeepaliveMirror
  BY Mirrors
<1>2. NameMirror'
  BY <1>1, UpdateNameMirror DEF flashVars
<1>3. unsaved' \in {unsaved, unsaved \ {"name"}, unsaved \cup {"name"}}
  BY DEF UpdateStationName, PublishStored, StoreAndPublish
<1>4. KeepaliveMirror'
  BY <1>1, <1>3 DEF KeepaliveMirror, flashVars, keepaliveVars
<1> QED
  BY <1>2, <1>4 DEF MirrorAgrees, NameMirror, KeepaliveMirror

LEMMA MirrorStep ==
  ASSUME TypeOK, MirrorAgrees, [Next]_vars
  PROVE  MirrorAgrees'
<1>1. ASSUME NEW a \in Addresses, Restart(a) \/ PowerLoss(a)
      PROVE  MirrorAgrees'
  BY <1>1, LoadedType, SetupMirror DEF Restart, PowerLoss, TypeOK
<1>2. CASE Commit
  <2>1. /\ NameLoaded' = NameLoaded
        /\ Loaded(switch_flash, switch_queued)' = Loaded(switch_flash, switch_queued)
        /\ Loaded(minutes_flash, minutes_queued)'
             = Loaded(minutes_flash, minutes_queued)
    BY <1>2 DEF Commit, NameLoaded, Loaded
  <2> QED
    BY <1>2, <2>1 DEF Commit, MirrorAgrees, nameVars
<1>3. ASSUME NEW name \in Names \cup {Unusable},
             Advertisement(name) \/ DeviceNameResponse(name)
      PROVE  MirrorAgrees'
  BY <1>3, UpdateMirror DEF Advertisement, DeviceNameResponse
<1>4. CASE ConnectionReset
  BY <1>4
  DEF ConnectionReset, flashVars, queueVars, MirrorAgrees, NameLoaded
<1>5. ASSUME NEW state \in BOOLEAN, SwitchWritten(state)
      PROVE  MirrorAgrees'
  <2>1. RestoredEnabled(state) = state /\ state # None
    BY NoneAssumption DEF RestoredEnabled
  <2>2. /\ UNCHANGED <<name_flash, name_queued, address, stored_station_address,
                       stored_name, station_name, minutes, minutes_flash,
                       minutes_queued, switch_flash>>
        /\ enabled' = state
        /\ \/ switch_queued' = state /\ unsaved' = unsaved \ {"switch"}
           \/ UNCHANGED switch_queued /\ unsaved' = unsaved \cup {"switch"}
    BY <1>5 DEF SwitchWritten, flashVars, nameVars
  <2>3. NameMirror'
    BY <2>2, Mirrors DEF NameMirror, NameLoaded
  <2>4. KeepaliveMirror'
    BY <2>1, <2>2, Mirrors DEF KeepaliveMirror, Loaded
  <2> QED
    BY <2>3, <2>4 DEF MirrorAgrees, NameMirror, KeepaliveMirror
<1>6. ASSUME NEW value \in Choices, NumberControlled(value)
      PROVE  MirrorAgrees'
  <2>1. RestoredMinutes(value) = value /\ value # None
    BY EntitiesAssumption, NoneAssumption DEF RestoredMinutes, MinuteRecords
  <2>2. /\ UNCHANGED <<name_flash, name_queued, address, stored_station_address,
                       stored_name, station_name, enabled, switch_flash,
                       switch_queued, minutes_flash>>
        /\ minutes' = value
        /\ \/ minutes_queued' = value /\ unsaved' = unsaved \ {"minutes"}
           \/ UNCHANGED minutes_queued /\ unsaved' = unsaved \cup {"minutes"}
    BY <1>6 DEF NumberControlled, flashVars, nameVars
  <2>3. NameMirror'
    BY <2>2, Mirrors DEF NameMirror, NameLoaded
  <2>4. KeepaliveMirror'
    BY <2>1, <2>2, Mirrors DEF KeepaliveMirror, Loaded
  <2> QED
    BY <2>3, <2>4 DEF MirrorAgrees, NameMirror, KeepaliveMirror
<1>7. CASE UNCHANGED vars
  BY <1>7 DEF vars, flashVars, queueVars, nameVars, MirrorAgrees, NameLoaded
<1> QED
  BY <1>1, <1>2, <1>3, <1>4, <1>5, <1>6, <1>7 DEF Next

LEMMA InitMirror == Init => MirrorAgrees
<1> SUFFICES ASSUME Init PROVE MirrorAgrees
  OBVIOUS
<1>1. /\ stored_name = RestoredName(name_flash, address)
      /\ station_name = stored_name
      /\ enabled = RestoredEnabled(switch_flash)
      /\ minutes = RestoredMinutes(minutes_flash)
      /\ minutes_queued = None
      /\ stored_station_address = IF name_flash = None THEN NoAddress ELSE address
  BY DEF Init
<1>0. RestoredEnabled(Loaded(switch_flash, switch_queued))
        = RestoredEnabled(switch_flash)
  <2>1. switch_flash \in BOOLEAN \cup {None}
        /\ switch_queued \in SavedAtStart(switch_flash)
    BY InitTypes DEF Init, TypeOK
  <2> QED
    BY <2>1, SavedAtStartFacts
<1>2. \/ name_queued = None
      \/ /\ MustClear(name_flash, address)
         /\ name_queued = [address |-> address, name |-> Empty]
  BY DEF Init
<1>3. CASE name_queued = None
  <2>1. NameLoaded = name_flash
    BY <1>3 DEF NameLoaded, Loaded
  <2> QED
    BY <1>0, <1>1, <2>1, LoadedFlash DEF MirrorAgrees
<1>4. CASE /\ MustClear(name_flash, address)
           /\ name_queued = [address |-> address, name |-> Empty]
  <2>1. NameLoaded = [address |-> address, name |-> Empty]
    BY <1>4, InitTypes, RecordFacts DEF NameLoaded, Loaded, TypeOK
  <2>2. RestoredName(name_flash, address) = Empty /\ name_flash # None
    BY <1>4 DEF RestoredName, MustClear
  <2>3. RestoredName([address |-> address, name |-> Empty], address) = Empty
    BY DEF RestoredName
  <2> QED
    BY <1>0, <1>1, <2>1, <2>2, <2>3, LoadedFlash DEF MirrorAgrees
<1> QED
  BY <1>2, <1>3, <1>4

LEMMA MirrorInvariant == Spec => [](TypeOK /\ MirrorAgrees)
<1>1. Init => TypeOK /\ MirrorAgrees
  BY InitTypes, InitMirror
<1>2. TypeOK /\ MirrorAgrees /\ [Next]_vars => (TypeOK /\ MirrorAgrees)'
  BY TypesStep, MirrorStep
<1> QED
  BY <1>1, <1>2, PTL DEF Spec

\* An orderly restart brings back what was shown, whatever was saved, cleared
\* or queued before it, unless the last save of it was refused.
THEOREM RestartsKeepValues == Spec => RestartKeepsValues
<1>1. TypeOK /\ MirrorAgrees /\ [Next]_vars =>
        [Restart(address) =>
           /\ address # NoAddress /\ "name" \notin unsaved =>
                station_name' = station_name
           /\ "switch" \notin unsaved => enabled' = enabled
           /\ "minutes" \notin unsaved => minutes' = minutes]_vars
  BY DEF MirrorAgrees, Restart, Setup
<1> QED
  BY <1>1, MirrorInvariant, PTL DEF Spec, RestartKeepsValues

\* A name the preference holds already is not saved again, be it in flash,
\* queued or restored.
THEOREM NoRepeatedFlashWrites == Spec => RepeatsAreNotSaved
<1>1. TypeOK /\ MirrorAgrees /\ [Next]_vars =>
        [\A name \in Names :
           NameLoaded = [address |-> address, name |-> name] =>
             (Advertisement(name) \/ DeviceNameResponse(name) =>
                UNCHANGED name_queued)]_vars
  <2> SUFFICES ASSUME TypeOK, MirrorAgrees, NEW name \in Names,
                      NameLoaded = [address |-> address, name |-> name],
                      Advertisement(name) \/ DeviceNameResponse(name)
               PROVE  UNCHANGED name_queued
    OBVIOUS
  <2>1. UpdateStationName(name) /\ name # Unusable
    BY EntitiesAssumption DEF Advertisement, DeviceNameResponse
  <2>2. /\ NameLoaded # None
        /\ NameLoaded.address = address /\ NameLoaded.name = name
    BY RecordFacts DEF TypeOK
  <2>3. RestoredName(NameLoaded, address) = name
    BY <2>2 DEF RestoredName
  <2>4. address # NoAddress => AlreadyStored(name)
    BY <2>2, <2>3 DEF MirrorAgrees, AlreadyStored
  <2> QED
    BY <2>1, <2>4 DEF UpdateStationName, StoreAndPublish
<1> QED
  BY <1>1, MirrorInvariant, PTL DEF Spec, RepeatsAreNotSaved

\* A name that cannot be used changes nothing that is kept, and what is shown
\* only where an earlier save had been refused.
THEOREM UnusableNamesChangeNothing == Spec => UnusableNamesAreHarmless
<1>1. TypeOK /\ MirrorAgrees /\ [Next]_vars =>
        [Advertisement(Unusable) \/ DeviceNameResponse(Unusable) =>
           /\ UNCHANGED <<name_queued, stored_name>>
           /\ \/ UNCHANGED station_name
              \/ address # NoAddress /\ "name" \in unsaved]_vars
  <2> SUFFICES ASSUME MirrorAgrees,
                      Advertisement(Unusable) \/ DeviceNameResponse(Unusable)
               PROVE  /\ UNCHANGED <<name_queued, stored_name>>
                      /\ \/ UNCHANGED station_name
                         \/ address # NoAddress /\ "name" \in unsaved
    OBVIOUS
  <2>1. UpdateStationName(Unusable)
    BY DEF Advertisement, DeviceNameResponse
  <2> QED
    BY <2>1 DEF UpdateStationName, PublishStored, HasStored, MirrorAgrees
<1> QED
  BY <1>1, MirrorInvariant, PTL DEF Spec, UnusableNamesAreHarmless
=============================================================================
