--------------------- MODULE AllpowersBLEFrames_proofs ---------------------
(* Proofs that the read-modify-write of the shared commands never changes   *)
(* what no command has touched, for every value of the constants.          *)
(*                                                                         *)
(* A frame carries the state its handler left behind (FramesCarryState),   *)
(* and that state is what the station reported but for what was touched    *)
(* since (SnapshotsAreReported, proved in AllpowersBLE_proofs).  The values *)
(* themselves outlive a reset: only the flags say whose report they are.   *)
EXTENDS AllpowersBLE_proofs, SequenceTheorems

\* The two queries are neither a settings nor a control frame.
LEMMA QueryKinds ==
  /\ StatusRequestFrame.kind = "status request"
  /\ DeviceNameFrame.kind = "device name"
  BY DEF StatusRequestFrame, DeviceNameFrame

\* What the two writing frames carry.
LEMMA CommandFrames ==
  /\ \A o : ControlFrame(o).kind = "control" /\ ControlFrame(o).outputs = o
  /\ \A by, s : /\ SettingsFrame(by, s).kind = "settings"
                /\ SettingsFrame(by, s).settings = s
                /\ SettingsFrame(by, s).by = by
  BY DEF ControlFrame, SettingsFrame

\* A handler that queues nothing has sent nothing.
LEMMA SentNothing == ASSUME tx' = <<>> PROVE Sent' = {}
  BY DEF Sent

\* A handler that queues one frame has sent that frame.
LEMMA SentOne == ASSUME NEW frame, tx' = <<frame>> PROVE Sent' = {frame}
  BY DEF Sent

\* The name query contributes at most its own frame to an iteration of loop().
LEMMA SentQuery ==
  ASSUME tx' = QueryFrames
  PROVE  Sent' \subseteq {DeviceNameFrame}
<1>1. CASE QueryDue
  BY <1>1 DEF QueryFrames, Sent
<1>2. CASE ~QueryDue
  BY <1>2 DEF QueryFrames, Sent
<1> QED
  BY <1>1, <1>2

\* A scheduled frame shares its iteration with the name query at most.
LEMMA SentWithQuery ==
  ASSUME NEW frame \in Frames, tx' = Append(QueryFrames, frame)
  PROVE  Sent' \subseteq {DeviceNameFrame, frame}
<1>1. /\ Len(tx') = Len(QueryFrames) + 1
      /\ tx' \in Seq(Frames)
      /\ \A i \in 1..Len(QueryFrames) : tx'[i] = QueryFrames[i]
      /\ tx'[Len(QueryFrames) + 1] = frame
  BY QueryFramesType, AppendProperties
<1>2. Len(QueryFrames) \in {0, 1}
  BY DEF QueryFrames
<1>3. \A i \in 1..Len(QueryFrames) : QueryFrames[i] = DeviceNameFrame
  BY DEF QueryFrames
<1>4. DOMAIN tx' = 1..Len(tx')
  BY <1>1
<1>5. \A i \in DOMAIN tx' : i \in 1..Len(QueryFrames) \/ i = Len(QueryFrames) + 1
  BY <1>1, <1>2, <1>4
<1>6. \A i \in DOMAIN tx' : tx'[i] \in {DeviceNameFrame, frame}
  BY <1>1, <1>3, <1>5
<1> QED
  BY <1>6 DEF Sent

\* Every handler queues the settings and outputs it leaves behind, under a
\* flag that is raised.
LEMMA FramesStep ==
  ASSUME DataType, SnapshotsAreReported, [Next]_vars, FramesCarryState
  PROVE  FramesCarryState'
<1>1. tx' = <<>> => FramesCarryState'
  BY SentNothing DEF FramesCarryState
<1>2. Sent' \subseteq {StatusRequestFrame, DeviceNameFrame} => FramesCarryState'
  BY QueryKinds DEF FramesCarryState
<1>3. ASSUME NEW by, Sent' \subseteq {DeviceNameFrame, SettingsFrame(by, settings')},
             have_snapshot', by = "command" => settings_fresh'
      PROVE  FramesCarryState'
  <2>1. /\ SettingsFrame(by, settings').kind = "settings"
        /\ SettingsFrame(by, settings').settings = settings'
        /\ SettingsFrame(by, settings').by = by
    BY CommandFrames
  <2>2. ASSUME NEW frame \in Sent'
        PROVE  /\ frame.kind = "settings" =>
                    /\ frame.settings = settings'
                    /\ frame.by = "command" => settings_fresh'
               /\ frame.kind # "control"
    <3>1. CASE frame = DeviceNameFrame
      BY <3>1, QueryKinds
    <3>2. CASE frame = SettingsFrame(by, settings')
      BY <3>2, <2>1, <1>3
    <3> QED
      BY <1>3, <3>1, <3>2
  <2> QED
    BY <1>3, <2>2 DEF FramesCarryState
<1>4. CASE ClientEvent
  <2>1. CASE SubscribedRequestQueued
    <3>1. Sent' = {StatusRequestFrame}
      BY <2>1, SentOne DEF SubscribedRequestQueued, WriteAccepted
    <3> QED
      BY <3>1, <1>2
  <2>2. CASE ~SubscribedRequestQueued
    BY <1>4, <2>2, <1>1
    DEF ClientEvent, Opened, Closed, ServicesFound, ServicesUnusable,
        NotificationsRefused, FailDiscovery, SubscribedRequestRefused,
        WriteAcknowledged, WriteFailed, NoFrame
  <2> QED
    BY <2>1, <2>2
<1>5. CASE Notification
  BY <1>5, <1>1
  DEF Notification, StatusReport, SettingsReport, DeviceNameReport,
      OtherReport, ValidFrame, NoFrame
<1>6. CASE Command
  <2>1. CASE \E o \in Outputs, state \in BOOLEAN : RequestOutputQueued(o, state)
    <3>1. /\ data_fresh' /\ tx' = <<ControlFrame(outputs')>>
      BY <2>1 DEF RequestOutputQueued, ControlsAvailable, WriteAccepted
    <3>2. Sent' = {ControlFrame(outputs')}
      BY <3>1, SentOne
    <3> QED
      BY <3>1, <3>2, CommandFrames DEF FramesCarryState
  <2>2. CASE \E f \in Fields, v \in Values : RequestSettingQueued(f, v)
    <3>1. /\ SettingsAvailable /\ have_snapshot' = have_snapshot
          /\ settings_fresh' = settings_fresh
          /\ tx' = <<SettingsFrame("command", settings')>>
      BY <2>2 DEF RequestSettingQueued, WriteAccepted
    <3>2. have_snapshot' /\ settings_fresh'
      BY <3>1 DEF SettingsAvailable, SnapshotsAreReported
    <3>3. Sent' = {SettingsFrame("command", settings')}
      BY <3>1, SentOne
    <3> QED
      BY <3>2, <3>3, <1>3
  <2>3. CASE RequestDeviceNameQueued
    <3>1. Sent' = {DeviceNameFrame}
      BY <2>3, SentOne DEF RequestDeviceNameQueued, WriteAccepted
    <3> QED
      BY <3>1, <1>2
  <2>4. CASE ManualKeepaliveQueued
    <3>1. /\ have_snapshot' /\ settings' = settings
          /\ tx' = <<SettingsFrame("manual", settings)>>
      BY <2>4
      DEF ManualKeepaliveQueued, ManualKeepalive, WriteAccepted, settingsVars
    <3>2. Sent' = {SettingsFrame("manual", settings')}
      BY <3>1, SentOne
    <3> QED
      BY <3>1, <3>2, <1>3
  <2>5. CASE \E f \in Fields, v \in Values :
               RequestSettingUnchanged(f, v) \/ RequestSettingRefused(f, v)
    BY <2>5, <1>1
    DEF RequestSettingUnchanged, RequestSettingRefused, WriteRefused, NoFrame
  <2>6. CASE \/ RequestOutputRefused \/ RequestDeviceNameRefused
             \/ ManualKeepaliveRefused
    BY <2>6, <1>1
    DEF RequestOutputRefused, RequestDeviceNameRefused,
        ManualKeepaliveRefused, WriteRefused
  <2>7. CASE \/ \E enabled \in BOOLEAN : SetKeepaliveEnabled(enabled)
             \/ \E interval \in SettingsIntervals :
                  SetKeepaliveInterval(interval)
    BY <2>7, <1>1 DEF SetKeepaliveEnabled, SetKeepaliveInterval, NoFrame
  <2> QED
    BY <1>6, <2>1, <2>2, <2>3, <2>4, <2>5, <2>6, <2>7 DEF Command
<1>7. CASE Loop
  <2>1. CASE LoopIdle \/ LoopForcedReconnect \/ LoopQueryRefused
    BY <2>1, <1>1
    DEF LoopIdle, LoopForcedReconnect, LoopQueryRefused, WriteRefused, NoFrame
  <2>2. CASE LoopInitialKeepalive
    <3>1. /\ have_snapshot' /\ settings' = settings
          /\ tx' = <<SettingsFrame("initial", settings)>>
      BY <2>2
      DEF LoopInitialKeepalive, InitialDue, Expire, ExpireSettings,
          WriteAccepted
    <3>2. Sent' = {SettingsFrame("initial", settings')}
      BY <3>1, SentOne
    <3> QED
      BY <3>1, <3>2, <1>3
  <2>3. CASE LoopWatchdog
    <3>1. Sent' \subseteq {DeviceNameFrame}
      BY <2>3, SentQuery DEF LoopWatchdog
    <3> QED
      BY <3>1, <1>2
  <2>4. CASE LoopSettingsKeepalive
    <3>1. /\ have_snapshot' /\ settings' = settings
          /\ tx' = Append(QueryFrames, SettingsFrame("periodic", settings))
      BY <2>4
      DEF LoopSettingsKeepalive, Expire, ExpireSettings, WriteAccepted
    <3>2. SettingsFrame("periodic", settings) \in Frames
      BY FramesType DEF DataType
    <3>3. Sent' \subseteq {DeviceNameFrame, SettingsFrame("periodic", settings')}
      BY <3>1, <3>2, SentWithQuery
    <3> QED
      BY <3>1, <3>3, <1>3
  <2>5. CASE LoopStatusRequest
    <3>1. CASE RequestDue
      <4>1. tx' = Append(QueryFrames, StatusRequestFrame)
        BY <2>5, <3>1 DEF LoopStatusRequest
      <4>2. Sent' \subseteq {DeviceNameFrame, StatusRequestFrame}
        BY <4>1, FramesType, SentWithQuery
      <4> QED
        BY <4>2, <1>2
    <3>2. CASE ~RequestDue
      <4>1. tx' = QueryFrames
        BY <2>5, <3>2 DEF LoopStatusRequest
      <4>2. Sent' \subseteq {DeviceNameFrame}
        BY <4>1, SentQuery
      <4> QED
        BY <4>2, <1>2
    <3> QED
      BY <3>1, <3>2
  <2>6. CASE LoopWriteRefused
    <3>1. tx' = <<>> \/ tx' = QueryFrames
      BY <2>6 DEF LoopWriteRefused, WriteRefused
    <3>2. CASE tx' = <<>>
      BY <3>2, <1>1
    <3>3. CASE tx' = QueryFrames
      <4>1. Sent' \subseteq {DeviceNameFrame}
        BY <3>3, SentQuery
      <4> QED
        BY <4>1, <1>2
    <3> QED
      BY <3>1, <3>2, <3>3
  <2> QED
    BY <1>7, <2>1, <2>2, <2>3, <2>4, <2>5, <2>6 DEF Loop
<1>8. CASE Tick
  BY <1>8, <1>1 DEF Tick, NoFrame
<1>9. CASE UNCHANGED vars
  BY <1>9
  DEF vars, settingsVars, statusVars, FramesCarryState, Sent
<1> QED
  BY <1>4, <1>5, <1>6, <1>7, <1>8, <1>9 DEF Next

\* The inductive invariant of the two theorems.
FramesInv == TypeInv /\ SnapshotsAreReported /\ FramesCarryState

\* The invariant holds in every reachable state.
LEMMA FramesInvariant == Spec => []FramesInv
<1>1. Init => FramesInv
  <2> SUFFICES ASSUME Init PROVE FramesInv
    OBVIOUS
  <2>1. TypeInv
    BY TypeInit DEF TypeInv
  <2>2. SnapshotsAreReported
    BY DEF Init, SnapshotsAreReported
  <2>3. FramesCarryState
    BY DEF Init, FramesCarryState, Sent
  <2> QED
    BY <2>1, <2>2, <2>3 DEF FramesInv
<1>2. FramesInv /\ [Next]_vars => FramesInv'
  BY FlagsStep, ClocksStep, DataStep, SnapshotsStep, FramesStep
  DEF FramesInv, TypeInv
<1> QED
  BY <1>1, <1>2, PTL DEF Spec

\* Command 0x02 overwrites every setting of the station at once: no frame the
\* component ever writes, by a command or by a keepalive, changes a field that
\* no command has touched since the station last reported it in this session.
THEOREM SettingsWritesPreserve == Spec => []SettingsFramesPreserveUntouched
<1>1. FramesInv => SettingsFramesPreserveUntouched
  BY DEF FramesInv, SnapshotsAreReported, FramesCarryState,
         SettingsFramesPreserveUntouched
<1> QED
  BY <1>1, FramesInvariant, PTL

\* The same of the bitmap that AC, DC and light share: switching one output
\* never moves another away from what the station last reported.
THEOREM ControlWritesPreserve == Spec => []ControlFramesPreserveUntouched
<1>1. FramesInv => ControlFramesPreserveUntouched
  BY DEF FramesInv, SnapshotsAreReported, FramesCarryState,
         ControlFramesPreserveUntouched
<1> QED
  BY <1>1, FramesInvariant, PTL
-----------------------------------------------------------------------------
(* Freshness.  FreshAgesAreTrue is inductive because time waits for loop(), which     *)
(* expires what the last tick made too old; ShownIsFresh because every       *)
(* handler that lowers a flag or the handles also clears what they back.     *)

\* A handler that keeps the flags and the ages of the reports keeps their truth.
LEMMA AgesKept ==
  ASSUME FreshAgesAreTrue,
         UNCHANGED <<data_fresh, status_age, since_status, settings_fresh,
                     settings_age, since_settings, looped>>
  PROVE  FreshAgesAreTrue'
  BY DEF FreshAgesAreTrue

\* After a reset nothing counts as fresh.
LEMMA AgesForgotten ==
  ASSUME data_fresh' = FALSE, settings_fresh' = FALSE
  PROVE  FreshAgesAreTrue'
  BY DEF FreshAgesAreTrue

\* Once loop() has looked at the reports, none is older than the timeout.
LEMMA AgesExpired ==
  ASSUME ClocksType, FreshAgesAreTrue, Expire,
         UNCHANGED <<since_status, since_settings>>
  PROVE  FreshAgesAreTrue'
<1>1. /\ status_age \in Nat /\ settings_age \in Nat /\ StaleTimeout \in Nat
  BY TimingAssumption DEF ClocksType
<1>2. ASSUME StaleTimeout # 0, data_fresh'
      PROVE  since_status' = status_age' /\ status_age' <= StaleTimeout
  <2>1. data_fresh /\ ~StatusStale
    BY <1>2, Zenon DEF Expire, ExpireStatus
  <2>2. status_age' = status_age
    BY <2>1 DEF Expire, ExpireStatus
  <2>3. status_age <= StaleTimeout /\ since_status = status_age
    BY <1>1, <1>2, <2>1 DEF FreshAgesAreTrue, StatusStale
  <2> QED
    BY <2>2, <2>3
<1>3. ASSUME StaleTimeout # 0, settings_fresh'
      PROVE  since_settings' = settings_age' /\ settings_age' <= StaleTimeout
  <2>1. settings_fresh /\ ~SettingsStale
    BY <1>3, Zenon DEF Expire, ExpireSettings
  <2>2. settings_age' = settings_age
    BY <2>1 DEF Expire, ExpireSettings
  <2>3. settings_age <= StaleTimeout /\ since_settings = settings_age
    BY <1>1, <1>3, <2>1 DEF FreshAgesAreTrue, SettingsStale
  <2> QED
    BY <2>2, <2>3
<1> QED
  BY <1>2, <1>3 DEF FreshAgesAreTrue

\* The two ages of a fresh report grow together.
LEMMA AgesTick ==
  ASSUME ClocksType, FreshAgesAreTrue, Tick
  PROVE  FreshAgesAreTrue'
<1>1. /\ status_age \in Nat /\ settings_age \in Nat /\ StaleTimeout \in Nat
      /\ looped /\ looped' = FALSE
      /\ data_fresh' = data_fresh /\ settings_fresh' = settings_fresh
  BY TimingAssumption DEF ClocksType, Tick
<1>2. ASSUME StaleTimeout # 0, data_fresh
      PROVE  since_status' = status_age'
  <2>1. since_status = status_age /\ status_age <= StaleTimeout
    BY <1>1, <1>2 DEF FreshAgesAreTrue
  <2> QED
    BY <1>1, <1>2, <2>1 DEF Tick, Older, Never
<1>3. ASSUME StaleTimeout # 0, settings_fresh
      PROVE  since_settings' = settings_age'
  <2>1. since_settings = settings_age /\ settings_age <= StaleTimeout
    BY <1>1, <1>3 DEF FreshAgesAreTrue
  <2> QED
    BY <1>1, <1>3, <2>1 DEF Tick, Older, Never
<1> QED
  BY <1>1, <1>2, <1>3 DEF FreshAgesAreTrue

\* Every handler keeps the ages of the reports, resets, restarts or expires them.
LEMMA AgesStep ==
  ASSUME ClocksType, FreshAgesAreTrue, [Next]_vars
  PROVE  FreshAgesAreTrue'
<1> USE DEF statusVars, settingsVars, reportVars
<1>1. CASE ClientEvent
  BY <1>1, AgesKept, AgesForgotten
  DEF ClientEvent, Opened, Closed, ServicesFound, ServicesUnusable,
      NotificationsRefused, FailDiscovery, SubscribedRequestQueued,
      SubscribedRequestRefused, Subscribed, WriteAcknowledged, WriteFailed,
      ResetConnectionState
<1>2. CASE Notification
  <2>1. CASE \E o \in [Outputs -> BOOLEAN] : StatusReport(o)
    BY <2>1, TimingAssumption DEF StatusReport, ValidFrame, FreshAgesAreTrue
  <2>2. CASE \E s \in [Fields -> Values] : SettingsReport(s)
    BY <2>2, TimingAssumption DEF SettingsReport, ValidFrame, FreshAgesAreTrue
  <2>3. CASE DeviceNameReport \/ OtherReport
    BY <2>3, AgesKept DEF DeviceNameReport, OtherReport, ValidFrame
  <2> QED
    BY <1>2, <2>1, <2>2, <2>3 DEF Notification
<1>3. CASE Command
  BY <1>3, AgesKept, AgesForgotten
  DEF Command, RequestOutputQueued, RequestOutputRefused,
      RequestSettingUnchanged, RequestSettingQueued, RequestSettingRefused,
      RequestDeviceNameQueued, RequestDeviceNameRefused, ManualKeepaliveQueued,
      ManualKeepaliveRefused, SetKeepaliveEnabled, SetKeepaliveInterval,
      ResetConnectionState
<1>4. CASE Loop
  <2>1. CASE LoopQueryRefused \/ LoopWriteRefused
    BY <2>1, AgesForgotten
    DEF LoopQueryRefused, LoopWriteRefused, ResetConnectionState
  <2>2. CASE ~(LoopQueryRefused \/ LoopWriteRefused)
    BY <1>4, <2>2, AgesExpired
    DEF Loop, LoopIdle, LoopForcedReconnect, LoopInitialKeepalive,
        LoopWatchdog, LoopSettingsKeepalive, LoopStatusRequest, Iteration
  <2> QED
    BY <2>1, <2>2
<1>5. CASE Tick
  BY <1>5, AgesTick
<1>6. CASE UNCHANGED vars
  BY <1>6, AgesKept DEF vars
<1> QED
  BY <1>1, <1>2, <1>3, <1>4, <1>5, <1>6 DEF Next

\* Nothing is shown after a reset.
LEMMA ShownForgotten ==
  ASSUME NEW pending, NEW requested, NEW shown,
         ResetConnectionState(pending, requested, shown)
  PROVE  ShownIsFresh'
  BY DEF ResetConnectionState, ShownIsFresh

\* What a handler does not touch stays backed, unless it takes the handles.
LEMMA ShownKept ==
  ASSUME ShownIsFresh, handles' = handles \/ handles' = TRUE,
         link' # "closed" \/ link' = link,
         \/ UNCHANGED <<settings, settings_entities>>
         \/ settings_entities' = PublishedSettings(settings'),
         UNCHANGED <<telemetry, data_fresh, controls_available, settings_fresh,
                     settings_available>>
  PROVE  ShownIsFresh'
<1>1. settings_available' => settings_entities' = PublishedSettings(settings')
  BY DEF ShownIsFresh, PublishedSettings
<1> QED
  BY <1>1 DEF ShownIsFresh, PublishedSettings

\* What loop() expires is no longer shown.
LEMMA ShownExpired ==
  ASSUME ShownIsFresh, Expire, UNCHANGED <<handles, link>>
  PROVE  ShownIsFresh'
<1> USE DEF ShownIsFresh, Expire
<1>1. telemetry' # Unknown <=> data_fresh'
  BY DEF ExpireStatus, StatusStale
<1>2. controls_available' => data_fresh' /\ handles'
  BY DEF ExpireStatus
<1>3. settings_available' => settings_fresh' /\ handles'
  BY DEF ExpireSettings
<1>4. link' = "closed" => ~data_fresh' /\ ~settings_fresh'
  BY DEF ExpireStatus, ExpireSettings
<1>5. settings_available' => settings_entities' = PublishedSettings(settings')
  BY DEF ExpireSettings, PublishedSettings
<1> QED
  BY <1>1, <1>2, <1>3, <1>4, <1>5 DEF PublishedSettings

\* Every handler leaves what is shown backed by the flags it leaves.
LEMMA ShownStep ==
  ASSUME DataType, ShownIsFresh, [Next]_vars
  PROVE  ShownIsFresh'
<1> USE DEF statusVars, settingsVars, transportVars
<1>1. CASE ClientEvent
  BY <1>1, ShownKept, ShownForgotten
  DEF ClientEvent, Opened, Closed, ServicesFound, ServicesUnusable,
      NotificationsRefused, FailDiscovery, SubscribedRequestQueued,
      SubscribedRequestRefused, Subscribed, WriteAcknowledged, WriteFailed
<1>2. CASE Notification
  <2>1. CASE \E o \in [Outputs -> BOOLEAN] : StatusReport(o)
    BY <2>1, DataAssumption DEF StatusReport, ValidFrame, ShownIsFresh, Ready
  <2>2. CASE \E s \in [Fields -> Values] : SettingsReport(s)
    BY <2>2 DEF SettingsReport, ValidFrame, ShownIsFresh, Ready
  <2>3. CASE DeviceNameReport \/ OtherReport
    BY <2>3, ShownKept DEF DeviceNameReport, OtherReport, ValidFrame
  <2> QED
    BY <1>2, <2>1, <2>2, <2>3 DEF Notification
<1>3. CASE Command
  BY <1>3, ShownKept, ShownForgotten
  DEF Command, RequestOutputQueued, RequestOutputRefused,
      RequestSettingUnchanged, RequestSettingQueued, RequestSettingRefused,
      RequestDeviceNameQueued, RequestDeviceNameRefused, ManualKeepaliveQueued,
      ManualKeepaliveRefused, SetKeepaliveEnabled, SetKeepaliveInterval
<1>4. CASE Loop
  <2>1. CASE LoopQueryRefused \/ LoopWriteRefused
    BY <2>1, ShownForgotten DEF LoopQueryRefused, LoopWriteRefused
  <2>2. CASE ~(LoopQueryRefused \/ LoopWriteRefused)
    BY <1>4, <2>2, ShownExpired
    DEF Loop, LoopIdle, LoopForcedReconnect, LoopInitialKeepalive,
        LoopWatchdog, LoopSettingsKeepalive, LoopStatusRequest, Iteration,
        WriteAccepted
  <2> QED
    BY <2>1, <2>2
<1>5. CASE Tick
  BY <1>5, ShownKept DEF Tick
<1>6. CASE UNCHANGED vars
  BY <1>6, ShownKept DEF vars
<1> QED
  BY <1>1, <1>2, <1>3, <1>4, <1>5, <1>6 DEF Next

\* The inductive invariant of the three theorems on freshness.
FreshnessInv == FramesInv /\ FreshAgesAreTrue /\ ShownIsFresh

\* It holds in every reachable state.
LEMMA FreshnessInvariant == Spec => []FreshnessInv
<1>1. Init => FreshAgesAreTrue /\ ShownIsFresh
  BY DEF Init, FreshAgesAreTrue, ShownIsFresh
<1>2. FramesInv /\ FreshAgesAreTrue /\ ShownIsFresh /\ [Next]_vars
        => FreshAgesAreTrue' /\ ShownIsFresh'
  BY AgesStep, ShownStep DEF FramesInv, TypeInv, ClocksInv
<1> QED
  BY <1>1, <1>2, FramesInvariant, PTL DEF Spec, FreshnessInv

\* However handlers, expiries and resets interleave, a command is built on a
\* report no older than the timeout and the iteration of loop() that expires it.
THEOREM CommandsAreFresh == Spec => []CommandsNeedFreshReports
<1>1. FreshnessInv => CommandsNeedFreshReports
  <2> SUFFICES ASSUME FreshnessInv, StaleTimeout # 0, NEW frame \in Sent
               PROVE  /\ frame.kind = "control" =>
                           since_status <= StaleTimeout + 1
                      /\ frame.kind = "settings" /\ frame.by = "command" =>
                           since_settings <= StaleTimeout + 1
    BY DEF CommandsNeedFreshReports
  <2>1. status_age <= StaleTimeout + 1 /\ settings_age <= StaleTimeout + 1
    BY TimingAssumption
    DEF FreshnessInv, FramesInv, TypeInv, ClocksInv, ClocksType
  <2>2. /\ data_fresh => since_status = status_age
        /\ settings_fresh => since_settings = settings_age
    BY DEF FreshnessInv, FreshAgesAreTrue
  <2> QED
    BY <2>1, <2>2 DEF FreshnessInv, FramesInv, FramesCarryState
<1> QED
  BY <1>1, FreshnessInvariant, PTL

\* Telemetry is shown exactly while it is fresh, and never on a closed link.
THEOREM StaleTelemetryIsHidden == Spec => []StaleTelemetryIsUnknown
<1>1. FreshnessInv => StaleTelemetryIsUnknown
  BY DEF FreshnessInv, FreshAgesAreTrue, ShownIsFresh, StaleTelemetryIsUnknown
<1> QED
  BY <1>1, FreshnessInvariant, PTL

\* Settings Available is shown only for a report of this session that is fresh, and
\* the settings entities then show it but for what a command has changed since.
THEOREM AvailabilityIsHonest == Spec => []SettingsAvailableIsHonest
<1>1. FreshnessInv => SettingsAvailableIsHonest
  <2> SUFFICES ASSUME FreshnessInv PROVE SettingsAvailableIsHonest
    OBVIOUS
  <2>1. ASSUME settings_available, NEW f \in Shown \ touched
        PROVE  settings_entities[f] = PublishedSettings(reported)[f]
    <3>1. settings[f] = reported[f]
      BY <2>1, DataAssumption
      DEF FreshnessInv, FramesInv, SnapshotsAreReported, ShownIsFresh
    <3>2. settings_entities = PublishedSettings(settings)
      BY <2>1 DEF FreshnessInv, ShownIsFresh
    <3> QED
      BY <2>1, <3>1, <3>2 DEF PublishedSettings
  <2> QED
    BY <2>1
    DEF FreshnessInv, FramesInv, SnapshotsAreReported, FreshAgesAreTrue,
        ShownIsFresh, SettingsAvailableIsHonest
<1> QED
  BY <1>1, FreshnessInvariant, PTL
-----------------------------------------------------------------------------
(* AllpowersBLE implements SettingsWriter: every step of the component is a *)
(* step of the writer or leaves it alone.  What a step wrote is the settings *)
(* it leaves known, so a step is told apart by what it does to the session  *)
(* and to what is known.                                                   *)

\* Without a settings frame nothing counts as written, and a settings frame is
\* written only while the settings it carries are known.
LEMMA WrittenIsKnown ==
  ASSUME FramesCarryState'
  PROVE  Written' = Unknown \/ (have_snapshot' /\ Written' = settings')
<1>1. CASE SettingsSent' = {}
  BY <1>1 DEF Written
<1>2. CASE SettingsSent' # {}
  <2> DEFINE frame == CHOOSE x \in SettingsSent' : TRUE
  <2>1. frame \in SettingsSent'
    BY <1>2
  <2>2. frame \in Sent' /\ frame.kind = "settings"
    BY <2>1 DEF SettingsSent
  <2>3. Written' = frame.settings
    BY <1>2 DEF Written
  <2> QED
    BY <2>2, <2>3 DEF FramesCarryState
<1> QED
  BY <1>1, <1>2

\* A handler that queues nothing writes no settings.
LEMMA WroteNothing == ASSUME tx' = <<>> PROVE Written' = Unknown
<1>1. SettingsSent' = {}
  BY SentNothing DEF SettingsSent
<1> QED
  BY <1>1 DEF Written

\* A step that keeps session and snapshot at most writes them again.
LEMMA Keeping ==
  ASSUME DataType, FramesCarryState',
         link' = link, have_snapshot' = have_snapshot, settings' = settings
  PROVE  Writer!Next
<1>1. Known' = Known /\ (link # "closed")' = (link # "closed")
  BY DEF Known
<1>2. CASE Written' = Unknown
  BY <1>1, <1>2 DEF Writer!Next, Writer!Rest, Writer!Silent
<1>3. CASE have_snapshot' /\ Written' = settings'
  <2>1. Known # Unknown /\ Written' = Known
    BY <1>3, DataAssumption DEF Known, DataType
  <2> QED
    BY <1>1, <2>1 DEF Writer!Next, Writer!WriteAgain
<1> QED
  BY <1>2, <1>3, WrittenIsKnown

\* A reset within a session forgets.
LEMMA Forgetting ==
  ASSUME FramesCarryState', (link # "closed")' = (link # "closed"),
         have_snapshot' = FALSE
  PROVE  Writer!Next
<1>1. Known' = Unknown /\ Written' = Unknown
  BY WrittenIsKnown DEF Known
<1> QED
  BY <1>1 DEF Writer!Next, Writer!Forget, Writer!Silent

\* Every handler is a step of the writer.
LEMMA WriterStep ==
  ASSUME DataType, SnapshotsAreReported, FramesCarryState', [Next]_vars
  PROVE  Writer!Next
<1> USE DEF transportVars, settingsVars
<1>1. CASE ClientEvent
  <2>1. CASE Opened
    <3>1. /\ link = "closed" /\ link' = "open" /\ tx' = <<>>
          /\ have_snapshot' = have_snapshot /\ settings' = settings
      BY <2>1 DEF Opened, NoFrame
    <3>2. Known' = Known /\ Written' = Unknown
      BY <3>1, WroteNothing DEF Known
    <3> QED
      BY <3>1, <3>2 DEF Writer!Next, Writer!Open, Writer!Silent
  <2>2. CASE Closed
    <3>1. /\ link # "closed" /\ link' = "closed" /\ tx' = <<>>
          /\ have_snapshot' = FALSE
      BY <2>2 DEF Closed, ResetConnectionState, NoFrame
    <3>2. Known' = Unknown /\ Written' = Unknown
      BY <3>1, WroteNothing DEF Known
    <3> QED
      BY <3>1, <3>2 DEF Writer!Next, Writer!Close, Writer!Silent
  <2>3. CASE ServicesFound \/ SubscribedRequestQueued \/ WriteAcknowledged
    <3>1. /\ (link # "closed")' = (link # "closed")
          /\ have_snapshot' = have_snapshot /\ settings' = settings
      BY <2>3
      DEF ServicesFound, SubscribedRequestQueued, Subscribed,
          WriteAcknowledged
    <3>2. Known' = Known
      BY <3>1 DEF Known
    <3>3. CASE Written' = Unknown
      BY <3>1, <3>2, <3>3 DEF Writer!Next, Writer!Rest, Writer!Silent
    <3>4. CASE have_snapshot' /\ Written' = settings'
      <4>1. Known # Unknown /\ Written' = Known
        BY <3>1, <3>4, DataAssumption DEF Known, DataType
      <4> QED
        BY <3>1, <3>2, <4>1 DEF Writer!Next, Writer!WriteAgain
    <3> QED
      BY <3>3, <3>4, WrittenIsKnown
  <2>4. CASE \/ ServicesUnusable \/ NotificationsRefused
             \/ SubscribedRequestRefused \/ WriteFailed
    <3>1. (link # "closed")' = (link # "closed") /\ have_snapshot' = FALSE
      BY <2>4
      DEF ServicesUnusable, NotificationsRefused, FailDiscovery,
          SubscribedRequestRefused, Subscribed, WriteFailed,
          ResetConnectionState
    <3> QED
      BY <3>1, Forgetting
  <2> QED
    BY <1>1, <2>1, <2>2, <2>3, <2>4 DEF ClientEvent
<1>2. CASE Notification
  <2>1. ASSUME NEW s \in [Fields -> Values], SettingsReport(s)
        PROVE  Writer!Next
    <3>1. /\ link = "subscribed" /\ link' = link /\ tx' = <<>>
          /\ have_snapshot' = TRUE /\ settings' = s
      BY <2>1 DEF SettingsReport, ValidFrame, NoFrame
    <3>2. Known' = s /\ Written' = Unknown
      BY <3>1, WroteNothing DEF Known
    <3> QED
      BY <3>1, <3>2 DEF Writer!Next, Writer!Told, Writer!Silent
  <2>2. CASE \/ \E o \in [Outputs -> BOOLEAN] : StatusReport(o)
             \/ DeviceNameReport \/ OtherReport
    BY <2>2, Keeping
    DEF StatusReport, DeviceNameReport, OtherReport, ValidFrame
  <2> QED
    BY <1>2, <2>1, <2>2 DEF Notification
<1>3. CASE Command
  <2>1. ASSUME NEW f \in Fields, NEW v \in Values, RequestSettingQueued(f, v)
        PROVE  Writer!Next
    <3>1. /\ link' = link /\ have_snapshot' = have_snapshot
          /\ SettingsAvailable
          /\ v \in Options[f] /\ settings[f] # v
          /\ settings' = [settings EXCEPT ![f] = v]
          /\ tx' = <<SettingsFrame("command", settings')>>
      BY <2>1 DEF RequestSettingQueued, WriteAccepted
    <3>2. have_snapshot
      BY <3>1 DEF SettingsAvailable, SnapshotsAreReported
    <3>3. Known = settings /\ Known' = settings' /\ Known # Unknown
      BY <3>1, <3>2, DataAssumption DEF Known, DataType
    <3>4. Written' = settings'
      <4> DEFINE frame == SettingsFrame("command", settings')
      <4>1. Sent' = {frame}
        BY <3>1, SentOne
      <4>2. frame.kind = "settings" /\ frame.settings = settings'
        BY CommandFrames
      <4> HIDE DEF frame
      <4>3. SettingsSent' = {frame}
        BY <4>1, <4>2 DEF SettingsSent
      <4> QED
        BY <4>2, <4>3 DEF Written
    <3> QED
      <4>1. Writer!Change(f, v)
        BY <3>1, <3>3, <3>4 DEF Writer!Change
      <4> QED
        BY <4>1 DEF Writer!Next
  <2>2. CASE \/ RequestOutputRefused \/ RequestDeviceNameRefused
             \/ ManualKeepaliveRefused
             \/ \E f \in Fields, v \in Values : RequestSettingRefused(f, v)
    BY <2>2, Forgetting
    DEF RequestOutputRefused, RequestDeviceNameRefused, WriteRefused,
        ManualKeepaliveRefused, RequestSettingRefused, ResetConnectionState
  <2>3. CASE \/ \E o \in Outputs, state \in BOOLEAN :
                  RequestOutputQueued(o, state)
             \/ RequestDeviceNameQueued \/ ManualKeepaliveQueued
    BY <2>3, Keeping
    DEF RequestOutputQueued, RequestDeviceNameQueued, ManualKeepaliveQueued
  <2>4. CASE \/ \E f \in Fields, v \in Values : RequestSettingUnchanged(f, v)
             \/ \E enabled \in BOOLEAN : SetKeepaliveEnabled(enabled)
             \/ \E interval \in SettingsIntervals :
                  SetKeepaliveInterval(interval)
    BY <2>4, Keeping
    DEF RequestSettingUnchanged, SetKeepaliveEnabled, SetKeepaliveInterval
  <2> QED
    BY <1>3, <2>1, <2>2, <2>3, <2>4 DEF Command
<1>4. CASE Loop
  <2>1. CASE LoopQueryRefused \/ LoopWriteRefused
    BY <2>1, Forgetting
    DEF LoopQueryRefused, LoopWriteRefused, Iteration, ResetConnectionState
  <2>2. CASE ~(LoopQueryRefused \/ LoopWriteRefused)
    <3>1. /\ link' = link
          /\ have_snapshot' = have_snapshot /\ settings' = settings
      BY <1>4, <2>2
      DEF Loop, LoopIdle, LoopForcedReconnect, LoopInitialKeepalive,
          LoopWatchdog, LoopSettingsKeepalive, LoopStatusRequest, Iteration,
          Expire, ExpireSettings
    <3> QED
      BY <3>1, Keeping
  <2> QED
    BY <2>1, <2>2
<1>5. CASE Tick
  BY <1>5, Keeping DEF Tick
<1>6. CASE UNCHANGED vars
  BY <1>6, Keeping DEF vars
<1> QED
  BY <1>1, <1>2, <1>3, <1>4, <1>5, <1>6 DEF Next

\* The component writes settings as SettingsWriter promises: those it was told in
\* this session, but for one change at a time, and nothing after a failure until
\* it is told again.
THEOREM WriterImplemented == Spec => ImplementsWriter
<1>1. Init => Writer!Init
  <2> SUFFICES ASSUME Init PROVE Writer!Init
    OBVIOUS
  <2>1. SettingsSent = {}
    BY DEF Init, SettingsSent, Sent
  <2> QED
    BY <2>1 DEF Init, Writer!Init, Known, Written
<1>2. FramesInv /\ FramesInv' /\ [Next]_vars => [Writer!Next]_(Writer!vars)
  BY WriterStep DEF FramesInv, TypeInv
<1> QED
  BY <1>1, <1>2, FramesInvariant, PTL DEF Spec, ImplementsWriter, Writer!Spec
=============================================================================
