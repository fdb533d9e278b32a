------------------------ MODULE AllpowersBLE_proofs ------------------------
(* Proofs about AllpowersBLE for every value of its constants.             *)
EXTENDS AllpowersBLE, TLAPS

\* The frames that are built are frames.
LEMMA FramesType ==
  /\ StatusRequestFrame \in Frames /\ DeviceNameFrame \in Frames
  /\ \A o \in [Outputs -> BOOLEAN] : ControlFrame(o) \in Frames
  /\ \A s \in [Fields -> Values] :
       /\ SettingsFrame("command", s) \in Frames
       /\ SettingsFrame("initial", s) \in Frames
       /\ SettingsFrame("periodic", s) \in Frames
       /\ SettingsFrame("manual", s) \in Frames
  BY DEF Frames, Senders

\* What the settings entities show is an option or nothing.
LEMMA PublishedType ==
  /\ \A s \in [Fields -> Values] :
       PublishedSettings(s) \in [Shown -> Values \cup {Unknown}]
  /\ NoSettingsShown \in [Shown -> Values \cup {Unknown}]
  BY DataAssumption DEF PublishedSettings, NoSettingsShown

\* The name query contributes a sequence of frames.
LEMMA QueryFramesType == QueryFrames \in Seq(Frames)
<1>1. CASE QueryDue
  BY <1>1, FramesType DEF QueryFrames, Frames
<1>2. CASE ~QueryDue
  BY <1>2 DEF QueryFrames
<1> QED
  BY <1>1, <1>2

-----------------------------------------------------------------------------
(* Type correctness, in the three parts of TypeOK.                         *)

\* An attempt leaves the query active or not.
LEMMA SendQueryFlags ==
  ASSUME query_active \in BOOLEAN, SendQuery
  PROVE  query_active' \in BOOLEAN
<1>1. CASE QueryDue
  BY <1>1 DEF SendQuery
<1>2. CASE ~QueryDue
  BY <1>2 DEF SendQuery, queryVars
<1> QED
  BY <1>1, <1>2

\* What is remembered of the queued frames has its type.
LEMMA RememberType ==
  ASSUME scheduled \in {"none", "written", "answered", "finished"}, Remember
  PROVE  scheduled' \in {"none", "written", "answered", "finished"}
  BY DEF Remember

\* Every handler leaves the flags of transport, health and timers Boolean.
LEMMA SessionFlagsStep ==
  SessionFlagsType /\ [Next]_vars => SessionFlagsType'
<1> SUFFICES ASSUME SessionFlagsType, [Next]_vars
               PROVE  SessionFlagsType'
  OBVIOUS
<1> USE DEF SessionFlagsType, transportVars, healthVars, statusVars, settingsVars,
            configVars, queryVars
<1>1. CASE ClientEvent
  <2>1. CASE Opened
    BY <2>1, ZenonT(30)
    DEF Opened
  <2>2. CASE Closed
    BY <2>2, ZenonT(30)
    DEF Closed, ResetConnectionState, ResetQuery
  <2>3. CASE ServicesFound
    BY <2>3, ZenonT(30)
    DEF ServicesFound
  <2>4. CASE ServicesUnusable
    BY <2>4, ZenonT(30)
    DEF ServicesUnusable, FailDiscovery, ResetConnectionState, ResetQuery
  <2>5. CASE NotificationsRefused
    BY <2>5, ZenonT(30)
    DEF NotificationsRefused, FailDiscovery, ResetConnectionState, ResetQuery
  <2>6. CASE SubscribedRequestQueued
    BY <2>6, TimingAssumption, ZenonT(30)
    DEF SubscribedRequestQueued, Subscribed, WriteAccepted
  <2>7. CASE SubscribedRequestRefused
    BY <2>7, TimingAssumption, ZenonT(30)
    DEF SubscribedRequestRefused, Subscribed, ResetConnectionState
  <2>8. CASE WriteAcknowledged
    BY <2>8, ZenonT(30)
    DEF WriteAcknowledged
  <2>9. CASE WriteFailed
    BY <2>9, ZenonT(30)
    DEF WriteFailed, ResetConnectionState, ResetQuery
  <2> QED
    BY <1>1, <2>1, <2>2, <2>3, <2>4, <2>5, <2>6, <2>7, <2>8, <2>9 DEF ClientEvent
<1>2. CASE Notification
  <2>1. CASE \E o \in [Outputs -> BOOLEAN] : StatusReport(o)
    BY <2>1, ZenonT(30)
    DEF StatusReport, ValidFrame, Ready
  <2>2. CASE \E s \in [Fields -> Values] : SettingsReport(s)
    BY <2>2, ZenonT(30)
    DEF SettingsReport, ValidFrame, Ready
  <2>3. CASE DeviceNameReport
    BY <2>3, ZenonT(30)
    DEF DeviceNameReport, ValidFrame
  <2>4. CASE OtherReport
    BY <2>4, ZenonT(30)
    DEF OtherReport, ValidFrame
  <2> QED
    BY <1>2, <2>1, <2>2, <2>3, <2>4 DEF Notification
<1>3. CASE Command
  <2>1. CASE \E o \in Outputs, state \in BOOLEAN : RequestOutputQueued(o, state)
    BY <2>1, ZenonT(30)
    DEF RequestOutputQueued, WriteAccepted
  <2>2. CASE RequestOutputRefused
    BY <2>2, ZenonT(30)
    DEF RequestOutputRefused, WriteRefused, ResetConnectionState, ResetQuery
  <2>3. CASE \E f \in Fields, v \in Values : RequestSettingUnchanged(f, v)
    BY <2>3
    DEF RequestSettingUnchanged
  <2>4. CASE \E f \in Fields, v \in Values : RequestSettingQueued(f, v)
    BY <2>4, ZenonT(30)
    DEF RequestSettingQueued, WriteAccepted
  <2>5. CASE \E f \in Fields, v \in Values : RequestSettingRefused(f, v)
    BY <2>5, ZenonT(30)
    DEF RequestSettingRefused, WriteRefused, ResetConnectionState, ResetQuery
  <2>6. CASE RequestDeviceNameQueued
    BY <2>6, ZenonT(30)
    DEF RequestDeviceNameQueued, WriteAccepted
  <2>7. CASE RequestDeviceNameRefused
    BY <2>7, ZenonT(30)
    DEF RequestDeviceNameRefused, WriteRefused, ResetConnectionState,
        ResetQuery
  <2>8. CASE ManualKeepaliveQueued
    BY <2>8, ZenonT(30)
    DEF ManualKeepaliveQueued, WriteAccepted
  <2>9. CASE ManualKeepaliveRefused
    BY <2>9, ZenonT(30)
    DEF ManualKeepaliveRefused, WriteRefused, ResetConnectionState, ResetQuery
  <2>10. CASE \E enabled \in BOOLEAN : SetKeepaliveEnabled(enabled)
    BY <2>10
    DEF SetKeepaliveEnabled
  <2>11. CASE \E interval \in SettingsIntervals : SetKeepaliveInterval(interval)
    BY <2>11
    DEF SetKeepaliveInterval
  <2> QED
    BY <1>3, <2>1, <2>2, <2>3, <2>4, <2>5, <2>6, <2>7, <2>8, <2>9, <2>10,
       <2>11 DEF Command
<1>4. CASE Loop
  <2>1. CASE LoopIdle
    BY <2>1, RememberType, ZenonT(30)
    DEF LoopIdle, Iteration, Expire, ExpireStatus, ExpireSettings
  <2>2. CASE LoopForcedReconnect
    BY <2>2, RememberType, ZenonT(30)
    DEF LoopForcedReconnect, Iteration, Expire, ExpireStatus, ExpireSettings
  <2>3. CASE LoopInitialKeepalive
    BY <2>3, RememberType, ZenonT(30)
    DEF LoopInitialKeepalive, WriteAccepted, Iteration, Expire, ExpireStatus,
        ExpireSettings
  <2>4. CASE LoopWatchdog
    BY <2>4, SendQueryFlags, RememberType, ZenonT(30)
    DEF LoopWatchdog, Iteration, Expire, ExpireStatus, ExpireSettings
  <2>5. CASE LoopSettingsKeepalive
    BY <2>5, SendQueryFlags, RememberType, ZenonT(30)
    DEF LoopSettingsKeepalive, WriteAccepted, Iteration, Expire, ExpireStatus,
        ExpireSettings
  <2>6. CASE LoopStatusRequest
    BY <2>6, SendQueryFlags, RememberType, ZenonT(30)
    DEF LoopStatusRequest, Iteration, Expire, ExpireStatus, ExpireSettings
  <2>7. CASE LoopQueryRefused
    BY <2>7, RememberType, ZenonT(30)
    DEF LoopQueryRefused, Iteration, WriteRefused, ResetConnectionState,
        ResetQuery
  <2>8. CASE LoopWriteRefused
    BY <2>8, RememberType, ZenonT(30)
    DEF LoopWriteRefused, Iteration, WriteRefused, ResetConnectionState,
        ResetQuery
  <2> QED
    BY <1>4, <2>1, <2>2, <2>3, <2>4, <2>5, <2>6, <2>7, <2>8 DEF Loop
<1>5. CASE Tick
  BY <1>5, ZenonT(30)
  DEF Tick
<1>6. CASE UNCHANGED vars
  BY <1>6 DEF vars
<1> QED
  BY <1>1, <1>2, <1>3, <1>4, <1>5, <1>6 DEF Next

\* Every handler leaves the flags of telemetry and settings Boolean.
LEMMA ReportFlagsStep ==
  ReportFlagsType /\ [Next]_vars => ReportFlagsType'
<1> SUFFICES ASSUME ReportFlagsType, [Next]_vars
               PROVE  ReportFlagsType'
  OBVIOUS
<1> USE DEF ReportFlagsType, transportVars, healthVars, statusVars, settingsVars,
            configVars, queryVars
<1>1. CASE ClientEvent
  <2>1. CASE Opened
    BY <2>1, ZenonT(30)
    DEF Opened
  <2>2. CASE Closed
    BY <2>2, ZenonT(30)
    DEF Closed, ResetConnectionState
  <2>3. CASE ServicesFound
    BY <2>3, ZenonT(30)
    DEF ServicesFound
  <2>4. CASE ServicesUnusable
    BY <2>4, ZenonT(30)
    DEF ServicesUnusable, FailDiscovery, ResetConnectionState
  <2>5. CASE NotificationsRefused
    BY <2>5, ZenonT(30)
    DEF NotificationsRefused, FailDiscovery, ResetConnectionState
  <2>6. CASE SubscribedRequestQueued
    BY <2>6, ZenonT(30)
    DEF SubscribedRequestQueued, Subscribed
  <2>7. CASE SubscribedRequestRefused
    BY <2>7, ZenonT(30)
    DEF SubscribedRequestRefused, Subscribed, ResetConnectionState
  <2>8. CASE WriteAcknowledged
    BY <2>8, ZenonT(30)
    DEF WriteAcknowledged
  <2>9. CASE WriteFailed
    BY <2>9, ZenonT(30)
    DEF WriteFailed, ResetConnectionState
  <2> QED
    BY <1>1, <2>1, <2>2, <2>3, <2>4, <2>5, <2>6, <2>7, <2>8, <2>9 DEF ClientEvent
<1>2. CASE Notification
  <2>1. CASE \E o \in [Outputs -> BOOLEAN] : StatusReport(o)
    BY <2>1, ZenonT(30)
    DEF StatusReport, ValidFrame, Ready
  <2>2. CASE \E s \in [Fields -> Values] : SettingsReport(s)
    BY <2>2, ZenonT(30)
    DEF SettingsReport, ValidFrame, Ready
  <2>3. CASE DeviceNameReport
    BY <2>3, ZenonT(30)
    DEF DeviceNameReport, ValidFrame
  <2>4. CASE OtherReport
    BY <2>4, ZenonT(30)
    DEF OtherReport, ValidFrame
  <2> QED
    BY <1>2, <2>1, <2>2, <2>3, <2>4 DEF Notification
<1>3. CASE Command
  <2>1. CASE \E o \in Outputs, state \in BOOLEAN : RequestOutputQueued(o, state)
    BY <2>1, ZenonT(30)
    DEF RequestOutputQueued
  <2>2. CASE RequestOutputRefused
    BY <2>2, ZenonT(30)
    DEF RequestOutputRefused, WriteRefused, ResetConnectionState
  <2>3. CASE \E f \in Fields, v \in Values : RequestSettingUnchanged(f, v)
    BY <2>3
    DEF RequestSettingUnchanged
  <2>4. CASE \E f \in Fields, v \in Values : RequestSettingQueued(f, v)
    BY <2>4, ZenonT(30)
    DEF RequestSettingQueued
  <2>5. CASE \E f \in Fields, v \in Values : RequestSettingRefused(f, v)
    BY <2>5, ZenonT(30)
    DEF RequestSettingRefused, WriteRefused, ResetConnectionState
  <2>6. CASE RequestDeviceNameQueued
    BY <2>6, ZenonT(30)
    DEF RequestDeviceNameQueued
  <2>7. CASE RequestDeviceNameRefused
    BY <2>7, ZenonT(30)
    DEF RequestDeviceNameRefused, WriteRefused, ResetConnectionState
  <2>8. CASE ManualKeepaliveQueued
    BY <2>8, ZenonT(30)
    DEF ManualKeepaliveQueued
  <2>9. CASE ManualKeepaliveRefused
    BY <2>9, ZenonT(30)
    DEF ManualKeepaliveRefused, WriteRefused, ResetConnectionState
  <2>10. CASE \E enabled \in BOOLEAN : SetKeepaliveEnabled(enabled)
    BY <2>10
    DEF SetKeepaliveEnabled
  <2>11. CASE \E interval \in SettingsIntervals : SetKeepaliveInterval(interval)
    BY <2>11
    DEF SetKeepaliveInterval
  <2> QED
    BY <1>3, <2>1, <2>2, <2>3, <2>4, <2>5, <2>6, <2>7, <2>8, <2>9, <2>10,
       <2>11 DEF Command
<1>4. CASE Loop
  <2>1. CASE LoopIdle
    BY <2>1, ZenonT(30)
    DEF LoopIdle, Iteration, Expire, ExpireStatus, ExpireSettings
  <2>2. CASE LoopForcedReconnect
    BY <2>2, ZenonT(30)
    DEF LoopForcedReconnect, Iteration, Expire, ExpireStatus, ExpireSettings
  <2>3. CASE LoopInitialKeepalive
    BY <2>3, ZenonT(30)
    DEF LoopInitialKeepalive, Iteration, Expire, ExpireStatus,
        ExpireSettings
  <2>4. CASE LoopWatchdog
    BY <2>4, ZenonT(30)
    DEF LoopWatchdog, Iteration, Expire, ExpireStatus, ExpireSettings
  <2>5. CASE LoopSettingsKeepalive
    BY <2>5, ZenonT(30)
    DEF LoopSettingsKeepalive, Iteration, Expire, ExpireStatus,
        ExpireSettings
  <2>6. CASE LoopStatusRequest
    BY <2>6, ZenonT(30)
    DEF LoopStatusRequest, Iteration, Expire, ExpireStatus, ExpireSettings
  <2>7. CASE LoopQueryRefused
    BY <2>7, ZenonT(30)
    DEF LoopQueryRefused, Iteration, WriteRefused, ResetConnectionState
  <2>8. CASE LoopWriteRefused
    BY <2>8, ZenonT(30)
    DEF LoopWriteRefused, Iteration, WriteRefused, ResetConnectionState
  <2> QED
    BY <1>4, <2>1, <2>2, <2>3, <2>4, <2>5, <2>6, <2>7, <2>8 DEF Loop
<1>5. CASE Tick
  BY <1>5, ZenonT(30)
  DEF Tick
<1>6. CASE UNCHANGED vars
  BY <1>6 DEF vars
<1> QED
  BY <1>1, <1>2, <1>3, <1>4, <1>5, <1>6 DEF Next

\* Every handler leaves every flag Boolean.
LEMMA FlagsStep == FlagsType /\ [Next]_vars => FlagsType'
  BY SessionFlagsStep, ReportFlagsStep DEF FlagsType

\* The query counter needs an invariant: an active query has an attempt left.
ClocksInv == ClocksType /\ (query_active => query_attempts < MaxAttempts)

\* An attempt keeps the query within its maximum and its clock running.
LEMMA SendQueryClocks ==
  ASSUME ClocksInv, SendQuery
  PROVE  /\ query_attempts' \in 0..MaxAttempts /\ query_due' \in Nat
         /\ query_active' => query_attempts' < MaxAttempts
<1>1. CASE QueryDue
  <2>1. query_active /\ query_attempts' = query_attempts + 1
    BY <1>1 DEF SendQuery, QueryDue
  <2>2. query_due' = IF query_active' THEN QueryRetry ELSE 0
    BY <1>1 DEF SendQuery
  <2>3. query_active' => query_attempts' < MaxAttempts
    BY <1>1 DEF SendQuery
  <2>4. query_attempts' \in 0..MaxAttempts
    BY <2>1, TimingAssumption DEF ClocksInv, ClocksType
  <2>5. query_due' \in Nat
    BY <2>2, TimingAssumption
  <2> QED
    BY <2>3, <2>4, <2>5
<1>2. CASE ~QueryDue
  BY <1>2 DEF SendQuery, queryVars, ClocksInv, ClocksType
<1> QED
  BY <1>1, <1>2

\* Every handler keeps the ages within the values they saturate at.
LEMMA ClocksStep ==
  ASSUME ClocksInv, [Next]_vars
  PROVE  ClocksInv'
<1> USE DEF ClocksInv, ClocksType, Never, transportVars, healthVars,
            timerVars, statusVars, settingsVars, configVars, queryVars,
            reportVars
<1>1. CASE ClientEvent
  <2>1. CASE Opened
    BY <2>1, TimingAssumption DEF Opened
  <2>2. CASE Closed
    BY <2>2, TimingAssumption DEF Closed, ResetConnectionState, ResetQuery
  <2>3. CASE ServicesFound
    BY <2>3, TimingAssumption DEF ServicesFound
  <2>4. CASE ServicesUnusable
    BY <2>4, TimingAssumption
    DEF ServicesUnusable, FailDiscovery, NoDisconnect, ResetConnectionState,
        ResetQuery
  <2>5. CASE NotificationsRefused
    BY <2>5, TimingAssumption
    DEF NotificationsRefused, FailDiscovery, NoDisconnect,
        ResetConnectionState, ResetQuery
  <2>6. CASE SubscribedRequestQueued
    BY <2>6, TimingAssumption
    DEF SubscribedRequestQueued, Subscribed, WriteAccepted
  <2>7. CASE SubscribedRequestRefused
    BY <2>7, TimingAssumption
    DEF SubscribedRequestRefused, Subscribed, ResetConnectionState
  <2>8. CASE WriteAcknowledged
    BY <2>8, TimingAssumption DEF WriteAcknowledged
  <2>9. CASE WriteFailed
    BY <2>9, TimingAssumption
    DEF WriteFailed, NoDisconnect, ResetConnectionState, ResetQuery
  <2> QED
    BY <1>1, <2>1, <2>2, <2>3, <2>4, <2>5, <2>6, <2>7, <2>8, <2>9
    DEF ClientEvent
<1>2. CASE Notification
  <2>1. CASE \E o \in [Outputs -> BOOLEAN] : StatusReport(o)
    BY <2>1, TimingAssumption DEF StatusReport, ValidFrame, Ready
  <2>2. CASE \E s \in [Fields -> Values] : SettingsReport(s)
    BY <2>2, TimingAssumption DEF SettingsReport, ValidFrame, Ready
  <2>3. CASE DeviceNameReport
    BY <2>3, TimingAssumption DEF DeviceNameReport, ValidFrame
  <2>4. CASE OtherReport
    BY <2>4, TimingAssumption DEF OtherReport, ValidFrame
  <2> QED
    BY <1>2, <2>1, <2>2, <2>3, <2>4 DEF Notification
<1>3. CASE Command
  <2>1. CASE \E o \in Outputs, state \in BOOLEAN : RequestOutputQueued(o, state)
    BY <2>1, TimingAssumption DEF RequestOutputQueued, WriteAccepted
  <2>2. CASE RequestOutputRefused
    BY <2>2, TimingAssumption
    DEF RequestOutputRefused, WriteRefused, NoDisconnect,
        ResetConnectionState, ResetQuery
  <2>3. CASE \E f \in Fields, v \in Values : RequestSettingUnchanged(f, v)
    BY <2>3, TimingAssumption DEF RequestSettingUnchanged
  <2>4. CASE \E f \in Fields, v \in Values : RequestSettingQueued(f, v)
    BY <2>4, TimingAssumption DEF RequestSettingQueued, WriteAccepted
  <2>5. CASE \E f \in Fields, v \in Values : RequestSettingRefused(f, v)
    BY <2>5, TimingAssumption
    DEF RequestSettingRefused, WriteRefused, NoDisconnect,
        ResetConnectionState, ResetQuery
  <2>6. CASE RequestDeviceNameQueued
    BY <2>6, TimingAssumption DEF RequestDeviceNameQueued, WriteAccepted
  <2>7. CASE RequestDeviceNameRefused
    BY <2>7, TimingAssumption
    DEF RequestDeviceNameRefused, WriteRefused, NoDisconnect,
        ResetConnectionState, ResetQuery
  <2>8. CASE ManualKeepaliveQueued
    BY <2>8, TimingAssumption DEF ManualKeepaliveQueued, WriteAccepted
  <2>9. CASE ManualKeepaliveRefused
    BY <2>9, TimingAssumption
    DEF ManualKeepaliveRefused, WriteRefused, NoDisconnect,
        ResetConnectionState, ResetQuery
  <2>10. CASE \E enabled \in BOOLEAN : SetKeepaliveEnabled(enabled)
    BY <2>10, TimingAssumption DEF SetKeepaliveEnabled
  <2>11. CASE \E interval \in SettingsIntervals : SetKeepaliveInterval(interval)
    BY <2>11, TimingAssumption DEF SetKeepaliveInterval
  <2> QED
    BY <1>3, <2>1, <2>2, <2>3, <2>4, <2>5, <2>6, <2>7, <2>8, <2>9, <2>10,
       <2>11
    DEF Command
<1>4. CASE Loop
  <2>1. CASE LoopIdle
    BY <2>1, TimingAssumption
    DEF LoopIdle, Iteration, Expire, ExpireStatus, ExpireSettings
  <2>2. CASE LoopForcedReconnect
    BY <2>2, TimingAssumption
    DEF LoopForcedReconnect, Disconnect, Iteration, Expire, ExpireStatus,
        ExpireSettings, Older
  <2>3. CASE LoopInitialKeepalive
    BY <2>3, TimingAssumption
    DEF LoopInitialKeepalive, WriteAccepted, Iteration, Expire, ExpireStatus,
        ExpireSettings
  <2>4. CASE LoopWatchdog
    BY <2>4, SendQueryClocks, TimingAssumption
    DEF LoopWatchdog, Disconnect, Iteration, Expire, ExpireStatus,
        ExpireSettings, Older
  <2>5. CASE LoopSettingsKeepalive
    BY <2>5, SendQueryClocks, TimingAssumption
    DEF LoopSettingsKeepalive, WriteAccepted, Iteration, Expire, ExpireStatus,
        ExpireSettings
  <2>6. CASE LoopStatusRequest
    BY <2>6, SendQueryClocks, TimingAssumption
    DEF LoopStatusRequest, Iteration, Expire, ExpireStatus, ExpireSettings
  <2>7. CASE LoopQueryRefused
    BY <2>7, TimingAssumption
    DEF LoopQueryRefused, Iteration, WriteRefused, NoDisconnect, Disconnect,
        ResetConnectionState, ResetQuery, Older
  <2>8. CASE LoopWriteRefused
    BY <2>8, TimingAssumption
    DEF LoopWriteRefused, Iteration, WriteRefused, Disconnect,
        ResetConnectionState, ResetQuery, Older
  <2> QED
    BY <1>4, <2>1, <2>2, <2>3, <2>4, <2>5, <2>6, <2>7, <2>8 DEF Loop
<1>5. CASE Tick
  BY <1>5, TimingAssumption DEF Tick, Older
<1>6. CASE UNCHANGED vars
  BY <1>6 DEF vars
<1> QED
  BY <1>1, <1>2, <1>3, <1>4, <1>5, <1>6 DEF Next

\* Every handler keeps data, reports and frames well typed.
LEMMA DataStep ==
  ASSUME DataType, [Next]_vars
  PROVE  DataType'
<1> USE DEF DataType, transportVars, healthVars, statusVars, settingsVars,
            configVars, reportVars
<1>1. CASE ClientEvent
  <2>1. CASE Opened
    BY <2>1 DEF Opened, NoFrame
  <2>2. CASE Closed
    BY <2>2, PublishedType
    DEF Closed, ResetConnectionState, ResetQuery, NoFrame, Reports,
        OutputReports
  <2>3. CASE ServicesFound
    BY <2>3 DEF ServicesFound, NoFrame
  <2>4. CASE ServicesUnusable
    BY <2>4, PublishedType
    DEF ServicesUnusable, FailDiscovery, NoDisconnect, ResetConnectionState,
        ResetQuery, NoFrame, OutputReports
  <2>5. CASE NotificationsRefused
    BY <2>5, PublishedType
    DEF NotificationsRefused, FailDiscovery, NoDisconnect,
        ResetConnectionState, ResetQuery, NoFrame, OutputReports
  <2>6. CASE SubscribedRequestQueued
    BY <2>6, FramesType DEF SubscribedRequestQueued, Subscribed, WriteAccepted
  <2>7. CASE SubscribedRequestRefused
    BY <2>7, PublishedType
    DEF SubscribedRequestRefused, Subscribed, ResetConnectionState, NoFrame,
        OutputReports
  <2>8. CASE WriteAcknowledged
    BY <2>8 DEF WriteAcknowledged, NoFrame
  <2>9. CASE WriteFailed
    BY <2>9, PublishedType
    DEF WriteFailed, NoDisconnect, ResetConnectionState, ResetQuery, NoFrame,
        OutputReports
  <2> QED
    BY <1>1, <2>1, <2>2, <2>3, <2>4, <2>5, <2>6, <2>7, <2>8, <2>9
    DEF ClientEvent
<1>2. CASE Notification
  <2>1. CASE \E o \in [Outputs -> BOOLEAN] : StatusReport(o)
    BY <2>1 DEF StatusReport, ValidFrame, Ready, NoFrame, OutputReports
  <2>2. CASE \E s \in [Fields -> Values] : SettingsReport(s)
    BY <2>2, PublishedType
    DEF SettingsReport, ValidFrame, Ready, NoFrame, Reports
  <2>3. CASE DeviceNameReport
    BY <2>3 DEF DeviceNameReport, ValidFrame, NoFrame
  <2>4. CASE OtherReport
    BY <2>4 DEF OtherReport, ValidFrame, NoFrame
  <2> QED
    BY <1>2, <2>1, <2>2, <2>3, <2>4 DEF Notification
<1>3. CASE Command
  <2>1. CASE \E o \in Outputs, state \in BOOLEAN : RequestOutputQueued(o, state)
    <3>1. PICK o \in Outputs, state \in BOOLEAN : RequestOutputQueued(o, state)
      BY <2>1
    <3>2. outputs' \in [Outputs -> BOOLEAN]
      BY <3>1 DEF RequestOutputQueued
    <3>3. ControlFrame(outputs') \in Frames
      BY <3>2, FramesType
    <3>4. tx' = <<ControlFrame(outputs')>>
      BY <3>1 DEF RequestOutputQueued, WriteAccepted
    <3>5. tx' \in Seq(Frames)
      BY <3>3, <3>4
    <3> QED
      BY <3>1, <3>2, <3>5 DEF RequestOutputQueued
  <2>2. CASE RequestOutputRefused
    BY <2>2, PublishedType
    DEF RequestOutputRefused, WriteRefused, NoDisconnect,
        ResetConnectionState, ResetQuery, OutputReports
  <2>3. CASE \E f \in Fields, v \in Values : RequestSettingUnchanged(f, v)
    BY <2>3, PublishedType DEF RequestSettingUnchanged, NoFrame
  <2>4. CASE \E f \in Fields, v \in Values : RequestSettingQueued(f, v)
    <3>1. PICK f \in Fields, v \in Values : RequestSettingQueued(f, v)
      BY <2>4
    <3>2. settings' \in [Fields -> Values]
      BY <3>1 DEF RequestSettingQueued
    <3>3. SettingsFrame("command", settings') \in Frames
      BY <3>2, FramesType
    <3>4. tx' = <<SettingsFrame("command", settings')>>
      BY <3>1 DEF RequestSettingQueued, WriteAccepted
    <3>5. tx' \in Seq(Frames)
      BY <3>3, <3>4
    <3> QED
      BY <3>1, <3>2, <3>5, PublishedType DEF RequestSettingQueued
  <2>5. CASE \E f \in Fields, v \in Values : RequestSettingRefused(f, v)
    BY <2>5, PublishedType
    DEF RequestSettingRefused, WriteRefused, NoDisconnect,
        ResetConnectionState, ResetQuery, OutputReports
  <2>6. CASE RequestDeviceNameQueued
    BY <2>6, FramesType DEF RequestDeviceNameQueued, WriteAccepted
  <2>7. CASE RequestDeviceNameRefused
    BY <2>7, PublishedType
    DEF RequestDeviceNameRefused, WriteRefused, NoDisconnect,
        ResetConnectionState, ResetQuery, OutputReports
  <2>8. CASE ManualKeepaliveQueued
    BY <2>8, FramesType DEF ManualKeepaliveQueued, WriteAccepted
  <2>9. CASE ManualKeepaliveRefused
    BY <2>9, PublishedType
    DEF ManualKeepaliveRefused, WriteRefused, NoDisconnect,
        ResetConnectionState, ResetQuery, OutputReports
  <2>10. CASE \E enabled \in BOOLEAN : SetKeepaliveEnabled(enabled)
    BY <2>10 DEF SetKeepaliveEnabled, NoFrame
  <2>11. CASE \E interval \in SettingsIntervals : SetKeepaliveInterval(interval)
    BY <2>11 DEF SetKeepaliveInterval, NoFrame
  <2> QED
    BY <1>3, <2>1, <2>2, <2>3, <2>4, <2>5, <2>6, <2>7, <2>8, <2>9, <2>10,
       <2>11
    DEF Command
<1>4. CASE Loop
  <2>1. CASE LoopIdle
    BY <2>1, PublishedType
    DEF LoopIdle, Iteration, Expire, ExpireStatus, ExpireSettings, NoFrame,
        OutputReports
  <2>2. CASE LoopForcedReconnect
    BY <2>2, PublishedType
    DEF LoopForcedReconnect, Disconnect, Iteration, Expire, ExpireStatus,
        ExpireSettings, NoFrame, OutputReports
  <2>3. CASE LoopInitialKeepalive
    BY <2>3, PublishedType, FramesType
    DEF LoopInitialKeepalive, WriteAccepted, Iteration, Expire, ExpireStatus,
        ExpireSettings, OutputReports
  <2>4. CASE LoopWatchdog
    BY <2>4, PublishedType, FramesType, QueryFramesType
    DEF LoopWatchdog, Disconnect, Iteration, Expire, ExpireStatus,
        ExpireSettings, OutputReports
  <2>5. CASE LoopSettingsKeepalive
    <3>1. tx' \in Seq(Frames)
      BY <2>5, FramesType, QueryFramesType
      DEF LoopSettingsKeepalive, WriteAccepted
    <3> QED
      BY <2>5, <3>1, PublishedType
      DEF LoopSettingsKeepalive, Iteration, Expire, ExpireStatus,
          ExpireSettings, OutputReports
  <2>6. CASE LoopStatusRequest
    BY <2>6, PublishedType, FramesType, QueryFramesType
    DEF LoopStatusRequest, Iteration, Expire, ExpireStatus, ExpireSettings,
        OutputReports
  <2>7. CASE LoopQueryRefused
    BY <2>7, PublishedType
    DEF LoopQueryRefused, Iteration, WriteRefused, NoDisconnect, Disconnect,
        ResetConnectionState, ResetQuery, OutputReports
  <2>8. CASE LoopWriteRefused
    <3>1. tx' = <<>> \/ tx' = QueryFrames
      BY <2>8 DEF LoopWriteRefused, WriteRefused
    <3>2. link' = link
      BY <2>8 DEF LoopWriteRefused, WriteRefused
    <3>3. <<>> \in Seq(Frames)
      OBVIOUS
    <3>4. tx' \in Seq(Frames) /\ link' = link
      BY <3>1, <3>2, <3>3, QueryFramesType
    <3> QED
      BY <2>8, <3>4, PublishedType
      DEF LoopWriteRefused, Iteration, Disconnect, ResetConnectionState,
          OutputReports
  <2> QED
    BY <1>4, <2>1, <2>2, <2>3, <2>4, <2>5, <2>6, <2>7, <2>8 DEF Loop
<1>5. CASE Tick
  BY <1>5 DEF Tick, NoFrame
<1>6. CASE UNCHANGED vars
  BY <1>6 DEF vars
<1> QED
  BY <1>1, <1>2, <1>3, <1>4, <1>5, <1>6 DEF Next

\* The initial states are well typed.
LEMMA TypeInit == Init => FlagsType /\ ClocksInv /\ DataType
<1> SUFFICES ASSUME Init PROVE FlagsType /\ ClocksInv /\ DataType
  OBVIOUS
<1>1. FlagsType
  BY DEF Init, FlagsType, SessionFlagsType, ReportFlagsType
<1>2. ClocksInv
  BY TimingAssumption DEF Init, ClocksInv, ClocksType, Never
<1>3. DataType
  BY DataAssumption, PublishedType
  DEF Init, DataType, Reports, OutputReports
<1> QED
  BY <1>1, <1>2, <1>3

TypeInv == FlagsType /\ ClocksInv /\ DataType

\* The strengthened type invariant holds in every reachable state.
LEMMA TypeInvariant == Spec => []TypeInv
<1>1. Init => TypeInv
  BY TypeInit DEF TypeInv
<1>2. TypeInv /\ [Next]_vars => TypeInv'
  BY FlagsStep, ClocksStep, DataStep DEF TypeInv
<1> QED
  BY <1>1, <1>2, PTL DEF Spec

\* Every reachable state is well typed: no age runs past the timeout it is
\* compared with and no device-name query exceeds its attempts.
THEOREM TypeCorrect == Spec => []TypeOK
<1>1. TypeInv => TypeOK
  BY DEF TypeInv, TypeOK, ClocksInv
<1> QED
  BY <1>1, TypeInvariant, PTL

-----------------------------------------------------------------------------
(* Read-modify-write.  A frame carries the state its handler left behind,  *)
(* and that state is what the station reported but for what a command has  *)
(* touched since.  Neither half is inductive alone without the snapshot    *)
(* flag: the values outlive a reset, only the flag says whose they are.    *)

\* Every handler that changes a snapshot is a report, or records what it
\* touched; every reset lowers the flags before the next session can report.
LEMMA SnapshotsStep ==
  ASSUME DataType, SnapshotsAreReported, [Next]_vars
  PROVE  SnapshotsAreReported'
<1> USE DEF SnapshotsAreReported, statusVars, settingsVars, reportVars
<1>1. CASE ClientEvent
  <2>1. CASE Opened
    BY <2>1 DEF Opened
  <2>2. CASE Closed
    BY <2>2 DEF Closed, ResetConnectionState
  <2>3. CASE ServicesFound
    BY <2>3 DEF ServicesFound
  <2>4. CASE ServicesUnusable
    BY <2>4 DEF ServicesUnusable, FailDiscovery, ResetConnectionState
  <2>5. CASE NotificationsRefused
    BY <2>5 DEF NotificationsRefused, FailDiscovery, ResetConnectionState
  <2>6. CASE SubscribedRequestQueued
    BY <2>6 DEF SubscribedRequestQueued, Subscribed
  <2>7. CASE SubscribedRequestRefused
    BY <2>7 DEF SubscribedRequestRefused, Subscribed, ResetConnectionState
  <2>8. CASE WriteAcknowledged
    BY <2>8 DEF WriteAcknowledged
  <2>9. CASE WriteFailed
    BY <2>9 DEF WriteFailed, ResetConnectionState
  <2> QED
    BY <1>1, <2>1, <2>2, <2>3, <2>4, <2>5, <2>6, <2>7, <2>8, <2>9
    DEF ClientEvent
<1>2. CASE Notification
  <2>1. CASE \E o \in [Outputs -> BOOLEAN] : StatusReport(o)
    BY <2>1, DataAssumption DEF StatusReport, ValidFrame, Ready, DataType
  <2>2. CASE \E s \in [Fields -> Values] : SettingsReport(s)
    BY <2>2, DataAssumption DEF SettingsReport, ValidFrame, Ready, DataType
  <2>3. CASE DeviceNameReport
    BY <2>3 DEF DeviceNameReport, ValidFrame
  <2>4. CASE OtherReport
    BY <2>4 DEF OtherReport, ValidFrame
  <2> QED
    BY <1>2, <2>1, <2>2, <2>3, <2>4 DEF Notification
<1>3. CASE Command
  <2>1. CASE \E o \in Outputs, state \in BOOLEAN : RequestOutputQueued(o, state)
    BY <2>1 DEF RequestOutputQueued, DataType
  <2>2. CASE RequestOutputRefused
    BY <2>2 DEF RequestOutputRefused, WriteRefused, ResetConnectionState
  <2>3. CASE \E f \in Fields, v \in Values : RequestSettingUnchanged(f, v)
    BY <2>3 DEF RequestSettingUnchanged
  <2>4. CASE \E f \in Fields, v \in Values : RequestSettingQueued(f, v)
    BY <2>4 DEF RequestSettingQueued, DataType
  <2>5. CASE \E f \in Fields, v \in Values : RequestSettingRefused(f, v)
    BY <2>5 DEF RequestSettingRefused, WriteRefused, ResetConnectionState
  <2>6. CASE RequestDeviceNameQueued
    BY <2>6 DEF RequestDeviceNameQueued
  <2>7. CASE RequestDeviceNameRefused
    BY <2>7 DEF RequestDeviceNameRefused, WriteRefused, ResetConnectionState
  <2>8. CASE ManualKeepaliveQueued
    BY <2>8 DEF ManualKeepaliveQueued
  <2>9. CASE ManualKeepaliveRefused
    BY <2>9 DEF ManualKeepaliveRefused, WriteRefused, ResetConnectionState
  <2>10. CASE \E enabled \in BOOLEAN : SetKeepaliveEnabled(enabled)
    BY <2>10 DEF SetKeepaliveEnabled
  <2>11. CASE \E interval \in SettingsIntervals : SetKeepaliveInterval(interval)
    BY <2>11 DEF SetKeepaliveInterval
  <2> QED
    BY <1>3, <2>1, <2>2, <2>3, <2>4, <2>5, <2>6, <2>7, <2>8, <2>9, <2>10,
       <2>11
    DEF Command
<1>4. CASE Loop
  <2>1. CASE LoopIdle
    BY <2>1 DEF LoopIdle, Iteration, Expire, ExpireStatus, ExpireSettings
  <2>2. CASE LoopForcedReconnect
    BY <2>2
    DEF LoopForcedReconnect, Disconnect, Iteration, Expire, ExpireStatus,
        ExpireSettings
  <2>3. CASE LoopInitialKeepalive
    BY <2>3
    DEF LoopInitialKeepalive, Iteration, Expire, ExpireStatus, ExpireSettings
  <2>4. CASE LoopWatchdog
    BY <2>4
    DEF LoopWatchdog, Disconnect, Iteration, Expire, ExpireStatus,
        ExpireSettings
  <2>5. CASE LoopSettingsKeepalive
    BY <2>5
    DEF LoopSettingsKeepalive, Iteration, Expire, ExpireStatus, ExpireSettings
  <2>6. CASE LoopStatusRequest
    BY <2>6
    DEF LoopStatusRequest, Iteration, Expire, ExpireStatus, ExpireSettings
  <2>7. CASE LoopQueryRefused
    BY <2>7
    DEF LoopQueryRefused, Iteration, WriteRefused, Disconnect,
        ResetConnectionState
  <2>8. CASE LoopWriteRefused
    BY <2>8
    DEF LoopWriteRefused, Iteration, WriteRefused, Disconnect,
        ResetConnectionState
  <2> QED
    BY <1>4, <2>1, <2>2, <2>3, <2>4, <2>5, <2>6, <2>7, <2>8 DEF Loop
<1>5. CASE Tick
  BY <1>5 DEF Tick
<1>6. CASE UNCHANGED vars
  BY <1>6 DEF vars
<1> QED
  BY <1>1, <1>2, <1>3, <1>4, <1>5, <1>6 DEF Next
=============================================================================
