-------------------- MODULE AllpowersBLESession_proofs --------------------
(* Proofs that no session is lost, for every value of the constants.       *)
(*                                                                         *)
(* SessionInv ties the flags of the controller to how far the GATT session  *)
(* has come: the health is active only while the handles are there, and a  *)
(* write or a disconnect request is outstanding only while there is a      *)
(* session it belongs to.                                                  *)
EXTENDS AllpowersBLEFrames_proofs

\* Every handler keeps the flags in step with how far the session has come.
LEMMA SessionStep ==
  ASSUME DataType, SessionInv, [Next]_vars
  PROVE  SessionInv'
<1> USE DEF SessionInv, DataType, transportVars, healthVars
<1>1. CASE ClientEvent
  <2>1. CASE Opened
    BY <2>1
    DEF Opened
  <2>2. CASE Closed
    BY <2>2
    DEF Closed, ResetConnectionState
  <2>3. CASE ServicesFound
    BY <2>3
    DEF ServicesFound
  <2>4. CASE ServicesUnusable
    BY <2>4
    DEF ServicesUnusable, FailDiscovery, NoDisconnect,
        ResetConnectionState
  <2>5. CASE NotificationsRefused
    BY <2>5
    DEF NotificationsRefused, FailDiscovery, NoDisconnect,
        ResetConnectionState
  <2>6. CASE SubscribedRequestQueued
    BY <2>6
    DEF SubscribedRequestQueued, Subscribed, WriteAccepted
  <2>7. CASE SubscribedRequestRefused
    BY <2>7
    DEF SubscribedRequestRefused, Subscribed, ResetConnectionState
  <2>8. CASE WriteAcknowledged
    BY <2>8
    DEF WriteAcknowledged
  <2>9. CASE WriteFailed
    BY <2>9
    DEF WriteFailed, NoDisconnect, ResetConnectionState
  <2> QED
    BY <1>1, <2>1, <2>2, <2>3, <2>4, <2>5, <2>6, <2>7, <2>8, <2>9 DEF
       ClientEvent
<1>2. CASE Notification
  <2>1. CASE \E o \in [Outputs -> BOOLEAN] : StatusReport(o)
    BY <2>1
    DEF StatusReport, ValidFrame
  <2>2. CASE \E s \in [Fields -> Values] : SettingsReport(s)
    BY <2>2
    DEF SettingsReport, ValidFrame
  <2>3. CASE DeviceNameReport
    BY <2>3
    DEF DeviceNameReport, ValidFrame
  <2>4. CASE OtherReport
    BY <2>4
    DEF OtherReport, ValidFrame
  <2> QED
    BY <1>2, <2>1, <2>2, <2>3, <2>4 DEF Notification
<1>3. CASE Command
  <2>1. CASE \E o \in Outputs, state \in BOOLEAN : RequestOutputQueued(o, state)
    BY <2>1
    DEF RequestOutputQueued, WriteAccepted, ControlsAvailable, Ready
  <2>2. CASE RequestOutputRefused
    BY <2>2
    DEF RequestOutputRefused, ControlsAvailable, Ready, WriteRefused,
        NoDisconnect, ResetConnectionState
  <2>3. CASE \E f \in Fields, v \in Values : RequestSettingUnchanged(f, v)
    BY <2>3
    DEF RequestSettingUnchanged
  <2>4. CASE \E f \in Fields, v \in Values : RequestSettingQueued(f, v)
    BY <2>4
    DEF RequestSettingQueued, WriteAccepted, SettingsAvailable, Ready
  <2>5. CASE \E f \in Fields, v \in Values : RequestSettingRefused(f, v)
    BY <2>5
    DEF RequestSettingRefused, SettingsAvailable, Ready, WriteRefused,
        NoDisconnect, ResetConnectionState
  <2>6. CASE RequestDeviceNameQueued
    BY <2>6
    DEF RequestDeviceNameQueued, WriteAccepted, Ready
  <2>7. CASE RequestDeviceNameRefused
    BY <2>7
    DEF RequestDeviceNameRefused, Ready, WriteRefused, NoDisconnect,
        ResetConnectionState
  <2>8. CASE ManualKeepaliveQueued
    BY <2>8
    DEF ManualKeepaliveQueued, WriteAccepted, ManualKeepalive, Ready
  <2>9. CASE ManualKeepaliveRefused
    BY <2>9
    DEF ManualKeepaliveRefused, ManualKeepalive, Ready, WriteRefused,
        NoDisconnect, ResetConnectionState
  <2>10. CASE \E enabled \in BOOLEAN : SetKeepaliveEnabled(enabled)
    BY <2>10
    DEF SetKeepaliveEnabled
  <2>11. CASE \E interval \in SettingsIntervals : SetKeepaliveInterval(interval)
    BY <2>11
    DEF SetKeepaliveInterval
  <2> QED
    BY <1>3, <2>1, <2>2, <2>3, <2>4, <2>5, <2>6, <2>7, <2>8, <2>9, <2>10,
       <2>11 DEF Command
<1>4. CASE Loop
  <2>1. CASE LoopIdle
    BY <2>1
    DEF LoopIdle, Iteration
  <2>2. CASE LoopForcedReconnect
    BY <2>2
    DEF LoopForcedReconnect, Iteration, Disconnect
  <2>3. CASE LoopInitialKeepalive
    BY <2>3
    DEF LoopInitialKeepalive, Iteration, WriteAccepted, Serving, Healthy
  <2>4. CASE LoopWatchdog
    BY <2>4
    DEF LoopWatchdog, Iteration, Serving, Healthy, Disconnect
  <2>5. CASE LoopSettingsKeepalive
    BY <2>5
    DEF LoopSettingsKeepalive, Iteration, WriteAccepted, Serving,
        Healthy
  <2>6. CASE LoopStatusRequest
    BY <2>6
    DEF LoopStatusRequest, Iteration, Serving, Healthy
  <2>7. CASE LoopQueryRefused
    BY <2>7
    DEF LoopQueryRefused, Iteration, WriteRefused, NoDisconnect,
        ResetConnectionState, Serving, Healthy, Disconnect
  <2>8. CASE LoopWriteRefused
    BY <2>8
    DEF LoopWriteRefused, Iteration, WriteRefused, ResetConnectionState,
        Serving, Healthy, Disconnect
  <2> QED
    BY <1>4, <2>1, <2>2, <2>3, <2>4, <2>5, <2>6, <2>7, <2>8 DEF Loop
<1>5. CASE Tick
  BY <1>5 DEF Tick
<1>6. CASE UNCHANGED vars
  BY <1>6 DEF vars
<1> QED
  BY <1>1, <1>2, <1>3, <1>4, <1>5, <1>6 DEF Next

\* Every handler that ends a session early schedules the reconnect itself.
LEMMA OrphanStep ==
  ASSUME TypeInv, SessionInv, NoOrphanSession, [Next]_vars
  PROVE  NoOrphanSession'
<1> USE DEF NoOrphanSession, SessionInv, transportVars, healthVars
<1>0. disconnects \in 0..2
  BY DEF TypeInv, ClocksInv, ClocksType
<1>1. CASE ClientEvent
  <2>1. CASE Opened
    BY <2>1
    DEF Opened
  <2>2. CASE Closed
    BY <2>2
    DEF Closed, ResetConnectionState
  <2>3. CASE ServicesFound
    BY <2>3
    DEF ServicesFound
  <2>4. CASE ServicesUnusable
    BY <2>4
    DEF ServicesUnusable, FailDiscovery, NoDisconnect,
        ResetConnectionState
  <2>5. CASE NotificationsRefused
    BY <2>5
    DEF NotificationsRefused, FailDiscovery, NoDisconnect,
        ResetConnectionState
  <2>6. CASE SubscribedRequestQueued
    BY <2>6
    DEF SubscribedRequestQueued, Subscribed, WriteAccepted
  <2>7. CASE SubscribedRequestRefused
    BY <2>7
    DEF SubscribedRequestRefused, Subscribed, ResetConnectionState
  <2>8. CASE WriteAcknowledged
    BY <2>8
    DEF WriteAcknowledged
  <2>9. CASE WriteFailed
    BY <2>9
    DEF WriteFailed, NoDisconnect, ResetConnectionState
  <2> QED
    BY <1>1, <2>1, <2>2, <2>3, <2>4, <2>5, <2>6, <2>7, <2>8, <2>9 DEF
       ClientEvent
<1>2. CASE Notification
  <2>1. CASE \E o \in [Outputs -> BOOLEAN] : StatusReport(o)
    BY <2>1
    DEF StatusReport, ValidFrame
  <2>2. CASE \E s \in [Fields -> Values] : SettingsReport(s)
    BY <2>2
    DEF SettingsReport, ValidFrame
  <2>3. CASE DeviceNameReport
    BY <2>3
    DEF DeviceNameReport, ValidFrame
  <2>4. CASE OtherReport
    BY <2>4
    DEF OtherReport, ValidFrame
  <2> QED
    BY <1>2, <2>1, <2>2, <2>3, <2>4 DEF Notification
<1>3. CASE Command
  <2>1. CASE \E o \in Outputs, state \in BOOLEAN : RequestOutputQueued(o, state)
    BY <2>1
    DEF RequestOutputQueued, WriteAccepted, ControlsAvailable, Ready
  <2>2. CASE RequestOutputRefused
    BY <2>2
    DEF RequestOutputRefused, ControlsAvailable, Ready, WriteRefused,
        NoDisconnect, ResetConnectionState
  <2>3. CASE \E f \in Fields, v \in Values : RequestSettingUnchanged(f, v)
    BY <2>3
    DEF RequestSettingUnchanged
  <2>4. CASE \E f \in Fields, v \in Values : RequestSettingQueued(f, v)
    BY <2>4
    DEF RequestSettingQueued, WriteAccepted, SettingsAvailable, Ready
  <2>5. CASE \E f \in Fields, v \in Values : RequestSettingRefused(f, v)
    BY <2>5
    DEF RequestSettingRefused, SettingsAvailable, Ready, WriteRefused,
        NoDisconnect, ResetConnectionState
  <2>6. CASE RequestDeviceNameQueued
    BY <2>6
    DEF RequestDeviceNameQueued, WriteAccepted, Ready
  <2>7. CASE RequestDeviceNameRefused
    BY <2>7
    DEF RequestDeviceNameRefused, Ready, WriteRefused, NoDisconnect,
        ResetConnectionState
  <2>8. CASE ManualKeepaliveQueued
    BY <2>8
    DEF ManualKeepaliveQueued, WriteAccepted, ManualKeepalive, Ready
  <2>9. CASE ManualKeepaliveRefused
    BY <2>9
    DEF ManualKeepaliveRefused, ManualKeepalive, Ready, WriteRefused,
        NoDisconnect, ResetConnectionState
  <2>10. CASE \E enabled \in BOOLEAN : SetKeepaliveEnabled(enabled)
    BY <2>10
    DEF SetKeepaliveEnabled
  <2>11. CASE \E interval \in SettingsIntervals : SetKeepaliveInterval(interval)
    BY <2>11
    DEF SetKeepaliveInterval
  <2> QED
    BY <1>3, <2>1, <2>2, <2>3, <2>4, <2>5, <2>6, <2>7, <2>8, <2>9, <2>10,
       <2>11 DEF Command
<1>4. CASE Loop
  <2>1. CASE LoopIdle
    BY <2>1
    DEF LoopIdle, Iteration
  <2>2. CASE LoopForcedReconnect
    BY <2>2, <1>0
    DEF LoopForcedReconnect, Iteration, Disconnect, Older
  <2>3. CASE LoopInitialKeepalive
    BY <2>3
    DEF LoopInitialKeepalive, Iteration, WriteAccepted, Serving, Healthy
  <2>4. CASE LoopWatchdog
    BY <2>4, <1>0
    DEF LoopWatchdog, Iteration, Serving, Healthy, Disconnect, Older
  <2>5. CASE LoopSettingsKeepalive
    BY <2>5
    DEF LoopSettingsKeepalive, Iteration, WriteAccepted, Serving,
        Healthy
  <2>6. CASE LoopStatusRequest
    BY <2>6
    DEF LoopStatusRequest, Iteration, Serving, Healthy
  <2>7. CASE LoopQueryRefused
    BY <2>7, <1>0
    DEF LoopQueryRefused, Iteration, WriteRefused, NoDisconnect,
        ResetConnectionState, Serving, Healthy, Disconnect, Older
  <2>8. CASE LoopWriteRefused
    BY <2>8, <1>0
    DEF LoopWriteRefused, Iteration, WriteRefused, ResetConnectionState,
        Serving, Healthy, Disconnect, Older
  <2> QED
    BY <1>4, <2>1, <2>2, <2>3, <2>4, <2>5, <2>6, <2>7, <2>8 DEF Loop
<1>5. CASE Tick
  BY <1>5 DEF Tick
<1>6. CASE UNCHANGED vars
  BY <1>6 DEF vars
<1> QED
  BY <1>1, <1>2, <1>3, <1>4, <1>5, <1>6 DEF Next

\* The inductive invariant of the two theorems.
SessionsInv == TypeInv /\ SessionInv /\ NoOrphanSession

\* Both invariants of sessions hold in every reachable state.
LEMMA SessionsInvariant == Spec => []SessionsInv
<1>1. Init => SessionsInv
  <2> SUFFICES ASSUME Init PROVE SessionsInv
    OBVIOUS
  <2>1. TypeInv
    BY TypeInit DEF TypeInv
  <2>2. SessionInv /\ NoOrphanSession
    BY DEF Init, SessionInv, NoOrphanSession
  <2> QED
    BY <2>1, <2>2 DEF SessionsInv
<1>2. SessionsInv /\ [Next]_vars => SessionsInv'
  BY FlagsStep, ClocksStep, DataStep, SessionStep, OrphanStep
  DEF SessionsInv, TypeInv
<1> QED
  BY <1>1, <1>2, PTL DEF Spec

\* A failed discovery, registration or write never leaves a link that nobody
\* will recycle: whoever loses the handles or the health monitoring has a
\* reconnect scheduled, and a requested one was told to the client.
THEOREM SessionsAreNotForgotten == Spec => []NoOrphanSession
<1>1. SessionsInv => NoOrphanSession
  BY DEF SessionsInv
<1> QED
  BY <1>1, SessionsInvariant, PTL

\* While its health is active a session has the client's state, both handles
\* and no pending reconnect: loop() never finds the transport unable to write.
THEOREM ServedSessionsCanWrite == Spec => []ServingCanWrite
<1>1. SessionsInv => ServingCanWrite
  BY DEF SessionsInv, SessionInv, ServingCanWrite, Ready
<1> QED
  BY <1>1, SessionsInvariant, PTL
-----------------------------------------------------------------------------
(* BLE Connected.                                                          *)

\* A reset that raises one of the two reconnect flags leaves the sensor honest.
LEMMA ConnectedReset ==
  ASSUME NEW pending, NEW requested, NEW shown,
         ResetConnectionState(pending, requested, shown),
         pending \/ requested \/ link' = "closed"
  PROVE  ConnectedIsHonest'
  BY DEF ResetConnectionState, ConnectedIsHonest

\* A handler that touches neither the sensor nor the link may only give up.
LEMMA ConnectedKept ==
  ASSUME ConnectedIsHonest,
         connected' = connected, health_active' = health_active,
         (link # "closed")' = (link # "closed"),
         (reconnect_pending \/ disconnect_requested) =>
           (reconnect_pending' \/ disconnect_requested')
  PROVE  ConnectedIsHonest'
  BY DEF ConnectedIsHonest

\* The sensor is switched off only by a handler that ends the session.
LEMMA ConnectedStep ==
  ASSUME SessionInv, ConnectedIsHonest, [Next]_vars
  PROVE  ConnectedIsHonest'
<1> USE DEF transportVars, healthVars, statusVars
<1>1. CASE ClientEvent
  <2>1. CASE Opened
    BY <2>1 DEF Opened, ConnectedIsHonest, SessionInv
  <2>2. CASE Closed
    BY <2>2, ConnectedReset DEF Closed
  <2>3. CASE SubscribedRequestQueued
    BY <2>3
    DEF SubscribedRequestQueued, Subscribed, ConnectedIsHonest, SessionInv
  <2>4. CASE SubscribedRequestRefused
    BY <2>4, ConnectedReset DEF SubscribedRequestRefused
  <2>5. CASE ServicesUnusable \/ NotificationsRefused \/ WriteFailed
    BY <2>5, ConnectedReset
    DEF ServicesUnusable, NotificationsRefused, FailDiscovery, WriteFailed
  <2>6. CASE ServicesFound \/ WriteAcknowledged
    BY <2>6, ConnectedKept DEF ServicesFound, WriteAcknowledged
  <2> QED
    BY <1>1, <2>1, <2>2, <2>3, <2>4, <2>5, <2>6 DEF ClientEvent
<1>2. CASE Notification
  BY <1>2, ConnectedKept
  DEF Notification, StatusReport, SettingsReport, DeviceNameReport,
      OtherReport, ValidFrame
<1>3. CASE Command
  <2>1. CASE \/ RequestOutputRefused \/ RequestDeviceNameRefused
             \/ ManualKeepaliveRefused
             \/ \E f \in Fields, v \in Values : RequestSettingRefused(f, v)
    BY <2>1, ConnectedReset
    DEF RequestOutputRefused, RequestDeviceNameRefused, ManualKeepaliveRefused,
        RequestSettingRefused
  <2>2. CASE \/ \E o \in Outputs, state \in BOOLEAN :
                  RequestOutputQueued(o, state)
             \/ \E f \in Fields, v \in Values :
                  RequestSettingUnchanged(f, v) \/ RequestSettingQueued(f, v)
             \/ RequestDeviceNameQueued \/ ManualKeepaliveQueued
             \/ \E enabled \in BOOLEAN : SetKeepaliveEnabled(enabled)
             \/ \E interval \in SettingsIntervals :
                  SetKeepaliveInterval(interval)
    BY <2>2, ConnectedKept
    DEF RequestOutputQueued, RequestSettingUnchanged, RequestSettingQueued,
        RequestDeviceNameQueued, ManualKeepaliveQueued, SetKeepaliveEnabled,
        SetKeepaliveInterval
  <2> QED
    BY <1>3, <2>1, <2>2 DEF Command
<1>4. CASE Loop
  <2>1. CASE LoopQueryRefused \/ LoopWriteRefused
    BY <2>1, ConnectedReset DEF LoopQueryRefused, LoopWriteRefused
  <2>2. CASE ~(LoopQueryRefused \/ LoopWriteRefused)
    BY <1>4, <2>2, ConnectedKept
    DEF Loop, LoopIdle, LoopForcedReconnect, LoopInitialKeepalive,
        LoopWatchdog, LoopSettingsKeepalive, LoopStatusRequest, Iteration,
        Expire, ExpireStatus
  <2> QED
    BY <2>1, <2>2
<1>5. CASE Tick
  BY <1>5, ConnectedKept DEF Tick
<1>6. CASE UNCHANGED vars
  BY <1>6, ConnectedKept DEF vars
<1> QED
  BY <1>1, <1>2, <1>3, <1>4, <1>5, <1>6 DEF Next

\* BLE Connected never shows a link there is not, always shows a served session,
\* and is off on an open link only while that link is being ended.
THEOREM ConnectedIsTold == Spec => []ConnectedIsHonest
<1>1. Init => ConnectedIsHonest
  BY DEF Init, ConnectedIsHonest
<1>2. SessionsInv /\ ConnectedIsHonest /\ [Next]_vars => ConnectedIsHonest'
  BY ConnectedStep DEF SessionsInv
<1> QED
  BY <1>1, <1>2, SessionsInvariant, PTL DEF Spec

-----------------------------------------------------------------------------
(* The watchdog.                                                           *)

\* Without the health monitoring, or with the disconnect requested, the
\* watchdog has nothing to watch.
LEMMA WatchdogIdle ==
  ASSUME initial_pending' => keepalive_enabled', health_active' = FALSE
  PROVE  WatchdogInv'
  BY DEF WatchdogInv

\* A handler that leaves the clocks alone and makes no initial keepalive due.
LEMMA WatchdogKept ==
  ASSUME WatchdogInv,
         initial_pending' => keepalive_enabled' /\ initial_pending,
         have_snapshot' = have_snapshot,
         UNCHANGED <<health_active, disconnect_requested, protocol_age,
                     since_frame, looped>>
  PROVE  WatchdogInv'
  BY DEF WatchdogInv, InitialDue

\* A valid frame sets both clocks back.
LEMMA WatchdogFed ==
  ASSUME WatchdogInv, protocol_age' = 0, since_frame' = 0,
         initial_pending' => keepalive_enabled'
  PROVE  WatchdogInv'
  BY TimingAssumption DEF WatchdogInv

\* A session in which loop() serves is watched.
LEMMA WatchdogServes ==
  ASSUME ClocksType, WatchdogInv, looped' = TRUE, ~InitialDue',
         initial_pending' => keepalive_enabled',
         UNCHANGED <<health_active, protocol_age, since_frame>>,
         health_active' /\ ~disconnect_requested' =>
           protocol_age < WatchdogTimeout
  PROVE  WatchdogInv'
  BY DEF WatchdogInv

\* The two clocks advance together, at most to the timeout.
LEMMA WatchdogTick ==
  ASSUME ClocksType, SessionInv, WatchdogInv, Tick
  PROVE  WatchdogInv'
<1>1. /\ looped /\ looped' = FALSE
      /\ UNCHANGED <<initial_pending, keepalive_enabled, have_snapshot,
                     health_active, disconnect_requested, link>>
  BY DEF Tick, transportVars, healthVars, configVars
<1>2. protocol_age \in Nat /\ WatchdogTimeout \in Nat
  BY TimingAssumption DEF ClocksType
<1>3. ASSUME health_active
      PROVE  since_frame' = protocol_age'
  <2>1. link = "subscribed" /\ since_frame = protocol_age
    BY <1>3 DEF SessionInv, WatchdogInv
  <2> QED
    BY <1>3, <2>1 DEF Tick
<1>4. ASSUME health_active, ~disconnect_requested, InitialDue'
      PROVE  protocol_age' <= 1
  <2>1. protocol_age = 0
    BY <1>1, <1>4 DEF WatchdogInv, InitialDue
  <2> QED
    BY <1>2, <1>4, <2>1 DEF Tick, Older
<1> QED
  BY <1>1, <1>3, <1>4 DEF WatchdogInv

\* In loop() either the initial keepalive goes out, right after a report, or the
\* watchdog is looked at.
LEMMA WatchdogLoop ==
  ASSUME TypeInv, SessionInv, WatchdogInv, Loop
  PROVE  WatchdogInv'
<1> USE DEF healthVars, configVars, transportVars, reportVars
<1>1. CASE LoopQueryRefused \/ LoopWriteRefused
  BY <1>1, WatchdogIdle
  DEF LoopQueryRefused, LoopWriteRefused, ResetConnectionState
<1>2. CASE ~(LoopQueryRefused \/ LoopWriteRefused)
  <2>1. /\ looped' = TRUE
        /\ initial_pending' => initial_pending
        /\ UNCHANGED <<keepalive_enabled, have_snapshot, health_active,
                       protocol_age, since_frame>>
    BY <1>2
    DEF Loop, LoopIdle, LoopForcedReconnect, LoopInitialKeepalive,
        LoopWatchdog, LoopSettingsKeepalive, LoopStatusRequest, Iteration,
        Expire, ExpireSettings, timerVars
  <2>2. initial_pending' => keepalive_enabled'
    BY <2>1 DEF WatchdogInv
  <2>3. ClocksType /\ protocol_age \in Nat /\ WatchdogTimeout \in Nat
    BY TimingAssumption DEF TypeInv, ClocksInv, ClocksType
  <2>4. CASE health_active' /\ ~disconnect_requested'
    <3>1. CASE LoopInitialKeepalive
      <4>1. protocol_age <= 1 /\ ~InitialDue'
        BY <3>1, <2>1, <2>4
        DEF LoopInitialKeepalive, Serving, Healthy, WatchdogInv, InitialDue
      <4>2. protocol_age < WatchdogTimeout
        BY <4>1, <2>3, TimingAssumption
      <4> QED
        BY <4>1, <4>2, <2>1, <2>2, <2>3, WatchdogServes
    <3>2. CASE LoopSettingsKeepalive \/ LoopStatusRequest
      <4>1. ~InitialDue /\ ~WatchdogDue /\ UNCHANGED initial_pending
        BY <3>2 DEF LoopSettingsKeepalive, LoopStatusRequest
      <4>2. ~InitialDue'
        BY <4>1, <2>1 DEF InitialDue
      <4>3. protocol_age < WatchdogTimeout
        BY <4>1, <2>3 DEF WatchdogDue
      <4> QED
        BY <4>2, <4>3, <2>1, <2>2, <2>3, WatchdogServes
    <3>3. CASE LoopIdle \/ LoopForcedReconnect \/ LoopWatchdog
      <4>1. ~disconnect_requested' => LoopIdle /\ ~disconnect_requested
        BY <3>3 DEF LoopIdle, LoopForcedReconnect, LoopWatchdog
      <4>2. ~Healthy /\ health_active
        BY <4>1, <2>1, <2>4 DEF LoopIdle
      <4> QED
        BY <4>1, <4>2, <2>4 DEF Healthy, SessionInv
    <3> QED
      BY <1>2, <3>1, <3>2, <3>3 DEF Loop
  <2>5. CASE ~(health_active' /\ ~disconnect_requested')
    BY <2>1, <2>2, <2>5 DEF WatchdogInv
  <2> QED
    BY <2>4, <2>5
<1> QED
  BY <1>1, <1>2

\* Only a valid frame sets the watchdog back.
LEMMA WatchdogStep ==
  ASSUME TypeInv, SessionInv, WatchdogInv, [Next]_vars
  PROVE  WatchdogInv'
<1> USE DEF transportVars, healthVars, configVars, settingsVars, reportVars
<1>1. CASE ClientEvent
  <2>1. CASE SubscribedRequestQueued
    BY <2>1, WatchdogFed DEF SubscribedRequestQueued, Subscribed
  <2>2. CASE \/ Closed \/ ServicesUnusable \/ NotificationsRefused
             \/ SubscribedRequestRefused \/ WriteFailed
    BY <2>2, WatchdogIdle
    DEF Closed, ServicesUnusable, NotificationsRefused, FailDiscovery,
        SubscribedRequestRefused, WriteFailed, ResetConnectionState
  <2>3. CASE Opened \/ ServicesFound \/ WriteAcknowledged
    <3>1. initial_pending' => keepalive_enabled' /\ initial_pending
      BY <2>3 DEF Opened, ServicesFound, WriteAcknowledged, WatchdogInv
    <3>2. UNCHANGED <<have_snapshot, health_active, disconnect_requested,
                      protocol_age, since_frame, looped>>
      BY <2>3 DEF Opened, ServicesFound, WriteAcknowledged, timerVars
    <3> QED
      BY <3>1, <3>2, WatchdogKept
  <2> QED
    BY <1>1, <2>1, <2>2, <2>3 DEF ClientEvent
<1>2. CASE Notification
  <2>1. ValidFrame
    BY <1>2
    DEF Notification, StatusReport, SettingsReport, DeviceNameReport,
        OtherReport
  <2> QED
    BY <2>1, WatchdogFed DEF ValidFrame, WatchdogInv
<1>3. CASE Command
  <2>1. CASE \/ RequestOutputRefused \/ RequestDeviceNameRefused
             \/ ManualKeepaliveRefused
             \/ \E f \in Fields, v \in Values : RequestSettingRefused(f, v)
    BY <2>1, WatchdogIdle
    DEF RequestOutputRefused, RequestDeviceNameRefused, ManualKeepaliveRefused,
        RequestSettingRefused, ResetConnectionState
  <2>2. CASE \/ \E o \in Outputs, state \in BOOLEAN :
                  RequestOutputQueued(o, state)
             \/ \E f \in Fields, v \in Values :
                  RequestSettingUnchanged(f, v) \/ RequestSettingQueued(f, v)
             \/ RequestDeviceNameQueued \/ ManualKeepaliveQueued
             \/ \E enabled \in BOOLEAN : SetKeepaliveEnabled(enabled)
             \/ \E interval \in SettingsIntervals :
                  SetKeepaliveInterval(interval)
    <3>1. initial_pending' => keepalive_enabled' /\ initial_pending
      BY <2>2
      DEF RequestOutputQueued, RequestSettingUnchanged, RequestSettingQueued,
          RequestDeviceNameQueued, ManualKeepaliveQueued, SetKeepaliveEnabled,
          SetKeepaliveInterval, WatchdogInv
    <3>2. UNCHANGED <<have_snapshot, health_active, disconnect_requested,
                      protocol_age, since_frame, looped>>
      BY <2>2
      DEF RequestOutputQueued, RequestSettingUnchanged, RequestSettingQueued,
          RequestDeviceNameQueued, ManualKeepaliveQueued, SetKeepaliveEnabled,
          SetKeepaliveInterval, timerVars
    <3> QED
      BY <3>1, <3>2, WatchdogKept
  <2> QED
    BY <1>3, <2>1, <2>2 DEF Command
<1>4. CASE Loop
  BY <1>4, WatchdogLoop
<1>5. CASE Tick
  BY <1>5, WatchdogTick DEF TypeInv, ClocksInv
<1>6. CASE UNCHANGED vars
  BY <1>6 DEF vars, timerVars, WatchdogInv, InitialDue
<1> QED
  BY <1>1, <1>2, <1>3, <1>4, <1>5, <1>6 DEF Next

\* Whatever is pressed, queried or kept alive meanwhile, a link without a valid
\* frame for the watchdog timeout is being recycled once loop() has run.
THEOREM SilentLinksAreRecycled == Spec => []WatchdogRecyclesSilentLink
<1>1. Init => WatchdogInv
  BY DEF Init, WatchdogInv
<1>2. SessionsInv /\ WatchdogInv /\ [Next]_vars => WatchdogInv'
  BY WatchdogStep DEF SessionsInv
<1>3. SessionsInv /\ WatchdogInv => WatchdogRecyclesSilentLink
  <2> SUFFICES ASSUME SessionsInv, WatchdogInv, link = "subscribed", looped,
                      since_frame >= WatchdogTimeout,
                      ~reconnect_pending, ~(disconnects > 0)
               PROVE  FALSE
    BY DEF WatchdogRecyclesSilentLink
  <2>1. health_active /\ ~disconnect_requested
    BY DEF SessionsInv, NoOrphanSession
  <2>2. protocol_age \in Nat /\ WatchdogTimeout \in Nat
    BY TimingAssumption DEF SessionsInv, TypeInv, ClocksInv, ClocksType
  <2> QED
    BY <2>1, <2>2 DEF WatchdogInv
<1> QED
  BY <1>1, <1>2, <1>3, SessionsInvariant, PTL DEF Spec

-----------------------------------------------------------------------------
(* The spacing of scheduled writes.                                        *)

\* What one more attempt adds to the time the queries are allowed.
LEMMA OneMoreRetry ==
  \A a \in Nat, r \in Nat : (a + 1) * r = a * r + r /\ a * r \in Nat
  OBVIOUS

\* Fewer attempts take no longer.
LEMMA FewerRetries ==
  ASSUME NEW a \in Nat, NEW b \in Nat, NEW r \in Nat, a <= b
  PROVE  a * r <= b * r
<1>1. /\ b - a \in Nat /\ (b - a) * r \in Nat /\ a * r \in Nat /\ b * r \in Nat
  OBVIOUS
<1>2. b * r = a * r + (b - a) * r
  OBVIOUS
<1> QED
  BY <1>1, <1>2

\* The clocks of the spacing are numbers.
LEMMA SpacingTypes ==
  ASSUME ClocksType
  PROVE  /\ request_age \in Nat /\ keepalive_age \in Nat /\ query_due \in Nat
         /\ query_attempts \in Nat /\ keepalive_interval \in Nat \ {0}
         /\ KeepaliveInterval \in Nat \ {0} /\ MaxAttempts \in Nat \ {0}
         /\ QueryDelay \in Nat /\ QueryRetry \in Nat
         /\ query_attempts * QueryRetry \in Nat
  BY TimingAssumption, OneMoreRetry DEF ClocksType

\* When the query falls due, neither interval has expired.
LEMMA QueryComesFirst ==
  ASSUME ClocksType, QueryIsAhead, WellSpaced,
         health_active, ~disconnect_requested, QueryDue
  PROVE  /\ query_attempts < MaxAttempts
         /\ request_age < KeepaliveInterval
         /\ keepalive_age < keepalive_interval
<1> USE SpacingTypes
<1>1. /\ query_attempts < MaxAttempts
      /\ request_age <= QueryDelay + query_attempts * QueryRetry
      /\ keepalive_age <= QueryDelay + query_attempts * QueryRetry
  BY DEF QueryIsAhead, QueryDue
<1>2. query_attempts * QueryRetry <= (MaxAttempts - 1) * QueryRetry
  <2>1. MaxAttempts - 1 \in Nat /\ query_attempts <= MaxAttempts - 1
    BY <1>1
  <2> QED
    BY <2>1, FewerRetries
<1>3. (MaxAttempts - 1) * QueryRetry \in Nat
  BY OneMoreRetry
<1>4. QuerySpan < KeepaliveInterval /\ QuerySpan < keepalive_interval
  BY DEF WellSpaced, ClocksType
<1> QED
  BY <1>1, <1>2, <1>3, <1>4 DEF QuerySpan

\* An inactive query, or a session that is not served, is not ahead of anything.
LEMMA AheadIdle ==
  ASSUME ~health_active' \/ disconnect_requested' \/ ~query_active'
  PROVE  QueryIsAhead'
  BY DEF QueryIsAhead

\* A handler that leaves the query alone may set either timer back.
LEMMA AheadKept ==
  ASSUME ClocksType, QueryIsAhead,
         request_age' \in {request_age, 0},
         keepalive_age' \in {keepalive_age, 0},
         UNCHANGED <<queryVars, health_active, disconnect_requested, looped>>
  PROVE  QueryIsAhead'
<1>1. CASE WellSpaced /\ health_active /\ ~disconnect_requested /\ query_active
  BY <1>1, SpacingTypes DEF QueryIsAhead, queryVars
<1>2. CASE ~(WellSpaced /\ health_active /\ ~disconnect_requested
             /\ query_active)
  BY <1>2 DEF QueryIsAhead, queryVars
<1> QED
  BY <1>1, <1>2

\* As a timer grows, what is left to the query shrinks.
LEMMA AheadTick ==
  ASSUME ClocksType, QueryIsAhead, Tick
  PROVE  QueryIsAhead'
<1> USE SpacingTypes
<1>1. /\ looped /\ looped' = FALSE
      /\ UNCHANGED <<health_active, disconnect_requested, query_active,
                     query_attempts>>
  BY DEF Tick, healthVars
<1>2. SUFFICES ASSUME WellSpaced, health_active, ~disconnect_requested,
                      query_active
               PROVE  QueryIsAhead'
  BY <1>1 DEF QueryIsAhead
<1>3. query_due' = query_due - 1 /\ query_due > 0
  BY <1>1, <1>2 DEF Tick, QueryIsAhead
<1>4. request_age' \in {0, request_age, request_age + 1}
  BY DEF Tick, Older
<1>5. keepalive_age' \in {0, keepalive_age, keepalive_age + 1}
  BY DEF Tick, Older
<1> QED
  BY <1>1, <1>2, <1>3, <1>4, <1>5 DEF QueryIsAhead

\* A query that was due leaves the next one its whole interval.
LEMMA AheadServed ==
  ASSUME ClocksType, QueryIsAhead, health_active, ~disconnect_requested,
         SendQuery,
         request_age' \in {request_age, 0},
         keepalive_age' \in {keepalive_age, 0},
         UNCHANGED <<health_active, disconnect_requested>>
  PROVE  /\ QueryIsAhead'
         /\ WellSpaced => ~QueryDue'
<1> USE SpacingTypes
<1>1. CASE QueryDue
  <2>1. /\ query_attempts' = query_attempts + 1
        /\ query_active' = (query_attempts' < MaxAttempts)
        /\ query_due' = IF query_active' THEN QueryRetry ELSE 0
        /\ query_active /\ query_due = 0
    BY <1>1 DEF SendQuery, QueryDue
  <2>2. (query_attempts + 1) * QueryRetry
          = query_attempts * QueryRetry + QueryRetry
    BY OneMoreRetry
  <2>3. WellSpaced /\ query_active' =>
          query_attempts' < MaxAttempts /\ query_due' > 0
    BY <2>1 DEF WellSpaced
  <2>4. ASSUME WellSpaced, query_active'
        PROVE  /\ request_age' + query_due'
                    <= QueryDelay + query_attempts' * QueryRetry
               /\ keepalive_age' + query_due'
                    <= QueryDelay + query_attempts' * QueryRetry
    BY <2>1, <2>2, <2>4 DEF QueryIsAhead
  <2>5. WellSpaced => ~QueryDue'
    BY <2>3 DEF QueryDue
  <2>6. QueryIsAhead'
    BY <2>3, <2>4 DEF QueryIsAhead, WellSpaced
  <2> QED
    BY <2>5, <2>6
<1>2. CASE ~QueryDue
  <2>1. UNCHANGED queryVars
    BY <1>2 DEF SendQuery
  <2>2. query_active => query_due > 0
    BY <1>2 DEF QueryDue
  <2> QED
    BY <2>1, <2>2 DEF QueryIsAhead, QueryDue, queryVars
<1> QED
  BY <1>1, <1>2

\* The first keepalive of a session starts the query and both timers anew.
LEMMA AheadPostponed ==
  ASSUME ClocksType, QueryIsAhead, SessionInv, LoopInitialKeepalive
  PROVE  QueryIsAhead'
<1> USE SpacingTypes
<1>1. /\ request_age' = 0 /\ keepalive_age' = 0
      /\ query_due' = IF query_active THEN QueryDelay ELSE query_due
      /\ UNCHANGED <<query_active, query_attempts, health_active,
                     disconnect_requested>>
      /\ health_active /\ ~disconnect_requested
  BY DEF LoopInitialKeepalive, Serving, Healthy, healthVars
<1>2. SUFFICES ASSUME WellSpaced, query_active
               PROVE  QueryIsAhead'
  BY <1>1 DEF QueryIsAhead
<1> QED
  BY <1>1, <1>2 DEF QueryIsAhead, WellSpaced

\* An iteration of loop() serves the query when it is due, or gives the session up.
LEMMA AheadLoop ==
  ASSUME ClocksType, SessionInv, QueryIsAhead, Loop
  PROVE  QueryIsAhead'
<1> USE DEF healthVars, queryVars, timerVars
<1>1. CASE LoopQueryRefused \/ LoopWriteRefused
  BY <1>1, AheadIdle
  DEF LoopQueryRefused, LoopWriteRefused, ResetConnectionState
<1>2. CASE LoopForcedReconnect \/ LoopWatchdog
  BY <1>2, AheadIdle DEF LoopForcedReconnect, LoopWatchdog
<1>3. CASE LoopIdle
  BY <1>3, AheadIdle DEF LoopIdle, Healthy, SessionInv
<1>4. CASE LoopInitialKeepalive
  BY <1>4, AheadPostponed
<1>5. CASE LoopSettingsKeepalive \/ LoopStatusRequest
  <2>1. /\ SendQuery /\ health_active /\ ~disconnect_requested
        /\ request_age' \in {request_age, 0}
        /\ keepalive_age' \in {keepalive_age, 0}
        /\ UNCHANGED <<health_active, disconnect_requested>>
    BY <1>5
    DEF LoopSettingsKeepalive, LoopStatusRequest, Serving, Healthy
  <2> QED
    BY <2>1, AheadServed
<1> QED
  BY <1>1, <1>2, <1>3, <1>4, <1>5 DEF Loop

\* No handler lets the query fall behind an interval.
LEMMA AheadStep ==
  ASSUME ClocksType, SessionInv, QueryIsAhead, [Next]_vars
  PROVE  QueryIsAhead'
<1> USE DEF healthVars, timerVars
<1>1. CASE ClientEvent
  <2>1. CASE SubscribedRequestQueued
    <3>1. /\ request_age' = 0 /\ keepalive_age' = 0 /\ query_attempts' = 0
          /\ query_active' => query_due' = QueryDelay
      BY <2>1 DEF SubscribedRequestQueued, Subscribed
    <3>2. 0 * QueryRetry = 0 /\ QueryDelay \in Nat /\ 0 < MaxAttempts
      BY TimingAssumption
    <3> QED
      BY <3>1, <3>2 DEF QueryIsAhead, WellSpaced
  <2>2. CASE \/ Closed \/ ServicesUnusable \/ NotificationsRefused
             \/ SubscribedRequestRefused \/ WriteFailed
    BY <2>2, AheadIdle
    DEF Closed, ServicesUnusable, NotificationsRefused, FailDiscovery,
        SubscribedRequestRefused, WriteFailed, ResetConnectionState
  <2>3. CASE Opened \/ ServicesFound \/ WriteAcknowledged
    BY <2>3, AheadKept DEF Opened, ServicesFound, WriteAcknowledged
  <2> QED
    BY <1>1, <2>1, <2>2, <2>3 DEF ClientEvent
<1>2. CASE Notification
  <2>1. CASE DeviceNameReport
    BY <2>1, AheadIdle DEF DeviceNameReport
  <2>2. CASE ~DeviceNameReport
    BY <1>2, <2>2, AheadKept
    DEF Notification, StatusReport, SettingsReport, OtherReport, ValidFrame
  <2> QED
    BY <2>1, <2>2
<1>3. CASE Command
  <2>1. CASE \/ RequestOutputRefused \/ RequestDeviceNameRefused
             \/ ManualKeepaliveRefused
             \/ \E f \in Fields, v \in Values : RequestSettingRefused(f, v)
    BY <2>1, AheadIdle
    DEF RequestOutputRefused, RequestDeviceNameRefused, ManualKeepaliveRefused,
        RequestSettingRefused, ResetConnectionState
  <2>2. CASE \/ \E o \in Outputs, state \in BOOLEAN :
                  RequestOutputQueued(o, state)
             \/ \E f \in Fields, v \in Values :
                  RequestSettingUnchanged(f, v) \/ RequestSettingQueued(f, v)
             \/ RequestDeviceNameQueued \/ ManualKeepaliveQueued
             \/ \E enabled \in BOOLEAN : SetKeepaliveEnabled(enabled)
             \/ \E interval \in SettingsIntervals :
                  SetKeepaliveInterval(interval)
    <3>1. /\ request_age' \in {request_age, 0}
          /\ keepalive_age' \in {keepalive_age, 0}
          /\ UNCHANGED <<queryVars, health_active, disconnect_requested, looped>>
      BY <2>2
      DEF RequestOutputQueued, RequestSettingUnchanged, RequestSettingQueued,
          RequestDeviceNameQueued, ManualKeepaliveQueued, SetKeepaliveEnabled,
          SetKeepaliveInterval
    <3> QED
      BY <3>1, AheadKept
  <2> QED
    BY <1>3, <2>1, <2>2 DEF Command
<1>4. CASE Loop
  BY <1>4, AheadLoop
<1>5. CASE Tick
  BY <1>5, AheadTick
<1>6. CASE UNCHANGED vars
  BY <1>6, AheadKept DEF vars
<1> QED
  BY <1>1, <1>2, <1>3, <1>4, <1>5, <1>6 DEF Next

\* The snapshot never outlives the subscription.
LEMMA SnapshotStep ==
  ASSUME SessionInv, SnapshotOfSession, [Next]_vars
  PROVE  SnapshotOfSession'
<1> USE DEF SnapshotOfSession, settingsVars, transportVars
<1>1. CASE ClientEvent
  BY <1>1
  DEF ClientEvent, Opened, Closed, ServicesFound, ServicesUnusable,
      NotificationsRefused, FailDiscovery, SubscribedRequestQueued,
      SubscribedRequestRefused, Subscribed, WriteAcknowledged, WriteFailed,
      ResetConnectionState
<1>2. CASE Notification
  BY <1>2
  DEF Notification, StatusReport, SettingsReport, DeviceNameReport,
      OtherReport, ValidFrame
<1>3. CASE Command
  BY <1>3
  DEF Command, RequestOutputQueued, RequestOutputRefused,
      RequestSettingUnchanged, RequestSettingQueued, RequestSettingRefused,
      RequestDeviceNameQueued, RequestDeviceNameRefused,
      ManualKeepaliveQueued, ManualKeepaliveRefused, SetKeepaliveEnabled,
      SetKeepaliveInterval, ResetConnectionState, WriteRefused
<1>4. CASE Loop
  BY <1>4
  DEF Loop, LoopIdle, LoopForcedReconnect, LoopInitialKeepalive, LoopWatchdog,
      LoopSettingsKeepalive, LoopStatusRequest, LoopQueryRefused,
      LoopWriteRefused, Iteration, Expire, ExpireSettings, ResetConnectionState
<1>5. CASE Tick \/ UNCHANGED vars
  BY <1>5 DEF Tick, vars
<1> QED
  BY <1>1, <1>2, <1>3, <1>4, <1>5 DEF Next

\* What the handlers outside loop() queue: at most one frame.
LEMMA HandlersQueueOne ==
  ASSUME ClientEvent \/ Notification \/ Command \/ Tick
  PROVE  tx' = <<>> \/ \E frame : tx' = <<frame>>
<1> USE DEF NoFrame
<1>1. CASE ClientEvent
  BY <1>1
  DEF ClientEvent, Opened, Closed, ServicesFound, ServicesUnusable,
      NotificationsRefused, FailDiscovery, SubscribedRequestQueued,
      SubscribedRequestRefused, WriteAccepted, WriteAcknowledged, WriteFailed
<1>2. CASE Notification
  BY <1>2
  DEF Notification, StatusReport, SettingsReport, DeviceNameReport,
      OtherReport, ValidFrame
<1>3. CASE Command
  BY <1>3
  DEF Command, RequestOutputQueued, RequestOutputRefused,
      RequestSettingUnchanged, RequestSettingQueued, RequestSettingRefused,
      RequestDeviceNameQueued, RequestDeviceNameRefused,
      ManualKeepaliveQueued, ManualKeepaliveRefused, SetKeepaliveEnabled,
      SetKeepaliveInterval, WriteAccepted, WriteRefused
<1>4. CASE Tick
  BY <1>4 DEF Tick
<1> QED
  BY <1>1, <1>2, <1>3, <1>4

\* A session that is not served, or a new tick, asks for no silence.
LEMMA QuietIdle ==
  ASSUME ~health_active' \/ disconnect_requested' \/ scheduled' = "none"
  PROVE  QuietAfterWrite'
  BY DEF QuietAfterWrite

\* A handler after which no more is due than before it.
LEMMA QuietKept ==
  ASSUME QuietAfterWrite,
         QueryDue' => QueryDue, RequestDue' => RequestDue,
         KeepaliveDue' => KeepaliveDue, InitialDue' => InitialDue,
         initial_pending' => initial_pending,
         UNCHANGED <<health_active, disconnect_requested, scheduled>>
  PROVE  QuietAfterWrite'
  BY DEF QuietAfterWrite

\* A timer set back makes nothing due.
LEMMA SetBack ==
  ASSUME ClocksType
  PROVE  /\ request_age' \in {request_age, 0} => (RequestDue' => RequestDue)
         /\ keepalive_age' = 0 /\ keepalive_interval' \in SettingsIntervals =>
              ~KeepaliveDue'
         /\ keepalive_age' = keepalive_age /\ UNCHANGED configVars =>
              (KeepaliveDue' => KeepaliveDue)
<1>1. request_age' \in {request_age, 0} => (RequestDue' => RequestDue)
  BY SpacingTypes DEF RequestDue
<1>2. keepalive_age' = 0 /\ keepalive_interval' \in SettingsIntervals =>
        ~KeepaliveDue'
  <2>1. SettingsIntervals \subseteq Nat \ {0}
    BY TimingAssumption
  <2> QED
    BY <2>1 DEF KeepaliveDue
<1>3. keepalive_age' = keepalive_age /\ UNCHANGED configVars =>
        (KeepaliveDue' => KeepaliveDue)
  BY DEF KeepaliveDue, configVars
<1> QED
  BY <1>1, <1>2, <1>3

\* A report, a query that was answered, and whatever else notifies.
LEMMA QuietNotified ==
  ASSUME ClocksType, QuietAfterWrite, Notification
  PROVE  QuietAfterWrite'
<1>1. /\ UNCHANGED <<health_active, disconnect_requested, request_age,
                     keepalive_age, configVars, initial_pending>>
      /\ QueryDue' => QueryDue
  BY DEF Notification, StatusReport, SettingsReport, DeviceNameReport,
         OtherReport, ValidFrame, healthVars, queryVars, QueryDue
<1>2. /\ RequestDue' => RequestDue
      /\ KeepaliveDue' => KeepaliveDue
  BY <1>1, SetBack
<1>3. CASE \E s \in [Fields -> Values] : SettingsReport(s)
  <2>1. scheduled' = IF scheduled = "written" THEN "answered" ELSE scheduled
    BY <1>3 DEF SettingsReport
  <2>2. scheduled' # "written" /\ (scheduled' # "none" => scheduled # "none")
        /\ (scheduled' = "finished" => scheduled = "finished")
    BY <2>1
  <2> QED
    BY <1>1, <1>2, <2>2 DEF QuietAfterWrite
<1>4. CASE ~\E s \in [Fields -> Values] : SettingsReport(s)
  <2>1. UNCHANGED <<scheduled, have_snapshot>>
    BY <1>4
    DEF Notification, StatusReport, DeviceNameReport, OtherReport,
        ValidFrame, settingsVars
  <2>2. InitialDue' => InitialDue
    BY <1>1, <2>1 DEF InitialDue, configVars
  <2> QED
    BY <1>1, <1>2, <2>1, <2>2, QuietKept
<1> QED
  BY <1>3, <1>4

\* A command sets timers back; switching the keepalive on makes no initial one due.
LEMMA QuietCommanded ==
  ASSUME ClocksType, ClocksType', WatchdogInv, QuietAfterWrite, Command
  PROVE  QuietAfterWrite'
<1> USE DEF healthVars, queryVars, timerVars, settingsVars
<1>1. CASE \/ RequestOutputRefused \/ RequestDeviceNameRefused
           \/ ManualKeepaliveRefused
           \/ \E f \in Fields, v \in Values : RequestSettingRefused(f, v)
  BY <1>1, QuietIdle
  DEF RequestOutputRefused, RequestDeviceNameRefused, ManualKeepaliveRefused,
      RequestSettingRefused, ResetConnectionState
<1>2. CASE \/ \E o \in Outputs, state \in BOOLEAN :
                RequestOutputQueued(o, state)
           \/ \E f \in Fields, v \in Values :
                RequestSettingUnchanged(f, v) \/ RequestSettingQueued(f, v)
           \/ RequestDeviceNameQueued \/ ManualKeepaliveQueued
           \/ \E enabled \in BOOLEAN : SetKeepaliveEnabled(enabled)
           \/ \E interval \in SettingsIntervals :
                SetKeepaliveInterval(interval)
  <2>1. /\ request_age' \in {request_age, 0}
        /\ \/ keepalive_age' = keepalive_age /\ UNCHANGED configVars
           \/ keepalive_age' = 0
        /\ initial_pending' => initial_pending
        /\ UNCHANGED <<health_active, disconnect_requested, scheduled,
                       have_snapshot, query_active, query_due>>
    <3>1. ASSUME NEW o \in Outputs, NEW state \in BOOLEAN,
                 RequestOutputQueued(o, state)
          PROVE  <2>1
      BY <3>1 DEF RequestOutputQueued, configVars
    <3>2. ASSUME NEW f \in Fields, NEW v \in Values,
                 RequestSettingUnchanged(f, v) \/ RequestSettingQueued(f, v)
          PROVE  <2>1
      BY <3>2 DEF RequestSettingUnchanged, RequestSettingQueued, configVars
    <3>3. CASE RequestDeviceNameQueued \/ ManualKeepaliveQueued
      BY <3>3 DEF RequestDeviceNameQueued, ManualKeepaliveQueued, configVars
    <3>4. ASSUME NEW enabled \in BOOLEAN, SetKeepaliveEnabled(enabled)
          PROVE  <2>1
      BY <3>4 DEF SetKeepaliveEnabled
    <3>5. ASSUME NEW interval \in SettingsIntervals,
                 SetKeepaliveInterval(interval)
          PROVE  <2>1
      BY <3>5 DEF SetKeepaliveInterval
    <3> QED
      BY <1>2, <3>1, <3>2, <3>3, <3>4, <3>5
  <2>2. InitialDue' => InitialDue
    BY <2>1 DEF WatchdogInv, InitialDue
  <2>3. keepalive_interval' \in SettingsIntervals
    BY DEF ClocksType
  <2>4. /\ RequestDue' => RequestDue
        /\ KeepaliveDue' => KeepaliveDue
        /\ QueryDue' => QueryDue
    BY <2>1, <2>3, SetBack DEF QueryDue
  <2> QED
    BY <2>1, <2>2, <2>4, QuietKept
<1> QED
  BY <1>1, <1>2 DEF Command

\* Where silence is asked for, the last two branches of loop() queue nothing.
LEMMA SilentBranches ==
  ASSUME QuietAfterWrite, WellSpaced, scheduled # "none",
         LoopSettingsKeepalive \/ LoopStatusRequest
  PROVE  tx' = <<>>
<1>1. health_active /\ ~disconnect_requested
  BY DEF LoopSettingsKeepalive, LoopStatusRequest, Serving, Healthy
<1>2. ~QueryDue /\ ~RequestDue /\ ~KeepaliveDue
  BY <1>1 DEF QuietAfterWrite
<1> QED
  BY <1>2 DEF LoopSettingsKeepalive, LoopStatusRequest, QueryFrames

\* An iteration of loop() leaves nothing due that it could have served.
LEMMA QuietLoop ==
  ASSUME TypeInv, SessionInv, QueryIsAhead, QuietAfterWrite, Loop
  PROVE  QuietAfterWrite'
<1> USE DEF healthVars, queryVars, timerVars, configVars
<1>0. ClocksType
  BY DEF TypeInv, ClocksInv
<1>1. CASE LoopQueryRefused \/ LoopWriteRefused
  BY <1>1, QuietIdle
  DEF LoopQueryRefused, LoopWriteRefused, ResetConnectionState
<1>2. CASE LoopForcedReconnect \/ LoopWatchdog
  BY <1>2, QuietIdle DEF LoopForcedReconnect, LoopWatchdog
<1>3. CASE LoopIdle
  BY <1>3, QuietIdle DEF LoopIdle, Healthy, SessionInv
<1>4. CASE LoopInitialKeepalive
  <2>1. /\ initial_pending' = FALSE /\ request_age' = 0 /\ keepalive_age' = 0
        /\ query_active' /\ WellSpaced => query_due' > 0
        /\ UNCHANGED keepalive_interval
    BY <1>4, <1>0, SpacingTypes DEF LoopInitialKeepalive, Expire, WellSpaced
  <2> QED
    BY <2>1, <1>0, SpacingTypes
    DEF QuietAfterWrite, InitialDue, QueryDue, RequestDue, KeepaliveDue
<1>5. CASE LoopSettingsKeepalive \/ LoopStatusRequest
  <2>1. /\ ~InitialDue /\ SendQuery /\ health_active /\ ~disconnect_requested
        /\ UNCHANGED <<initial_pending, keepalive_enabled, keepalive_interval,
                       have_snapshot, health_active, disconnect_requested>>
        /\ request_age' \in {request_age, 0}
        /\ keepalive_age' \in {keepalive_age, 0}
    BY <1>5
    DEF LoopSettingsKeepalive, LoopStatusRequest, Expire, ExpireSettings,
        Serving, Healthy
  <2>2. ~InitialDue' /\ (WellSpaced => ~QueryDue')
    BY <2>1, <1>0, AheadServed DEF InitialDue
  <2>3. ~RequestDue' /\ ~KeepaliveDue'
    <3>1. \/ request_age' = 0 /\ keepalive_age' = 0
          \/ /\ request_age' = IF RequestDue THEN 0 ELSE request_age
             /\ keepalive_age' = IF KeepaliveDue THEN 0 ELSE keepalive_age
      BY <1>5 DEF LoopSettingsKeepalive, LoopStatusRequest
    <3> QED
      BY <3>1, <2>1, <1>0, SpacingTypes DEF RequestDue, KeepaliveDue
  <2>4. ASSUME WellSpaced, scheduled' = "finished"
        PROVE  ~initial_pending'
    <3>1. Remember
      BY <1>5 DEF LoopSettingsKeepalive, LoopStatusRequest
    <3>2. scheduled # "none" => tx' = <<>>
      BY <1>5, <2>4, SilentBranches
    <3>3. scheduled = "finished"
      BY <2>4, <3>1, <3>2 DEF Remember
    <3> QED
      BY <2>1, <2>4, <3>3 DEF QuietAfterWrite
  <2> QED
    BY <2>2, <2>3, <2>4 DEF QuietAfterWrite
<1> QED
  BY <1>1, <1>2, <1>3, <1>4, <1>5 DEF Loop

\* After whatever handler, what was queued in this tick tells when silence is due.
LEMMA QuietStep ==
  ASSUME TypeInv, TypeInv', SessionInv, WatchdogInv, QueryIsAhead,
         SnapshotOfSession, QuietAfterWrite, [Next]_vars
  PROVE  QuietAfterWrite'
<1>0. ClocksType /\ ClocksType'
  BY DEF TypeInv, ClocksInv
<1>1. CASE ClientEvent
  <2>1. CASE SubscribedRequestQueued
    <3>1. /\ request_age' = 0 /\ keepalive_age' = 0 /\ ~have_snapshot'
          /\ query_active' => query_due' = QueryDelay
          /\ keepalive_interval' = keepalive_interval
          /\ scheduled' = "written"
      BY <2>1
      DEF SubscribedRequestQueued, Subscribed, SnapshotOfSession,
          settingsVars, configVars
    <3> QED
      BY <3>1, <1>0, SpacingTypes
      DEF QuietAfterWrite, InitialDue, QueryDue, RequestDue, KeepaliveDue,
          WellSpaced
  <2>2. CASE \/ Closed \/ ServicesUnusable \/ NotificationsRefused
             \/ SubscribedRequestRefused \/ WriteFailed
    BY <2>2, QuietIdle
    DEF Closed, ServicesUnusable, NotificationsRefused, FailDiscovery,
        SubscribedRequestRefused, WriteFailed, ResetConnectionState
  <2>3. CASE Opened \/ ServicesFound \/ WriteAcknowledged
    <3>1. UNCHANGED <<query_active, query_due, request_age, keepalive_age,
                      KeepaliveInterval, keepalive_enabled,
                      keepalive_interval, initial_pending, have_snapshot,
                      health_active, disconnect_requested, scheduled>>
      BY <2>3
      DEF Opened, ServicesFound, WriteAcknowledged, queryVars, timerVars,
          configVars, settingsVars, healthVars
    <3> QED
      BY <3>1, QuietKept DEF QueryDue, RequestDue, KeepaliveDue, InitialDue
  <2> QED
    BY <1>1, <2>1, <2>2, <2>3 DEF ClientEvent
<1>2. CASE Notification
  BY <1>0, <1>2, QuietNotified
<1>3. CASE Command
  BY <1>0, <1>3, QuietCommanded
<1>4. CASE Loop
  BY <1>4, QuietLoop
<1>5. CASE Tick
  BY <1>5, QuietIdle DEF Tick
<1>6. CASE UNCHANGED vars
  BY <1>6
  DEF vars, QuietAfterWrite, InitialDue, QueryDue, RequestDue, KeepaliveDue,
      healthVars, queryVars, configVars, timerVars, settingsVars
<1> QED
  BY <1>1, <1>2, <1>3, <1>4, <1>5, <1>6 DEF Next

\* The inductive invariant of the spacing.
SpacingInv ==
  /\ SessionsInv /\ WatchdogInv /\ QueryIsAhead /\ SnapshotOfSession
  /\ QuietAfterWrite

\* Wherever the query has the time it needs, loop() has its queries in time and
\* is quiet after it wrote.
LEMMA SpacingInvariant == Spec => []SpacingInv
<1>1. Init => WatchdogInv /\ QueryIsAhead /\ SnapshotOfSession /\ QuietAfterWrite
  BY DEF Init, WatchdogInv, QueryIsAhead, SnapshotOfSession, QuietAfterWrite
<1>2. /\ SessionsInv /\ WatchdogInv /\ QueryIsAhead /\ SnapshotOfSession
      /\ QuietAfterWrite /\ SessionsInv' /\ [Next]_vars
      => /\ WatchdogInv' /\ QueryIsAhead' /\ SnapshotOfSession'
         /\ QuietAfterWrite'
  BY WatchdogStep, AheadStep, SnapshotStep, QuietStep
  DEF SessionsInv, TypeInv, ClocksInv
<1> QED
  BY <1>1, <1>2, SessionsInvariant, PTL DEF Spec, SpacingInv

LEMMA OneFrame ==
  ASSUME NEW frame, tx' = <<>> \/ tx' = <<frame>>
  PROVE  Len(tx') <= 1
<1>1. CASE tx' = <<>>
  BY <1>1
<1>2. CASE tx' = <<frame>>
  BY <1>2
<1> QED
  BY <1>1, <1>2

\* An iteration of loop() queues one frame at most.
LEMMA LoopQueuesOne ==
  ASSUME SpacingInv, WellSpaced, Loop
  PROVE  Len(tx') <= 1
<1>0. ClocksType /\ QueryIsAhead
  BY DEF SpacingInv, SessionsInv, TypeInv, ClocksInv
<1>1. CASE LoopIdle \/ LoopForcedReconnect
  BY <1>1 DEF LoopIdle, LoopForcedReconnect, NoFrame
<1>2. CASE LoopInitialKeepalive
  BY <1>2 DEF LoopInitialKeepalive, WriteAccepted
<1>3. CASE LoopWatchdog
  BY <1>3 DEF LoopWatchdog, QueryFrames
<1>4. CASE LoopSettingsKeepalive \/ LoopStatusRequest
  <2>1. QueryDue => ~KeepaliveDue /\ ~RequestDue
    <3>1. ASSUME QueryDue
          PROVE  request_age < KeepaliveInterval
                   /\ keepalive_age < keepalive_interval
      BY <1>0, <1>4, <3>1, QueryComesFirst
      DEF LoopSettingsKeepalive, LoopStatusRequest, Serving, Healthy
    <3> QED
      BY <1>0, <3>1, SpacingTypes DEF KeepaliveDue, RequestDue
  <2>2. CASE LoopSettingsKeepalive
    <3>1. ~QueryDue
      BY <2>1, <2>2 DEF LoopSettingsKeepalive
    <3>2. tx' = <<SettingsFrame("periodic", settings)>>
      BY <2>2, <3>1 DEF LoopSettingsKeepalive, WriteAccepted, QueryFrames
    <3> QED
      BY <3>2
  <2>3. CASE LoopStatusRequest
    <3>1. tx' = IF RequestDue THEN Append(QueryFrames, StatusRequestFrame)
                              ELSE QueryFrames
      BY <2>3 DEF LoopStatusRequest
    <3>2. RequestDue => tx' = <<StatusRequestFrame>>
      <4>1. RequestDue => tx' = Append(<<>>, StatusRequestFrame)
        BY <2>1, <3>1 DEF QueryFrames
      <4>2. \A frame : Append(<<>>, frame) = <<frame>>
        OBVIOUS
      <4> QED
        BY <4>1, <4>2
    <3>3. ~RequestDue => tx' = <<>> \/ tx' = <<DeviceNameFrame>>
      BY <3>1 DEF QueryFrames
    <3> QED
      BY <3>2, <3>3, OneFrame
  <2> QED
    BY <1>4, <2>2, <2>3
<1>5. CASE LoopQueryRefused \/ LoopWriteRefused
  <2>1. tx' = <<>> \/ tx' = <<DeviceNameFrame>>
    BY <1>5 DEF LoopQueryRefused, LoopWriteRefused, WriteRefused, QueryFrames
  <2> QED
    BY <2>1, OneFrame
<1> QED
  BY <1>1, <1>2, <1>3, <1>4, <1>5 DEF Loop

\* After a frame of this tick it queues none, but for the initial keepalive.
LEMMA LoopKeepsQuiet ==
  ASSUME SpacingInv, WellSpaced, Loop, scheduled # "none"
  PROVE  \/ tx' = <<>>
         \/ /\ scheduled = "answered"
            /\ tx' = <<SettingsFrame("initial", settings)>>
<1>1. ASSUME Serving
      PROVE  /\ ~QueryDue /\ ~RequestDue /\ ~KeepaliveDue
             /\ InitialDue => scheduled = "answered"
  <2>1. scheduled \in {"none", "written", "answered", "finished"}
    BY DEF SpacingInv, SessionsInv, TypeInv, FlagsType, SessionFlagsType
  <2> QED
    BY <1>1, <2>1
    DEF SpacingInv, QuietAfterWrite, Serving, Healthy, InitialDue
<1>2. CASE LoopIdle \/ LoopForcedReconnect
  BY <1>2 DEF LoopIdle, LoopForcedReconnect, NoFrame
<1>3. CASE LoopInitialKeepalive
  BY <1>1, <1>3 DEF LoopInitialKeepalive, WriteAccepted
<1>4. CASE LoopWatchdog
  BY <1>1, <1>4 DEF LoopWatchdog, QueryFrames
<1>5. CASE LoopSettingsKeepalive \/ LoopStatusRequest
  BY <1>5, SilentBranches DEF SpacingInv
<1>6. CASE LoopQueryRefused \/ LoopWriteRefused
  BY <1>1, <1>6
  DEF LoopQueryRefused, LoopWriteRefused, WriteRefused, QueryFrames
<1> QED
  BY <1>2, <1>3, <1>4, <1>5, <1>6, Zenon DEF Loop

\* Where the intervals are longer than the name query takes, no handler queues two
\* frames.  Once a subscription or loop() has queued one, loop() queues none before
\* the next tick, whatever is pressed or received, unless a settings report comes
\* and calls for the first keepalive of the session; after that one, none at all.
THEOREM WritesAreSpaced == Spec => NoBackToBackWrites
<1>1. ASSUME SpacingInv, Next, WellSpaced
      PROVE  Spaced
  <2>1. Len(tx') <= 1
    <3>1. CASE Loop
      BY <1>1, <3>1, LoopQueuesOne
    <3>2. CASE ClientEvent \/ Notification \/ Command \/ Tick
      <4>1. tx' = <<>> \/ \E frame : tx' = <<frame>>
        BY <3>2, HandlersQueueOne
      <4> QED
        BY <4>1, OneFrame
    <3> QED
      BY <1>1, <3>1, <3>2 DEF Next
  <2>2. ASSUME Loop, scheduled # "none"
        PROVE  IF scheduled = "answered"
               THEN \A frame \in Sent' : InitialKeepalive(frame)
               ELSE tx' = <<>>
    <3>1. CASE tx' = <<>>
      BY <3>1, SentNothing
    <3>2. CASE /\ scheduled = "answered"
               /\ tx' = <<SettingsFrame("initial", settings)>>
      <4>1. Sent' = {SettingsFrame("initial", settings)}
        BY <3>2, SentOne
      <4> QED
        BY <3>2, <4>1 DEF InitialKeepalive, SettingsFrame
    <3> QED
      BY <1>1, <2>2, <3>1, <3>2, LoopKeepsQuiet
  <2> QED
    BY <2>1, <2>2 DEF Spaced
<1>2. SpacingInv /\ [Next]_vars => [WellSpaced => Spaced]_vars
  BY <1>1
<1> QED
  BY <1>2, SpacingInvariant, PTL DEF Spec, NoBackToBackWrites
=============================================================================
