-------------------------- MODULE ConnectionPolicy --------------------------
(***************************************************************************)
(* The connection policy of the package (packages/allpowers_ble.yaml): the  *)
(* automations and the script by which the switch "Keep BLE Connected",     *)
(* the boot, advertisements and the events of ESPHome's BLE client decide   *)
(* when that client may connect.                                           *)
(*                                                                         *)
(* An automation runs without interruption up to a delay; what happens in  *)
(* between is free.  The desired state lives in RAM, so a reboot starts     *)
(* over from Init.                                                         *)
(***************************************************************************)
EXTENDS Integers

CONSTANTS
  ConnectAtBoot,    \* allpowers_connect_at_boot: the values it may have
  BootstrapDelay,   \* allpowers_bootstrap_delay in ticks
  NameWait          \* allpowers_advertised_name_wait_timeout in ticks

ASSUME DelayAssumption ==
  /\ ConnectAtBoot \subseteq BOOLEAN
  /\ BootstrapDelay \in Nat
  /\ NameWait \in Nat \ {0}

VARIABLES
  requested,        \* ble_connection_requested: the desired state
  captured,         \* advertised_name_captured
  capture_pending,  \* advertised_name_capture_pending
  state,            \* ble_connection_state, the text shown to the user
  booting,          \* on_boot has its delay to wait for
  boot_left,        \* what is left of that delay
  waiting,          \* prepare_ble_connection is in its delay
  wait_left,        \* what is left of that delay
  auto_connect,     \* of the BLE client
  enabled,          \* of the BLE client
  link,             \* how far the BLE client has come
  waited            \* history: this attempt waited for a name in full

delayVars == <<booting, boot_left>>
clientVars == <<auto_connect, enabled, link>>
scriptVars == <<waiting, wait_left, capture_pending>>
vars == <<requested, captured, state, delayVars, scriptVars, clientVars, waited>>

\* on_boot, up to its delay: the client starts enabled, not auto-connecting.
Init ==
  /\ requested \in ConnectAtBoot
  /\ state = IF requested THEN "Searching" ELSE "Disabled"
  /\ booting = requested /\ boot_left = IF requested THEN BootstrapDelay ELSE 0
  /\ captured = FALSE /\ capture_pending = FALSE
  /\ waiting = FALSE /\ wait_left = 0
  /\ auto_connect = FALSE /\ enabled = requested
  /\ link = "idle"
  /\ waited = FALSE

-----------------------------------------------------------------------------
(* The script prepare_ble_connection, executed while the connection is      *)
(* requested.  It restarts when it is running; a name known already skips   *)
(* its delay.                                                              *)

AllowConnection ==
  /\ waiting' = FALSE /\ wait_left' = 0 /\ capture_pending' = FALSE
  /\ auto_connect' = TRUE /\ enabled' = TRUE

\* mutant: the client is left free to claim the next advertisement
AwaitNameConnecting ==
  /\ waiting' = TRUE /\ wait_left' = NameWait /\ capture_pending' = TRUE
  /\ UNCHANGED <<auto_connect, enabled>>

\* mutant: a restarted script waits on top of what it had left
AwaitNameLonger ==
  /\ waiting' = TRUE /\ wait_left' = wait_left + NameWait
  /\ capture_pending' = TRUE
  /\ auto_connect' = FALSE
  /\ UNCHANGED enabled

AwaitName ==
  /\ waiting' = TRUE /\ wait_left' = NameWait /\ capture_pending' = TRUE
  /\ auto_connect' = FALSE
  /\ UNCHANGED enabled

PrepareConnection(named) == IF named THEN AllowConnection ELSE AwaitName

\* The delay is over.  An OFF since then has stopped the script.
WaitOver ==
  /\ waiting /\ wait_left = 0
  /\ waiting' = FALSE /\ capture_pending' = FALSE
  /\ auto_connect' = requested /\ enabled' = (enabled \/ requested)
  /\ waited' = TRUE
  /\ UNCHANGED <<requested, captured, state, delayVars, wait_left, link>>

\* The rest of on_boot, which looks at the desired state again.
BootDelayOver ==
  /\ booting /\ boot_left = 0
  /\ booting' = FALSE
  /\ IF requested THEN PrepareConnection(captured) /\ UNCHANGED link
                  ELSE UNCHANGED <<scriptVars, clientVars>>
  /\ UNCHANGED <<requested, captured, state, boot_left, waited>>

\* mutant: an advertisement restarts the wait whether or not it has a name
AdvertisementRestarts ==
  /\ captured' \in {captured, TRUE}
  /\ IF capture_pending /\ requested
       THEN PrepareConnection(captured') /\ UNCHANGED link
       ELSE UNCHANGED <<scriptVars, clientVars>>
  /\ UNCHANGED <<requested, state, delayVars, waited>>

\* on_ble_advertise with a usable name; others are ignored.
Advertisement ==
  /\ captured' = TRUE
  /\ IF capture_pending /\ requested
       THEN PrepareConnection(TRUE) /\ UNCHANGED link
       ELSE UNCHANGED <<scriptVars, clientVars>>
  /\ UNCHANGED <<requested, state, delayVars, waited>>

-----------------------------------------------------------------------------
(* The switch.  Both actions run however the switch stands already.         *)

TurnOn ==
  /\ requested' = TRUE /\ captured' = FALSE
  /\ state' = "Searching"
  /\ PrepareConnection(FALSE)
  /\ waited' = FALSE
  /\ UNCHANGED <<delayVars, link>>

\* BLEClient::set_enabled(false) and disconnect(): an attempt without a link is
\* called off, a link is closed.
Closing ==
  CASE link = "connecting" -> "cancelled"
    [] link \in {"open", "connected"} -> "closing"
    [] OTHER -> link

\* mutant: the client stays enabled
TurnOffLeavesClient ==
  /\ requested' = FALSE /\ state' = "Disabled"
  /\ waiting' = FALSE /\ wait_left' = 0 /\ capture_pending' = FALSE
  /\ auto_connect' = FALSE
  /\ UNCHANGED <<captured, delayVars, enabled, link, waited>>

TurnOff ==
  /\ requested' = FALSE /\ state' = "Disabled"
  /\ waiting' = FALSE /\ wait_left' = 0 /\ capture_pending' = FALSE
  /\ auto_connect' = FALSE /\ enabled' = FALSE
  /\ link' = IF enabled THEN Closing ELSE link
  /\ UNCHANGED <<captured, delayVars, waited>>

-----------------------------------------------------------------------------
(* The BLE client, as the package and the component use it.                *)

\* It claims an advertisement of the station.
Claim ==
  /\ enabled /\ auto_connect /\ link = "idle"
  /\ link' = "connecting"
  /\ UNCHANGED <<requested, captured, state, delayVars, scriptVars,
                 auto_connect, enabled, waited>>

\* An attempt that never had a link ends without an event.
AttemptFailed ==
  /\ link \in {"connecting", "cancelled"}
  /\ link' = "idle"
  /\ UNCHANGED <<requested, captured, state, delayVars, scriptVars,
                 auto_connect, enabled, waited>>

\* A link that opens after all closes again when it was called off.
Opened ==
  /\ link \in {"connecting", "cancelled"}
  /\ link' = IF link = "connecting" THEN "open" ELSE "closing"
  /\ UNCHANGED <<requested, captured, state, delayVars, scriptVars,
                 auto_connect, enabled, waited>>

\* on_connect, which may have been queued when the close was requested.
Connected ==
  /\ link \in {"open", "closing"}
  /\ link' = IF link = "open" THEN "connected" ELSE link
  /\ state' = "Connected"
  /\ UNCHANGED <<requested, captured, delayVars, scriptVars, auto_connect,
                 enabled, waited>>

\* disconnect_transport_ of the component.
ForcedReconnect ==
  /\ link \in {"open", "connected"}
  /\ link' = "closing"
  /\ UNCHANGED <<requested, captured, state, delayVars, scriptVars,
                 auto_connect, enabled, waited>>

\* mutant: on_disconnect always announces a search
ClosedSearching ==
  /\ link \in {"open", "connected", "closing"}
  /\ link' = "idle"
  /\ state' = "Searching"
  /\ IF requested
       THEN captured' = FALSE /\ PrepareConnection(FALSE) /\ waited' = FALSE
       ELSE UNCHANGED <<captured, scriptVars, auto_connect, enabled, waited>>
  /\ UNCHANGED <<requested, delayVars>>

\* on_disconnect
Closed ==
  /\ link \in {"open", "connected", "closing"}
  /\ link' = "idle"
  /\ state' = IF requested THEN "Searching" ELSE "Disabled"
  /\ IF requested
       THEN captured' = FALSE /\ PrepareConnection(FALSE) /\ waited' = FALSE
       ELSE UNCHANGED <<captured, scriptVars, auto_connect, enabled, waited>>
  /\ UNCHANGED <<requested, delayVars>>

\* A delay that is over continues before more time passes.
Tick ==
  /\ ~(waiting /\ wait_left = 0) /\ ~(booting /\ boot_left = 0)
  /\ wait_left' = IF wait_left > 0 THEN wait_left - 1 ELSE 0
  /\ boot_left' = IF boot_left > 0 THEN boot_left - 1 ELSE 0
  /\ UNCHANGED <<requested, captured, state, booting, waiting, capture_pending,
                 clientVars, waited>>

-----------------------------------------------------------------------------
Next ==
  \/ WaitOver
  \/ BootDelayOver
  \/ Advertisement
  \/ TurnOn
  \/ TurnOff
  \/ Claim
  \/ AttemptFailed
  \/ Opened
  \/ Connected
  \/ ForcedReconnect
  \/ Closed
  \/ Tick

Spec == Init /\ [][Next]_vars

\* Delays end, attempts that were called off end, and links told to close do.
Fairness ==
  /\ WF_vars(WaitOver)
  /\ WF_vars(BootDelayOver)
  /\ WF_vars(Tick)
  /\ WF_vars(link = "cancelled" /\ AttemptFailed)
  /\ WF_vars(link = "closing" /\ Closed)

FairSpec == Spec /\ Fairness

-----------------------------------------------------------------------------
(* Properties                                                              *)

\* Every variable has its type; both delays count down from their full length.
TypeOK ==
  /\ requested \in BOOLEAN /\ captured \in BOOLEAN /\ capture_pending \in BOOLEAN
  /\ state \in {"Disabled", "Searching", "Connected"}
  /\ booting \in BOOLEAN /\ boot_left \in 0..BootstrapDelay
  /\ waiting \in BOOLEAN /\ wait_left \in 0..NameWait
  /\ auto_connect \in BOOLEAN /\ enabled \in BOOLEAN
  /\ link \in {"idle", "connecting", "cancelled", "open", "connected", "closing"}
  /\ waited \in BOOLEAN

\* OFF disconnects and ignores advertisements: no delay that was running when
\* the switch was turned off, and no event that comes later, brings the client
\* back.
OffStopsEverything ==
  ~requested =>
    /\ ~auto_connect /\ ~enabled /\ ~waiting /\ ~capture_pending
    /\ link \in {"idle", "cancelled", "closing"}

\* Before it claims an advertisement, every attempt has either seen the name of
\* the station or waited for it in full.
ClaimsAwaitName ==
  /\ capture_pending <=> waiting
  /\ enabled /\ auto_connect => captured \/ waited
  /\ waiting => ~auto_connect

\* allpowers_ble.yaml:352: the text is not another source of truth.  It never
\* contradicts the desired state, and Connected is taken back when the link has
\* closed.
StateFollowsPolicy ==
  /\ state = "Disabled" => ~requested
  /\ state = "Searching" => requested
  /\ state = "Connected" => link \in {"connected", "closing"}

\* ON keeps searching: while the connection stays requested, and the switch is
\* left alone, the client is allowed to connect again and again, whatever the
\* advertisements say and however often the link is lost.
KeepsSearching ==
  <>[]requested /\ <>[][~TurnOn]_vars => []<>(auto_connect /\ enabled)

\* OFF that stays off ends with the link closed and the text saying so.
OffEndsConnection ==
  <>[]~requested => <>[](link = "idle" /\ state = "Disabled")
=============================================================================
