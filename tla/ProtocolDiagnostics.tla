------------------------ MODULE ProtocolDiagnostics ------------------------
(***************************************************************************)
(* The error diagnostics of the component: ProtocolDiagnostics of           *)
(* allpowers_ble_diagnostics.h, the three functions of allpowers_ble.cpp    *)
(* that drive it and publish it, and the handlers that call those.          *)
(*                                                                         *)
(* Reason and uptime of the last error are set and published together: a    *)
(* failure stands for both.  All five entities are configured.               *)
(***************************************************************************)
EXTENDS Integers, Sequences, FiniteSets

CONSTANTS
  Failures,   \* the errors that can be told apart
  NoFailure,  \* no error since the ESP started
  MaxCount,   \* the largest value of a counter, 2^32 - 1 in the code
  MaxLog      \* bound of the model: how many events between two reboots

ASSUME DiagnosticsAssumption ==
  /\ NoFailure \notin Failures
  /\ Failures \cap {"valid", "ignored", "subscribed"} = {}
  /\ MaxCount \in Nat \ {0}
  /\ MaxLog \in Nat

VARIABLES
  total_errors,
  consecutive_errors,
  last_error,
  error_latched,
  sensors,            \* what the five entities show
  log                 \* history: the events since the ESP started

counters == <<total_errors, consecutive_errors, last_error, error_latched>>
vars == <<counters, sensors, log>>

\* publish_protocol_diagnostics_, of values that are about to be stored
Published(total, consecutive, last, latched) ==
  [total |-> total, consecutive |-> consecutive, last |-> last,
   latched |-> latched]

Init ==
  /\ total_errors = 0 /\ consecutive_errors = 0
  /\ last_error = NoFailure /\ error_latched = FALSE
  /\ sensors = Published(0, 0, NoFailure, FALSE)
  /\ log = <<>>

\* mutant: the counters wrap
Wrapping(n) == (n + 1) % (MaxCount + 1)

Saturating(n) == IF n # MaxCount THEN n + 1 ELSE n

\* mutant: an error keeps the first reason of its run
RecordErrorKeepingFirst(failure, consecutive) ==
  /\ total_errors' = Saturating(total_errors)
  /\ consecutive_errors' = Saturating(consecutive)
  /\ last_error' = IF consecutive = 0 THEN failure ELSE last_error
  /\ error_latched' = TRUE
  /\ sensors' = Published(total_errors', consecutive_errors', last_error', TRUE)

\* record_protocol_error_, after `consecutive` errors in a row
RecordError(failure, consecutive) ==
  /\ total_errors' = Saturating(total_errors)
  /\ consecutive_errors' = Saturating(consecutive)
  /\ last_error' = failure
  /\ error_latched' = TRUE
  /\ sensors' = Published(total_errors', consecutive_errors', last_error', TRUE)

Happened(events) ==
  /\ Len(log) + Len(events) =< MaxLog
  /\ log' = log \o events

-----------------------------------------------------------------------------
\* A malformed notification, or an error of the transport.
Failed ==
  \E failure \in Failures :
    RecordError(failure, consecutive_errors) /\ Happened(<<failure>>)

\* mutant: the run is over for the diagnostics only, not for the sensor
ValidFrameUnpublished ==
  /\ consecutive_errors' = 0
  /\ UNCHANGED <<total_errors, last_error, error_latched, sensors>>
  /\ Happened(<<"valid">>)

\* A frame that is understood or of an unsupported command, through
\* record_protocol_success_, which has nothing to do while nothing failed.
ValidFrame ==
  /\ IF consecutive_errors = 0
       THEN UNCHANGED <<consecutive_errors, sensors>>
       ELSE /\ consecutive_errors' = 0
            /\ sensors' = [sensors EXCEPT !.consecutive = 0]
  /\ UNCHANGED <<total_errors, last_error, error_latched>>
  /\ Happened(<<"valid">>)

\* A valid device-name frame while names are not enabled: the handler breaks
\* off before it records anything.
IgnoredName == Happened(<<"ignored">>) /\ UNCHANGED <<counters, sensors>>

\* mutant: a subscription ends the run and leaves the latch
SubscribedKeepingLatch ==
  /\ consecutive_errors' = 0
  /\ sensors' = [sensors EXCEPT !.consecutive = 0]
  /\ UNCHANGED <<total_errors, last_error, error_latched>>
  /\ Happened(<<"subscribed">>)

\* on_transport_ready_: reset_protocol_error_latch_, then the first request...
Subscribed ==
  /\ consecutive_errors' = 0 /\ error_latched' = FALSE
  /\ sensors' = [sensors EXCEPT !.consecutive = 0, !.latched = FALSE]
  /\ UNCHANGED <<total_errors, last_error>>
  /\ Happened(<<"subscribed">>)

\* ... which is an error in the same handler when it cannot be queued.
SubscribedRefused ==
  \E failure \in Failures :
    RecordError(failure, 0) /\ Happened(<<"subscribed", failure>>)

\* Everything is in RAM.
Reboot ==
  /\ total_errors' = 0 /\ consecutive_errors' = 0
  /\ last_error' = NoFailure /\ error_latched' = FALSE
  /\ sensors' = Published(0, 0, NoFailure, FALSE)
  /\ log' = <<>>

Next ==
  \/ Failed
  \/ ValidFrame
  \/ IgnoredName
  \/ Subscribed
  \/ SubscribedRefused
  \/ Reboot

Spec == Init /\ [][Next]_vars

-----------------------------------------------------------------------------
(* What the counters mean, in terms of the history                          *)

Errors == {i \in DOMAIN log : log[i] \in Failures}
Events(kind) == {i \in DOMAIN log : log[i] = kind}
After(S) == {i \in DOMAIN log : \A j \in S : j < i}

Capped(S) == IF Cardinality(S) < MaxCount THEN Cardinality(S) ELSE MaxCount

\* allpowers_ble_diagnostics.h:18-21: the total counts every error since the ESP
\* started, the consecutive counter those since the last frame that was accepted
\* or the last subscription; both stop at their largest value.
CountsAreExact ==
  /\ total_errors = Capped(Errors)
  /\ consecutive_errors
       = Capped(Errors \cap After(Events("valid") \cup Events("subscribed")))

\* allpowers_ble_diagnostics.h:29-31: the latch tells whether anything failed since
\* the last subscription, and valid frames do not clear it.
LatchIsOfSession ==
  error_latched <=> Errors \cap After(Events("subscribed")) # {}

\* The last error shown is the latest one, whatever succeeded or was reset since.
LastErrorIsLatest ==
  IF Errors = {} THEN last_error = NoFailure
                 ELSE \E i \in Errors : After({i}) \cap Errors = {} /\ last_error = log[i]

\* The paths publish different entities; together they leave no entity behind.
SensorsAgree ==
  sensors = Published(total_errors, consecutive_errors, last_error, error_latched)

\* README.md:215-216: the consecutive counter clears "only after notification
\* subscription succeeds for a new GATT session, not after the next valid
\* packet".
RunsEndWithSession ==
  [][consecutive_errors' < consecutive_errors
       => Subscribed \/ SubscribedRefused \/ Reboot]_vars
=============================================================================
