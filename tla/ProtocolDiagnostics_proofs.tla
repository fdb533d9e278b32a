--------------------- MODULE ProtocolDiagnostics_proofs ---------------------
(* Proofs about ProtocolDiagnostics for every size of its counters.        *)
EXTENDS ProtocolDiagnostics, FiniteSetTheorems, TLAPS

\* A history holds events only.
LogType == log \in Seq(Failures \cup {"valid", "ignored", "subscribed"})

\* Every path stores and publishes the same values, so the entities keep agreeing
\* with the diagnostics.  The one that publishes nothing needs that the counter it
\* leaves alone is shown as zero already.
THEOREM EntitiesAgree == Spec => []SensorsAgree
<1> USE DEF SensorsAgree, Published
<1>1. Init => SensorsAgree
  BY DEF Init
<1>2. SensorsAgree /\ [Next]_vars => SensorsAgree'
  <2> SUFFICES ASSUME SensorsAgree, [Next]_vars PROVE SensorsAgree'
    OBVIOUS
  <2>1. CASE Failed
    BY <2>1 DEF Failed, RecordError
  <2>2. CASE ValidFrame
    BY <2>2 DEF ValidFrame
  <2>3. CASE IgnoredName
    BY <2>3 DEF IgnoredName, counters
  <2>4. CASE Subscribed
    BY <2>4 DEF Subscribed
  <2>5. CASE SubscribedRefused
    BY <2>5 DEF SubscribedRefused, RecordError
  <2>6. CASE Reboot
    BY <2>6 DEF Reboot
  <2>7. CASE UNCHANGED vars
    BY <2>7 DEF vars, counters
  <2> QED
    BY <2>1, <2>2, <2>3, <2>4, <2>5, <2>6, <2>7 DEF Next
<1> QED
  BY <1>1, <1>2, PTL DEF Spec

\* The history is a sequence of events.
LEMMA LogTyped == Spec => []LogType
<1> USE DEF LogType
<1>1. Init => LogType
  BY DEF Init
<1>2. LogType /\ [Next]_vars => LogType'
  <2> SUFFICES ASSUME LogType, [Next]_vars PROVE LogType'
    OBVIOUS
  <2>1. CASE Failed
    BY <2>1 DEF Failed, Happened
  <2>2. CASE ValidFrame
    BY <2>2 DEF ValidFrame, Happened
  <2>3. CASE IgnoredName
    BY <2>3 DEF IgnoredName, Happened
  <2>4. CASE Subscribed
    BY <2>4 DEF Subscribed, Happened
  <2>5. CASE SubscribedRefused
    <3>1. PICK failure \in Failures : log' = log \o <<"subscribed", failure>>
      BY <2>5 DEF SubscribedRefused, Happened
    <3> QED
      BY <3>1
  <2>6. CASE Reboot
    BY <2>6 DEF Reboot
  <2>7. CASE UNCHANGED vars
    BY <2>7 DEF vars
  <2> QED
    BY <2>1, <2>2, <2>3, <2>4, <2>5, <2>6, <2>7 DEF Next
<1> QED
  BY <1>1, <1>2, PTL DEF Spec

\* One more event keeps the earlier ones where they are.
LEMMA OneMore ==
  ASSUME LogType, NEW e \in Failures \cup {"valid", "ignored", "subscribed"},
         log' = log \o <<e>>
  PROVE  /\ DOMAIN log = 1..Len(log) /\ Len(log) \in Nat
         /\ DOMAIN log' = 1..(Len(log) + 1)
         /\ \A i \in 1..Len(log) : log'[i] = log[i]
         /\ log'[Len(log) + 1] = e
  BY DEF LogType

\* The latch is raised exactly while an error has been recorded since the last
\* subscription.
THEOREM LatchIsExact == Spec => []LatchIsOfSession
<1> USE DEF LatchIsOfSession, Errors, After, Events
<1>1. Init => LatchIsOfSession
  BY DEF Init
<1>2. LogType /\ LatchIsOfSession /\ [Next]_vars => LatchIsOfSession'
  <2> SUFFICES ASSUME LogType, LatchIsOfSession, [Next]_vars
               PROVE  LatchIsOfSession'
    OBVIOUS
  <2>1. CASE Failed
    <3>1. PICK failure \in Failures :
            log' = log \o <<failure>> /\ error_latched' = TRUE
      BY <2>1 DEF Failed, RecordError, Happened
    <3>2. Len(log) + 1 \in Errors' \cap After(Events("subscribed"))'
      BY <3>1, OneMore, DiagnosticsAssumption
    <3> QED
      BY <3>1, <3>2
  <2>2. CASE ValidFrame \/ IgnoredName
    <3>1. PICK e \in {"valid", "ignored"} :
            log' = log \o <<e>> /\ error_latched' = error_latched
      BY <2>2 DEF ValidFrame, IgnoredName, Happened, counters
    <3>2. Errors' = Errors /\ Events("subscribed")' = Events("subscribed")
      BY <3>1, OneMore, DiagnosticsAssumption
    <3>3. Errors \cap After(Events("subscribed"))'
            = Errors \cap After(Events("subscribed"))
      BY <3>1, <3>2, OneMore
    <3> QED
      BY <3>1, <3>2, <3>3
  <2>3. CASE Subscribed
    <3>1. log' = log \o <<"subscribed">> /\ error_latched' = FALSE
      BY <2>3 DEF Subscribed, Happened
    <3>2. Errors' \cap After(Events("subscribed"))' = {}
      BY <3>1, OneMore, DiagnosticsAssumption
    <3> QED
      BY <3>1, <3>2
  <2>4. CASE SubscribedRefused
    <3>1. PICK failure \in Failures :
            log' = log \o <<"subscribed", failure>> /\ error_latched' = TRUE
      BY <2>4 DEF SubscribedRefused, RecordError, Happened
    <3>2. /\ DOMAIN log' = 1..(Len(log) + 2) /\ Len(log) \in Nat
          /\ log'[Len(log) + 2] = failure
      BY <3>1 DEF LogType
    <3>3. Len(log) + 2 \in Errors' \cap After(Events("subscribed"))'
      BY <3>1, <3>2, DiagnosticsAssumption
    <3> QED
      BY <3>1, <3>3
  <2>5. CASE Reboot
    BY <2>5 DEF Reboot
  <2>6. CASE UNCHANGED vars
    BY <2>6 DEF vars, counters
  <2> QED
    BY <2>1, <2>2, <2>3, <2>4, <2>5, <2>6 DEF Next
<1> QED
  BY <1>1, <1>2, LogTyped, PTL DEF Spec

\* What a step makes of the errors so far: it adds one as the last event, keeps
\* them, or starts over.
LEMMA ErrorsStep ==
  ASSUME LogType, [Next]_vars
  PROVE  /\ Failed =>
              /\ Errors' = Errors \cup {Len(log) + 1} /\ DOMAIN log' = 1..(Len(log) + 1)
              /\ last_error' = log'[Len(log) + 1]
         /\ SubscribedRefused =>
              /\ Errors' = Errors \cup {Len(log) + 2} /\ DOMAIN log' = 1..(Len(log) + 2)
              /\ last_error' = log'[Len(log) + 2]
              /\ log'[Len(log) + 1] = "subscribed"
         /\ ValidFrame \/ IgnoredName \/ Subscribed =>
              /\ Errors' = Errors /\ DOMAIN log' = 1..(Len(log) + 1)
              /\ last_error' = last_error
         /\ Failed \/ SubscribedRefused \/ ValidFrame \/ IgnoredName \/ Subscribed =>
              \A i \in 1..Len(log) : log'[i] = log[i]
         /\ Len(log) \in Nat /\ DOMAIN log = 1..Len(log)
<1> USE DEF Errors
<1>1. Len(log) \in Nat /\ DOMAIN log = 1..Len(log)
  BY DEF LogType
<1>2. ASSUME Failed
      PROVE  /\ Errors' = Errors \cup {Len(log) + 1}
             /\ DOMAIN log' = 1..(Len(log) + 1)
             /\ last_error' = log'[Len(log) + 1]
             /\ \A i \in 1..Len(log) : log'[i] = log[i]
  <2>1. PICK failure \in Failures :
          log' = log \o <<failure>> /\ last_error' = failure
    BY <1>2 DEF Failed, RecordError, Happened
  <2> QED
    BY <1>1, <2>1, OneMore
<1>3. ASSUME SubscribedRefused
      PROVE  /\ Errors' = Errors \cup {Len(log) + 2}
             /\ DOMAIN log' = 1..(Len(log) + 2)
             /\ last_error' = log'[Len(log) + 2]
             /\ log'[Len(log) + 1] = "subscribed"
             /\ \A i \in 1..Len(log) : log'[i] = log[i]
  <2>1. PICK failure \in Failures :
          log' = log \o <<"subscribed", failure>> /\ last_error' = failure
    BY <1>3 DEF SubscribedRefused, RecordError, Happened
  <2>2. /\ DOMAIN log' = 1..(Len(log) + 2)
        /\ log'[Len(log) + 1] = "subscribed" /\ log'[Len(log) + 2] = failure
        /\ \A i \in 1..Len(log) : log'[i] = log[i]
    BY <2>1 DEF LogType
  <2>3. "subscribed" \notin Failures
    BY DiagnosticsAssumption
  <2> QED
    BY <1>1, <2>1, <2>2, <2>3
<1>4. ASSUME ValidFrame \/ IgnoredName \/ Subscribed
      PROVE  /\ Errors' = Errors /\ DOMAIN log' = 1..(Len(log) + 1)
             /\ last_error' = last_error
             /\ \A i \in 1..Len(log) : log'[i] = log[i]
  <2>1. PICK e \in {"valid", "ignored", "subscribed"} :
          log' = log \o <<e>> /\ last_error' = last_error
    BY <1>4 DEF ValidFrame, IgnoredName, Subscribed, Happened, counters
  <2>2. e \notin Failures
    BY DiagnosticsAssumption
  <2> QED
    BY <1>1, <2>1, <2>2, OneMore
<1> QED
  BY <1>1, <1>2, <1>3, <1>4

\* The last error is the latest one, and there is none before the first.
THEOREM LatestErrorIsShown == Spec => []LastErrorIsLatest
<1> USE DEF LastErrorIsLatest
<1>1. Init => LastErrorIsLatest
  BY DEF Init, Errors
<1>2. LogType /\ LastErrorIsLatest /\ [Next]_vars => LastErrorIsLatest'
  <2> SUFFICES ASSUME LogType, LastErrorIsLatest, [Next]_vars
               PROVE  LastErrorIsLatest'
    OBVIOUS
  <2>1. Errors \subseteq 1..Len(log)
    BY ErrorsStep DEF Errors
  <2>2. CASE Failed
    <3>1. PICK latest \in Nat : latest = Len(log) + 1
      BY ErrorsStep
    <3>2. /\ latest \in Errors' /\ last_error' = log'[latest]
          /\ After({latest})' = {}
      BY <2>2, <3>1, ErrorsStep DEF After
    <3>3. \E i \in Errors' :
            After({i})' \cap Errors' = {} /\ last_error' = log'[i]
      BY <3>2
    <3> QED
      BY <3>3
  <2>3. CASE SubscribedRefused
    <3>1. PICK latest \in Nat : latest = Len(log) + 2
      BY ErrorsStep
    <3>2. /\ latest \in Errors' /\ last_error' = log'[latest]
          /\ After({latest})' = {}
      BY <2>3, <3>1, ErrorsStep DEF After
    <3>3. \E i \in Errors' :
            After({i})' \cap Errors' = {} /\ last_error' = log'[i]
      BY <3>2
    <3> QED
      BY <3>3
  <2>4. CASE ValidFrame \/ IgnoredName \/ Subscribed
    <3>1. \A i \in Errors : After({i})' \cap Errors' = After({i}) \cap Errors
      BY <2>1, <2>4, ErrorsStep DEF After
    <3> QED
      BY <2>1, <2>4, <3>1, ErrorsStep
  <2>5. CASE Reboot
    BY <2>5 DEF Reboot, Errors
  <2>6. CASE UNCHANGED vars
    BY <2>6 DEF vars, counters, Errors, After
  <2> QED
    BY <2>2, <2>3, <2>4, <2>5, <2>6 DEF Next
<1> QED
  BY <1>1, <1>2, LogTyped, PTL DEF Spec

-----------------------------------------------------------------------------
(* The counters.                                                           *)

\* The errors that the consecutive counter is about.
Run == Errors \cap After(Events("valid") \cup Events("subscribed"))

\* One more member counts as one more, up to the largest value of a counter.
LEMMA CappedAdd ==
  ASSUME NEW S, IsFiniteSet(S), NEW x, x \notin S
  PROVE  Capped(S \cup {x}) = Saturating(Capped(S))
<1>1. /\ Cardinality(S \cup {x}) = Cardinality(S) + 1
      /\ Cardinality(S) \in Nat
  BY FS_AddElement, FS_CardinalityType
<1> QED
  BY <1>1, DiagnosticsAssumption DEF Capped, Saturating

LEMMA CappedEmpty == Capped({}) = 0
  BY FS_EmptySet, DiagnosticsAssumption DEF Capped

\* Both counters are exact, in histories of any length and past saturation.
THEOREM CountersAreExact == Spec => []CountsAreExact
<1> USE DEF CountsAreExact
<1>1. Init => CountsAreExact
  <2> SUFFICES ASSUME Init PROVE CountsAreExact
    OBVIOUS
  <2>1. Errors = {} /\ Run = {}
    BY DEF Init, Errors, Run
  <2> QED
    BY <2>1, CappedEmpty DEF Init, Run
<1>2. LogType /\ CountsAreExact /\ [Next]_vars => CountsAreExact'
  <2> SUFFICES ASSUME LogType, CountsAreExact, [Next]_vars
               PROVE  CountsAreExact'
    OBVIOUS
  <2>1. Errors \subseteq 1..Len(log) /\ Run \subseteq Errors
    BY ErrorsStep DEF Errors, Run
  <2>2. IsFiniteSet(Errors) /\ IsFiniteSet(Run)
    <3>1. IsFiniteSet(1..Len(log))
      BY ErrorsStep, FS_Interval
    <3> QED
      BY <2>1, <3>1, FS_Subset
  <2>3. total_errors = Capped(Errors) /\ consecutive_errors = Capped(Run)
    BY DEF Run
  <2>4. SUFFICES /\ total_errors' = Capped(Errors')
                 /\ consecutive_errors' = Capped(Run')
    BY DEF Run
  <2>5. CASE Failed
    <3>1. /\ total_errors' = Saturating(total_errors)
          /\ consecutive_errors' = Saturating(consecutive_errors)
      BY <2>5 DEF Failed, RecordError
    <3>2. Run' = Run \cup {Len(log) + 1}
      BY <2>1, <2>5, ErrorsStep, DiagnosticsAssumption
      DEF Run, Errors, After, Events
    <3>3. Len(log) + 1 \notin Errors /\ Len(log) + 1 \notin Run
      BY <2>1, ErrorsStep
    <3> QED
      BY <2>2, <2>3, <2>5, <3>1, <3>2, <3>3, ErrorsStep, CappedAdd
  <2>6. CASE SubscribedRefused
    <3>1. /\ total_errors' = Saturating(total_errors)
          /\ consecutive_errors' = Saturating(0)
      BY <2>6 DEF SubscribedRefused, RecordError
    <3>2. Run' = {} \cup {Len(log) + 2}
      BY <2>1, <2>6, ErrorsStep, DiagnosticsAssumption
      DEF Run, Errors, After, Events
    <3>3. Len(log) + 2 \notin Errors
      BY <2>1, ErrorsStep
    <3>4. Capped({} \cup {Len(log) + 2}) = Saturating(0)
      BY CappedAdd, CappedEmpty, FS_EmptySet
    <3> QED
      BY <2>2, <2>3, <2>6, <3>1, <3>2, <3>3, <3>4, ErrorsStep, CappedAdd
  <2>7. CASE ValidFrame \/ Subscribed
    <3>1. total_errors' = total_errors /\ consecutive_errors' = 0
      BY <2>3, <2>7 DEF ValidFrame, Subscribed
    <3>2. log'[Len(log) + 1] \in {"valid", "subscribed"}
      BY <2>7, OneMore DEF ValidFrame, Subscribed, Happened
    <3>3. Run' = {}
      BY <2>1, <2>7, <3>2, ErrorsStep DEF Run, After, Events
    <3> QED
      BY <2>3, <2>7, <3>1, <3>3, ErrorsStep, CappedEmpty
  <2>8. CASE IgnoredName
    <3>1. UNCHANGED <<total_errors, consecutive_errors>>
      BY <2>8 DEF IgnoredName, counters
    <3>2. log'[Len(log) + 1] = "ignored"
      BY <2>8, OneMore DEF IgnoredName, Happened
    <3>3. Run' = Run
      BY <2>1, <2>8, <3>2, ErrorsStep DEF Run, After, Events
    <3> QED
      BY <2>3, <2>8, <3>1, <3>3, ErrorsStep
  <2>9. CASE Reboot
    <3>1. Errors' = {} /\ Run' = {}
      BY <2>9 DEF Reboot, Errors, Run
    <3> QED
      BY <2>9, <3>1, CappedEmpty DEF Reboot
  <2>10. CASE UNCHANGED vars
    BY <2>3, <2>10 DEF vars, counters, Run, Errors, After, Events
  <2> QED
    BY <2>5, <2>6, <2>7, <2>8, <2>9, <2>10 DEF Next
<1> QED
  BY <1>1, <1>2, LogTyped, PTL DEF Spec
=============================================================================
