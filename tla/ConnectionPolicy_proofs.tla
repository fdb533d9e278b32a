---------------------- MODULE ConnectionPolicy_proofs ----------------------
(* Proofs about ConnectionPolicy for every length of its delays.           *)
EXTENDS ConnectionPolicy, TLAPS

\* What OffStopsEverything lacks to be inductive: a client that is disabled has
\* been told to give up its link, also while a connection is requested again.
DisabledHasNoLink == ~enabled => link \in {"idle", "cancelled", "closing"}

\* Both ways to prepare a connection leave the script and the client well typed.
LEMMA PrepareType ==
  ASSUME NEW named \in BOOLEAN, PrepareConnection(named), TypeOK
  PROVE  /\ waiting' \in BOOLEAN /\ wait_left' \in 0..NameWait
         /\ capture_pending' \in BOOLEAN
         /\ auto_connect' \in BOOLEAN /\ enabled' \in BOOLEAN
<1>1. wait_left' \in 0..NameWait
  <2>1. wait_left' = 0 \/ wait_left' = NameWait
    BY DEF PrepareConnection, AllowConnection, AwaitName
  <2> QED
    BY <2>1, DelayAssumption
<1>2. CASE named
  BY <1>1, <1>2, ZenonT(30) DEF PrepareConnection, AllowConnection
<1>3. CASE ~named
  <2>1. enabled \in BOOLEAN
    BY DEF TypeOK
  <2> QED
    BY <1>1, <1>3, <2>1, ZenonT(30) DEF PrepareConnection, AwaitName
<1> QED
  BY <1>2, <1>3

\* Turning off calls off an attempt and closes a link.
LEMMA TurnOffCloses ==
  ASSUME TypeOK, DisabledHasNoLink, TurnOff
  PROVE  link' \in {"idle", "cancelled", "closing"}
<1>1. CASE enabled
  <2>1. link' = Closing
    BY <1>1 DEF TurnOff
  <2>2. CASE link = "connecting"
    BY <2>1, <2>2 DEF Closing
  <2>3. CASE link \in {"open", "connected"}
    BY <2>1, <2>3 DEF Closing
  <2>4. CASE link \in {"idle", "cancelled", "closing"}
    BY <2>1, <2>4 DEF Closing
  <2> QED
    BY <2>2, <2>3, <2>4 DEF TypeOK
<1>2. CASE ~enabled
  BY <1>2 DEF TurnOff, DisabledHasNoLink
<1> QED
  BY <1>1, <1>2

\* Types and the ranges of the delays survive every step.
LEMMA TypeStep == TypeOK /\ [Next]_vars => TypeOK'
<1> SUFFICES ASSUME TypeOK, [Next]_vars PROVE TypeOK'
  OBVIOUS
<1> USE DEF delayVars, scriptVars, clientVars
<1>1. CASE WaitOver
  BY <1>1 DEF WaitOver, TypeOK
<1>2. CASE BootDelayOver
  <2>1. CASE requested
    BY <1>2, <2>1, PrepareType DEF BootDelayOver, TypeOK
  <2>2. CASE ~requested
    BY <1>2, <2>2 DEF BootDelayOver, TypeOK
  <2> QED
    BY <2>1, <2>2
<1>3. CASE Advertisement
  <2>1. CASE capture_pending /\ requested
    BY <1>3, <2>1, PrepareType DEF Advertisement, TypeOK
  <2>2. CASE ~(capture_pending /\ requested)
    BY <1>3, <2>2 DEF Advertisement, TypeOK
  <2> QED
    BY <2>1, <2>2
<1>4. CASE TurnOn
  BY <1>4, PrepareType DEF TurnOn, TypeOK
<1>5. CASE TurnOff
  <2>1. link' \in {"idle", "connecting", "cancelled", "open", "connected",
                  "closing"}
    <3>1. CASE link = "connecting"
      BY <1>5, <3>1 DEF TurnOff, Closing
    <3>2. CASE link \in {"open", "connected"}
      BY <1>5, <3>2 DEF TurnOff, Closing
    <3>3. CASE link \in {"idle", "cancelled", "closing"}
      BY <1>5, <3>3 DEF TurnOff, Closing
    <3> QED
      BY <3>1, <3>2, <3>3 DEF TypeOK
  <2>2. wait_left' \in 0..NameWait /\ boot_left' \in 0..BootstrapDelay
    BY <1>5, DelayAssumption DEF TurnOff, TypeOK
  <2>3. state' \in {"Disabled", "Searching", "Connected"}
    BY <1>5 DEF TurnOff
  <2>4. captured \in BOOLEAN /\ booting \in BOOLEAN /\ waited \in BOOLEAN
    BY DEF TypeOK
  <2>5. /\ requested' = FALSE /\ capture_pending' = FALSE /\ waiting' = FALSE
        /\ auto_connect' = FALSE /\ enabled' = FALSE
        /\ captured' = captured /\ booting' = booting /\ waited' = waited
    BY <1>5 DEF TurnOff
  <2> QED
    BY <2>1, <2>2, <2>3, <2>4, <2>5, ZenonT(30) DEF TypeOK
<1>6. CASE Claim \/ AttemptFailed \/ Opened \/ Connected \/ ForcedReconnect
  BY <1>6
  DEF Claim, AttemptFailed, Opened, Connected, ForcedReconnect, TypeOK
<1>7. CASE Closed
  <2>1. CASE requested
    BY <1>7, <2>1, PrepareType DEF Closed, TypeOK
  <2>2. CASE ~requested
    BY <1>7, <2>2 DEF Closed, TypeOK
  <2> QED
    BY <2>1, <2>2
<1>8. CASE Tick
  BY <1>8, DelayAssumption DEF Tick, TypeOK
<1>9. CASE UNCHANGED vars
  BY <1>9 DEF vars, TypeOK
<1> QED
  BY <1>1, <1>2, <1>3, <1>4, <1>5, <1>6, <1>7, <1>8, <1>9 DEF Next

\* OffStopsEverything is inductive: whoever prepares a connection has looked at
\* the desired state in the same automation.
LEMMA OffStep ==
  TypeOK /\ OffStopsEverything /\ DisabledHasNoLink /\ [Next]_vars
    => OffStopsEverything'
<1> SUFFICES ASSUME TypeOK, OffStopsEverything, DisabledHasNoLink, [Next]_vars
             PROVE  OffStopsEverything'
  OBVIOUS
<1> USE DEF OffStopsEverything, delayVars, scriptVars, clientVars
<1>1. CASE WaitOver
  BY <1>1 DEF WaitOver, TypeOK
<1>2. CASE BootDelayOver
  BY <1>2 DEF BootDelayOver
<1>3. CASE Advertisement
  BY <1>3 DEF Advertisement
<1>4. CASE TurnOn
  BY <1>4 DEF TurnOn
<1>5. CASE TurnOff
  BY <1>5, TurnOffCloses DEF TurnOff
<1>6. CASE Claim \/ AttemptFailed \/ Opened \/ Connected \/ ForcedReconnect
  BY <1>6 DEF Claim, AttemptFailed, Opened, Connected, ForcedReconnect
<1>7. CASE Closed
  BY <1>7 DEF Closed
<1>8. CASE Tick
  BY <1>8 DEF Tick
<1>9. CASE UNCHANGED vars
  BY <1>9 DEF vars
<1> QED
  BY <1>1, <1>2, <1>3, <1>4, <1>5, <1>6, <1>7, <1>8, <1>9 DEF Next

\* A client is disabled only by giving up its link, and gets no link before it
\* is enabled again.
LEMMA DisabledStep ==
  TypeOK /\ DisabledHasNoLink /\ [Next]_vars => DisabledHasNoLink'
<1> SUFFICES ASSUME TypeOK, DisabledHasNoLink, [Next]_vars
             PROVE  DisabledHasNoLink'
  OBVIOUS
<1> USE DEF DisabledHasNoLink, PrepareConnection, AllowConnection, AwaitName,
            delayVars, scriptVars, clientVars
<1>1. CASE WaitOver
  BY <1>1 DEF WaitOver
<1>2. CASE BootDelayOver
  BY <1>2 DEF BootDelayOver
<1>3. CASE Advertisement
  BY <1>3 DEF Advertisement
<1>4. CASE TurnOn
  BY <1>4 DEF TurnOn
<1>5. CASE TurnOff
  BY <1>5, TurnOffCloses
<1>6. CASE Claim \/ AttemptFailed \/ Opened \/ Connected \/ ForcedReconnect
  BY <1>6 DEF Claim, AttemptFailed, Opened, Connected, ForcedReconnect
<1>7. CASE Closed
  BY <1>7 DEF Closed
<1>8. CASE Tick
  BY <1>8 DEF Tick
<1>9. CASE UNCHANGED vars
  BY <1>9 DEF vars
<1> QED
  BY <1>1, <1>2, <1>3, <1>4, <1>5, <1>6, <1>7, <1>8, <1>9 DEF Next

\* Only a name or a wait in full sets the client free, and a wait binds it.
LEMMA ClaimsStep ==
  TypeOK /\ ClaimsAwaitName /\ [Next]_vars => ClaimsAwaitName'
<1> SUFFICES ASSUME TypeOK, ClaimsAwaitName, [Next]_vars
             PROVE  ClaimsAwaitName'
  OBVIOUS
<1> USE DEF ClaimsAwaitName, PrepareConnection, AllowConnection, AwaitName,
            delayVars, scriptVars, clientVars
<1>1. CASE WaitOver
  BY <1>1 DEF WaitOver
<1>2. CASE BootDelayOver
  BY <1>2 DEF BootDelayOver
<1>3. CASE Advertisement
  BY <1>3 DEF Advertisement
<1>4. CASE TurnOn
  BY <1>4 DEF TurnOn
<1>5. CASE TurnOff
  BY <1>5 DEF TurnOff
<1>6. CASE Claim \/ AttemptFailed \/ Opened \/ Connected \/ ForcedReconnect
  BY <1>6 DEF Claim, AttemptFailed, Opened, Connected, ForcedReconnect
<1>7. CASE Closed
  BY <1>7 DEF Closed
<1>8. CASE Tick
  BY <1>8 DEF Tick
<1>9. CASE UNCHANGED vars
  BY <1>9 DEF vars
<1> QED
  BY <1>1, <1>2, <1>3, <1>4, <1>5, <1>6, <1>7, <1>8, <1>9 DEF Next

\* Every event that changes the desired state or the link publishes the text.
LEMMA StateStep ==
  TypeOK /\ StateFollowsPolicy /\ [Next]_vars => StateFollowsPolicy'
<1> SUFFICES ASSUME TypeOK, StateFollowsPolicy, [Next]_vars
             PROVE  StateFollowsPolicy'
  OBVIOUS
<1> USE DEF StateFollowsPolicy, delayVars, scriptVars, clientVars
<1>1. CASE WaitOver
  BY <1>1 DEF WaitOver
<1>2. CASE BootDelayOver
  BY <1>2 DEF BootDelayOver
<1>3. CASE Advertisement
  BY <1>3 DEF Advertisement
<1>4. CASE TurnOn
  BY <1>4 DEF TurnOn
<1>5. CASE TurnOff
  BY <1>5 DEF TurnOff
<1>6. CASE Claim \/ AttemptFailed \/ Opened \/ Connected \/ ForcedReconnect
  BY <1>6 DEF Claim, AttemptFailed, Opened, Connected, ForcedReconnect
<1>7. CASE Closed
  BY <1>7 DEF Closed
<1>8. CASE Tick
  BY <1>8 DEF Tick
<1>9. CASE UNCHANGED vars
  BY <1>9 DEF vars
<1> QED
  BY <1>1, <1>2, <1>3, <1>4, <1>5, <1>6, <1>7, <1>8, <1>9 DEF Next

\* The inductive invariant.
PolicyInv ==
  /\ TypeOK /\ OffStopsEverything /\ DisabledHasNoLink
  /\ ClaimsAwaitName /\ StateFollowsPolicy

\* The invariant holds in every reachable state.
LEMMA PolicyInvariant == Spec => []PolicyInv
<1>1. Init => PolicyInv
  <2> SUFFICES ASSUME Init PROVE PolicyInv
    OBVIOUS
  <2>1. TypeOK
    <3>1. requested \in BOOLEAN
      BY DelayAssumption DEF Init
    <3>2. /\ boot_left \in 0..BootstrapDelay /\ wait_left \in 0..NameWait
          /\ state \in {"Disabled", "Searching", "Connected"}
          /\ link \in {"idle", "connecting", "cancelled", "open", "connected",
                      "closing"}
      BY DelayAssumption DEF Init
    <3>3. /\ captured = FALSE /\ capture_pending = FALSE /\ waiting = FALSE
          /\ auto_connect = FALSE /\ waited = FALSE
          /\ booting = requested /\ enabled = requested
      BY DEF Init
    <3> QED
      BY <3>1, <3>2, <3>3, ZenonT(30) DEF TypeOK
  <2>2. /\ OffStopsEverything /\ DisabledHasNoLink
        /\ ClaimsAwaitName /\ StateFollowsPolicy
    BY DEF Init, OffStopsEverything, DisabledHasNoLink, ClaimsAwaitName,
           StateFollowsPolicy
  <2> QED
    BY <2>1, <2>2 DEF PolicyInv
<1>2. PolicyInv /\ [Next]_vars => PolicyInv'
  BY TypeStep, OffStep, DisabledStep, ClaimsStep, StateStep DEF PolicyInv
<1> QED
  BY <1>1, <1>2, PTL DEF Spec

\* Delays and states stay within their types, whatever delay was cut short.
THEOREM PolicyTypes == Spec => []TypeOK
<1>1. PolicyInv => TypeOK
  BY DEF PolicyInv
<1> QED
  BY <1>1, PolicyInvariant, PTL

\* Turned off, the client neither holds a link it was not told to close nor may
\* claim another one, and no delay is left that could change that.
THEOREM OffIsFinal == Spec => []OffStopsEverything
<1>1. PolicyInv => OffStopsEverything
  BY DEF PolicyInv
<1> QED
  BY <1>1, PolicyInvariant, PTL

\* However scripts, advertisements and reconnects overlap, the client may claim
\* an advertisement only after the name was seen or waited for.
THEOREM NamesAreAwaited == Spec => []ClaimsAwaitName
<1>1. PolicyInv => ClaimsAwaitName
  BY DEF PolicyInv
<1> QED
  BY <1>1, PolicyInvariant, PTL

\* The status text never contradicts the desired state.
THEOREM TextFollowsPolicy == Spec => []StateFollowsPolicy
<1>1. PolicyInv => StateFollowsPolicy
  BY DEF PolicyInv
<1> QED
  BY <1>1, PolicyInvariant, PTL
=============================================================================
