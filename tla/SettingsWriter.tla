--------------------------- MODULE SettingsWriter ---------------------------
(***************************************************************************)
(* What the component promises of the station's settings, which can only be *)
(* written all at once: within one session it is told them, may change one  *)
(* at a time, and may write them again as they stand.  It writes nothing it  *)
(* was not told in this session.                                            *)
(***************************************************************************)
CONSTANTS
  Fields,   \* the settings
  Values,   \* what a setting may hold
  Options,  \* Options[f]: the values setting f may be changed to
  None      \* no settings

VARIABLES
  up,       \* a session is up
  known,    \* the settings as told and changed in this session, or None
  written   \* what the latest step wrote, or None

vars == <<up, known, written>>

Init == up = FALSE /\ known = None /\ written = None

Silent == written' = None

Open == ~up /\ up' = TRUE /\ known' = known /\ Silent

Close == up /\ up' = FALSE /\ known' = None /\ Silent

Told(settings) == up /\ up' = up /\ known' = settings /\ Silent

Change(f, v) ==
  /\ known # None
  /\ v \in Options[f] /\ known[f] # v
  /\ known' = [known EXCEPT ![f] = v]
  /\ written' = known'
  /\ up' = up

WriteAgain == known # None /\ written' = known /\ UNCHANGED <<up, known>>

\* A failure, after which the settings have to be told again.
Forget == known' = None /\ up' = up /\ Silent

Rest == Silent /\ UNCHANGED <<up, known>>

Next ==
  \/ Open
  \/ Close
  \/ \E settings \in [Fields -> Values] : Told(settings)
  \/ \E f \in Fields, v \in Values : Change(f, v)
  \/ WriteAgain
  \/ Forget
  \/ Rest

Spec == Init /\ [][Next]_vars
=============================================================================
