----------------------------- MODULE MCSettings -----------------------------
(* Instance of AllpowersBLE for the settings snapshot: a requestable ECO bit  *)
(* with an entity and a reserved field no command may change, and an output.  *)
EXTENDS AllpowersBLE

MCOutputs == {"ac"}
MCFields == {"eco", "reserved"}
MCValues == {0, 1}
MCOptions == [f \in MCFields |-> IF f = "eco" THEN {0, 1} ELSE {}]
MCShown == {"eco"}
MCSettingsIntervals == {2}
=============================================================================
