----------------------------- MODULE MCControls -----------------------------
(* Instance of AllpowersBLE for the output bitmap: two outputs that share the *)
(* control command; no settings fields.                                       *)
EXTENDS AllpowersBLE

MCOutputs == {"ac", "dc"}
MCFields == {}
MCValues == {0}
MCOptions == [f \in MCFields |-> {}]
MCShown == {}
MCSettingsIntervals == {2, 3}
=============================================================================
