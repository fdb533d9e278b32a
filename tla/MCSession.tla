------------------------------ MODULE MCSession ------------------------------
(* Instance of AllpowersBLE for the timers and the life of a session: no      *)
(* outputs and no fields, so that a frame is told from another by its kind.   *)
EXTENDS AllpowersBLE

MCNothing == {}
MCValues == {0}
MCOptions == [f \in MCNothing |-> {}]
MCLongIntervals == {4}
=============================================================================
