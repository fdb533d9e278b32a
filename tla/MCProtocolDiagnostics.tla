------------------------ MODULE MCProtocolDiagnostics ------------------------
(* Instance of ProtocolDiagnostics: two failures that differ, counters that   *)
(* saturate at 3 and six events, so that errors go on after the saturation.   *)
EXTENDS ProtocolDiagnostics

CONSTANTS f1, f2, none

MCFailures == {f1, f2}
=============================================================================
