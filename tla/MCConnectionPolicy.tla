------------------------- MODULE MCConnectionPolicy -------------------------
(* Instance of ConnectionPolicy: a boot delay longer than the wait for a name, *)
(* as with the defaults (10 s and 3 s).                                        *)
EXTENDS ConnectionPolicy

MCConnectAtBoot == {TRUE, FALSE}
=============================================================================
