-------------------------- MODULE MCStoredEntities --------------------------
(* Two stations, one firmware without an address, two names; the numbers and *)
(* the switch keep a value that differs from the configured one.             *)
EXTENDS StoredEntities, TLC

CONSTANTS a, b, n, m

MCAddresses == {NoAddress, a, b}
MCNames == {n, m}
MCChoices == {1, 9}
MCConfigurations == {{"name"}, {"switch", "minutes"}}

\* The names may be swapped, and so may the stations.
Symmetry == Permutations({n, m}) \cup Permutations({a, b})
=============================================================================
