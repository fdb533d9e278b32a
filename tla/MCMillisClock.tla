--------------------------- MODULE MCMillisClock ---------------------------
(* A clock of sixteen milliseconds and iterations that come up to two late. *)
EXTENDS MillisClock

\* Timestamps that no branch reads before they are set anew do not tell two
\* states apart.
View ==
  <<now, looped, session, keepalive_enabled, statusVars,
    IF session # "served" THEN <<>>
    ELSE <<initial, protocolVars, requestVars,
           IF keepalive_enabled THEN keepaliveVars ELSE <<>>,
           IF query_active THEN queryVars ELSE <<>> >> >>
=============================================================================
