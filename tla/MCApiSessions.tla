---------------------------- MODULE MCApiSessions ----------------------------
\* Instance of ApiSessions for TLC.
EXTENDS ApiSessions, TLC

CONSTANTS s1, s2

MCCommands == (s1 :> {"wait"}) @@ (s2 :> {"print"})
=============================================================================
