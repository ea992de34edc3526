--------------------------- MODULE MCVoiceSessions ---------------------------
(* Small instances of VoiceSessions. *)
EXTENDS VoiceSessions, TLC

CONSTANTS s1, s2

\* The customer speaks in one of the sessions, the provider answers in the
\* other; either may be the one that is replaced.
MCMaxChunks == [s \in Session |-> IF s = s1 THEN 2 ELSE 0]
MCMaxFinals == [s \in Session |-> IF s = s1 THEN 0 ELSE 2]
=============================================================================
