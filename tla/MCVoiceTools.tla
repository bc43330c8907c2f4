--------------------------- MODULE MCVoiceTools ---------------------------
(* The instance of VoiceTools that TLC checks. *)
EXTENDS VoiceTools

CONSTANTS x1, x2

\* A search, and one with another call behind it: the limit may be reached
\* before a batch, in its middle, or at its end.
MCCallLists == {<<"search">>, <<"search", "other">>}
===========================================================================
