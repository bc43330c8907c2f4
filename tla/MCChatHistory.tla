--------------------------- MODULE MCChatHistory ---------------------------
(* The instances of ChatHistory that TLC checks. *)
EXTENDS ChatHistory

CONSTANTS a1, a2, u1, u2, n1, n2, s1, s2
=============================================================================
