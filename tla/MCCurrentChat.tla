--------------------------- MODULE MCCurrentChat ---------------------------
(* The instances of CurrentChat that TLC checks. *)
EXTENDS CurrentChat

CONSTANTS c1, c2, e1, e2
=============================================================================
