-------------------------- MODULE MCRateLimitGuard --------------------------
(***************************************************************************)
(* A small instance of RateLimitGuard for TLC.                             *)
(***************************************************************************)
EXTENDS RateLimitGuard

CONSTANTS c1, c2

MCClients == {c1, c2}
=============================================================================
