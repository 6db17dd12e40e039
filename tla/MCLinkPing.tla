----------------------------- MODULE MCLinkPing -----------------------------
(***************************************************************************)
(* Two peers.  The times of the code are scaled down: 5 to 8 s between     *)
(* pings and a time-out of 10 s are 1 or 2 ticks and more than 2 ticks.    *)
(***************************************************************************)
EXTENDS LinkPing, TLC

CONSTANTS a, b

=============================================================================
