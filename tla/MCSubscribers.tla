---------------------------- MODULE MCSubscribers ----------------------------
(***************************************************************************)
(* Small instances of Subscribers.                                         *)
(***************************************************************************)
EXTENDS Subscribers

CONSTANTS p1, p2

(* What subscribers ask for overlaps. *)
Overlapping == {{}, {"dev", "sig_in", "map_in"}, {"map_in", "map_out"}}

=============================================================================
