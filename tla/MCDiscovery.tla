----------------------------- MODULE MCDiscovery -----------------------------
(***************************************************************************)
(* One graph and one device.  The times are scaled: a silence of 10 s to 3 *)
(* ticks, 5 to 8 s between two messages on the bus to 1 or 2.              *)
(***************************************************************************)
EXTENDS Discovery

All == {Kind}
Some == {{"dev", "sig_in", "map_in"}, Kind}

=============================================================================
