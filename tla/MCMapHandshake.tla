---------------------------- MODULE MCMapHandshake ----------------------------
(***************************************************************************)
(* Small instances of MapHandshake.                                        *)
(***************************************************************************)
EXTENDS MapHandshake, TLC

=============================================================================
