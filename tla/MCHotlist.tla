----------------------------- MODULE MCHotlist ------------------------------
(* Small instances of Hotlist for TLC. *)
EXTENDS Hotlist
=============================================================================
