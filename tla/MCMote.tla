------------------------------- MODULE MCMote -------------------------------
(* Values of the constants for TLC. *)
EXTENDS APMote

Ops    == {Op("AP_SEND", FALSE, FALSE)}
SetOps == {Op("SETPARAM", FALSE, FALSE)}
NoOps  == {}
Boot   == <<GetParam>>
NoBoot == <<>>
=============================================================================
