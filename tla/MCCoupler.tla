----------------------------- MODULE MCCoupler ------------------------------
(* Values of the constants of APCoupler for TLC. *)
EXTENDS APCoupler

\* One version that is new enough although it has a smaller number in it.
MCNewEnough == {<<1, 5, 0, 2>>}

\* Also one that is too old.
MCVersions == MCNewEnough \cup {<<1, 4, 0, 80>>}
=============================================================================
