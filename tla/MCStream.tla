------------------------------ MODULE MCStream ------------------------------
(* Values of the constants of APCStream for TLC. *)
EXTENDS APCStream

\* A message without payload, one with a field that is converted, one that is too long,
\* one that is too short for its type, and two more.
MCScript == <<[type |-> "KA", payload |-> <<>>], [type |-> "NET_TXDONE", payload |-> <<1, 2, 3>>],
              [type |-> "NET_RX", payload |-> <<1, 2, 3, 4, 5>>],
              [type |-> "NET_TXDONE", payload |-> <<1>>],
              [type |-> "NET_RX", payload |-> <<4>>], [type |-> "NET_TXDONE", payload |-> <<5, 6, 7>>]>>

\* No cookie; longer than the input buffer; too short.
MCAlien == {<<"noise", "KA", 0>>, <<COOKIE, "NET_RX", 5, 1, 2, 3, 4, 5>>, <<COOKIE, "NET_TXDONE", 1, 9>>}
=============================================================================
