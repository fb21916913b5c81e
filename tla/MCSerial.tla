------------------------------ MODULE MCSerial ------------------------------
(* Values of the constants of SerialPort for TLC. *)
EXTENDS SerialPort

\* Messages that hold a padding and an escape.
MCScript == [w \in Writers |-> IF w = "cmd" THEN <<<<126>>, <<7>>>> ELSE <<<<125>>>>]
=============================================================================
