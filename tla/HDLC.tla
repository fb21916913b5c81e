-------------------------------- MODULE HDLC --------------------------------
(***************************************************************************)
(* APInterface/HDLC.cpp: the framing of the messages on the serial line to *)
(* the AP.  A frame is delimited by HDLC_PADDING, its delimiters and       *)
(* escapes are escaped, and it ends in a 16-bit check sequence (FCS).      *)
(* Bytes are numbers 0..255.                                               *)
(***************************************************************************)
EXTENDS Integers, SequencesExt

HDLC_PADDING == 126   \* 0x7E
HDLC_ESCCHAR == 125   \* 0x7D
HDLC_XORBYTE == 32    \* 0x20

\* Exclusive or of 16-bit words, the operator ^ of C: a bit of the result is set when
\* it is set in one of the two.
Xor(x, y) ==
    LET bit(n) == ((x \div n) + (y \div n)) % 2
    IN  bit(1) + 2 * bit(2) + 4 * bit(4) + 8 * bit(8) + 16 * bit(16) + 32 * bit(32)
        + 64 * bit(64) + 128 * bit(128) + 256 * bit(256) + 512 * bit(512)
        + 1024 * bit(1024) + 2048 * bit(2048) + 4096 * bit(4096) + 8192 * bit(8192)
        + 16384 * bit(16384) + 32768 * bit(32768)

\* A step of the polynomial 0x8408 (33800), and the eight of a byte.
FcsStep(r) == IF r % 2 = 1 THEN Xor(r \div 2, 33800) ELSE r \div 2
FcsSteps(byte) == FcsStep(FcsStep(FcsStep(FcsStep(FcsStep(FcsStep(FcsStep(FcsStep(byte))))))))

\* _fcstab, the table of the check sequence.
fcstab == [b \in 0..255 |-> FcsSteps(b)]

initFcs16 == 65535
addOneByteToFcs16(fcs, byte) == Xor(fcs \div 256, fcstab[Xor(fcs % 256, byte)])
closeFcs16(fcs) == Xor(fcs, 65535)
computeFCS16(data) ==
    LET fcs[n \in 0..Len(data)] == IF n = 0 THEN initFcs16
                                   ELSE addOneByteToFcs16(fcs[n - 1], data[n])
    IN  closeFcs16(fcs[Len(data)])
-----------------------------------------------------------------------------
(* Encoder *)

\* Mutant: the escape itself is not escaped.
EscapeByte_onlyPadding(b) == IF b = HDLC_PADDING THEN <<HDLC_ESCCHAR, Xor(b, HDLC_XORBYTE)>> ELSE <<b>>

\* One round of appendHDLC.
EscapeByte(b) ==
    IF b \in {HDLC_PADDING, HDLC_ESCCHAR} THEN <<HDLC_ESCCHAR, Xor(b, HDLC_XORBYTE)>> ELSE <<b>>

appendHDLC(dst, src) ==
    LET out[n \in 0..Len(src)] == IF n = 0 THEN dst ELSE out[n - 1] \o EscapeByte(src[n])
    IN  out[Len(src)]

encodeHDLC(src) ==
    LET fcs == computeFCS16(src)
    IN  Append(appendHDLC(appendHDLC(<<HDLC_PADDING>>, src), <<fcs % 256, fcs \div 256>>),
               HDLC_PADDING)
-----------------------------------------------------------------------------
(* CHDLC, the decoder: its fields, and the frame its last byte completed.  *)

\* reset
hdlcReset == [state |-> "COMPLETE", buffer |-> <<>>, fcs |-> initFcs16, frame |-> <<>>]

hdlcAppend(d, byte) == [d EXCEPT !.buffer = Append(@, byte),
                                 !.fcs = addOneByteToFcs16(@, byte), !.frame = <<>>]

\* Mutant: the check is left out.
validateChecksum_none(d) == TRUE

\* Over data and check sequence together the result is fixed.
validateChecksum(d) == closeFcs16(d.fcs) = 3911   \* 0x0F47

\* Mutant: the padding is recognised after an escape, too.
addByte_padFirst(d, b) ==
    IF b = HDLC_PADDING
    THEN [hdlcReset EXCEPT !.frame = IF Len(d.buffer) > 2 /\ validateChecksum(d)
                                     THEN SubSeq(d.buffer, 1, Len(d.buffer) - 2) ELSE <<>>,
                           !.state = d.state]
    ELSE IF d.state = "ESCAPE" THEN [hdlcAppend(d, Xor(b, HDLC_XORBYTE)) EXCEPT !.state = "DATA"]
    ELSE IF b = HDLC_ESCCHAR THEN [d EXCEPT !.state = "ESCAPE", !.frame = <<>>]
    ELSE hdlcAppend(d, b)

\* addByte: a padding ends the frame, which is handed on (callback) when it is longer
\* than the check sequence and the check is right; in any case the decoder restarts.
addByte(d, b) ==
    IF d.state = "ESCAPE" THEN [hdlcAppend(d, Xor(b, HDLC_XORBYTE)) EXCEPT !.state = "DATA"]
    ELSE IF b = HDLC_ESCCHAR THEN [d EXCEPT !.state = "ESCAPE", !.frame = <<>>]
    ELSE IF b = HDLC_PADDING
    THEN [hdlcReset EXCEPT !.frame = IF Len(d.buffer) > 2 /\ validateChecksum(d)
                                     THEN SubSeq(d.buffer, 1, Len(d.buffer) - 2) ELSE <<>>]
    ELSE hdlcAppend(d, b)
=============================================================================
