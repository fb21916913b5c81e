------------------------------ MODULE APCCache ------------------------------
(***************************************************************************)
(* CAPCCache (APInterface/APCCache.cpp): the ring of packets sent to the   *)
(* Manager and not confirmed yet, kept for the replay after a reconnect.   *)
(*                                                                         *)
(* Sequence numbers are 64 bits wide inside the cache and 32 bits wide on  *)
(* the wire.  The two word sizes are the constants DWord (2^64) and Word   *)
(* (2^32), so that TLC reaches the wrap of the low word.  A packet's type, *)
(* size and bytes are one element of Payload.                              *)
(***************************************************************************)
EXTENDS Integers, Sequences

CONSTANTS Payload,    \* what a packet carries: type, size and bytes
          NoPayload,  \* content of a slot nothing was written to
          CacheSize,  \* m_outpkts.size()
          Word,       \* 2^32
          DWord,      \* 2^64
          MaxSeq      \* bound on m_lastSentSeqNum

ASSUME CacheAssumption ==
    /\ CacheSize \in Nat \ {0}
    /\ Word \in Nat /\ CacheSize < Word
    /\ MaxSeq \in Nat /\ DWord \in Nat /\ MaxSeq + Word <= DWord
    /\ NoPayload \notin Payload

VARIABLES m_outpkts,        \* the ring
          m_lastSentSeqNum, \* number of the last packet added (64 bits)
          m_numPackets,     \* packets held
          m_pos,            \* slot the next packet is written to
          m_getNextSeqNum,  \* replay cursor (64 bits)
          ret,              \* what the last call returned
          history           \* every packet added since clear()

vars == <<m_outpkts, m_lastSentSeqNum, m_numPackets, m_pos, m_getNextSeqNum,
          ret, history>>

Slots == 0..(CacheSize - 1)

Packet == [m_seqNumb : 0..(Word - 1), data : Payload \cup {NoPayload}]

Returns(op, rc, pkt) == ret' = [op |-> op, rc |-> rc, pkt |-> pkt]

Init ==
    /\ m_outpkts = [i \in Slots |-> [m_seqNumb |-> 0, data |-> NoPayload]]
    /\ m_lastSentSeqNum = 0 /\ m_numPackets = 0
    /\ m_pos = 0 /\ m_getNextSeqNum = 0
    /\ ret = [op |-> "none", rc |-> "OK", pkt |-> {}]
    /\ history = <<>>

\* clear() resets the counters and leaves the slots as they are.
clear ==
    /\ m_lastSentSeqNum' = 0 /\ m_getNextSeqNum' = 0
    /\ m_pos' = 0 /\ m_numPackets' = 0
    /\ Returns("clear", "OK", {})
    /\ history' = <<>>
    /\ UNCHANGED m_outpkts

\* A payload above APC_MAX_MSG_SIZE is refused before anything is written.
addPacketTooBig ==
    /\ Returns("add", "SIZE", {})
    /\ UNCHANGED <<m_outpkts, m_lastSentSeqNum, m_numPackets, m_pos,
                   m_getNextSeqNum, history>>

\* Mutant: the packet is numbered before its slot is chosen, one slot late.
addPacket_writesNextSlot(p) ==
    /\ m_lastSentSeqNum < MaxSeq
    /\ m_lastSentSeqNum' = m_lastSentSeqNum + 1
    /\ m_pos' = IF m_pos + 1 >= CacheSize THEN 0 ELSE m_pos + 1
    /\ m_outpkts' = [m_outpkts EXCEPT ![m_pos'] =
                        [m_seqNumb |-> (m_lastSentSeqNum + 1) % Word, data |-> p]]
    /\ m_numPackets' = IF m_numPackets >= CacheSize THEN m_numPackets ELSE m_numPackets + 1
    /\ Returns("add", IF m_numPackets >= CacheSize THEN "OUTBUFOVERFLOW" ELSE "OK", {})
    /\ history' = Append(history, p)
    /\ UNCHANGED m_getNextSeqNum

\* The packet is written to the current slot and numbered; a full cache thereby
\* loses its oldest packet and says so.
addPacket(p) ==
    /\ m_lastSentSeqNum < MaxSeq
    /\ m_lastSentSeqNum' = m_lastSentSeqNum + 1
    /\ m_outpkts' = [m_outpkts EXCEPT ![m_pos] =
                        [m_seqNumb |-> (m_lastSentSeqNum + 1) % Word, data |-> p]]
    /\ m_pos' = IF m_pos + 1 >= CacheSize THEN 0 ELSE m_pos + 1
    /\ \/ /\ m_numPackets >= CacheSize
          /\ Returns("add", "OUTBUFOVERFLOW", {})
          /\ UNCHANGED m_numPackets
       \/ /\ m_numPackets < CacheSize
          /\ m_numPackets' = m_numPackets + 1
          /\ Returns("add", "OK", {})
    /\ history' = Append(history, p)
    /\ UNCHANGED m_getNextSeqNum

\* Difference of two 64-bit numbers.
Sub64(x, y) == IF x >= y THEN x - y ELSE x - y + DWord

\* Mutant: the high word of the last number is taken unconditionally.
confirmedNum_sameHighWord(last, a) == a + (last - (last % Word))

\* The 64-bit number a confirmed 32-bit number a stands for, given the last
\* number sent: the high word of the last number, or the one before it.
confirmedNum(last, a) ==
    LET low  == last % Word
        full == a + (last - low)
    IN  IF a > low THEN Sub64(full, Word) ELSE full

\* The packets up to the confirmed one are given up.  Outside a reconnect the count
\* only goes down; a number nobody sent is refused.
confirmedSeqNum(a, isInit) ==
    LET c      == confirmedNum(m_lastSentSeqNum, a)
        lost   == m_lastSentSeqNum - c > CacheSize
        numPkt == IF lost THEN CacheSize ELSE m_lastSentSeqNum - c
    IN  /\ \/ /\ c > m_lastSentSeqNum
              /\ Returns("confirm", "PROTOCOL", {})
              /\ UNCHANGED m_numPackets
           \/ /\ c <= m_lastSentSeqNum
              /\ Returns("confirm", IF lost THEN "OUTBUFOVERFLOW" ELSE "OK", {})
              /\ m_numPackets' = IF m_numPackets > numPkt \/ isInit
                                 THEN numPkt ELSE m_numPackets
        /\ UNCHANGED <<m_outpkts, m_lastSentSeqNum, m_pos, m_getNextSeqNum, history>>

\* The replay begins at the oldest packet held.
prepForGet ==
    /\ m_getNextSeqNum' = Sub64(m_lastSentSeqNum, m_numPackets)
    /\ Returns("prep", "OK", {})
    /\ UNCHANGED <<m_outpkts, m_lastSentSeqNum, m_numPackets, m_pos, history>>

\* Slot of the packet added `offset' packets ago (1 is the last one).
SlotBefore(offset) ==
    IF offset > m_pos THEN m_pos + CacheSize - offset ELSE m_pos - offset

\* The next packet of the replay, or the oldest held when it was lost meanwhile.
getNextPacket ==
    /\ \/ /\ m_getNextSeqNum >= m_lastSentSeqNum
          /\ Returns("get", "NOTFOUND", {})
          /\ UNCHANGED m_getNextSeqNum
       \/ /\ m_getNextSeqNum < m_lastSentSeqNum
          /\ LET behind == m_lastSentSeqNum - m_getNextSeqNum
                 lost   == behind > m_numPackets
                 offset == IF lost THEN m_numPackets ELSE behind
             IN  /\ Returns("get", IF lost THEN "OUTBUFOVERFLOW" ELSE "OK",
                            {m_outpkts[SlotBefore(offset)]})
                 /\ m_getNextSeqNum' = m_lastSentSeqNum - offset + 1
    /\ UNCHANGED <<m_outpkts, m_lastSentSeqNum, m_numPackets, m_pos, history>>

Next == \/ clear \/ addPacketTooBig \/ prepForGet \/ getNextPacket
        \/ \E p \in Payload : addPacket(p)
        \/ \E a \in 0..(Word - 1), isInit \in BOOLEAN : confirmedSeqNum(a, isInit)

Spec == Init /\ [][Next]_vars
-----------------------------------------------------------------------------
(* Properties *)

\* The cache's fields stay in their ranges, and the cursor and the fill never
\* pass what was sent.
TypeOK ==
    /\ m_outpkts \in [Slots -> Packet]
    /\ m_lastSentSeqNum \in 0..MaxSeq
    /\ m_numPackets \in 0..CacheSize
    /\ m_pos \in Slots
    /\ m_getNextSeqNum \in 0..(MaxSeq + 1)
    /\ history \in Seq(Payload)
    /\ Len(history) = m_lastSentSeqNum

\* The slot `k' places behind the write position holds the packet that was
\* added k packets ago, number and payload, for as many as were ever added and
\* fit, across every wrap of the ring and of the 32-bit number.  The replay
\* depends on it: getNextPacket finds a packet by its distance only.
RingHoldsLatest ==
    \A k \in 1..CacheSize :
        k <= m_lastSentSeqNum =>
            m_outpkts[SlotBefore(k)] =
                [m_seqNumb |-> (m_lastSentSeqNum - k + 1) % Word,
                 data      |-> history[m_lastSentSeqNum - k + 1]]

\* The cache never claims to hold more packets than were added, also after the
\* confirmation of a reconnect, which may raise the count.
FillWithinSent == m_numPackets <= m_lastSentSeqNum

\* The inductive invariant of the cache, what the replay after a reconnect rests on: getNextPacket
\* finds a packet by its distance from the write position, so the ring must hold the latest
\* packets in order (RingHoldsLatest, which needs the ranges of the fields), and prepForGet
\* goes back by the fill, so the fill must not pass what was sent.
IInv == TypeOK /\ RingHoldsLatest /\ FillWithinSent

\* The one call in which the cache is no such window: when all packets were confirmed under a
\* replay, getNextPacket answers an overflow, with the slot that is written next, and puts the
\* cursor beyond the last packet.
Emptied == getNextPacket /\ m_numPackets = 0 /\ m_getNextSeqNum < m_lastSentSeqNum

Window == INSTANCE APCWindow WITH sent <- history, cached <- m_numPackets,
                                  next <- m_getNextSeqNum

\* The ring with its positions and its two word sizes does what the history with look-ups
\* does, in every call but Emptied.
WindowSpec == Window!WInit /\ [][Window!WNext \/ Emptied]_(Window!wvars)

\* What APCCache.h:58 says of getNextPacket: "APC_ERR_NOTFOUND - no packet in cache".
EmptyIsNotFound ==
    [][ret'.op = "get" /\ ret' # ret /\ m_numPackets = 0 => ret'.rc = "NOTFOUND"]_vars

\* The packets a replay can still find.
Held == {m_outpkts[SlotBefore(k)] : k \in 1..m_numPackets}

\* What APCCache.h says of addPacket: an overflow answer means that the cache is
\* full and the NEXT write can rewrite old packets, so the call that gives this
\* answer has not itself rewritten a packet that was held.
OverflowWarnsBeforeLoss ==
    [][ret'.op = "add" /\ ret'.rc = "OUTBUFOVERFLOW" => Held \subseteq Held']_vars
=============================================================================
