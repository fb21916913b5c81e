--------------------------- MODULE APCOutputProofs --------------------------
(***************************************************************************)
(* Proofs about what goes out to the Manager: the output cache, for every  *)
(* cache size and word size, and the stream, for every script of messages, *)
(* every size of the ring of buffers and of the input buffer, and every    *)
(* cut of the bytes into writes and reads.                                 *)
(*                                                                         *)
(* The stream is seen as a tape on which the frames of the messages sent   *)
(* lie one behind the other.  The writes under way are the end of the      *)
(* tape, and the receiving serializer stands somewhere before them: what   *)
(* it holds and what is on the way are the same bytes of the tape.         *)
(***************************************************************************)
EXTENDS APCCache, APCStream, WellFoundedInduction, TLAPS

(* The output cache *)

\* A remainder is below its divisor: the number on the wire fits its word.
LEMMA ModRange ==
    ASSUME NEW x \in Nat, NEW w \in Nat \ {0}
    PROVE  x % w \in 0..(w - 1) /\ x % w <= x
  <1>1. x % w \in 0..(w - 1)
    OBVIOUS
  <1>2. x \div w \in Nat /\ x = w * (x \div w) + (x % w)
    OBVIOUS
  <1>3. w * (x \div w) >= 0
    BY <1>2
  <1>4. QED
    BY <1>1, <1>2, <1>3

\* Writing at the current position moves every packet one place further back.
LEMMA SlotShift ==
    ASSUME TypeOK, NEW k \in 1..CacheSize, NEW p \in Payload, addPacket(p)
    PROVE  /\ SlotBefore(k) \in Slots
           /\ SlotBefore(1)' = m_pos
           /\ k < CacheSize => SlotBefore(k + 1)' = SlotBefore(k)
           /\ k < CacheSize => SlotBefore(k) # m_pos
  BY CacheAssumption DEF TypeOK, addPacket, SlotBefore, Slots

\* The quotient and the remainder are the only way to write a number.
LEMMA ModUnique ==
    ASSUME NEW w \in Nat \ {0}, NEW q \in Nat, NEW r \in 0..(w - 1)
    PROVE  (w * q + r) % w = r
  OBVIOUS

\* A number is its quotient and its remainder: the high and the low word.
LEMMA DivMod ==
    ASSUME NEW x \in Nat, NEW w \in Nat \ {0}
    PROVE  x \div w \in Nat /\ x = w * (x \div w) + (x % w)
  OBVIOUS

\* A larger quotient is a number larger by at least one word.
LEMMA NextMultiple ==
    ASSUME NEW w \in Nat \ {0}, NEW q \in Nat, NEW r \in Nat, q < r
    PROVE  w * q + w <= w * r
  <1>1. PICK d \in Nat : r = q + 1 + d
    <2>1. r - q - 1 \in Nat /\ r = q + 1 + (r - q - 1)
      OBVIOUS
    <2>2. QED
      BY <2>1
  <1>2. w * r = w * q + w + w * d
    BY <1>1
  <1>3. w * d \in Nat /\ w * q \in Nat
    OBVIOUS
  <1>4. QED
    BY <1>2, <1>3

\* confirmedSeqNum's arithmetic on the two halves of the 64-bit number finds the
\* most recent packet with the confirmed low word; when there is none, the
\* difference wraps below zero and the result is beyond the last packet, which
\* the code answers with a protocol error.
LEMMA ConfirmedIsLatest ==
    ASSUME NEW last \in 0..MaxSeq, NEW a \in 0..(Word - 1)
    PROVE  /\ confirmedNum(last, a) \in Nat
           /\ confirmedNum(last, a) > last => \A n \in 0..last : n % Word # a
           /\ confirmedNum(last, a) <= last =>
                /\ confirmedNum(last, a) % Word = a
                /\ \A n \in 0..last : n % Word = a => n <= confirmedNum(last, a)
  <1> DEFINE low == last % Word
             k == last \div Word
  <1>1. Word \in Nat \ {0} /\ last \in Nat /\ DWord \in Nat /\ last + Word <= DWord
    BY CacheAssumption
  <1>2. low \in 0..(Word - 1) /\ low <= last
    BY <1>1, ModRange
  <1>3. k \in Nat /\ last = Word * k + low /\ last - low = Word * k
    BY <1>1, <1>2, DivMod
  <1>4. ASSUME NEW n \in 0..last
        PROVE  /\ n \div Word \in Nat
               /\ n = Word * (n \div Word) + (n % Word)
               /\ n \div Word <= k
               /\ n \div Word < k => Word * (n \div Word) + Word <= Word * k
    <2>1. n \div Word \in Nat /\ n = Word * (n \div Word) + (n % Word)
          /\ n % Word \in 0..(Word - 1)
      <3>1. n \in Nat
        BY <1>1
      <3>2. QED
        BY <1>1, <3>1, DivMod, ModRange
    <2>2. n \div Word <= k
      <3>1. SUFFICES ASSUME k < n \div Word PROVE FALSE
        BY <1>3, <2>1
      <3>2. Word * k + Word <= Word * (n \div Word)
        BY <1>1, <1>3, <2>1, <3>1, NextMultiple
      <3>3. Word * k \in Nat /\ Word * (n \div Word) \in Nat
        BY <1>1, <1>3, <2>1
      <3>4. QED
        BY <1>1, <1>2, <1>3, <2>1, <3>2, <3>3
    <2>3. n \div Word < k => Word * (n \div Word) + Word <= Word * k
      BY <1>1, <1>3, <2>1, NextMultiple
    <2>4. QED
      BY <2>1, <2>2, <2>3
  <1>5. Word * k \in Nat
    BY <1>1, <1>3
  <1> HIDE DEF low, k
  <1>6. CASE a <= low
    <2>1. confirmedNum(last, a) = a + Word * k
      BY <1>1, <1>2, <1>3, <1>5, <1>6 DEF confirmedNum, low
    <2>2. confirmedNum(last, a) \in Nat /\ confirmedNum(last, a) <= last
      BY <1>1, <1>2, <1>3, <1>5, <1>6, <2>1
    <2>3. confirmedNum(last, a) % Word = a
      <3>1. (Word * k + a) % Word = a
        BY <1>1, <1>3, ModUnique
      <3>2. a + Word * k = Word * k + a
        BY <1>1, <1>5
      <3>3. QED
        BY <2>1, <3>1, <3>2
    <2>4. ASSUME NEW n \in 0..last, n % Word = a
          PROVE  n <= confirmedNum(last, a)
      <3>1. Word * (n \div Word) <= Word * k
        <4>1. CASE n \div Word = k
          BY <4>1, <1>5
        <4>2. CASE n \div Word < k
          <5>1. Word * (n \div Word) \in Nat
            BY <1>1, <1>4
          <5>2. QED
            BY <1>1, <1>4, <1>5, <4>2, <5>1
        <4>3. QED
          BY <4>1, <4>2, <1>3, <1>4
      <3>2. Word * (n \div Word) \in Nat
        BY <1>1, <1>4
      <3>3. n = Word * (n \div Word) + a
        BY <1>4, <2>4
      <3>4. QED
        BY <2>1, <3>1, <3>2, <3>3, <1>5
    <2>5. QED
      BY <2>2, <2>3, <2>4
  <1>7. CASE a > low /\ k = 0
    <2>1. Word * k = 0
      BY <1>1, <1>7
    <2>2. confirmedNum(last, a) = a - Word + DWord
      <3>1. a + (last - low) = a /\ a < Word
        BY <1>1, <1>2, <1>3, <2>1
      <3>2. confirmedNum(last, a) = Sub64(a, Word)
        BY <1>1, <1>2, <1>7, <3>1 DEF confirmedNum, low
      <3>3. QED
        BY <1>1, <3>1, <3>2 DEF Sub64
    <2>3. confirmedNum(last, a) \in Nat /\ confirmedNum(last, a) > last
      BY <1>1, <1>2, <1>7, <2>2
    <2>4. ASSUME NEW n \in 0..last, n % Word = a PROVE FALSE
      <3>1. n \div Word = 0
        BY <1>4, <1>7
      <3>2. Word * (n \div Word) = 0
        BY <1>1, <3>1
      <3>3. n = a
        BY <1>4, <2>4, <3>2
      <3>4. last = low
        BY <1>2, <1>3, <2>1
      <3>5. QED
        BY <1>2, <1>7, <3>3, <3>4
    <2>5. QED
      BY <1>1, <2>3, <2>4
  <1>8. CASE a > low /\ k > 0
    <2>1. k - 1 \in Nat /\ Word * k = Word * (k - 1) + Word /\ Word * (k - 1) \in Nat
      BY <1>1, <1>3, <1>8
    <2>2. confirmedNum(last, a) = Word * (k - 1) + a
      BY <1>1, <1>2, <1>3, <1>8, <2>1 DEF confirmedNum, Sub64, low
    <2>3. confirmedNum(last, a) \in Nat /\ confirmedNum(last, a) <= last
      BY <1>1, <1>2, <1>3, <1>8, <2>1, <2>2
    <2>4. confirmedNum(last, a) % Word = a
      BY <1>1, <2>1, <2>2, ModUnique
    <2>5. ASSUME NEW n \in 0..last, n % Word = a
          PROVE  n <= confirmedNum(last, a)
      <3>1. Word * (n \div Word) \in Nat
        BY <1>1, <1>4
      <3>2. n = Word * (n \div Word) + a
        BY <1>4, <2>5
      <3>3. n \div Word < k
        <4>1. SUFFICES ASSUME n \div Word = k PROVE FALSE
          BY <1>3, <1>4
        <4>2. n = Word * k + a
          BY <3>2, <4>1
        <4>3. QED
          BY <1>2, <1>3, <1>5, <1>8, <4>2
      <3>4. Word * (n \div Word) + Word <= Word * k
        BY <1>4, <3>3
      <3>5. QED
        BY <1>1, <2>1, <2>2, <3>1, <3>2, <3>4
    <2>6. QED
      BY <2>3, <2>4, <2>5
  <1>9. QED
    BY <1>2, <1>3, <1>6, <1>7, <1>8

\* A cache just built satisfies the invariant (the constructor, clear).
LEMMA InitInv == Init => IInv
  BY CacheAssumption DEF Init, IInv, TypeOK, RingHoldsLatest, FillWithinSent, Slots, Packet

\* Every call of the cache keeps the invariant.
LEMMA StepInv == IInv /\ [Next]_vars => IInv'
  <1> SUFFICES ASSUME IInv, [Next]_vars
               PROVE  IInv'
    OBVIOUS
  <1> USE CacheAssumption DEF IInv
  <1>1. CASE clear
    BY <1>1 DEF clear, TypeOK, RingHoldsLatest, FillWithinSent, Slots
  <1>2. CASE addPacketTooBig
    BY <1>2 DEF addPacketTooBig, TypeOK, RingHoldsLatest, FillWithinSent, SlotBefore
  <1>3. CASE prepForGet
    BY <1>3 DEF prepForGet, Sub64, TypeOK, RingHoldsLatest, FillWithinSent, SlotBefore
  <1>4. CASE getNextPacket
    BY <1>4 DEF getNextPacket, TypeOK, RingHoldsLatest, FillWithinSent, SlotBefore
  <1>5. ASSUME NEW p \in Payload, addPacket(p)
        PROVE  IInv'
    <2>1. TypeOK'
      <3>1. (m_lastSentSeqNum + 1) % Word \in 0..(Word - 1)
        BY ModRange DEF TypeOK
      <3>2. m_outpkts' \in [Slots -> Packet]
        BY <1>5, <3>1 DEF addPacket, TypeOK, Packet
      <3>3. history' \in Seq(Payload) /\ Len(history') = m_lastSentSeqNum'
        BY <1>5 DEF addPacket, TypeOK
      <3>4. /\ m_lastSentSeqNum' \in 0..MaxSeq /\ m_numPackets' \in 0..CacheSize
            /\ m_pos' \in Slots /\ m_getNextSeqNum' \in 0..(MaxSeq + 1)
        BY <1>5 DEF addPacket, TypeOK, Slots
      <3>5. QED
        BY <3>2, <3>3, <3>4 DEF TypeOK
    <2>2. RingHoldsLatest'
      <3> SUFFICES ASSUME NEW k \in 1..CacheSize, k <= m_lastSentSeqNum'
                   PROVE  m_outpkts'[SlotBefore(k)'] =
                            [m_seqNumb |-> (m_lastSentSeqNum' - k + 1) % Word,
                             data      |-> history'[m_lastSentSeqNum' - k + 1]]
        BY DEF RingHoldsLatest
      <3>1. CASE k = 1
        <4>1. SlotBefore(k)' = m_pos /\ m_pos \in Slots
          BY <1>5, <3>1, SlotShift DEF TypeOK
        <4>2. m_outpkts'[m_pos] = [m_seqNumb |-> (m_lastSentSeqNum + 1) % Word, data |-> p]
          BY <1>5, <4>1 DEF addPacket, TypeOK
        <4>3. m_lastSentSeqNum' - k + 1 = m_lastSentSeqNum + 1
          BY <1>5, <3>1 DEF addPacket, TypeOK
        <4>4. history'[m_lastSentSeqNum + 1] = p
          BY <1>5 DEF addPacket, TypeOK
        <4>5. QED
          BY <4>1, <4>2, <4>3, <4>4
      <3>2. CASE k > 1
        <4> DEFINE j == k - 1
        <4>1. j \in 1..CacheSize /\ j < CacheSize /\ j <= m_lastSentSeqNum /\ j + 1 = k
          BY <1>5, <3>2 DEF addPacket, TypeOK
        <4>2. SlotBefore(k)' = SlotBefore(j) /\ SlotBefore(j) # m_pos
              /\ SlotBefore(j) \in Slots
          BY <1>5, <4>1, SlotShift
        <4>3. m_outpkts'[SlotBefore(j)] = m_outpkts[SlotBefore(j)]
          BY <1>5, <4>2 DEF addPacket, TypeOK
        <4>4. m_lastSentSeqNum' - k + 1 = m_lastSentSeqNum - j + 1
          BY <1>5, <4>1 DEF addPacket, TypeOK
        <4>5. history'[m_lastSentSeqNum - j + 1] = history[m_lastSentSeqNum - j + 1]
          <5>1. m_lastSentSeqNum - j + 1 \in 1..Len(history)
            BY <4>1 DEF TypeOK
          <5>2. QED
            BY <1>5, <5>1 DEF addPacket, TypeOK
        <4>6. QED
          BY <4>1, <4>2, <4>3, <4>4, <4>5 DEF RingHoldsLatest
      <3>3. QED
        BY <3>1, <3>2
    <2>3. FillWithinSent'
      BY <1>5 DEF addPacket, TypeOK, FillWithinSent
    <2>4. QED
      BY <2>1, <2>2, <2>3
  <1>6. ASSUME NEW a \in 0..(Word - 1), NEW isInit \in BOOLEAN, confirmedSeqNum(a, isInit)
        PROVE  IInv'
    <2>1. confirmedNum(m_lastSentSeqNum, a) \in Nat
      BY ConfirmedIsLatest DEF TypeOK
    <2>2. TypeOK' /\ FillWithinSent'
      BY <1>6, <2>1 DEF confirmedSeqNum, TypeOK, FillWithinSent
    <2>3. RingHoldsLatest'
      BY <1>6 DEF confirmedSeqNum, RingHoldsLatest, SlotBefore
    <2>4. QED
      BY <2>2, <2>3
  <1>7. CASE UNCHANGED vars
    BY <1>7 DEF vars, TypeOK, RingHoldsLatest, FillWithinSent, SlotBefore
  <1>8. QED
    BY <1>1, <1>2, <1>3, <1>4, <1>5, <1>6, <1>7 DEF Next

\* The cache's invariant holds in every reachable state: its fields are in
\* range, every slot holds the packet its distance from the write position says
\* (CAPCCache::addPacket and getNextPacket rely on it), and the fill never passes
\* what was sent, also after the confirmation of a reconnect.
THEOREM CacheInvariant == Spec => []IInv
  BY InitInv, StepInv, PTL DEF Spec

\* A cache just built is an empty window.
LEMMA InitRefines == Init => Window!WInit
  BY DEF Init, Window!WInit

\* Every call of the cache, but for Emptied, is the call of the same name on the window.
LEMMA StepRefines == IInv /\ [Next]_vars => [Window!WNext \/ Emptied]_(Window!wvars)
  <1> SUFFICES ASSUME IInv, [Next]_vars
               PROVE  [Window!WNext \/ Emptied]_(Window!wvars)
    OBVIOUS
  <1> USE CacheAssumption
  <1>1. CASE clear
    BY <1>1 DEF clear, Returns, Window!WNext, Window!Clear, Window!Outcome
  <1>2. CASE addPacketTooBig
    BY <1>2 DEF addPacketTooBig, Returns, Window!WNext, Window!AddTooBig, Window!Outcome
  <1>3. CASE prepForGet
    BY <1>3 DEF prepForGet, Returns, Sub64, Window!WNext, Window!PrepForGet,
                Window!Outcome, IInv, TypeOK, FillWithinSent
  <1>4. CASE getNextPacket
    <2>1. CASE m_getNextSeqNum >= m_lastSentSeqNum
      BY <1>4, <2>1 DEF getNextPacket, Returns, Window!WNext, Window!GetNext,
                        Window!Outcome, IInv, TypeOK
    <2>2. CASE m_getNextSeqNum < m_lastSentSeqNum /\
               m_lastSentSeqNum - m_getNextSeqNum <= m_numPackets
      <3> DEFINE k == m_lastSentSeqNum - m_getNextSeqNum
      <3>1. k \in 1..CacheSize /\ k <= m_lastSentSeqNum /\ m_numPackets # 0
            /\ m_lastSentSeqNum - k + 1 = m_getNextSeqNum + 1
        BY <2>2 DEF IInv, TypeOK
      <3>2. m_outpkts[SlotBefore(k)] = Window!Wire(m_getNextSeqNum + 1)
        BY <3>1 DEF IInv, RingHoldsLatest, Window!Wire
      <3>3. ret' = [op |-> "get", rc |-> "OK", pkt |-> {m_outpkts[SlotBefore(k)]}]
            /\ m_getNextSeqNum' = m_lastSentSeqNum - k + 1
        BY <1>4, <2>2 DEF getNextPacket, Returns, IInv, TypeOK
      <3>4. Window!GetNext
        BY <1>4, <2>2, <3>1, <3>2, <3>3
           DEF getNextPacket, Window!GetNext, IInv, TypeOK
      <3>5. QED
        BY <3>4 DEF Window!WNext
    <2>3. CASE m_getNextSeqNum < m_lastSentSeqNum /\
               m_lastSentSeqNum - m_getNextSeqNum > m_numPackets
      <3> DEFINE k == m_numPackets
      <3>1. ret' = [op |-> "get", rc |-> "OUTBUFOVERFLOW", pkt |-> {m_outpkts[SlotBefore(k)]}]
            /\ m_getNextSeqNum' = m_lastSentSeqNum - k + 1
        BY <1>4, <2>3 DEF getNextPacket, Returns, IInv, TypeOK
      <3>2. k > 0 => m_outpkts[SlotBefore(k)] = Window!Wire(m_lastSentSeqNum - k + 1)
        BY DEF IInv, TypeOK, RingHoldsLatest, FillWithinSent, Window!Wire
      <3>3. CASE k = 0
        BY <1>4, <2>3, <3>3 DEF Emptied
      <3>4. CASE k # 0
        <4>3. /\ Len(history) - m_getNextSeqNum > m_numPackets /\ m_numPackets > 0
              /\ UNCHANGED <<history, m_numPackets>>
              /\ m_getNextSeqNum' = Len(history) - m_numPackets + 1
          BY <1>4, <2>3, <3>1, <3>4 DEF getNextPacket, IInv, TypeOK
        <4>4. ret' = [op |-> "get", rc |-> "OUTBUFOVERFLOW",
                      pkt |-> {Window!Wire(Len(history) - m_numPackets + 1)}]
          BY <3>1, <3>2, <4>3 DEF IInv, TypeOK
        <4>1. Window!GetNext
          BY <4>3, <4>4 DEF Window!GetNext
        <4>2. QED
          BY <4>1 DEF Window!WNext
      <3>5. QED
        BY <3>3, <3>4
    <2>4. QED
      BY <2>1, <2>2, <2>3 DEF IInv, TypeOK
  <1>5. ASSUME NEW p \in Payload, addPacket(p)
        PROVE  Window!WNext
    <2>1. Window!Add(p)
      BY <1>5 DEF addPacket, Returns, Window!Add, Window!Least, Window!Outcome,
                  IInv, TypeOK
    <2>2. QED
      BY <2>1 DEF Window!WNext
  <1>6. ASSUME NEW a \in 0..(Word - 1), NEW isInit \in BOOLEAN, confirmedSeqNum(a, isInit)
        PROVE  Window!WNext
    <2> DEFINE c == confirmedNum(m_lastSentSeqNum, a)
    <2>1. /\ c \in Nat
          /\ c > m_lastSentSeqNum => \A n \in 0..m_lastSentSeqNum : n % Word # a
          /\ c <= m_lastSentSeqNum =>
                /\ c % Word = a
                /\ \A n \in 0..m_lastSentSeqNum : n % Word = a => n <= c
      BY ConfirmedIsLatest DEF IInv, TypeOK
    <2>2. Len(history) = m_lastSentSeqNum /\ m_lastSentSeqNum \in Nat
          /\ m_numPackets \in Nat /\ CacheSize \in Nat
      BY DEF IInv, TypeOK
    <2>3. CASE c > m_lastSentSeqNum
      <3>1. Window!Named(a) = {}
        BY <2>1, <2>2, <2>3 DEF Window!Named
      <3>2. Window!Confirm(a, isInit)
        BY <1>6, <2>1, <2>2, <2>3, <3>1
           DEF confirmedSeqNum, Returns, Window!Confirm, Window!Outcome
      <3>3. QED
        BY <3>2 DEF Window!WNext
    <2>4. CASE c <= m_lastSentSeqNum
      <3>1. c \in Window!Named(a) /\ \A m \in Window!Named(a) : m <= c
        BY <2>1, <2>2, <2>4 DEF Window!Named
      <3> HIDE DEF c
      <3>2. m_numPackets' = IF isInit
                            THEN Window!Least(Len(history) - c, CacheSize)
                            ELSE Window!Least(m_numPackets,
                                              Window!Least(Len(history) - c, CacheSize))
        BY <1>6, <2>1, <2>2, <2>4 DEF confirmedSeqNum, c, Window!Least
      <3>3. ret' = [op |-> "confirm",
                    rc |-> IF Len(history) - c <= CacheSize THEN "OK" ELSE "OUTBUFOVERFLOW",
                    pkt |-> {}]
        BY <1>6, <2>1, <2>2, <2>4 DEF confirmedSeqNum, c, Returns
      <3>4. UNCHANGED <<history, m_getNextSeqNum>>
        BY <1>6 DEF confirmedSeqNum
      <3>5. Window!Confirm(a, isInit)
        BY <3>1, <3>2, <3>3, <3>4 DEF Window!Confirm, Window!Outcome
      <3>6. QED
        BY <3>5 DEF Window!WNext
    <2>5. QED
      BY <2>1, <2>2, <2>3, <2>4
  <1>7. CASE UNCHANGED vars
    BY <1>7 DEF vars, Window!wvars
  <1>8. QED
    BY <1>1, <1>2, <1>3, <1>4, <1>5, <1>6, <1>7 DEF Next

\* The ring buffer implements the window over the history: whatever
\* confirmations, overflows and wraps of the ring and of the 32-bit number
\* happened, a replay hands out exactly the packets the history says, in order.
\* The exception is the call that WindowSpec names.
THEOREM CacheImplementsWindow == Spec => WindowSpec
  <1>1. Spec => []IInv
    BY InitInv, StepInv, PTL DEF Spec
  <1>2. QED
    BY <1>1, InitRefines, StepRefines, PTL DEF Spec, WindowSpec
-----------------------------------------------------------------------------
(* Sequences *)

\* A sequence, whatever its elements.
IsSeq(s) == \E S : s \in Seq(S)

\* Its length is a number,
LEMMA SeqLen == ASSUME NEW s, IsSeq(s) PROVE Len(s) \in Nat /\ (s = <<>> <=> Len(s) = 0)
  BY DEF IsSeq

\* one element more keeps the others where they are,
LEMMA SeqAdd ==
    ASSUME NEW s, IsSeq(s), NEW x
    PROVE  /\ IsSeq(Append(s, x)) /\ Len(s) \in Nat /\ Len(Append(s, x)) = Len(s) + 1
           /\ Append(s, x)[Len(s) + 1] = x
           /\ \A i \in 1..Len(s) : Append(s, x)[i] = s[i]
  <1>1. PICK S : s \in Seq(S)
    BY DEF IsSeq
  <1>2. s \in Seq(S \cup {x}) /\ x \in S \cup {x}
    BY <1>1
  <1>3. QED
    BY <1>2 DEF IsSeq

\* sequences one behind the other,
Joined(s, t, u) == 
    /\ IsSeq(u) /\ Len(s) \in Nat /\ Len(t) \in Nat /\ Len(u) = Len(s) + Len(t)
    /\ \A i \in 1..Len(s) : u[i] = s[i]
    /\ \A i \in 1..Len(t) : u[Len(s) + i] = t[i]

LEMMA SeqCat ==
    ASSUME NEW s, IsSeq(s), NEW t, IsSeq(t)
    PROVE  Joined(s, t, s \o t)
  <1>1. PICK S : s \in Seq(S)
    BY DEF IsSeq
  <1>2. PICK T : t \in Seq(T)
    BY DEF IsSeq
  <1>3. PICK U : U = S \cup T
    OBVIOUS
  <1>4. s \in Seq(U) /\ t \in Seq(U)
    BY <1>1, <1>2, <1>3
  <1>5. s \o t \in Seq(U) /\ Len(s) \in Nat /\ Len(t) \in Nat /\ Len(s \o t) = Len(s) + Len(t)
    BY <1>4
  <1>6. \A i \in 1..Len(s) : (s \o t)[i] = s[i]
    BY <1>4
  <1>7. \A i \in 1..Len(t) : (s \o t)[Len(s) + i] = t[i]
    BY <1>4, <1>5
  <1>8. QED
    BY <1>5, <1>6, <1>7 DEF IsSeq, Joined

\* a part of a sequence,
Part(s, a, b, u) == 
    IsSeq(u) /\ Len(u) = b - a + 1 /\ \A i \in 1..b - a + 1 : u[i] = s[a - 1 + i]

LEMMA SeqPart ==
    ASSUME NEW s, IsSeq(s), NEW a \in 1..Len(s) + 1, NEW b \in a - 1..Len(s)
    PROVE  Part(s, a, b, SubSeq(s, a, b))
  <1>1. PICK S : s \in Seq(S)
    BY DEF IsSeq
  <1>2. SubSeq(s, a, b) \in Seq(S) /\ Len(SubSeq(s, a, b)) = b - a + 1
    BY <1>1
  <1>3. \A i \in 1..b - a + 1 : SubSeq(s, a, b)[i] = s[a - 1 + i]
    BY <1>1
  <1>4. QED
    BY <1>2, <1>3 DEF IsSeq, Part

\* and sequences with the same elements.
LEMMA SeqSame ==
    ASSUME NEW s, IsSeq(s), NEW t, IsSeq(t), Len(s) = Len(t), \A i \in 1..Len(s) : s[i] = t[i]
    PROVE  s = t
  <1>1. PICK S : s \in Seq(S)
    BY DEF IsSeq
  <1>2. PICK T : t \in Seq(T)
    BY DEF IsSeq
  <1>3. s = [i \in 1..Len(s) |-> s[i]] /\ t = [i \in 1..Len(t) |-> t[i]]
    BY <1>1, <1>2
  <1>4. QED
    BY <1>3

\* A function on 1..n is a sequence,
LEMMA SeqFcn ==
    ASSUME NEW n \in Nat, NEW s, DOMAIN s = 1..n, s = [i \in 1..n |-> s[i]]
    PROVE  IsSeq(s) /\ Len(s) = n
  <1>1. s \in [1..n -> {s[i] : i \in 1..n}]
    OBVIOUS
  <1>2. PICK S : s \in [1..n -> S]
    BY <1>1
  <1>3. s \in Seq(S) /\ Len(s) = n
    BY <1>2
  <1>4. QED
    BY <1>3 DEF IsSeq

\* and a sequence is one.
LEMMA SeqDom == ASSUME NEW s, IsSeq(s) PROVE DOMAIN s = 1..Len(s)
  BY DEF IsSeq

\* convert with the fields fs,
Turned(fs, pl) == [i \in DOMAIN pl |->
             IF \E f \in fs : i \in f[1]..f[2]
             THEN LET f == CHOOSE f \in fs : i \in f[1]..f[2] IN pl[f[1] + f[2] - i]
             ELSE pl[i]]

\* which do not overlap and lie in the first n bytes:
Apart(fs, n) == 
    /\ \A f \in fs : f[1] \in 1..n /\ f[2] \in 1..n
    /\ \A f, g \in fs : \A i \in Nat : i \in f[1]..f[2] /\ i \in g[1]..g[2] => f = g

\* t is pl with each field turned round.
TurnedRound(fs, pl, t) ==
    /\ IsSeq(t) /\ Len(t) = Len(pl)
    /\ \A f \in fs : \A i \in f[1]..f[2] :
          i \in 1..Len(pl) /\ f[1] + f[2] - i \in f[1]..f[2] /\ t[i] = pl[f[1] + f[2] - i]
    /\ \A i \in 1..Len(pl) : (~\E f \in fs : i \in f[1]..f[2]) => t[i] = pl[i]

\* Turned does that,
LEMMA TurnedOnce ==
    ASSUME NEW fs, NEW pl, IsSeq(pl), Apart(fs, Len(pl))
    PROVE  TurnedRound(fs, pl, Turned(fs, pl))
  <1>1. Len(pl) \in Nat /\ DOMAIN pl = 1..Len(pl)
    BY SeqLen, SeqDom
  <1>2. PICK t : t = Turned(fs, pl)
    OBVIOUS
  <1>3. DOMAIN t = 1..Len(pl) /\ t = [i \in 1..Len(pl) |-> t[i]]
    BY <1>1, <1>2 DEF Turned
  <1>4. IsSeq(t) /\ Len(t) = Len(pl)
    BY <1>1, <1>3, SeqFcn
  <1>5. ASSUME NEW f \in fs, NEW i \in f[1]..f[2]
        PROVE  i \in 1..Len(pl) /\ f[1] + f[2] - i \in f[1]..f[2] /\ t[i] = pl[f[1] + f[2] - i]
    <2>1. f[1] \in Nat /\ f[2] \in Nat /\ i \in Nat /\ i \in 1..Len(pl) /\ f[1] + f[2] - i \in f[1]..f[2]
      BY <1>1 DEF Apart
    <2>2. (CHOOSE g \in fs : i \in g[1]..g[2]) = f
      BY <2>1 DEF Apart
    <2>3. t[i] = IF \E g \in fs : i \in g[1]..g[2]
                 THEN LET g == CHOOSE g \in fs : i \in g[1]..g[2] IN pl[g[1] + g[2] - i]
                 ELSE pl[i]
      BY <1>1, <1>2, <2>1 DEF Turned
    <2>4. \E g \in fs : i \in g[1]..g[2]
      OBVIOUS
    <2>5. QED
      BY <2>1, <2>2, <2>3, <2>4
  <1>6. ASSUME NEW i \in 1..Len(pl), ~\E f \in fs : i \in f[1]..f[2]
        PROVE  t[i] = pl[i]
    BY <1>1, <1>2, <1>6 DEF Turned
  <1>7. QED
    BY <1>2, <1>4, <1>5, <1>6 DEF TurnedRound

\* and twice it gives back what there was.
LEMMA TurnedTwice ==
    ASSUME NEW fs, NEW pl, IsSeq(pl), Apart(fs, Len(pl))
    PROVE  Turned(fs, Turned(fs, pl)) = pl
  <1>1. PICK t : t = Turned(fs, pl)
    OBVIOUS
  <1>2. PICK u : u = Turned(fs, t)
    OBVIOUS
  <1>3. /\ IsSeq(t) /\ Len(t) = Len(pl) 
        /\ \A f \in fs : \A i \in f[1]..f[2] :
                 i \in 1..Len(pl) /\ f[1] + f[2] - i \in f[1]..f[2] /\ t[i] = pl[f[1] + f[2] - i]
        /\ \A i \in 1..Len(pl) : (~\E f \in fs : i \in f[1]..f[2]) => t[i] = pl[i]
    <2>1. TurnedRound(fs, pl, t)
      BY <1>1, TurnedOnce
    <2>2. QED
      BY <2>1 DEF TurnedRound
  <1>4. Apart(fs, Len(t))
    BY <1>3
  <1>5. /\ IsSeq(u) /\ Len(u) = Len(pl) 
        /\ \A f \in fs : \A i \in f[1]..f[2] : u[i] = t[f[1] + f[2] - i]
        /\ \A i \in 1..Len(pl) : (~\E f \in fs : i \in f[1]..f[2]) => u[i] = t[i]
    <2>1. TurnedRound(fs, t, u)
      BY <1>2, <1>3, <1>4, TurnedOnce
    <2>2. QED
      BY <1>3, <2>1 DEF TurnedRound
  <1>6. ASSUME NEW i \in 1..Len(u) PROVE u[i] = pl[i]
    <2>1. CASE \E f \in fs : i \in f[1]..f[2]
      <3>1. PICK f \in fs : i \in f[1]..f[2]
        BY <2>1
      <3>2. u[i] = t[f[1] + f[2] - i] /\ f[1] + f[2] - i \in f[1]..f[2]
        BY <1>3, <1>5, <3>1
      <3>3. t[f[1] + f[2] - i] = pl[f[1] + f[2] - (f[1] + f[2] - i)]
        BY <1>3, <3>2
      <3>4. f[1] + f[2] - (f[1] + f[2] - i) = i
        BY <3>1 DEF Apart
      <3>5. QED
        BY <3>2, <3>3, <3>4
    <2>2. CASE ~\E f \in fs : i \in f[1]..f[2]
      BY <1>3, <1>5, <2>2
    <2>3. QED
      BY <2>1, <2>2
  <1>7. u = pl
    BY <1>5, <1>6, SeqSame
  <1>8. QED
    BY <1>1, <1>2, <1>7

\* The fields of a message that is long enough for its type are such fields.
LEMMA FieldsApart ==
    ASSUME NEW type, type \in DOMAIN Fields, NEW n \in Nat, n >= MsgSize[type]
    PROVE  Apart(Fields[type], n)
  <1>1. type \in {"NET_TX", "NET_TXDONE", "TIME_MAP", "CONNECT"}
    BY DEF Fields
  <1>2. CASE type = "NET_TX"
    <2>1. n >= 12 /\ Fields[type] = {<<2, 3>>, <<6, 9>>, <<11, 12>>}
      BY <1>2 DEF Fields, MsgSize
    <2>2. QED
      BY <2>1 DEF Apart
  <1>3. CASE type = "NET_TXDONE"
    <2>1. n >= 3 /\ Fields[type] = {<<1, 2>>}
      BY <1>3 DEF Fields, MsgSize
    <2>2. QED
      BY <2>1 DEF Apart
  <1>4. CASE type = "TIME_MAP"
    <2>1. n >= 22 /\ Fields[type] = {<<1, 8>>, <<9, 12>>, <<13, 20>>, <<21, 22>>}
      BY <1>4 DEF Fields, MsgSize
    <2>2. QED
      BY <2>1 DEF Apart
  <1>5. CASE type = "CONNECT"
    <2>1. n >= 126 /\ Fields[type] = {<<2, 5>>, <<38, 41>>, <<43, 46>>}
      BY <1>5 DEF Fields, MsgSize
    <2>2. QED
      BY <2>1 DEF Apart
  <1>6. QED
    BY <1>1, <1>2, <1>3, <1>4, <1>5

\* convert keeps the length, whatever the type;
LEMMA ConvertLen ==
    ASSUME NEW type, NEW pl, IsSeq(pl)
    PROVE  IsSeq(convert(type, pl)) /\ Len(convert(type, pl)) = Len(pl)
  <1>1. CASE type \notin DOMAIN Fields
    BY <1>1 DEF convert
  <1>2. CASE type \in DOMAIN Fields
    <2>1. Len(pl) \in Nat /\ DOMAIN pl = 1..Len(pl)
      BY SeqLen, SeqDom
    <2>2. PICK t : t = convert(type, pl)
      OBVIOUS
    <2>3. DOMAIN t = 1..Len(pl) /\ t = [i \in 1..Len(pl) |-> t[i]]
      BY <1>2, <2>1, <2>2 DEF convert
    <2>4. QED
      BY <2>1, <2>2, <2>3, SeqFcn
  <1>3. QED
    BY <1>1, <1>2

\* it undoes itself when bufferCast_p accepts the payload.
LEMMA ConvertTwice ==
    ASSUME NEW type, NEW pl, IsSeq(pl), ~TooShort(type, pl)
    PROVE  convert(type, convert(type, pl)) = pl
  <1>1. CASE type \notin DOMAIN Fields
    BY <1>1 DEF convert
  <1>2. CASE type \in DOMAIN Fields
    <2>1. type \in DOMAIN MsgSize /\ MsgSize[type] \in Nat
      BY <1>2 DEF Fields, MsgSize
    <2>2. Len(pl) \in Nat /\ Len(pl) >= MsgSize[type]
      BY <2>1, SeqLen DEF TooShort
    <2>3. Apart(Fields[type], Len(pl))
      BY <1>2, <2>2, FieldsApart
    <2>4. Turned(Fields[type], Turned(Fields[type], pl)) = pl
      BY <2>3, TurnedTwice
    <2>5. \A x : convert(type, x) = Turned(Fields[type], x)
      BY <1>2 DEF convert, Turned
    <2>6. QED
      BY <2>4, <2>5
  <1>3. QED
    BY <1>1, <1>2

-----------------------------------------------------------------------------
\* A message a sender may be given.
Message(m) == \E t, pl : m = [type |-> t, payload |-> pl] /\ t # "alien" /\ IsSeq(pl)

\* What is on the stream: a serialized message, or the bytes of a peer of another make.
Carried(m) == \/ Message(m) /\ ~PrepFails(m)
              \/ \E b : m = [type |-> "alien", payload |-> b] /\ NoMessage(b)

\* Its bytes.
Frame(m) == IF m.type = "alien" THEN m.payload ELSE prepMsg(m)

\* What stands behind the header of a frame.
Rest(F, d) == IsSeq(d) /\ Len(d) = F[3] /\ \A i \in 1..Len(d) : d[i] = F[HdrSize + i]

\* The frame of the message m, and a frame the receiver refuses.
Whole(F, m) ==
    /\ F[1] = COOKIE /\ F[3] \in Nat /\ Len(F) = HdrSize + F[3] /\ Len(F) <= MaxMsgSize
    /\ \A d : Rest(F, d) => ~TooShort(F[2], d) /\ m = [type |-> F[2], payload |-> convert(F[2], d)]

\* A complete frame that is too short for its type.
AlwaysShort(F) ==
    F[3] \in Nat /\ HdrSize + F[3] <= Len(F) /\ \A d : Rest(F, d) => TooShort(F[2], d)

\* What the receiver refuses.
Refused(F) == \/ F[1] # COOKIE
              \/ F[3] \in Nat /\ HdrSize + F[3] > MaxMsgSize
              \/ AlwaysShort(F)

\* The bytes prepMsg puts together.
LEMMA Prepared ==
    ASSUME NEW m, Message(m)
    PROVE  /\ IsSeq(prepMsg(m)) /\ Len(m.payload) \in Nat /\ Len(prepMsg(m)) = HdrSize + Len(m.payload)
           /\ prepMsg(m)[1] = COOKIE /\ prepMsg(m)[2] = m.type /\ prepMsg(m)[3] = Len(m.payload)
           /\ \A i \in 1..Len(m.payload) : prepMsg(m)[HdrSize + i] = convert(m.type, m.payload)[i]
  <1>1. IsSeq(m.payload)
    BY DEF Message
  <1>2. PICK c : c = convert(m.type, m.payload)
    OBVIOUS
  <1>3. IsSeq(c) /\ Len(c) = Len(m.payload) /\ Len(c) \in Nat
    BY <1>1, <1>2, ConvertLen, SeqLen
  <1>4. PICK h : h = <<COOKIE, m.type, Len(m.payload)>>
    OBVIOUS
  <1>5. Len(h) = 3 /\ h[1] = COOKIE /\ h[2] = m.type /\ h[3] = Len(m.payload)
    BY <1>4
  <1>6. IsSeq(h)
    <2>1. h \in Seq({COOKIE, m.type, Len(m.payload)})
      BY <1>4
    <2>2. QED
      BY <2>1 DEF IsSeq
  <1>7. PICK f : f = h \o c
    OBVIOUS
  <1>8. prepMsg(m) = f
    BY <1>2, <1>4, <1>7 DEF prepMsg
  <1>9. /\ IsSeq(f) /\ Len(f) = Len(h) + Len(c) /\ \A i \in 1..Len(h) : f[i] = h[i]
        /\ \A i \in 1..Len(c) : f[Len(h) + i] = c[i]
    <2>1. Joined(h, c, f)
      BY <1>3, <1>6, <1>7, SeqCat
    <2>2. QED
      BY <2>1 DEF Joined
  <1>10. f[1] = COOKIE /\ f[2] = m.type /\ f[3] = Len(m.payload)
    BY <1>5, <1>9
  <1>11. QED
    BY <1>2, <1>3, <1>5, <1>8, <1>9, <1>10 DEF HdrSize

\* The frame of a message is received as that message,
LEMMA FrameOfMessage ==
    ASSUME NEW m, Message(m), ~PrepFails(m)
    PROVE  Frame(m) = prepMsg(m) /\ Whole(Frame(m), m)
  <1>1. PICK t, pl : m = [type |-> t, payload |-> pl] /\ t # "alien" /\ IsSeq(pl)
    BY DEF Message
  <1>2. m.type = t /\ m.payload = pl
    BY <1>1
  <1>3. Frame(m) = prepMsg(m)
    BY <1>1, <1>2 DEF Frame
  <1>4. PICK F : F = prepMsg(m)
    OBVIOUS
  <1>5. /\ IsSeq(F) /\ Len(pl) \in Nat /\ Len(F) = HdrSize + Len(pl)
        /\ F[1] = COOKIE /\ F[2] = t /\ F[3] = Len(pl)
        /\ \A i \in 1..Len(pl) : F[HdrSize + i] = convert(t, pl)[i]
    BY <1>2, <1>4, Prepared
  <1>6. Len(F) <= MaxMsgSize /\ ~TooShort(t, pl)
    BY <1>2, <1>5, StreamAssumption DEF PrepFails, HdrSize
  <1>7. ASSUME NEW d, Rest(F, d)
        PROVE  ~TooShort(F[2], d) /\ m = [type |-> F[2], payload |-> convert(F[2], d)]
    <2>1. IsSeq(d) /\ Len(d) = Len(pl) /\ \A i \in 1..Len(d) : d[i] = convert(t, pl)[i]
      BY <1>5, <1>7 DEF Rest
    <2>2. IsSeq(convert(t, pl)) /\ Len(convert(t, pl)) = Len(pl)
      BY <1>1, ConvertLen
    <2>3. d = convert(t, pl)
      BY <2>1, <2>2, SeqSame
    <2>4. convert(t, d) = pl
      BY <1>1, <1>6, <2>3, ConvertTwice
    <2>5. ~TooShort(t, d)
      BY <1>6, <2>1 DEF TooShort
    <2>6. QED
      BY <1>1, <1>5, <2>4, <2>5
  <1>8. Whole(F, m)
    BY <1>5, <1>6, <1>7 DEF Whole
  <1>9. QED
    BY <1>3, <1>4, <1>8

\* and anything else is refused.
LEMMA FrameOfAlien ==
    ASSUME NEW b, NoMessage(b)
    PROVE  IsSeq(b) /\ Len(b) >= HdrSize /\ Refused(b)
  <1>1. PICK n : n = Len(b)
    OBVIOUS
  <1>2. n \in Nat /\ n >= HdrSize /\ b = [i \in 1..n |-> b[i]]
    BY <1>1 DEF NoMessage
  <1>3. IsSeq(b)
    BY <1>2, SeqFcn
  <1>7. Refused(b)
    <2>1. CASE b[1] # COOKIE
      BY <2>1 DEF Refused
    <2>2. CASE b[3] \in Nat /\ HdrSize + b[3] > MaxMsgSize
      BY <2>2 DEF Refused
    <2>3. CASE /\ b[3] \in Nat /\ HdrSize + b[3] <= Len(b)
               /\ b[2] \in DOMAIN MsgSize /\ b[3] < MsgSize[b[2]]
      <3>1. \A d : Rest(b, d) => TooShort(b[2], d)
        BY <2>3 DEF Rest, TooShort
      <3>2. QED
        BY <2>3, <3>1 DEF Refused, AlwaysShort
    <2>4. QED
      BY <2>1, <2>2, <2>3 DEF NoMessage
  <1>8. QED
    BY <1>1, <1>2, <1>3, <1>7

\* Whatever is on the stream is one of the two.
LEMMA FrameSound ==
    ASSUME NEW m, Carried(m)
    PROVE  IsSeq(Frame(m)) /\ Len(Frame(m)) \in Nat /\ Len(Frame(m)) >= HdrSize /\ (Whole(Frame(m), m) \/ Refused(Frame(m)))
  <1>1. CASE Message(m) /\ ~PrepFails(m)
    <2>1. Frame(m) = prepMsg(m) /\ Whole(Frame(m), m)
      BY <1>1, FrameOfMessage
    <2>2. IsSeq(prepMsg(m)) /\ Len(prepMsg(m)) \in Nat /\ Len(prepMsg(m)) >= HdrSize
      BY <1>1, Prepared DEF HdrSize
    <2>3. QED
      BY <2>1, <2>2
  <1>2. CASE \E b : m = [type |-> "alien", payload |-> b] /\ NoMessage(b)
    <2>1. PICK b : m = [type |-> "alien", payload |-> b] /\ NoMessage(b)
      BY <1>2
    <2>2. Frame(m) = b
      BY <2>1 DEF Frame
    <2>3. IsSeq(b) /\ Len(b) >= HdrSize /\ Refused(b)
      BY <2>1, FrameOfAlien
    <2>4. QED
      BY <2>2, <2>3, SeqLen
  <1>3. QED
    BY <1>1, <1>2 DEF Carried
-----------------------------------------------------------------------------
\* The receiving serializer.
Parser(p) == \E buf, r, e, res, got :
    /\ p = [m_inpBuf |-> buf, m_inpNumReceived |-> r, m_inpNumExpected |-> e, res |-> res, got |-> got]
    /\ IsSeq(buf) /\ r \in Nat /\ r <= Len(buf)

\* The bytes it has are those behind o on the tape, and so are the bytes of s behind at.
Holds(p, tape, o) == \A j \in 1..p.m_inpNumReceived : p.m_inpBuf[j] = tape[o + j]
Lies(s, tape, at) == \A j \in 1..Len(s) : s[j] = tape[at + j]

\* fillInpBuf_p takes what is expected, or all there is.
FilledBy(p, data, x, y, n) ==
    /\ Parser(x) /\ n \in Nat /\ n <= Len(data) /\ p.m_inpNumReceived + n <= p.m_inpNumExpected
    /\ n = Len(data) \/ p.m_inpNumReceived + n = p.m_inpNumExpected
    /\ x.m_inpNumReceived = p.m_inpNumReceived + n /\ x.m_inpNumExpected = p.m_inpNumExpected
    /\ x.res = p.res /\ x.got = p.got
    /\ \A j \in 1..p.m_inpNumReceived : x.m_inpBuf[j] = p.m_inpBuf[j]
    /\ \A j \in 1..n : x.m_inpBuf[p.m_inpNumReceived + j] = data[j]
    /\ IsSeq(y) /\ Len(y) = Len(data) - n /\ \A j \in 1..Len(y) : y[j] = data[n + j]

\* That is what it does.
LEMMA Filling ==
    ASSUME NEW p, Parser(p), p.m_inpNumExpected \in Nat, p.m_inpNumReceived <= p.m_inpNumExpected,
           NEW data, IsSeq(data), NEW x, x = fillInpBuf_p(p, data), NEW y, y = Consumed(p, x, data)
    PROVE  \E n : FilledBy(p, data, x, y, n)
  <1>1. PICK buf, r, e, res, got :
            /\ p = [m_inpBuf |-> buf, m_inpNumReceived |-> r, m_inpNumExpected |-> e, res |-> res, got |-> got]
            /\ IsSeq(buf) /\ r \in Nat /\ r <= Len(buf)
    BY DEF Parser
  <1>2. e \in Nat /\ r <= e /\ Len(data) \in Nat /\ Len(buf) \in Nat
    BY <1>1, SeqLen
  <1>3. PICK n : n = IF Len(data) < e - r THEN Len(data) ELSE e - r
    OBVIOUS
  <1>4. n \in Nat /\ n <= Len(data) /\ r + n <= e /\ (n = Len(data) \/ r + n = e)
    BY <1>1, <1>2, <1>3
  <1>5. PICK b1 : b1 = SubSeq(buf, 1, r)
    OBVIOUS
  <1>6. PICK b2 : b2 = SubSeq(data, 1, n)
    OBVIOUS
  <1>7. PICK b : b = b1 \o b2
    OBVIOUS
  <1>8. x = [m_inpBuf |-> b, m_inpNumReceived |-> r + n, m_inpNumExpected |-> e, res |-> res, got |-> got]
    BY <1>1, <1>3, <1>5, <1>6, <1>7 DEF fillInpBuf_p
  <1>9. IsSeq(b1) /\ Len(b1) = r /\ \A j \in 1..r : b1[j] = buf[j]
    <2>1. 1 \in 1..Len(buf) + 1 /\ r \in 1 - 1..Len(buf)
      BY <1>1, <1>2
    <2>2. Part(buf, 1, r, b1)
      BY <1>1, <1>5, <2>1, SeqPart
    <2>3. QED
      BY <1>1, <2>2 DEF Part
  <1>10. IsSeq(b2) /\ Len(b2) = n /\ \A j \in 1..n : b2[j] = data[j]
    <2>1. 1 \in 1..Len(data) + 1 /\ n \in 1 - 1..Len(data)
      BY <1>2, <1>4
    <2>2. Part(data, 1, n, b2)
      BY <1>6, <2>1, SeqPart
    <2>3. QED
      BY <1>4, <2>2 DEF Part
  <1>11. /\ IsSeq(b) /\ Len(b) = r + n /\ \A j \in 1..r : b[j] = buf[j]
         /\ \A j \in 1..n : b[r + j] = data[j]
    <2>1. Joined(b1, b2, b)
      BY <1>7, <1>9, <1>10, SeqCat
    <2>2. QED
      BY <1>9, <1>10, <2>1 DEF Joined
  <1>12. y = SubSeq(data, n + 1, Len(data))
    <2>1. x.m_inpNumReceived = r + n /\ p.m_inpNumReceived = r
      BY <1>1, <1>8
    <2>2. x.m_inpNumReceived - p.m_inpNumReceived + 1 = n + 1
      BY <1>1, <1>4, <2>1
    <2>3. QED
      BY <2>2, Zenon DEF Consumed
  <1>13. IsSeq(y) /\ Len(y) = Len(data) - n /\ \A j \in 1..Len(y) : y[j] = data[n + j]
    <2>1. n + 1 \in 1..Len(data) + 1 /\ Len(data) \in (n + 1) - 1..Len(data)
      BY <1>2, <1>4
    <2>2. Part(data, n + 1, Len(data), y)
      BY <1>12, <2>1, SeqPart
    <2>3. QED
      BY <1>2, <1>4, <2>2 DEF Part
  <1>14. Parser(x)
    <2>1. r + n \in Nat /\ r + n <= Len(b)
      BY <1>1, <1>4, <1>11
    <2>2. QED
      BY <1>8, <1>11, <2>1 DEF Parser
  <1>15. FilledBy(p, data, x, y, n)
    BY <1>1, <1>4, <1>8, <1>11, <1>13, <1>14 DEF FilledBy
  <1>16. QED
    BY <1>15

\* On the tape.
LEMMA FillOnTape ==
    ASSUME NEW p, NEW data, NEW x, NEW y, NEW n, FilledBy(p, data, x, y, n), NEW tape, NEW o \in Nat,
           p.m_inpNumReceived \in Nat, Len(data) \in Nat,
           Holds(p, tape, o), Lies(data, tape, o + p.m_inpNumReceived)
    PROVE  Holds(x, tape, o) /\ Lies(y, tape, o + x.m_inpNumReceived)
  <1>1. PICK r : r = p.m_inpNumReceived
    OBVIOUS
  <1>2. r \in Nat /\ n \in Nat /\ x.m_inpNumReceived = r + n /\ Len(y) = Len(data) - n /\ n <= Len(data)
    BY <1>1 DEF FilledBy
  <1>3. ASSUME NEW j \in 1..r + n PROVE x.m_inpBuf[j] = tape[o + j]
    <2>1. CASE j <= r
      BY <1>1, <1>2, <2>1 DEF FilledBy, Holds
    <2>2. CASE j > r
      <3>1. j - r \in 1..n /\ j - r \in 1..Len(data) /\ r + (j - r) = j /\ (o + r) + (j - r) = o + j
        BY <1>2, <2>2
      <3>2. x.m_inpBuf[r + (j - r)] = data[j - r]
        BY <1>1, <3>1 DEF FilledBy
      <3>3. data[j - r] = tape[(o + r) + (j - r)]
        BY <1>1, <3>1 DEF Lies
      <3>4. QED
        BY <3>1, <3>2, <3>3
    <2>3. QED
      BY <1>2, <2>1, <2>2
  <1>4. ASSUME NEW j \in 1..Len(y) PROVE y[j] = tape[(o + (r + n)) + j]
    <2>1. n + j \in 1..Len(data) /\ (o + r) + (n + j) = (o + (r + n)) + j
      BY <1>2
    <2>2. y[j] = data[n + j]
      BY DEF FilledBy
    <2>3. data[n + j] = tape[(o + r) + (n + j)]
      BY <1>1, <2>1 DEF Lies
    <2>4. QED
      BY <2>1, <2>2, <2>3
  <1>5. QED
    BY <1>2, <1>3, <1>4 DEF Holds, Lies
-----------------------------------------------------------------------------
\* Where the serializer is in a message: in its header, or behind a header it accepted.
InHeader(p) == p.m_inpNumReceived < HdrSize /\ p.m_inpNumExpected = HdrSize
InBody(p) == /\ p.m_inpNumReceived >= HdrSize
             /\ p.m_inpBuf[1] = COOKIE /\ p.m_inpBuf[3] \in Nat
             /\ p.m_inpNumExpected = HdrSize + p.m_inpBuf[3] /\ p.m_inpNumExpected <= MaxMsgSize

\* The frame F is on the tape behind o.
OnTape(F, tape, o) == IsSeq(F) /\ Len(F) >= HdrSize /\ Lies(F, tape, o)

\* The header is complete: it is accepted, or the error is reported.
LEMMA HeaderDone ==
    ASSUME NEW p, Parser(p), p.m_inpNumReceived = HdrSize, p.m_inpNumExpected = HdrSize, p.res = "OK",
           NEW b, b = headerReceived(p), NEW tape, NEW o \in Nat, Holds(p, tape, o),
           NEW F, NEW m, OnTape(F, tape, o), Whole(F, m) \/ Refused(F)
    PROVE  /\ b.got = p.got /\ b.m_inpNumReceived = HdrSize
           /\ b.res = "OK" => Parser(b) /\ InBody(b) /\ Holds(b, tape, o)
  <1>1. PICK buf, r, e, res, got :
            /\ p = [m_inpBuf |-> buf, m_inpNumReceived |-> r, m_inpNumExpected |-> e, res |-> res, got |-> got]
            /\ IsSeq(buf) /\ r \in Nat /\ r <= Len(buf)
    BY DEF Parser
  <1>2. PICK n : n = HdrSize + buf[3]
    OBVIOUS
  <1>3. r = HdrSize /\ e = HdrSize
    BY <1>1
  <1>4. PICK s : s = IF buf[1] # COOKIE THEN "PROTOCOL" ELSE IF n > MaxMsgSize THEN "SIZE" ELSE "OK"
    OBVIOUS
  <1>5. b = [m_inpBuf |-> buf, m_inpNumReceived |-> r, m_inpNumExpected |-> n, res |-> s, got |-> got]
    BY <1>1, <1>2, <1>3, <1>4 DEF headerReceived
  <1>6. b.got = p.got /\ b.m_inpNumReceived = HdrSize
    BY <1>1, <1>3, <1>5
  <1>7. ASSUME b.res = "OK" PROVE Parser(b) /\ InBody(b) /\ Holds(b, tape, o)
    <2>1. s = "OK" /\ buf[1] = COOKIE /\ ~(n > MaxMsgSize)
      BY <1>4, <1>5, <1>7
    <2>2. buf[1] = F[1] /\ buf[3] = F[3]
      <3>1. 1 \in 1..r /\ 3 \in 1..r /\ 1 \in 1..Len(F) /\ 3 \in 1..Len(F)
        BY <1>3, SeqLen DEF HdrSize, OnTape
      <3>2. buf[1] = tape[o + 1] /\ buf[3] = tape[o + 3]
        BY <1>1, <3>1 DEF Holds
      <3>3. F[1] = tape[o + 1] /\ F[3] = tape[o + 3]
        BY <3>1 DEF OnTape, Lies
      <3>4. QED
        BY <3>2, <3>3
    <2>3. buf[3] \in Nat
      BY <2>1, <2>2 DEF Whole, Refused, AlwaysShort
    <2>4. n <= MaxMsgSize
      BY <1>2, <2>1, <2>3, StreamAssumption DEF HdrSize
    <2>5. Parser(b)
      BY <1>1, <1>5 DEF Parser
    <2>6. Holds(b, tape, o)
      BY <1>1, <1>5 DEF Holds
    <2>7. InBody(b)
      BY <1>2, <1>3, <1>5, <2>1, <2>3, <2>4 DEF InBody, HdrSize
    <2>8. QED
      BY <2>5, <2>6, <2>7
  <1>8. QED
    BY <1>6, <1>7

\* The message is complete.
Completed(p, d, F, m) ==
    /\ d.m_inpNumReceived = 0
    /\ \/ d.res # "OK" /\ d.got = p.got
       \/ /\ d.res = "OK" /\ Whole(F, m) /\ d.got = Append(p.got, m) /\ Parser(d) /\ InHeader(d)
          /\ p.m_inpNumReceived = Len(F)

\* It is the message of the frame, or it is refused.
LEMMA MessageDone ==
    ASSUME NEW p, Parser(p), InBody(p), p.m_inpNumReceived = p.m_inpNumExpected,
           NEW d, d = msgReceived(p), NEW tape, NEW o \in Nat, Holds(p, tape, o),
           NEW F, NEW m, OnTape(F, tape, o), Whole(F, m) \/ Refused(F)
    PROVE  Completed(p, d, F, m)
  <1>1. PICK buf, r, e, res, got :
            /\ p = [m_inpBuf |-> buf, m_inpNumReceived |-> r, m_inpNumExpected |-> e, res |-> res, got |-> got]
            /\ IsSeq(buf) /\ r \in Nat /\ r <= Len(buf)
    BY DEF Parser
  <1>2. /\ r >= HdrSize /\ buf[1] = COOKIE /\ buf[3] \in Nat /\ r = HdrSize + buf[3] /\ r <= MaxMsgSize
        /\ Len(buf) \in Nat /\ Len(F) \in Nat
    BY <1>1, SeqLen DEF InBody, OnTape
  <1>3. \A j \in 1..Len(F) : j <= r => buf[j] = F[j]
    BY <1>1, <1>2 DEF Holds, OnTape, Lies
  <1>4. buf[1] = F[1] /\ buf[2] = F[2] /\ buf[3] = F[3]
    <2>1. 1 \in 1..Len(F) /\ 2 \in 1..Len(F) /\ 3 \in 1..Len(F) /\ 1 <= r /\ 2 <= r /\ 3 <= r
      BY <1>1, <1>2 DEF HdrSize, OnTape
    <2>2. QED
      BY <1>3, <2>1
  <1>5. PICK data : data = SubSeq(buf, HdrSize + 1, r)
    OBVIOUS
  <1>6. r <= Len(F)
    BY <1>2, <1>4, StreamAssumption DEF Whole, Refused, AlwaysShort, HdrSize
  <1>7. Rest(F, data)
    <2>1. HdrSize + 1 \in 1..Len(buf) + 1 /\ r \in (HdrSize + 1) - 1..Len(buf)
      BY <1>1, <1>2 DEF HdrSize
    <2>2. Part(buf, HdrSize + 1, r, data)
      BY <1>1, <1>5, <2>1, SeqPart
    <2>3. IsSeq(data) /\ Len(data) = buf[3] /\ \A i \in 1..Len(data) : data[i] = buf[HdrSize + i]
      BY <1>1, <1>2, <2>2 DEF Part, HdrSize
    <2>4. \A i \in 1..Len(data) : HdrSize + i \in 1..Len(F) /\ HdrSize + i <= r
      BY <1>1, <1>2, <1>6, <2>3 DEF HdrSize
    <2>5. QED
      BY <1>3, <1>4, <2>3, <2>4 DEF Rest
  <1>8. d = [m_inpBuf |-> buf, m_inpNumReceived |-> 0, m_inpNumExpected |-> HdrSize,
             res |-> IF ~TooShort(buf[2], data) THEN "OK" ELSE "SIZE",
             got |-> IF ~TooShort(buf[2], data)
                     THEN Append(got, [type |-> buf[2], payload |-> convert(buf[2], data)]) ELSE got]
    BY <1>1, <1>5 DEF msgReceived
  <1>9. CASE TooShort(buf[2], data)
    BY <1>1, <1>8, <1>9 DEF Completed
  <1>10. CASE ~TooShort(buf[2], data)
    <2>1. Whole(F, m)
      BY <1>2, <1>4, <1>7, <1>10, StreamAssumption DEF Refused, AlwaysShort, HdrSize
    <2>2. m = [type |-> buf[2], payload |-> convert(buf[2], data)] /\ r = Len(F)
      BY <1>2, <1>4, <1>7, <2>1 DEF Whole
    <2>3. d = [m_inpBuf |-> buf, m_inpNumReceived |-> 0, m_inpNumExpected |-> HdrSize, res |-> "OK", got |-> Append(got, m)]
      BY <1>8, <1>10, <2>2
    <2>4. Parser(d)
      <3>1. PICK g : g = Append(got, m)
        OBVIOUS
      <3>2. 0 \in Nat /\ 0 <= Len(buf) /\ IsSeq(buf)
        BY <1>1, <1>2
      <3>3. d = [m_inpBuf |-> buf, m_inpNumReceived |-> 0, m_inpNumExpected |-> HdrSize, res |-> "OK", got |-> g]
        BY <2>3, <3>1
      <3>4. QED
        BY <3>2, <3>3 DEF Parser
    <2>5. InHeader(d)
      BY <2>3 DEF InHeader, HdrSize
    <2>6. QED
      BY <1>1, <2>1, <2>2, <2>3, <2>4, <2>5 DEF Completed
  <1>11. QED
    BY <1>9, <1>10
-----------------------------------------------------------------------------
\* Between two rounds.
Between(p, tape, o) ==
    /\ Parser(p) /\ p.res = "OK" /\ Holds(p, tape, o)
    /\ InHeader(p) \/ (InBody(p) /\ p.m_inpNumReceived < p.m_inpNumExpected)

\* What a round makes of p and data: it goes on in the frame, it is behind the frame, or it refuses it.
GoesOn(p, data, x, y, tape, o) ==
    /\ Between(x, tape, o) /\ x.got = p.got /\ Lies(y, tape, o + x.m_inpNumReceived)
    /\ Len(y) < Len(data) /\ x.m_inpNumReceived + Len(y) = p.m_inpNumReceived + Len(data)

\* the message of the frame has been handed up,
Behind(p, data, x, y, tape, o, F, m) ==
    /\ Parser(x) /\ x.res = "OK" /\ InHeader(x) /\ x.m_inpNumReceived = 0 /\ x.got = Append(p.got, m)
    /\ Whole(F, m) /\ Lies(y, tape, o + Len(F))
    /\ Len(y) < Len(data) /\ Len(F) + Len(y) = p.m_inpNumReceived + Len(data)

\* or an error is reported.
Refuses(p, x) == x.res # "OK" /\ x.got = p.got /\ x.m_inpNumReceived \in Nat /\ x.m_inpNumReceived <= MaxMsgSize

\* A round ends in one of these ways.
RoundEnds(p, data, z, tape, o, F, m) ==
    \E x, y : /\ z = [p |-> x, data |-> y] /\ IsSeq(y)
              /\ \/ GoesOn(p, data, x, y, tape, o)
                 \/ Behind(p, data, x, y, tape, o, F, m)
                 \/ Refuses(p, x)

\* The numbers of the serializer are numbers,
LEMMA ParserNat == ASSUME NEW p, Parser(p) PROVE p.m_inpNumReceived \in Nat
  BY DEF Parser

\* and it never expects more than its buffer holds.
LEMMA ExpectedNat ==
    ASSUME NEW p, Parser(p), InHeader(p) \/ InBody(p)
    PROVE  p.m_inpNumExpected \in Nat /\ p.m_inpNumExpected >= HdrSize /\ p.m_inpNumExpected <= MaxMsgSize
  BY StreamAssumption DEF InHeader, InBody, HdrSize

\* Bytes behind an accepted header do not change it.
LEMMA StaysInBody ==
    ASSUME NEW p, InBody(p), p.m_inpNumReceived \in Nat, NEW data, NEW x, NEW y, NEW n, FilledBy(p, data, x, y, n)
    PROVE  InBody(x)
  <1>1. 1 \in 1..p.m_inpNumReceived /\ 3 \in 1..p.m_inpNumReceived
    BY DEF InBody, HdrSize
  <1>2. x.m_inpBuf[1] = p.m_inpBuf[1] /\ x.m_inpBuf[3] = p.m_inpBuf[3]
    BY <1>1 DEF FilledBy
  <1>3. n \in Nat /\ x.m_inpNumReceived = p.m_inpNumReceived + n /\ x.m_inpNumExpected = p.m_inpNumExpected
    BY DEF FilledBy
  <1>4. x.m_inpNumReceived >= HdrSize
    BY <1>3 DEF InBody, HdrSize
  <1>5. QED
    BY <1>2, <1>3, <1>4 DEF InBody

\* The end of a round, when the header is accepted: the rest is taken, and the message may be complete.
RoundTail(b) ==
    LET c == IF b.p.m_inpNumExpected # b.p.m_inpNumReceived /\ b.data # <<>> THEN Filled(b) ELSE b
    IN  [c EXCEPT !.p = IF @.m_inpNumExpected = @.m_inpNumReceived THEN msgReceived(@) ELSE @]

\* With an accepted header, x and what is left of the read.
Accepted(p, data, x, y, tape, o) ==
    /\ Parser(x) /\ InBody(x) /\ x.res = "OK" /\ Holds(x, tape, o) /\ x.got = p.got
    /\ x.m_inpNumReceived <= x.m_inpNumExpected
    /\ IsSeq(y) /\ Lies(y, tape, o + x.m_inpNumReceived)
    /\ Len(y) < Len(data) /\ x.m_inpNumReceived + Len(y) = p.m_inpNumReceived + Len(data)

\* c is complete or not.
LEMMA TailEnd ==
    ASSUME NEW p, NEW data, Len(data) \in Nat, p.m_inpNumReceived \in Nat,
           NEW tape, NEW o \in Nat, NEW F, NEW m, OnTape(F, tape, o), Whole(F, m) \/ Refused(F),
           NEW x, NEW y, Accepted(p, data, x, y, tape, o),
           NEW c, c = [p |-> x, data |-> y],
           NEW z, z = [c EXCEPT !.p = IF @.m_inpNumExpected = @.m_inpNumReceived THEN msgReceived(@) ELSE @]
    PROVE  RoundEnds(p, data, z, tape, o, F, m)
  <1>1. CASE x.m_inpNumExpected = x.m_inpNumReceived
    <2>1. PICK d : d = msgReceived(x)
      OBVIOUS
    <2>2. z = [p |-> d, data |-> y]
      BY <1>1, <2>1
    <2>3. /\ d.m_inpNumReceived = 0
          /\ \/ d.res # "OK" /\ d.got = x.got
             \/ /\ d.res = "OK" /\ Whole(F, m) /\ d.got = Append(x.got, m) /\ Parser(d) /\ InHeader(d)
                /\ x.m_inpNumReceived = Len(F)
      <3>1. x.m_inpNumReceived = x.m_inpNumExpected
        BY <1>1
      <3>2. Completed(x, d, F, m)
        BY <2>1, <3>1, MessageDone DEF Accepted
      <3>3. QED
        BY <3>2 DEF Completed
    <2>4. CASE d.res # "OK"
      <3>1. Refuses(p, d)
        BY <2>3, <2>4, StreamAssumption DEF Refuses, HdrSize, Accepted
      <3>2. QED
        BY <2>2, <3>1 DEF RoundEnds, Accepted
    <2>5. CASE d.res = "OK"
      <3>1. Behind(p, data, d, y, tape, o, F, m)
        BY <2>3, <2>5 DEF Behind, Accepted
      <3>2. QED
        BY <2>2, <3>1 DEF RoundEnds, Accepted
    <2>6. QED
      BY <2>4, <2>5
  <1>2. CASE x.m_inpNumExpected # x.m_inpNumReceived
    <2>1. z = [p |-> x, data |-> y]
      BY <1>2
    <2>2. x.m_inpNumReceived \in Nat /\ x.m_inpNumExpected \in Nat
      BY ParserNat, ExpectedNat DEF Accepted
    <2>3. GoesOn(p, data, x, y, tape, o)
      BY <1>2, <2>2 DEF GoesOn, Between, Accepted
    <2>4. QED
      BY <2>1, <2>3 DEF RoundEnds, Accepted
  <1>3. QED
    BY <1>1, <1>2

\* Before that the rest of the read may be taken.
LEMMA TailEnds ==
    ASSUME NEW p, NEW data, Len(data) \in Nat, p.m_inpNumReceived \in Nat,
           NEW tape, NEW o \in Nat, NEW F, NEW m, OnTape(F, tape, o), Whole(F, m) \/ Refused(F),
           NEW x, NEW y, Accepted(p, data, x, y, tape, o),
           NEW b, b = [p |-> x, data |-> y]
    PROVE  RoundEnds(p, data, RoundTail(b), tape, o, F, m)
  <1>1. b.p = x /\ b.data = y
    OBVIOUS
  <1>2. PICK z : z = RoundTail(b)
    OBVIOUS
  <1>3. CASE x.m_inpNumExpected # x.m_inpNumReceived /\ y # <<>>
    <2>1. PICK x2 : x2 = fillInpBuf_p(x, y)
      OBVIOUS
    <2>2. PICK y2 : y2 = Consumed(x, x2, y)
      OBVIOUS
    <2>3. PICK c : c = [p |-> x2, data |-> y2]
      OBVIOUS
    <2>4. z = [c EXCEPT !.p = IF @.m_inpNumExpected = @.m_inpNumReceived THEN msgReceived(@) ELSE @]
      BY <1>1, <1>2, <1>3, <2>1, <2>2, <2>3 DEF RoundTail, Filled
    <2>5. x.m_inpNumReceived \in Nat /\ x.m_inpNumExpected \in Nat /\ Len(y) \in Nat
      BY ParserNat, ExpectedNat, SeqLen DEF Accepted
    <2>6. PICK n : FilledBy(x, y, x2, y2, n)
      BY <2>1, <2>2, <2>5, Filling DEF Accepted
    <2>7. Holds(x2, tape, o) /\ Lies(y2, tape, o + x2.m_inpNumReceived)
      <3>1. Holds(x, tape, o) /\ Lies(y, tape, o + x.m_inpNumReceived)
        BY DEF Accepted
      <3>2. QED
        BY <2>5, <2>6, <3>1, FillOnTape
    <2>8. InBody(x2)
      <3>1. InBody(x)
        BY DEF Accepted
      <3>2. QED
        BY <2>5, <2>6, <3>1, StaysInBody
    <2>9. /\ Parser(x2) /\ x2.res = "OK" /\ x2.got = p.got /\ x2.m_inpNumReceived <= x2.m_inpNumExpected /\ IsSeq(y2)
          /\ n \in Nat /\ x2.m_inpNumReceived = x.m_inpNumReceived + n /\ Len(y2) = Len(y) - n /\ n <= Len(y)
      BY <2>6 DEF FilledBy, Accepted
    <2>10. Len(y2) < Len(data) /\ x2.m_inpNumReceived + Len(y2) = p.m_inpNumReceived + Len(data)
      BY <2>5, <2>9 DEF Accepted
    <2>13. Accepted(p, data, x2, y2, tape, o)
      BY <2>7, <2>8, <2>9, <2>10 DEF Accepted
    <2>11. RoundEnds(p, data, z, tape, o, F, m)
      BY <2>3, <2>4, <2>13, TailEnd
    <2>12. QED
      BY <1>2, <2>11
  <1>4. CASE ~(x.m_inpNumExpected # x.m_inpNumReceived /\ y # <<>>)
    <2>1. z = [b EXCEPT !.p = IF @.m_inpNumExpected = @.m_inpNumReceived THEN msgReceived(@) ELSE @]
      BY <1>1, <1>2, <1>4 DEF RoundTail
    <2>2. RoundEnds(p, data, z, tape, o, F, m)
      BY <2>1, TailEnd
    <2>3. QED
      BY <1>2, <2>2
  <1>5. QED
    BY <1>3, <1>4

\* One round of the loop of dataReceived.
LEMMA RoundStep ==
    ASSUME NEW tape, NEW o \in Nat, NEW F, NEW m, OnTape(F, tape, o), Whole(F, m) \/ Refused(F),
           NEW p, Between(p, tape, o), NEW data, IsSeq(data), data # <<>>,
           Lies(data, tape, o + p.m_inpNumReceived), NEW q, q = [p |-> p, data |-> data]
    PROVE  RoundEnds(p, data, dataRound(q), tape, o, F, m)
  <1>1. q.p = p /\ q.data = data
    OBVIOUS
  <1>2. PICK x : x = fillInpBuf_p(p, data)
    OBVIOUS
  <1>3. PICK y : y = Consumed(p, x, data)
    OBVIOUS
  <1>4. PICK a : a = [p |-> x, data |-> y]
    OBVIOUS
  <1>5. Filled(q) = a
    BY <1>1, <1>2, <1>3, <1>4 DEF Filled
  <1>6. PICK b : b = [a EXCEPT !.p = IF @.m_inpNumReceived = HdrSize THEN headerReceived(@) ELSE @]
    OBVIOUS
  <1>7. PICK z : z = dataRound(q)
    OBVIOUS
  <1>8. Parser(p) /\ p.res = "OK" /\ Holds(p, tape, o)
    BY DEF Between
  <1>9. z = IF b.p.res # "OK" THEN b ELSE RoundTail(b)
    BY <1>1, <1>5, <1>6, <1>7, <1>8 DEF dataRound, RoundTail
  <1>10. /\ p.m_inpNumReceived \in Nat /\ p.m_inpNumExpected \in Nat /\ p.m_inpNumReceived < p.m_inpNumExpected
         /\ Len(data) \in Nat /\ Len(data) > 0
    <2>1. p.m_inpNumReceived \in Nat /\ p.m_inpNumExpected \in Nat
      BY <1>8, ParserNat, ExpectedNat DEF Between
    <2>2. p.m_inpNumReceived < p.m_inpNumExpected
      BY DEF Between, InHeader
    <2>3. QED
      BY <2>1, <2>2, SeqLen
  <1>11. PICK n : FilledBy(p, data, x, y, n)
    BY <1>2, <1>3, <1>8, <1>10, Filling
  <1>12. Holds(x, tape, o) /\ Lies(y, tape, o + x.m_inpNumReceived)
    BY <1>8, <1>10, <1>11, FillOnTape
  <1>13. /\ Parser(x) /\ x.res = "OK" /\ x.got = p.got /\ IsSeq(y) /\ n \in Nat
         /\ x.m_inpNumReceived = p.m_inpNumReceived + n /\ Len(y) = Len(data) - n
         /\ x.m_inpNumExpected = p.m_inpNumExpected /\ x.m_inpNumReceived <= x.m_inpNumExpected
         /\ n = Len(data) \/ x.m_inpNumReceived = x.m_inpNumExpected
    BY <1>8, <1>11 DEF FilledBy
  <1>14. n > 0 /\ Len(y) < Len(data) /\ x.m_inpNumReceived + Len(y) = p.m_inpNumReceived + Len(data)
    BY <1>10, <1>13
  <1>15. RoundEnds(p, data, z, tape, o, F, m)
    <2>1. CASE InHeader(p) /\ x.m_inpNumReceived = HdrSize
      <3>1. PICK h : h = headerReceived(x)
        OBVIOUS
      <3>2. b = [p |-> h, data |-> y]
        BY <1>4, <1>6, <2>1, <3>1
      <3>3. x.m_inpNumExpected = HdrSize
        BY <1>13, <2>1 DEF InHeader
      <3>4. /\ h.got = x.got /\ h.m_inpNumReceived = HdrSize
            /\ h.res = "OK" => Parser(h) /\ InBody(h) /\ Holds(h, tape, o)
        BY <1>12, <1>13, <2>1, <3>1, <3>3, HeaderDone
      <3>5. CASE h.res # "OK"
        <4>1. z = [p |-> h, data |-> y]
          BY <1>9, <3>2, <3>5
        <4>2. Refuses(p, h)
          BY <1>13, <3>4, <3>5, StreamAssumption DEF Refuses, HdrSize
        <4>3. QED
          BY <1>13, <4>1, <4>2 DEF RoundEnds
      <3>6. CASE h.res = "OK"
        <4>1. z = RoundTail(b)
          BY <1>9, <3>2, <3>6
        <4>2. h.m_inpNumReceived <= h.m_inpNumExpected
          BY <3>4, <3>6 DEF InBody, HdrSize
        <4>3. Lies(y, tape, o + h.m_inpNumReceived)
          BY <1>12, <2>1, <3>4
        <4>4. h.m_inpNumReceived + Len(y) = p.m_inpNumReceived + Len(data)
          BY <1>14, <2>1, <3>4
        <4>5. h.got = p.got
          BY <1>13, <3>4
        <4>8. Accepted(p, data, h, y, tape, o)
          BY <1>13, <1>14, <3>4, <3>6, <4>2, <4>3, <4>4, <4>5 DEF Accepted
        <4>6. RoundEnds(p, data, RoundTail(b), tape, o, F, m)
          BY <1>10, <3>2, <4>8, TailEnds
        <4>7. QED
          BY <4>1, <4>6
      <3>7. QED
        BY <3>5, <3>6
    <2>2. CASE InHeader(p) /\ x.m_inpNumReceived # HdrSize
      <3>1. b = a /\ b.p = x /\ b.data = y
        BY <1>4, <1>6, <2>2
      <3>2. x.m_inpNumReceived \in Nat /\ x.m_inpNumExpected = HdrSize /\ x.m_inpNumReceived < HdrSize /\ y = <<>>
        BY <1>10, <1>13, <2>2, ParserNat, SeqLen DEF InHeader, HdrSize
      <3>3. z = [p |-> x, data |-> y]
        BY <1>4, <1>9, <1>13, <3>1, <3>2 DEF RoundTail, HdrSize
      <3>4. InHeader(x)
        BY <3>2 DEF InHeader
      <3>5. GoesOn(p, data, x, y, tape, o)
        BY <1>12, <1>13, <1>14, <3>4 DEF GoesOn, Between
      <3>6. QED
        BY <1>13, <3>3, <3>5 DEF RoundEnds
    <2>3. CASE ~InHeader(p)
      <3>1. InBody(p)
        BY <2>3 DEF Between
      <3>2. InBody(x)
        BY <1>10, <1>11, <3>1, StaysInBody
      <3>3. x.m_inpNumReceived # HdrSize
        BY <1>10, <1>13, <1>14, <3>1 DEF InBody, HdrSize
      <3>4. b = [p |-> x, data |-> y] /\ b.p.res = "OK"
        BY <1>4, <1>6, <1>13, <3>3
      <3>5. z = RoundTail(b)
        BY <1>9, <3>4
      <3>8. Accepted(p, data, x, y, tape, o)
        BY <1>12, <1>13, <1>14, <3>2 DEF Accepted
      <3>6. RoundEnds(p, data, RoundTail(b), tape, o, F, m)
        BY <1>10, <3>4, <3>8, TailEnds
      <3>7. QED
        BY <3>5, <3>6
    <2>4. QED
      BY <2>1, <2>2, <2>3
  <1>16. QED
    BY <1>7, <1>15
-----------------------------------------------------------------------------
\* What was sent, one behind the other on the tape.
Laid(tape, off, snt) ==
    /\ IsSeq(snt) /\ \A i \in 1..Len(snt) : Carried(snt[i])
    /\ \A i \in 1..Len(snt) + 1 : off[i] \in Nat /\ off[i] <= off[Len(snt) + 1]
    /\ \A i \in 1..Len(snt) : off[i + 1] = off[i] + Len(Frame(snt[i])) /\ Lies(Frame(snt[i]), tape, off[i])

\* What was handed up is the beginning of what was sent.
HandedUp(got, snt) == IsSeq(got) /\ Len(got) <= Len(snt) /\ \A i \in 1..Len(got) : got[i] = snt[i]

\* The serializer has handed up what was sent before, and data, which ends at v, is what comes next.
At(p, data, tape, off, snt, v) ==
    /\ HandedUp(p.got, snt) /\ Between(p, tape, off[Len(p.got) + 1])
    /\ IsSeq(data) /\ Lies(data, tape, off[Len(p.got) + 1] + p.m_inpNumReceived)
    /\ off[Len(p.got) + 1] + p.m_inpNumReceived + Len(data) = v

\* It refused something.
Bad(p, snt) ==
    HandedUp(p.got, snt) /\ p.res # "OK" /\ p.m_inpNumReceived \in Nat /\ p.m_inpNumReceived <= MaxMsgSize

\* The next message is handed up.
LEMMA GotMore ==
    ASSUME NEW got, NEW snt, HandedUp(got, snt), IsSeq(snt), Len(got) + 1 <= Len(snt)
    PROVE  HandedUp(Append(got, snt[Len(got) + 1]), snt) /\ Len(Append(got, snt[Len(got) + 1])) = Len(got) + 1
  <1>1. PICK g : g = Append(got, snt[Len(got) + 1])
    OBVIOUS
  <1>2. /\ IsSeq(g) /\ Len(got) \in Nat /\ Len(g) = Len(got) + 1
        /\ g[Len(got) + 1] = snt[Len(got) + 1] /\ \A i \in 1..Len(got) : g[i] = got[i]
    BY <1>1, SeqAdd DEF HandedUp
  <1>3. ASSUME NEW i \in 1..Len(g) PROVE g[i] = snt[i]
    <2>1. i \in 1..Len(got) \/ i = Len(got) + 1
      BY <1>2
    <2>2. QED
      BY <1>2, <2>1 DEF HandedUp
  <1>4. HandedUp(g, snt)
    BY <1>2, <1>3 DEF HandedUp
  <1>5. QED
    BY <1>1, <1>2, <1>4

\* What a round takes from the read it has received.
LEMMA SameEnd ==
    ASSUME NEW o \in Nat, NEW a \in Nat, NEW b \in Nat, NEW c \in Nat, NEW d \in Nat, NEW v, o + a + b = v, c + d = a + b
    PROVE  o + c + d = v
  OBVIOUS

\* A round on a read that is not used up takes some of it, or refuses the frame.
LEMMA LoopStep ==
    ASSUME NEW tape, NEW off, NEW snt, Laid(tape, off, snt), NEW v, v <= off[Len(snt) + 1],
           NEW p, NEW data, At(p, data, tape, off, snt, v), data # <<>>, NEW q, q = [p |-> p, data |-> data]
    PROVE  \E x, y : /\ dataRound(q) = [p |-> x, data |-> y]
                     /\ (At(x, y, tape, off, snt, v) /\ Len(y) < Len(data)) \/ Bad(x, snt)
  <1>1. PICK k : k = Len(p.got) + 1
    OBVIOUS
  <1>2. PICK o : o = off[k]
    OBVIOUS
  <1>3. /\ HandedUp(p.got, snt) /\ Between(p, tape, o) /\ IsSeq(data) /\ Lies(data, tape, o + p.m_inpNumReceived)
        /\ o + p.m_inpNumReceived + Len(data) = v
    BY <1>1, <1>2 DEF At
  <1>4. p.m_inpNumReceived \in Nat /\ Len(data) \in Nat /\ Len(data) > 0 /\ Len(snt) \in Nat /\ Len(p.got) \in Nat
    BY <1>3, ParserNat, SeqLen DEF Between, Laid, HandedUp
  <1>5. k \in 1..Len(snt) + 1 /\ o \in Nat
    BY <1>1, <1>2, <1>3, <1>4 DEF HandedUp, Laid
  <1>6. k # Len(snt) + 1
    BY <1>2, <1>3, <1>4, <1>5
  <1>7. k \in 1..Len(snt) /\ Len(p.got) + 1 <= Len(snt)
    BY <1>1, <1>4, <1>5, <1>6
  <1>8. PICK m : m = snt[k]
    OBVIOUS
  <1>9. PICK F : F = Frame(m)
    OBVIOUS
  <1>10. /\ IsSeq(F) /\ Len(F) \in Nat /\ Len(F) >= HdrSize /\ (Whole(F, m) \/ Refused(F))
         /\ off[k + 1] = o + Len(F) /\ Lies(F, tape, o)
    <2>1. Carried(m) /\ off[k + 1] = o + Len(F) /\ Lies(F, tape, o)
      BY <1>2, <1>7, <1>8, <1>9 DEF Laid
    <2>2. QED
      BY <1>9, <2>1, FrameSound
  <1>11. OnTape(F, tape, o)
    BY <1>10 DEF OnTape
  <1>12. RoundEnds(p, data, dataRound(q), tape, o, F, m)
    BY <1>3, <1>5, <1>10, <1>11, RoundStep
  <1>13. PICK x, y : /\ dataRound(q) = [p |-> x, data |-> y] /\ IsSeq(y)
                     /\ \/ GoesOn(p, data, x, y, tape, o)
                        \/ Behind(p, data, x, y, tape, o, F, m)
                        \/ Refuses(p, x)
    BY <1>12 DEF RoundEnds
  <1>14. CASE GoesOn(p, data, x, y, tape, o)
    <2>1. /\ Between(x, tape, o) /\ x.got = p.got /\ Lies(y, tape, o + x.m_inpNumReceived)
          /\ Len(y) < Len(data) /\ x.m_inpNumReceived + Len(y) = p.m_inpNumReceived + Len(data)
      BY <1>14 DEF GoesOn
    <2>2. x.m_inpNumReceived \in Nat /\ Len(y) \in Nat
      BY <1>13, <2>1, ParserNat, SeqLen DEF Between
    <2>3. o + x.m_inpNumReceived + Len(y) = v
      <3>1. o + p.m_inpNumReceived + Len(data) = v
        BY <1>3
      <3>2. x.m_inpNumReceived + Len(y) = p.m_inpNumReceived + Len(data)
        BY <2>1
      <3>3. PICK a, b, c, d : a = p.m_inpNumReceived /\ b = Len(data) /\ c = x.m_inpNumReceived /\ d = Len(y)
        OBVIOUS
      <3>4. a \in Nat /\ b \in Nat /\ c \in Nat /\ d \in Nat /\ o + a + b = v /\ c + d = a + b
        BY <1>4, <2>2, <3>1, <3>2, <3>3
      <3>5. o + c + d = v
        BY <1>5, <3>4, SameEnd
      <3>6. QED
        BY <3>3, <3>5
    <2>4. At(x, y, tape, off, snt, v)
      BY <1>1, <1>2, <1>3, <1>13, <2>1, <2>3 DEF At
    <2>5. QED
      BY <1>13, <2>1, <2>4
  <1>15. CASE Behind(p, data, x, y, tape, o, F, m)
    <2>1. /\ Parser(x) /\ x.res = "OK" /\ InHeader(x) /\ x.m_inpNumReceived = 0 /\ x.got = Append(p.got, m)
          /\ Lies(y, tape, o + Len(F))
          /\ Len(y) < Len(data) /\ Len(F) + Len(y) = p.m_inpNumReceived + Len(data)
      BY <1>15 DEF Behind
    <2>2. HandedUp(x.got, snt) /\ Len(x.got) + 1 = k + 1
      <3>1. IsSeq(snt) /\ x.got = Append(p.got, snt[Len(p.got) + 1])
        BY <1>1, <1>8, <2>1 DEF Laid
      <3>2. HandedUp(x.got, snt) /\ Len(x.got) = Len(p.got) + 1
        BY <1>3, <1>7, <3>1, GotMore
      <3>3. QED
        BY <1>1, <3>2
    <2>3. Holds(x, tape, off[k + 1])
      BY <2>1 DEF Holds
    <2>4. Between(x, tape, off[k + 1])
      BY <2>1, <2>3 DEF Between
    <2>5. off[k + 1] + x.m_inpNumReceived = o + Len(F) /\ Len(y) \in Nat
      BY <1>5, <1>10, <1>13, <2>1, SeqLen
    <2>6. Lies(y, tape, off[k + 1] + x.m_inpNumReceived)
      BY <2>1, <2>5
    <2>7. off[k + 1] + x.m_inpNumReceived + Len(y) = v
      <3>1. o + Len(F) + Len(y) = v
        <4>1. o + p.m_inpNumReceived + Len(data) = v
          BY <1>3
        <4>2. Len(F) + Len(y) = p.m_inpNumReceived + Len(data)
          BY <2>1
        <4>3. Len(F) \in Nat
          BY <1>10
        <4>4. PICK a, b, c, d : a = p.m_inpNumReceived /\ b = Len(data) /\ c = Len(F) /\ d = Len(y)
          OBVIOUS
        <4>5. a \in Nat /\ b \in Nat /\ c \in Nat /\ d \in Nat /\ o + a + b = v /\ c + d = a + b
          BY <1>4, <2>5, <4>1, <4>2, <4>3, <4>4
        <4>6. o + c + d = v
          BY <1>5, <4>5, SameEnd
        <4>7. QED
          BY <4>4, <4>6
      <3>2. QED
        BY <2>5, <3>1
    <2>8. At(x, y, tape, off, snt, v)
      BY <1>13, <2>2, <2>4, <2>6, <2>7 DEF At
    <2>9. QED
      BY <1>13, <2>1, <2>8
  <1>16. CASE Refuses(p, x)
    <2>1. Bad(x, snt)
      BY <1>3, <1>16 DEF Refuses, Bad
    <2>2. QED
      BY <1>13, <2>1
  <1>17. QED
    BY <1>13, <1>14, <1>15, <1>16

\* The loop stops at the end of the data and on an error.
LEMMA LoopStops ==
    ASSUME NEW p, NEW data, data = <<>> \/ p.res # "OK", NEW q, q = [p |-> p, data |-> data]
    PROVE  dataRound(q) = q
  <1>1. q.p = p /\ q.data = data
    OBVIOUS
  <1>2. QED
    BY <1>1 DEF dataRound

\* A set of numbers has a smallest one.
LEMMA Smallest ==
    ASSUME NEW T \in SUBSET Nat, T # {}
    PROVE  \E i \in T : \A j \in T : i <= j
  <1> DEFINE R == OpToRel(<, Nat)
  <1>1. IsWellFoundedOn(R, Nat)
    BY NatLessThanWellFounded
  <1>2. ASSUME NEW i \in Nat, NEW j \in Nat, <<j, i>> \notin R PROVE i <= j
    <2>1. ~(j < i)
      BY <1>2 DEF OpToRel
    <2>2. QED BY <2>1
  <1> HIDE DEF R
  <1>3. T \subseteq Nat
    OBVIOUS
  <1>4. PICK i \in T : \A j \in T : ~(<<j, i>> \in R)
    BY <1>1, <1>3, WFMin
  <1>5. QED BY <1>2, <1>3, <1>4

\* f are the rounds that begin with s.
Rounds(f, s, n) == f = [i \in 0..n |-> IF i = 0 THEN s ELSE dataRound(f[i - 1])]

\* There are such rounds: the recursive definition of the loop has a solution.
LEMMA RoundsExist ==
    ASSUME NEW s, NEW n \in Nat
    PROVE  \E f : Rounds(f, s, n)
  <1> DEFINE T == {k \in Nat : ~\E f : Rounds(f, s, k)}
  <1> SUFFICES ASSUME T # {} PROVE FALSE
    OBVIOUS
  <1>1. PICK k \in T : \A j \in T : k <= j
    BY Smallest
  <1>2. CASE k = 0
    <2>1. PICK f : f = [i \in 0..0 |-> s]
      OBVIOUS
    <2>2. f = [i \in 0..0 |-> IF i = 0 THEN s ELSE dataRound(f[i - 1])]
      BY <2>1
    <2>3. QED
      BY <1>1, <1>2, <2>2 DEF Rounds
  <1>3. CASE k # 0
    <2>1. k - 1 \in Nat /\ k \in Nat /\ ~(k <= k - 1)
      BY <1>3
    <2>2. PICK f : Rounds(f, s, k - 1)
      BY <1>1, <2>1
    <2>3. DOMAIN f = 0..k - 1 /\ \A i \in 0..k - 1 : f[i] = IF i = 0 THEN s ELSE dataRound(f[i - 1])
      BY <2>2 DEF Rounds
    <2>4. PICK g : g = [i \in 0..k |-> IF i = k THEN dataRound(f[k - 1]) ELSE f[i]]
      OBVIOUS
    <2>5. ASSUME NEW i \in 0..k PROVE g[i] = IF i = 0 THEN s ELSE dataRound(g[i - 1])
      <3>1. CASE i = k
        <4>1. g[i] = dataRound(f[k - 1]) /\ k - 1 \in 0..k /\ k - 1 # k
          BY <2>1, <2>4, <3>1
        <4>2. g[k - 1] = f[k - 1]
          BY <2>4, <4>1
        <4>3. QED
          BY <1>3, <3>1, <4>1, <4>2
      <3>2. CASE i # k
        <4>1. i \in 0..k - 1 /\ g[i] = f[i]
          BY <2>1, <2>4, <3>2
        <4>2. CASE i = 0
          BY <2>3, <4>1, <4>2
        <4>3. CASE i # 0
          <5>1. i - 1 \in 0..k /\ i - 1 # k
            BY <2>1, <3>2, <4>3
          <5>2. g[i - 1] = f[i - 1]
            BY <2>4, <5>1
          <5>3. QED
            BY <2>3, <4>1, <4>3, <5>2
        <4>4. QED
          BY <4>2, <4>3
      <3>3. QED
        BY <3>1, <3>2
    <2>6. g = [i \in 0..k |-> g[i]]
      BY <2>4
    <2>7. Rounds(g, s, k)
      BY <2>5, <2>6 DEF Rounds
    <2>8. QED
      BY <1>1, <2>7
  <1>4. QED
    BY <1>2, <1>3

\* A read, whatever its length and however the messages lie in it.
LEMMA ReadEnds ==
    ASSUME NEW tape, NEW off, NEW snt, Laid(tape, off, snt), NEW v, v <= off[Len(snt) + 1],
           NEW p, NEW data, At(p, data, tape, off, snt, v)
    PROVE  \E e : e = <<>> /\ (At(dataReceived(p, data), e, tape, off, snt, v) \/ Bad(dataReceived(p, data), snt))
  <1>1. PICK n : n = Len(data)
    OBVIOUS
  <1>2. IsSeq(data) /\ n \in Nat
    BY <1>1, SeqLen DEF At
  <1>3. PICK s : s = [p |-> p, data |-> data]
    OBVIOUS
  <1>4. \E f : Rounds(f, s, n)
    BY <1>2, RoundsExist
  <1>5. PICK f : f = CHOOSE g : Rounds(g, s, n)
    OBVIOUS
  <1>6. Rounds(f, s, n)
    BY <1>4, <1>5
  <1>7. dataReceived(p, data) = f[n].p
    BY <1>1, <1>3, <1>5 DEF dataReceived, Rounds
  <1>8. \A i \in 0..n : f[i] = IF i = 0 THEN s ELSE dataRound(f[i - 1])
    BY <1>6 DEF Rounds
  <1> DEFINE C(i) == \E x, y : /\ f[i] = [p |-> x, data |-> y]
                               /\ (At(x, y, tape, off, snt, v) /\ Len(y) <= n - i) \/ Bad(x, snt)
             T == {i \in 0..n : ~C(i)}
  <1>9. C(0)
    BY <1>1, <1>2, <1>3, <1>8
  <1>10. ASSUME NEW i \in 1..n, C(i - 1) PROVE C(i)
    <2>1. f[i] = dataRound(f[i - 1]) /\ i \in Nat
      BY <1>2, <1>8
    <2>2. PICK x, y : /\ f[i - 1] = [p |-> x, data |-> y]
                      /\ (At(x, y, tape, off, snt, v) /\ Len(y) <= n - (i - 1)) \/ Bad(x, snt)
      BY <1>10
    <2>3. PICK q : q = f[i - 1]
      OBVIOUS
    <2>4. CASE Bad(x, snt)
      <3>1. x.res # "OK"
        BY <2>4 DEF Bad
      <3>2. dataRound(q) = q
        BY <2>2, <2>3, <3>1, LoopStops
      <3>3. QED
        BY <2>1, <2>2, <2>3, <2>4, <3>2
    <2>5. CASE At(x, y, tape, off, snt, v) /\ Len(y) <= n - (i - 1)
      <3>1. IsSeq(y) /\ Len(y) \in Nat
        BY <2>5, SeqLen DEF At
      <3>2. CASE y = <<>>
        <4>1. dataRound(q) = q
          BY <2>2, <2>3, <3>2, LoopStops
        <4>2. Len(y) = 0
          BY <3>1, <3>2, SeqLen
        <4>3. Len(y) <= n - i
          BY <1>2, <4>2
        <4>4. QED
          BY <2>1, <2>2, <2>3, <2>5, <4>1, <4>3
      <3>3. CASE y # <<>>
        <4>1. PICK x2, y2 : /\ dataRound(q) = [p |-> x2, data |-> y2]
                            /\ (At(x2, y2, tape, off, snt, v) /\ Len(y2) < Len(y)) \/ Bad(x2, snt)
          BY <2>2, <2>3, <2>5, <3>3, LoopStep
        <4>2. CASE Bad(x2, snt)
          BY <2>1, <2>3, <4>1, <4>2
        <4>3. CASE At(x2, y2, tape, off, snt, v) /\ Len(y2) < Len(y)
          <5>1. IsSeq(y2)
            BY <4>3 DEF At
          <5>2. Len(y2) \in Nat
            BY <5>1, SeqLen
          <5>3. Len(y2) <= n - i
            BY <1>2, <2>1, <2>5, <3>1, <4>3, <5>2
          <5>4. QED
            BY <2>1, <2>3, <4>1, <4>3, <5>3
        <4>4. QED
          BY <4>1, <4>2, <4>3
      <3>4. QED
        BY <3>2, <3>3
    <2>6. QED
      BY <2>2, <2>4, <2>5
  <1> HIDE DEF C
  <1>11. T = {}
    <2> SUFFICES ASSUME T # {} PROVE FALSE
      OBVIOUS
    <2>1. T \in SUBSET Nat
      BY <1>2
    <2>2. PICK i \in T : \A j \in T : i <= j
      BY <2>1, Smallest
    <2>3. i \in 0..n /\ ~C(i) /\ i # 0
      BY <1>9, <2>2
    <2>4. i \in 1..n /\ i - 1 \in 0..n /\ ~(i <= i - 1)
      BY <1>2, <2>3
    <2>5. i - 1 \notin T
      BY <2>2, <2>4
    <2>6. C(i - 1)
      BY <2>4, <2>5
    <2>7. QED
      BY <1>10, <2>3, <2>4, <2>6
  <1>12. C(n)
    BY <1>2, <1>11
  <1>13. PICK x, y : /\ f[n] = [p |-> x, data |-> y]
                     /\ (At(x, y, tape, off, snt, v) /\ Len(y) <= n - n) \/ Bad(x, snt)
    BY <1>12 DEF C
  <1>14. dataReceived(p, data) = x
    BY <1>7, <1>13
  <1>15. CASE Bad(x, snt)
    BY <1>14, <1>15
  <1>16. CASE At(x, y, tape, off, snt, v) /\ Len(y) <= n - n
    <2>1. IsSeq(y)
      BY <1>16 DEF At
    <2>2. Len(y) \in Nat /\ Len(y) <= 0
      BY <1>2, <1>16, <2>1, SeqLen
    <2>3. y = <<>>
      BY <2>1, <2>2, SeqLen
    <2>4. QED
      BY <1>14, <1>16, <2>3
  <1>17. QED
    BY <1>13, <1>15, <1>16
-----------------------------------------------------------------------------
\* One more message on the tape.
More(tape, off, snt, m, tape2, off2, snt2) ==
    /\ Laid(tape2, off2, snt2) /\ snt2 = Append(snt, m) /\ Len(snt2) = Len(snt) + 1
    /\ \A i \in 1..Len(snt) : snt2[i] = snt[i]
    /\ snt2[Len(snt) + 1] = m
    /\ \A i \in 1..Len(snt) + 1 : off2[i] = off[i]
    /\ off2[Len(snt) + 2] = off[Len(snt) + 1] + Len(Frame(m))
    /\ \A j \in 1..off[Len(snt) + 1] : tape2[j] = tape[j]

\* The tape goes on behind what was sent before.
LEMMA OneMore ==
    ASSUME NEW tape, NEW off, NEW snt, Laid(tape, off, snt), NEW m, Carried(m), NEW snt2, snt2 = Append(snt, m)
    PROVE  \E tape2, off2 : More(tape, off, snt, m, tape2, off2, snt2)
  <1>1. PICK N : N = Len(snt)
    OBVIOUS
  <1>2. PICK F : F = Frame(m)
    OBVIOUS
  <1>3. N \in Nat /\ IsSeq(snt) /\ IsSeq(F) /\ Len(F) \in Nat /\ off[N + 1] \in Nat
    <2>1. IsSeq(snt) /\ N \in Nat
      BY <1>1, SeqLen DEF Laid
    <2>2. N + 1 \in 1..Len(snt) + 1
      BY <1>1, <2>1
    <2>3. off[N + 1] \in Nat
      BY <2>2 DEF Laid
    <2>4. QED
      BY <1>2, <2>1, <2>3, FrameSound
  <1>4. PICK E : E = off[N + 1]
    OBVIOUS
  <1>5. PICK tape2 : tape2 = [j \in Nat |-> IF j <= E THEN tape[j] ELSE F[j - E]]
    OBVIOUS
  <1>6. PICK off2 : off2 = [i \in 1..N + 2 |-> IF i <= N + 1 THEN off[i] ELSE E + Len(F)]
    OBVIOUS
  <1>7. E \in Nat /\ \A j \in 1..E : tape2[j] = tape[j]
    BY <1>3, <1>4, <1>5
  <1>8. \A j \in 1..Len(F) : tape2[E + j] = F[j]
    <2>1. ASSUME NEW j \in 1..Len(F) PROVE tape2[E + j] = F[j]
      <3>1. E + j \in Nat /\ ~(E + j <= E) /\ (E + j) - E = j
        BY <1>3, <1>7
      <3>2. QED
        BY <1>5, <3>1
    <2>2. QED
      BY <2>1
  <1>9. \A i \in 1..N + 1 : off2[i] = off[i]
    BY <1>3, <1>6
  <1>10. off2[N + 2] = E + Len(F) /\ off2[N + 1] = E
    BY <1>3, <1>4, <1>6
  <1>11. /\ IsSeq(snt2) /\ Len(snt2) = N + 1 /\ snt2[N + 1] = m /\ \A i \in 1..N : snt2[i] = snt[i]
    BY <1>1, <1>3, SeqAdd
  <1>12. \A i \in 1..Len(snt2) : Carried(snt2[i])
    <2>1. \A i \in 1..Len(snt2) : i \in 1..N \/ i = N + 1
      BY <1>3, <1>11
    <2>2. QED
      BY <1>1, <1>11, <2>1 DEF Laid
  <1>13. ASSUME NEW i \in 1..Len(snt2) + 1 PROVE off2[i] \in Nat /\ off2[i] <= off2[Len(snt2) + 1]
    <2>1. Len(snt2) + 1 = N + 2
      BY <1>3, <1>11
    <2>2. CASE i \in 1..N + 1
      <3>1. off2[i] = off[i] /\ off[i] \in Nat /\ off[i] <= E
        BY <1>1, <1>4, <1>9, <2>2 DEF Laid
      <3>2. QED
        BY <1>3, <1>7, <1>10, <2>1, <3>1
    <2>3. CASE i \notin 1..N + 1
      <3>1. i = N + 2
        BY <1>3, <2>1, <2>3
      <3>2. QED
        BY <1>3, <1>7, <1>10, <2>1, <3>1
    <2>4. QED
      BY <2>2, <2>3
  <1>14. ASSUME NEW i \in 1..Len(snt2)
         PROVE  off2[i + 1] = off2[i] + Len(Frame(snt2[i])) /\ Lies(Frame(snt2[i]), tape2, off2[i])
    <2>1. CASE i \in 1..N
      <3>1. /\ i \in 1..N + 1 /\ i + 1 \in 1..N + 1 /\ snt2[i] = snt[i]
            /\ off2[i] = off[i] /\ off2[i + 1] = off[i + 1]
        BY <1>3, <1>9, <1>11, <2>1
      <3>2. PICK G : G = Frame(snt[i])
        OBVIOUS
      <3>3. /\ off[i + 1] = off[i] + Len(G) /\ Lies(G, tape, off[i]) /\ off[i] \in Nat /\ off[i + 1] <= E
            /\ Len(G) \in Nat
        BY <1>1, <1>4, <2>1, <3>1, <3>2, FrameSound DEF Laid
      <3>4. Lies(G, tape2, off[i])
        <4>1. ASSUME NEW j \in 1..Len(G) PROVE G[j] = tape2[off[i] + j]
          <5>1. off[i] + j \in 1..E
            BY <1>7, <3>3
          <5>2. G[j] = tape[off[i] + j]
            BY <3>3 DEF Lies
          <5>3. QED
            BY <1>7, <5>1, <5>2
        <4>2. QED
          BY <4>1 DEF Lies
      <3>5. QED
        BY <3>1, <3>2, <3>3, <3>4
    <2>2. CASE i = N + 1
      <3>1. i + 1 = N + 2 /\ snt2[i] = m
        BY <1>3, <1>11, <2>2
      <3>2. Lies(F, tape2, E)
        BY <1>8 DEF Lies
      <3>3. QED
        BY <1>2, <1>10, <2>2, <3>1, <3>2
    <2>3. QED
      BY <1>3, <1>11, <2>1, <2>2
  <1>15. Laid(tape2, off2, snt2)
    BY <1>11, <1>12, <1>13, <1>14 DEF Laid
  <1>16. More(tape, off, snt, m, tape2, off2, snt2)
    BY <1>1, <1>2, <1>4, <1>7, <1>9, <1>10, <1>11, <1>15 DEF More
  <1>17. QED
    BY <1>16

\* What was handed up stays the beginning of what was sent.
LEMMA HandedUpMore ==
    ASSUME NEW got, NEW snt, NEW snt2, HandedUp(got, snt), IsSeq(snt), Len(snt2) = Len(snt) + 1,
           \A i \in 1..Len(snt) : snt2[i] = snt[i]
    PROVE  HandedUp(got, snt2)
  <1>1. Len(got) \in Nat /\ Len(snt) \in Nat /\ Len(got) <= Len(snt)
    BY SeqLen DEF HandedUp
  <1>2. \A i \in 1..Len(got) : i \in 1..Len(snt)
    BY <1>1
  <1>3. Len(got) <= Len(snt2)
    BY <1>1
  <1>4. QED
    BY <1>2, <1>3 DEF HandedUp

\* The receiver does not see that there is more on the tape,
LEMMA AtMore ==
    ASSUME NEW tape, NEW off, NEW snt, NEW m, NEW tape2, NEW off2, NEW snt2, More(tape, off, snt, m, tape2, off2, snt2),
           Laid(tape, off, snt), NEW v, v <= off[Len(snt) + 1], NEW p, NEW data, At(p, data, tape, off, snt, v)
    PROVE  At(p, data, tape2, off2, snt2, v)
  <1>1. PICK k : k = Len(p.got) + 1
    OBVIOUS
  <1>2. PICK o : o = off[k]
    OBVIOUS
  <1>3. PICK r : r = p.m_inpNumReceived
    OBVIOUS
  <1>4. PICK l : l = Len(data)
    OBVIOUS
  <1>5. PICK E : E = off[Len(snt) + 1]
    OBVIOUS
  <1>6. /\ HandedUp(p.got, snt) /\ Between(p, tape, o) /\ IsSeq(data) /\ Lies(data, tape, o + r) /\ o + r + l = v
    BY <1>1, <1>2, <1>3, <1>4 DEF At
  <1>7. r \in Nat /\ l \in Nat /\ Len(snt) \in Nat /\ Len(p.got) \in Nat /\ IsSeq(snt)
    BY <1>3, <1>4, <1>6, ParserNat, SeqLen DEF Between, Laid, HandedUp
  <1>8. k \in 1..Len(snt) + 1 /\ Len(snt) + 1 \in 1..Len(snt) + 1
    BY <1>1, <1>6, <1>7 DEF HandedUp
  <1>9. o \in Nat /\ E \in Nat /\ off2[k] = o
    BY <1>2, <1>5, <1>8 DEF Laid, More
  <1>10. o + r + l <= E
    BY <1>5, <1>6
  <1>11. \A j \in 1..E : tape2[j] = tape[j]
    BY <1>5 DEF More
  <1>12. Holds(p, tape2, o)
    <2>1. ASSUME NEW j \in 1..r PROVE p.m_inpBuf[j] = tape2[o + j]
      <3>1. o + j \in 1..E
        BY <1>7, <1>9, <1>10
      <3>2. p.m_inpBuf[j] = tape[o + j]
        BY <1>3, <1>6 DEF Between, Holds
      <3>3. QED
        BY <1>11, <3>1, <3>2
    <2>2. QED
      BY <1>3, <2>1 DEF Holds
  <1>13. Between(p, tape2, o)
    BY <1>6, <1>12 DEF Between
  <1>14. Lies(data, tape2, o + r)
    <2>1. ASSUME NEW j \in 1..l PROVE data[j] = tape2[(o + r) + j]
      <3>1. (o + r) + j \in 1..E
        BY <1>7, <1>9, <1>10
      <3>2. data[j] = tape[(o + r) + j]
        BY <1>4, <1>6 DEF Lies
      <3>3. QED
        BY <1>11, <3>1, <3>2
    <2>2. QED
      BY <1>4, <2>1 DEF Lies
  <1>15. HandedUp(p.got, snt2)
    <2>1. Len(snt2) = Len(snt) + 1 /\ \A i \in 1..Len(snt) : snt2[i] = snt[i]
      BY DEF More
    <2>2. QED
      BY <1>6, <1>7, <2>1, HandedUpMore
  <1>16. QED
    BY <1>1, <1>3, <1>4, <1>6, <1>9, <1>13, <1>14, <1>15 DEF At

\* bytes that follow on the tape may join the ones on the way,
LEMMA AtJoined ==
    ASSUME NEW tape, NEW off, NEW snt, Laid(tape, off, snt), NEW v, NEW p, NEW data, At(p, data, tape, off, snt, v),
           NEW t, IsSeq(t), Lies(t, tape, v), NEW u, Joined(data, t, u), NEW v2, v2 = v + Len(t)
    PROVE  At(p, u, tape, off, snt, v2)
  <1>1. PICK k : k = Len(p.got) + 1
    OBVIOUS
  <1>2. PICK a : a = off[k] + p.m_inpNumReceived
    OBVIOUS
  <1>3. /\ HandedUp(p.got, snt) /\ Between(p, tape, off[k]) /\ IsSeq(data) /\ Lies(data, tape, a) /\ a + Len(data) = v
    BY <1>1, <1>2 DEF At
  <1>4. a \in Nat
    <2>1. p.m_inpNumReceived \in Nat /\ Len(snt) \in Nat /\ Len(p.got) \in Nat
      BY <1>3, ParserNat, SeqLen DEF Between, Laid, HandedUp
    <2>2. k \in 1..Len(snt) + 1
      BY <1>1, <1>3, <2>1 DEF HandedUp
    <2>3. off[k] \in Nat
      BY <2>2 DEF Laid
    <2>4. QED
      BY <1>2, <2>1, <2>3
  <1>5. /\ IsSeq(u) /\ Len(data) \in Nat /\ Len(t) \in Nat /\ Len(u) = Len(data) + Len(t)
        /\ \A i \in 1..Len(data) : u[i] = data[i]
        /\ \A i \in 1..Len(t) : u[Len(data) + i] = t[i]
    BY DEF Joined
  <1>6. Lies(u, tape, a)
    <2>1. ASSUME NEW j \in 1..Len(u) PROVE u[j] = tape[a + j]
      <3>1. CASE j <= Len(data)
        <4>1. j \in 1..Len(data)
          BY <1>5, <3>1
        <4>2. QED
          BY <1>3, <1>5, <4>1 DEF Lies
      <3>2. CASE j > Len(data)
        <4>1. PICK i : i = j - Len(data)
          OBVIOUS
        <4>2. i \in 1..Len(t) /\ Len(data) + i = j /\ v + i = a + j
          BY <1>3, <1>4, <1>5, <3>2, <4>1
        <4>3. t[i] = tape[v + i] /\ u[Len(data) + i] = t[i]
          BY <1>5, <4>2 DEF Lies
        <4>4. QED
          BY <4>2, <4>3
      <3>3. QED
        BY <1>5, <3>1, <3>2
    <2>2. QED
      BY <2>1 DEF Lies
  <1>7. a + Len(u) = v2
    BY <1>3, <1>4, <1>5
  <1>8. QED
    BY <1>1, <1>2, <1>3, <1>5, <1>6, <1>7 DEF At

\* and the first ones may be read.
LEMMA AtPart ==
    ASSUME NEW tape, NEW off, NEW snt, Laid(tape, off, snt), NEW v, NEW p, NEW data, At(p, data, tape, off, snt, v),
           NEW n \in 1..Len(data), NEW d, Part(data, 1, n, d), NEW e, Part(data, n + 1, Len(data), e)
    PROVE  \E x \in Nat : /\ At(p, d, tape, off, snt, x) /\ x <= v /\ Lies(e, tape, x) /\ IsSeq(e)
                          /\ v = x + Len(e)
  <1>1. PICK k : k = Len(p.got) + 1
    OBVIOUS
  <1>2. PICK a : a = off[k] + p.m_inpNumReceived
    OBVIOUS
  <1>3. /\ HandedUp(p.got, snt) /\ Between(p, tape, off[k]) /\ IsSeq(data) /\ Lies(data, tape, a) /\ a + Len(data) = v
        /\ Len(data) \in Nat
    BY <1>1, <1>2, SeqLen DEF At
  <1>4. a \in Nat
    <2>1. p.m_inpNumReceived \in Nat /\ Len(snt) \in Nat /\ Len(p.got) \in Nat
      BY <1>3, ParserNat, SeqLen DEF Between, Laid, HandedUp
    <2>2. k \in 1..Len(snt) + 1
      BY <1>1, <1>3, <2>1 DEF HandedUp
    <2>3. off[k] \in Nat
      BY <2>2 DEF Laid
    <2>4. QED
      BY <1>2, <2>1, <2>3
  <1>5. IsSeq(d) /\ Len(d) = n /\ \A i \in 1..n : d[i] = data[i]
    BY <1>3 DEF Part
  <1>6. IsSeq(e) /\ Len(e) = Len(data) - n /\ \A i \in 1..Len(e) : e[i] = data[n + i]
    BY <1>3 DEF Part
  <1>7. Lies(d, tape, a)
    <2>1. \A i \in 1..n : i \in 1..Len(data)
      BY <1>3
    <2>2. QED
      BY <1>3, <1>5, <2>1 DEF Lies
  <1>8. PICK x : x = a + n
    OBVIOUS
  <1>9. x \in Nat /\ x <= v /\ v = x + Len(e) /\ a + Len(d) = x
    BY <1>3, <1>4, <1>5, <1>6, <1>8
  <1>10. Lies(e, tape, x)
    <2>1. ASSUME NEW i \in 1..Len(e) PROVE e[i] = tape[x + i]
      <3>1. n + i \in 1..Len(data) /\ x + i = a + (n + i)
        BY <1>3, <1>4, <1>6, <1>8
      <3>2. data[n + i] = tape[a + (n + i)]
        BY <1>3, <3>1 DEF Lies
      <3>3. QED
        BY <1>6, <3>1, <3>2
    <2>2. QED
      BY <2>1 DEF Lies
  <1>11. At(p, d, tape, off, snt, x)
    BY <1>1, <1>2, <1>3, <1>5, <1>7, <1>9 DEF At
  <1>12. QED
    BY <1>6, <1>9, <1>10, <1>11
-----------------------------------------------------------------------------
\* A write under way.
Op(o) == \E b \in 0..NumOutBufs - 1 : \E p, l \in Nat : o = [buf |-> b, pos |-> p, len |-> l]

\* Writes under way: what is free and what is under way make up the ring, and the
\* buffers of the writes are the ones behind the next free buffer, the last just behind it.
RingInv ==
    /\ IsSeq(ops)
    /\ m_numFreeOutBuf \in Nat /\ m_numFreeOutBuf + Len(ops) = NumOutBufs
    /\ m_curFreeBufIdx \in 0..NumOutBufs - 1
    /\ \A i \in 1..Len(ops) :
          /\ Op(ops[i])
          /\ (ops[i].buf + (Len(ops) + 1 - i)) % NumOutBufs = m_curFreeBufIdx

\* The first element of a sequence is taken.
LEMMA SeqTail ==
    ASSUME NEW s, IsSeq(s), s # <<>>
    PROVE  /\ IsSeq(Tail(s)) /\ Len(s) \in Nat /\ Len(s) >= 1 /\ Len(Tail(s)) = Len(s) - 1
           /\ Head(s) = s[1]
           /\ \A i \in 1..Len(s) - 1 : Tail(s)[i] = s[i + 1]
  BY DEF IsSeq

\* The empty sequence.
LEMMA NoneLen == ASSUME NEW s, s = <<>> PROVE Len(s) = 0
  OBVIOUS

LEMMA NoneIn == ASSUME NEW s, s = <<>> PROVE s \in Seq({})
  OBVIOUS

LEMMA NoneIsSeq == ASSUME NEW s, s = <<>> PROVE IsSeq(s)
  BY NoneIn DEF IsSeq

\* The numbers of a write,
LEMMA OpBuf == ASSUME NEW o, Op(o) PROVE o.buf \in 0..NumOutBufs - 1 /\ o.pos \in Nat /\ o.len \in Nat
  BY DEF Op

\* of which more bytes are taken.
LEMMA OpMoved ==
    ASSUME NEW o, Op(o), NEW n \in Nat, NEW x, x = [o EXCEPT !.pos = @ + n]
    PROVE  Op(x) /\ x.buf = o.buf /\ x.pos = o.pos + n /\ x.len = o.len
  BY DEF Op

\* The index after a message that could not be serialized is the one before.
LEMMA ReturnedIdx ==
    ASSUME NEW i \in 0..NumOutBufs - 1
    PROVE  returnBuf_p(i) = i
  <1>1. NumOutBufs \in {1, 2, 4}
    BY StreamAssumption
  <1>2. CASE NumOutBufs = 1
    BY <1>2 DEF returnBuf_p
  <1>3. CASE NumOutBufs = 2
    BY <1>3 DEF returnBuf_p
  <1>4. CASE NumOutBufs = 4
    BY <1>4 DEF returnBuf_p
  <1>5. QED
    BY <1>1, <1>2, <1>3, <1>4

\* One more write: its buffer is just behind the next free one, the others one further.
LEMMA RingStep ==
    ASSUME NEW c \in 0..NumOutBufs - 1, NEW b \in 0..NumOutBufs - 1, NEW d \in 1..NumOutBufs,
           (b + d) % NumOutBufs = c
    PROVE  /\ (c + 1) % NumOutBufs \in 0..NumOutBufs - 1
           /\ (b + (d + 1)) % NumOutBufs = (c + 1) % NumOutBufs
           /\ d < NumOutBufs => b # c
  <1>1. NumOutBufs \in {1, 2, 4}
    BY StreamAssumption
  <1>2. CASE NumOutBufs = 1
    BY <1>2
  <1>3. CASE NumOutBufs = 2
    BY <1>3
  <1>4. CASE NumOutBufs = 4
    BY <1>4
  <1>5. QED
    BY <1>1, <1>2, <1>3, <1>4

\* The index stays in the ring.
LEMMA RingNext ==
    ASSUME NEW c \in 0..NumOutBufs - 1
    PROVE  (c + 1) % NumOutBufs \in 0..NumOutBufs - 1
  BY StreamAssumption

\* The buffer that is given out next is free.
LEMMA RingFree == RingInv => FreeBufferIsFree
  <1> SUFFICES ASSUME RingInv, m_numFreeOutBuf > 0, NEW i \in DOMAIN ops
               PROVE  ops[i].buf # m_curFreeBufIdx
    BY DEF FreeBufferIsFree
  <1>1. Len(ops) \in Nat /\ i \in 1..Len(ops)
    BY DEF RingInv, IsSeq
  <1>2. NumOutBufs \in Nat
    BY StreamAssumption
  <1>3. Len(ops) + 1 - i \in 1..NumOutBufs /\ Len(ops) + 1 - i < NumOutBufs
    BY <1>1, <1>2 DEF RingInv
  <1>4. QED
    BY <1>1, <1>3, RingStep, OpBuf DEF RingInv

\* The ring at first,
LEMMA RingInit == StreamInit => RingInv
  <1> SUFFICES ASSUME StreamInit PROVE RingInv
    OBVIOUS
  <1>1. ops = <<>> /\ m_numFreeOutBuf = NumOutBufs /\ m_curFreeBufIdx = 0
    BY DEF StreamInit
  <1>2. IsSeq(ops)
    BY <1>1, NoneIsSeq
  <1>4. Len(ops) = 0
    BY <1>1, NoneLen
  <1>3. QED
    BY <1>1, <1>2, <1>4, StreamAssumption DEF RingInv

\* after a message was given to a buffer,
LEMMA RingSend ==
    ASSUME RingInv, m_numFreeOutBuf > 0, NEW msg, Message(msg), Send(msg)
    PROVE  RingInv'
  <1>1. NumOutBufs \in Nat /\ Len(ops) \in Nat
    BY StreamAssumption, SeqLen DEF RingInv
  <1>2. CASE PrepFails(msg)
    <2>1. m_curFreeBufIdx' = m_curFreeBufIdx /\ UNCHANGED <<m_numFreeOutBuf, ops>>
      BY <1>2, ReturnedIdx DEF Send, RingInv
    <2>2. QED
      BY <2>1 DEF RingInv
  <1>3. CASE ~PrepFails(msg)
    <2>1. PICK x : x = [buf |-> m_curFreeBufIdx, pos |-> 0, len |-> Len(prepMsg(msg))]
      OBVIOUS
    <2>2. x.buf = m_curFreeBufIdx
      BY <2>1
    <2>3. /\ ops' = Append(ops, x) /\ m_numFreeOutBuf' = m_numFreeOutBuf - 1
          /\ m_curFreeBufIdx' = (m_curFreeBufIdx + 1) % NumOutBufs
      BY <1>3, <2>1 DEF Send
    <2>4. /\ IsSeq(ops') /\ Len(ops') = Len(ops) + 1 /\ ops'[Len(ops) + 1] = x
          /\ \A i \in 1..Len(ops) : ops'[i] = ops[i]
      BY <2>3, SeqAdd DEF RingInv
    <2>5. m_numFreeOutBuf' \in Nat /\ m_numFreeOutBuf' + Len(ops') = NumOutBufs
      <3>1. m_numFreeOutBuf \in Nat /\ m_numFreeOutBuf + Len(ops) = NumOutBufs
        BY DEF RingInv
      <3>2. QED
        BY <1>1, <2>3, <2>4, <3>1
    <2>9. Op(x)
      <3>1. IsSeq(prepMsg(msg))
        BY Prepared
      <3>2. QED
        BY <2>1, <3>1, SeqLen DEF Op, RingInv
    <2>6. m_curFreeBufIdx' \in 0..NumOutBufs - 1
      BY <2>3, RingNext DEF RingInv
    <2>7. ASSUME NEW i \in 1..Len(ops')
          PROVE  /\ Op(ops'[i])
                 /\ (ops'[i].buf + (Len(ops') + 1 - i)) % NumOutBufs = m_curFreeBufIdx'
      <3>1. CASE i = Len(ops) + 1
        <4>1. ops'[i].buf = m_curFreeBufIdx /\ Len(ops') + 1 - i = 1
          BY <1>1, <2>2, <2>4, <3>1
        <4>2. QED
          BY <4>1, <2>3, <2>4, <2>9, <3>1 DEF RingInv
      <3>2. CASE i # Len(ops) + 1
        <4>1. i \in 1..Len(ops) /\ ops'[i] = ops[i]
          BY <1>1, <2>4, <3>2
        <4>2. /\ Op(ops[i]) /\ ops[i].buf \in 0..NumOutBufs - 1
              /\ (ops[i].buf + (Len(ops) + 1 - i)) % NumOutBufs = m_curFreeBufIdx
          BY <4>1, OpBuf DEF RingInv
        <4>3. /\ Len(ops) + 1 - i \in 1..NumOutBufs
              /\ Len(ops') + 1 - i = (Len(ops) + 1 - i) + 1
          BY <1>1, <2>4, <4>1 DEF RingInv
        <4>4. PICK d : d = Len(ops) + 1 - i
          OBVIOUS
        <4>7. d \in 1..NumOutBufs /\ (ops[i].buf + d) % NumOutBufs = m_curFreeBufIdx
          BY <4>2, <4>3, <4>4
        <4>8. m_curFreeBufIdx \in 0..NumOutBufs - 1
          BY DEF RingInv
        <4>5. (ops[i].buf + (d + 1)) % NumOutBufs = (m_curFreeBufIdx + 1) % NumOutBufs
          BY <4>2, <4>7, <4>8, RingStep
        <4>6. QED
          BY <2>3, <4>1, <4>2, <4>3, <4>4, <4>5
      <3>3. QED
        BY <3>1, <3>2
    <2>8. QED
      BY <2>4, <2>5, <2>6, <2>7 DEF RingInv
  <1>4. QED
    BY <1>2, <1>3

\* after the connector stopped,
LEMMA RingStopped == ASSUME RingInv, Stopped PROVE RingInv'
  <1>1. NumOutBufs \in Nat /\ Len(ops) \in Nat
    BY StreamAssumption, SeqLen DEF RingInv
  <1>2. m_numFreeOutBuf' = NumOutBufs /\ ops' = <<>> /\ m_curFreeBufIdx' = m_curFreeBufIdx
    BY <1>1 DEF Stopped, Freed, RingInv
  <1>3. IsSeq(ops')
    BY <1>2, NoneIsSeq
  <1>5. Len(ops') = 0
    BY <1>2, NoneLen
  <1>4. QED
    BY <1>1, <1>2, <1>3, <1>5 DEF RingInv

\* and after bytes were taken, in one piece unless no other write waits.
LEMMA RingTransmit ==
    ASSUME ~PartialWrites, RingInv, transmit PROVE RingInv'
  <1>1. NumOutBufs \in Nat /\ Len(ops) \in Nat
    BY StreamAssumption, SeqLen DEF RingInv
  <1>2. /\ Len(ops) >= 1 /\ IsSeq(Tail(ops)) /\ Len(Tail(ops)) = Len(ops) - 1 /\ Head(ops) = ops[1]
        /\ \A i \in 1..Len(ops) - 1 : Tail(ops)[i] = ops[i + 1]
    BY SeqTail DEF RingInv, transmit
  <1>3. m_curFreeBufIdx' = m_curFreeBufIdx
    BY DEF transmit
  <1>4. CASE ops' = Tail(ops) /\ m_numFreeOutBuf' = Freed(1)
    <2>1. m_numFreeOutBuf' = m_numFreeOutBuf + 1
      BY <1>1, <1>2, <1>4 DEF Freed, RingInv
    <2>2. IsSeq(ops') /\ Len(ops') = Len(ops) - 1
      BY <1>2, <1>4
    <2>3. ASSUME NEW i \in 1..Len(ops')
          PROVE  /\ Op(ops'[i])
                 /\ (ops'[i].buf + (Len(ops') + 1 - i)) % NumOutBufs = m_curFreeBufIdx'
      <3>1. ops'[i] = ops[i + 1] /\ i + 1 \in 1..Len(ops) /\ Len(ops') + 1 - i = Len(ops) + 1 - (i + 1)
        BY <1>1, <1>2, <1>4, <2>2
      <3>2. QED
        BY <1>3, <3>1 DEF RingInv
    <2>4. /\ m_numFreeOutBuf \in Nat /\ m_numFreeOutBuf + Len(ops) = NumOutBufs
          /\ m_curFreeBufIdx \in 0..NumOutBufs - 1
      BY DEF RingInv
    <2>5. m_numFreeOutBuf' \in Nat /\ m_numFreeOutBuf' + Len(ops') = NumOutBufs
      BY <1>1, <2>1, <2>2, <2>4
    <2>6. QED
      BY <1>3, <2>2, <2>3, <2>4, <2>5 DEF RingInv
  <1>5. CASE ~(ops' = Tail(ops) /\ m_numFreeOutBuf' = Freed(1))
    <2>1. PICK n \in 1..Head(ops).len - Head(ops).pos :
                   /\ n = Head(ops).len - Head(ops).pos \/ Len(ops) = 1
                   /\ Head(ops).pos + n < Head(ops).len
                   /\ ops' = Append(Tail(ops), [Head(ops) EXCEPT !.pos = @ + n])
                   /\ UNCHANGED m_numFreeOutBuf
      BY <1>5 DEF transmit
    <2>2. 1 \in 1..Len(ops) /\ Op(ops[1])
      BY <1>1, <1>2 DEF RingInv
    <2>3. Head(ops).pos \in Nat /\ Head(ops).len \in Nat /\ n \in Nat /\ Len(ops) = 1
      BY <1>2, <2>1, <2>2, OpBuf
    <2>4. PICK x : x = [Head(ops) EXCEPT !.pos = @ + n]
      OBVIOUS
    <2>5. Op(x) /\ x.buf = ops[1].buf
      BY <1>2, <2>2, <2>3, <2>4, OpMoved
    <2>6. IsSeq(ops') /\ Len(ops') = 1 /\ ops'[1] = x
      <3>1. PICK t : t = Tail(ops)
        OBVIOUS
      <3>2. IsSeq(t) /\ Len(t) = 0 /\ ops' = Append(t, x)
        BY <1>2, <2>1, <2>3, <2>4, <3>1
      <3>3. IsSeq(Append(t, x)) /\ Len(Append(t, x)) = Len(t) + 1 /\ Append(t, x)[Len(t) + 1] = x
        BY <3>2, SeqAdd
      <3>4. Len(t) + 1 = 1
        BY <3>2
      <3>5. QED
        BY <3>2, <3>3, <3>4
    <2>7. (ops[1].buf + (Len(ops) + 1 - 1)) % NumOutBufs = m_curFreeBufIdx
      BY <2>2 DEF RingInv
    <2>8. ASSUME NEW i \in 1..Len(ops')
          PROVE  Op(ops'[i]) /\ (ops'[i].buf + (Len(ops') + 1 - i)) % NumOutBufs = m_curFreeBufIdx'
      <3>1. i = 1 /\ Len(ops') = Len(ops)
        BY <2>3, <2>6
      <3>2. QED
        BY <1>3, <2>5, <2>6, <2>7, <3>1
    <2>9. QED
      BY <1>3, <2>1, <2>3, <2>6, <2>8 DEF RingInv
  <1>6. QED
    BY <1>4, <1>5

\* What is sent: messages of the script and keep-alives.
LEMMA KAMessage == \A m : m = [type |-> "KA", payload |-> <<>>] => Message(m)
  <1> SUFFICES ASSUME NEW m, m = [type |-> "KA", payload |-> <<>>] PROVE Message(m)
    OBVIOUS
  <1>1. PICK e : e = <<>>
    OBVIOUS
  <1>2. IsSeq(e)
    BY <1>1, NoneIsSeq
  <1>3. m = [type |-> "KA", payload |-> e] /\ "KA" # "alien"
    BY <1>1
  <1>4. QED
    BY <1>2, <1>3 DEF Message

\* What is still to be sent are messages.
TodoInv == IsSeq(todo) /\ \A i \in 1..Len(todo) : Message(todo[i])

\* They are at first,
LEMMA TodoInit == StreamInit => TodoInv
  <1> SUFFICES ASSUME StreamInit PROVE TodoInv
    OBVIOUS
  <1>1. todo \in Seq([type : STRING \ {"alien"}, payload : Seq(Nat)])
    BY StreamAssumption DEF StreamInit
  <1>2. IsSeq(todo)
    BY <1>1 DEF IsSeq
  <1>3. ASSUME NEW i \in 1..Len(todo) PROVE Message(todo[i])
    <2>1. todo[i] \in [type : STRING \ {"alien"}, payload : Seq(Nat)]
      <3>1. PICK S : S = [type : STRING \ {"alien"}, payload : Seq(Nat)]
        OBVIOUS
      <3>2. todo \in Seq(S)
        BY <1>1, <3>1
      <3>3. todo[i] \in S
        BY <3>2
      <3>4. QED
        BY <3>1, <3>3
    <2>2. PICK m : m = todo[i]
      OBVIOUS
    <2>3. m = [type |-> m.type, payload |-> m.payload] /\ m.type # "alien" /\ m.payload \in Seq(Nat)
      BY <2>1, <2>2
    <2>4. IsSeq(m.payload)
      BY <2>3 DEF IsSeq
    <2>5. Message(m)
      BY <2>3, <2>4 DEF Message
    <2>6. QED
      BY <2>2, <2>5
  <1>4. QED
    BY <1>2, <1>3 DEF TodoInv

\* the next is one,
LEMMA TodoHead ==
    ASSUME TodoInv, todo # <<>>
    PROVE  Message(Head(todo))
  <1>1. Len(todo) \in Nat /\ Len(todo) >= 1 /\ Head(todo) = todo[1]
    BY SeqTail DEF TodoInv
  <1>2. 1 \in 1..Len(todo)
    BY <1>1
  <1>3. QED
    BY <1>1, <1>2 DEF TodoInv

\* and so are the ones behind it.
LEMMA TodoNext ==
    ASSUME TodoInv, UNCHANGED todo \/ (todo # <<>> /\ todo' = Tail(todo))
    PROVE  TodoInv'
  <1>1. CASE UNCHANGED todo
    BY <1>1 DEF TodoInv
  <1>2. CASE todo # <<>> /\ todo' = Tail(todo)
    <2>1. /\ IsSeq(todo') /\ Len(todo) \in Nat /\ Len(todo') = Len(todo) - 1
          /\ \A i \in 1..Len(todo) - 1 : todo'[i] = todo[i + 1]
      BY <1>2, SeqTail DEF TodoInv
    <2>2. \A i \in 1..Len(todo') : i + 1 \in 1..Len(todo) /\ todo'[i] = todo[i + 1]
      BY <2>1
    <2>3. QED
      BY <2>1, <2>2 DEF TodoInv
  <1>3. QED
    BY <1>1, <1>2
-----------------------------------------------------------------------------
\* A write that is under way has the frame of its message in its buffer,
Pending(o, m, bufs) ==
    bufs[o.buf] = Frame(m) /\ o.len = Len(Frame(m)) /\ o.pos < o.len

\* the writes are the last messages sent, and only the first is begun: w bytes were taken.
Writes(off, w, snt, os, bufs) ==
    /\ Len(os) <= Len(snt)
    /\ \A i \in 1..Len(os) : Pending(os[i], snt[Len(snt) - Len(os) + i], bufs) /\ (i # 1 => os[i].pos = 0)
    /\ Len(os) > 0 => w = off[Len(snt) - Len(os) + 1] + os[1].pos

\* A receiver that has stopped.
Left(p, snt) == HandedUp(p.got, snt) /\ p.m_inpNumReceived \in Nat /\ p.m_inpNumReceived <= MaxMsgSize

\* The messages sent lie on the tape; w bytes of it were taken, and the receiver is behind them on the same tape.
OnWire(tape, off, w) ==
    /\ Laid(tape, off, sent) /\ w \in Nat /\ w <= off[Len(sent) + 1]
    /\ Writes(off, w, sent, ops, m_outbufs)
    /\ Len(ops) = 0 /\ m_isWorking => w = off[Len(sent) + 1]
    /\ reading => At(inp, stream, tape, off, sent, w)
    /\ ~reading => Left(inp, sent)

\* The ring of buffers.
Bufs == m_outbufs = [i \in 0..NumOutBufs - 1 |-> m_outbufs[i]]
WireInv == /\ \E tape, off, w : OnWire(tape, off, w)
           /\ Bufs /\ reading \in BOOLEAN /\ m_isWorking \in BOOLEAN

\* Nothing is sent at first.
LEMMA WireInit == StreamInit => WireInv
  <1> SUFFICES ASSUME StreamInit PROVE WireInv
    OBVIOUS
  <1>1. /\ m_outbufs = [i \in 0..NumOutBufs - 1 |-> <<>>] /\ ops = <<>> /\ m_isWorking = TRUE /\ reading = TRUE
        /\ stream = <<>> /\ sent = <<>>
        /\ inp = [m_inpBuf |-> <<>>, m_inpNumReceived |-> 0, m_inpNumExpected |-> HdrSize, res |-> "OK", got |-> <<>>]
    BY DEF StreamInit
  <1>2. PICK e : e = <<>>
    OBVIOUS
  <1>3. IsSeq(e)
    BY <1>2, NoneIsSeq
  <1>4. Len(e) = 0
    BY <1>2, NoneLen
  <1>5. PICK tape : tape = [i \in Nat |-> 0]
    OBVIOUS
  <1>6. PICK off : off = [i \in 1..1 |-> 0]
    OBVIOUS
  <1>7. Laid(tape, off, e)
    <2>1. \A i \in 1..Len(e) + 1 : i = 1
      BY <1>4
    <2>2. off[1] = 0
      BY <1>6
    <2>3. \A i \in 1..Len(e) + 1 : off[i] \in Nat /\ off[i] <= off[Len(e) + 1]
      BY <1>4, <2>1, <2>2
    <2>4. QED
      BY <1>3, <1>4, <2>3 DEF Laid
  <1>8. Parser(inp)
    <2>1. inp = [m_inpBuf |-> e, m_inpNumReceived |-> 0, m_inpNumExpected |-> HdrSize, res |-> "OK", got |-> e]
      BY <1>1, <1>2
    <2>2. 0 \in Nat /\ 0 <= Len(e)
      BY <1>4
    <2>3. QED
      BY <1>3, <2>1, <2>2 DEF Parser
  <1>9. inp.got = e /\ inp.m_inpNumReceived = 0 /\ inp.res = "OK" /\ inp.m_inpNumExpected = HdrSize
    BY <1>1, <1>2
  <1>10. HandedUp(inp.got, e)
    BY <1>3, <1>4, <1>9 DEF HandedUp
  <1>11. Between(inp, tape, off[1])
    BY <1>8, <1>9 DEF Between, Holds, InHeader, HdrSize
  <1>12. At(inp, e, tape, off, e, 0)
    <2>1. Len(inp.got) + 1 = 1 /\ off[1] = 0
      BY <1>4, <1>6, <1>9
    <2>2. Lies(e, tape, off[1] + inp.m_inpNumReceived)
      BY <1>4 DEF Lies
    <2>3. off[1] + inp.m_inpNumReceived + Len(e) = 0
      BY <1>4, <1>9, <2>1
    <2>4. QED
      BY <1>3, <1>10, <1>11, <2>1, <2>2, <2>3 DEF At
  <1>13. Writes(off, 0, e, e, m_outbufs)
    BY <1>4 DEF Writes
  <1>14. off[Len(e) + 1] = 0
    BY <1>4, <1>6
  <1>15. sent = e /\ stream = e /\ ops = e
    BY <1>1, <1>2
  <1>16. OnWire(tape, off, 0)
    BY <1>1, <1>7, <1>12, <1>13, <1>14, <1>15 DEF OnWire
  <1>17. Bufs
    BY <1>1 DEF Bufs
  <1>18. QED
    BY <1>1, <1>16, <1>17 DEF WireInv

\* Nothing changes that matters.
LEMMA WireStutter ==
    ASSUME WireInv, UNCHANGED <<m_outbufs, ops, m_isWorking, stream, inp, reading, sent>>
    PROVE  WireInv'
  <1>1. PICK tape, off, w : OnWire(tape, off, w)
    BY DEF WireInv
  <1>2. OnWire(tape, off, w)'
    BY <1>1 DEF OnWire
  <1>3. QED
    BY <1>2 DEF WireInv, Bufs
\* A message is given to a free buffer,
LEMMA WireSend ==
    ASSUME RingInv, WireInv, m_isWorking, m_numFreeOutBuf > 0, NEW msg, Message(msg), Send(msg),
           UNCHANGED <<m_isWorking, stream, inp, reading>>
    PROVE  WireInv'
  <1>1. CASE PrepFails(msg)
    <2>1. UNCHANGED <<m_outbufs, ops, sent>>
      BY <1>1 DEF Send
    <2>2. QED
      BY <2>1, WireStutter
  <1>2. CASE ~PrepFails(msg)
    <2>1. PICK tape, off, w : OnWire(tape, off, w)
      BY DEF WireInv
    <2>2. /\ Laid(tape, off, sent) /\ w \in Nat /\ w <= off[Len(sent) + 1]
          /\ Writes(off, w, sent, ops, m_outbufs)
          /\ Len(ops) = 0 => w = off[Len(sent) + 1]
          /\ reading => At(inp, stream, tape, off, sent, w)
          /\ ~reading => Left(inp, sent)
      BY <2>1 DEF OnWire
    <2>3. PICK N, M, c : N = Len(sent) /\ M = Len(ops) /\ c = m_curFreeBufIdx
      OBVIOUS
    <2>4. N \in Nat /\ M \in Nat /\ IsSeq(sent) /\ IsSeq(ops) /\ M <= N
      BY <2>2, <2>3, SeqLen DEF Laid, RingInv, Writes
    <2>5. PICK F : F = prepMsg(msg)
      OBVIOUS
    <2>6. Carried(msg) /\ Frame(msg) = F /\ Len(F) \in Nat /\ Len(F) >= HdrSize
      BY <1>2, <2>5, FrameOfMessage, FrameSound DEF Carried
    <2>7. PICK x : x = [buf |-> c, pos |-> 0, len |-> Len(F)]
      OBVIOUS
    <2>8. x.buf = c /\ x.pos = 0 /\ x.len = Len(F)
      BY <2>7
    <2>9. PICK s2, o2, b2 : s2 = sent' /\ o2 = ops' /\ b2 = m_outbufs'
      OBVIOUS
    <2>10. s2 = Append(sent, msg) /\ o2 = Append(ops, x) /\ b2 = [m_outbufs EXCEPT ![c] = F]
      BY <1>2, <2>3, <2>5, <2>7, <2>9 DEF Send
    <2>11. PICK tape2, off2 : More(tape, off, sent, msg, tape2, off2, s2)
      BY <2>2, <2>6, <2>10, OneMore
    <2>12. /\ Len(o2) = M + 1 /\ o2[M + 1] = x /\ \A i \in 1..M : o2[i] = ops[i]
      BY <2>3, <2>4, <2>10, SeqAdd
    <2>13. /\ Laid(tape2, off2, s2) /\ Len(s2) = N + 1 /\ s2[N + 1] = msg
           /\ \A i \in 1..N : s2[i] = sent[i]
           /\ \A i \in 1..N + 1 : off2[i] = off[i]
           /\ off2[N + 2] = off[N + 1] + Len(F)
      BY <2>3, <2>6, <2>11 DEF More
    <2>14. c \in 0..NumOutBufs - 1 /\ b2[c] = F /\ b2 = [i \in 0..NumOutBufs - 1 |-> b2[i]]
           /\ \A i \in 0..NumOutBufs - 1 : i # c => b2[i] = m_outbufs[i]
      BY <2>3, <2>10 DEF RingInv, WireInv, Bufs
    <2>15. \A i \in 1..M : ops[i].buf # c /\ ops[i].buf \in 0..NumOutBufs - 1
      <3>1. DOMAIN ops = 1..M
        BY <2>3, <2>4, SeqDom
      <3>2. FreeBufferIsFree
        BY RingFree
      <3>3. QED
        BY <2>3, <3>1, <3>2, OpBuf DEF FreeBufferIsFree, RingInv
    <2>16. ASSUME NEW i \in 1..Len(o2)
           PROVE  Pending(o2[i], s2[Len(s2) - Len(o2) + i], b2) /\ (i # 1 => o2[i].pos = 0)
      <3>1. Len(s2) - Len(o2) = N - M
        BY <2>4, <2>12, <2>13
      <3>2. CASE i \in 1..M
        <4>1. o2[i] = ops[i] /\ N - M + i \in 1..N /\ s2[N - M + i] = sent[N - M + i]
          BY <2>4, <2>12, <2>13, <3>2
        <4>2. Pending(ops[i], sent[N - M + i], m_outbufs) /\ (i # 1 => ops[i].pos = 0)
          BY <2>2, <2>3, <3>2 DEF Writes
        <4>3. b2[ops[i].buf] = m_outbufs[ops[i].buf]
          BY <2>14, <2>15, <3>2
        <4>4. Pending(ops[i], sent[N - M + i], b2)
          BY <4>2, <4>3 DEF Pending
        <4>5. QED
          BY <3>1, <4>1, <4>2, <4>4
      <3>3. CASE i = M + 1
        <4>1. o2[i] = x /\ N - M + i = N + 1 /\ s2[N - M + i] = msg
          BY <2>4, <2>12, <2>13, <3>3
        <4>2. Pending(x, msg, b2)
          BY <2>6, <2>8, <2>14 DEF Pending, HdrSize
        <4>3. QED
          BY <2>8, <3>1, <4>1, <4>2
      <3>4. QED
        BY <2>4, <2>12, <3>2, <3>3
    <2>17. Writes(off2, w, s2, o2, b2)
      <3>1. Len(o2) <= Len(s2)
        BY <2>4, <2>12, <2>13
      <3>2. w = off2[Len(s2) - Len(o2) + 1] + o2[1].pos
        <4>1. Len(s2) - Len(o2) + 1 = N - M + 1 /\ N - M + 1 \in 1..N + 1 /\ N + 1 \in 1..N + 1
          BY <2>4, <2>12, <2>13
        <4>2. CASE M = 0
          <5>1. o2[1] = x /\ N - M + 1 = N + 1
            BY <2>4, <2>12, <4>2
          <5>2. off2[N + 1] = off[N + 1] /\ off[N + 1] \in Nat
            BY <2>2, <2>3, <2>13, <4>1 DEF Laid
          <5>3. w = off[N + 1]
            BY <2>2, <2>3, <4>2
          <5>4. QED
            BY <2>8, <4>1, <5>1, <5>2, <5>3
        <4>3. CASE M # 0
          <5>1. M > 0 /\ o2[1] = ops[1]
            BY <2>4, <2>12, <4>3
          <5>2. w = off[N - M + 1] + ops[1].pos
            BY <2>2, <2>3, <5>1 DEF Writes
          <5>3. QED
            BY <2>13, <4>1, <5>1, <5>2
        <4>4. QED
          BY <4>2, <4>3
      <3>3. QED
        BY <2>16, <3>1, <3>2 DEF Writes
    <2>18. w <= off2[Len(s2) + 1]
      <3>1. N + 1 \in 1..Len(sent) + 1 /\ off[N + 1] \in Nat /\ Len(s2) + 1 = N + 2
        BY <2>2, <2>3, <2>4, <2>13 DEF Laid
      <3>2. QED
        BY <2>2, <2>3, <2>6, <2>13, <3>1
    <2>19. reading => At(inp, stream, tape2, off2, s2, w)
      BY <2>2, <2>11, AtMore
    <2>20. ~reading => Left(inp, s2)
      BY <2>2, <2>3, <2>4, <2>13, HandedUpMore DEF Left
    <2>21. Len(o2) # 0
      BY <2>4, <2>12
    <2>22. OnWire(tape2, off2, w)'
      BY <2>2, <2>9, <2>13, <2>17, <2>18, <2>19, <2>20, <2>21 DEF OnWire
    <2>23. QED
      BY <2>9, <2>14, <2>22 DEF WireInv, Bufs
  <1>3. QED
    BY <1>1, <1>2

\* the system takes some bytes of the first write,
LEMMA WireTransmit ==
    ASSUME ~PartialWrites, RingInv, WireInv, transmit PROVE WireInv'
  <1>1. PICK tape, off, w : OnWire(tape, off, w)
    BY DEF WireInv
  <1>2. /\ Laid(tape, off, sent) /\ w \in Nat /\ w <= off[Len(sent) + 1]
        /\ Writes(off, w, sent, ops, m_outbufs)
        /\ reading => At(inp, stream, tape, off, sent, w)
        /\ ~reading => Left(inp, sent)
    BY <1>1 DEF OnWire
  <1>3. PICK N, M, op : N = Len(sent) /\ M = Len(ops) /\ op = ops[1]
    OBVIOUS
  <1>4. /\ N \in Nat /\ M \in Nat /\ M >= 1 /\ M <= N /\ IsSeq(ops) /\ op = Head(ops) /\ 1 \in 1..M
        /\ IsSeq(Tail(ops)) /\ Len(Tail(ops)) = M - 1
        /\ \A i \in 1..M - 1 : Tail(ops)[i] = ops[i + 1]
    <2>1. /\ IsSeq(ops) /\ ops # <<>> /\ N \in Nat /\ M <= N
      BY <1>2, <1>3, SeqLen DEF RingInv, transmit, Laid, Writes
    <2>2. QED
      BY <1>3, <2>1, SeqTail
  <1>5. PICK n \in 1..op.len - op.pos :
            /\ n = op.len - op.pos \/ M = 1
            /\ stream' = stream \o SubSeq(m_outbufs[op.buf], op.pos + 1, op.pos + n)
            /\ \/ op.pos + n = op.len /\ ops' = Tail(ops)
               \/ op.pos + n < op.len /\ ops' = Append(Tail(ops), [op EXCEPT !.pos = @ + n])
    BY <1>3, <1>4 DEF transmit
  <1>6. UNCHANGED <<m_outbufs, m_isWorking, inp, reading, sent>>
    BY DEF transmit
  <1>7. PICK K, F : K = N - M + 1 /\ F = Frame(sent[K])
    OBVIOUS
  <1>8. /\ K \in 1..N /\ m_outbufs[op.buf] = F /\ op.len = Len(F) /\ op.pos < op.len
        /\ w = off[K] + op.pos
    <2>1. K \in 1..N /\ N - M + 1 = K
      BY <1>4, <1>7
    <2>2. Pending(ops[1], sent[N - M + 1], m_outbufs)
      BY <1>2, <1>3, <1>4 DEF Writes
    <2>3. w = off[N - M + 1] + ops[1].pos
      BY <1>2, <1>3, <1>4 DEF Writes
    <2>4. QED
      BY <1>3, <1>7, <2>1, <2>2, <2>3 DEF Pending
  <1>9. /\ off[K] \in Nat /\ off[K + 1] = off[K] + Len(F) /\ Lies(F, tape, off[K]) /\ IsSeq(F) /\ Len(F) \in Nat
        /\ off[K + 1] \in Nat /\ off[K + 1] <= off[N + 1]
    <2>1. K \in 1..Len(sent) + 1 /\ K + 1 \in 1..Len(sent) + 1 /\ K \in 1..Len(sent)
      BY <1>3, <1>4, <1>8
    <2>2. QED
      BY <1>2, <1>3, <1>7, <2>1, FrameSound DEF Laid
  <1>10. op.pos \in Nat /\ op.len \in Nat /\ Op(op)
    BY <1>3, <1>4, OpBuf DEF RingInv
  <1>11. n \in Nat /\ n >= 1 /\ op.pos + n <= Len(F)
    <2>1. PICK a, l : a = op.pos /\ l = op.len
      OBVIOUS
    <2>2. a \in Nat /\ l \in Nat /\ n \in 1..l - a
      BY <1>10, <2>1
    <2>3. n \in Nat /\ n >= 1 /\ a + n <= l
      BY <2>2
    <2>4. l = Len(F)
      BY <1>8, <2>1
    <2>5. QED
      BY <2>1, <2>3, <2>4
  <1>12. PICK t : t = SubSeq(F, op.pos + 1, op.pos + n)
    OBVIOUS
  <1>13. IsSeq(t) /\ Len(t) = n /\ \A i \in 1..n : t[i] = F[op.pos + i]
    <2>1. op.pos + 1 \in 1..Len(F) + 1 /\ op.pos + n \in (op.pos + 1) - 1..Len(F)
      BY <1>9, <1>10, <1>11
    <2>2. Part(F, op.pos + 1, op.pos + n, t)
      BY <1>9, <1>12, <2>1, SeqPart
    <2>3. QED
      <3>1. PICK a, b : a = op.pos + 1 /\ b = op.pos + n
        OBVIOUS
      <3>2. IsSeq(t) /\ Len(t) = b - a + 1 /\ \A i \in 1..b - a + 1 : t[i] = F[a - 1 + i]
        BY <2>2, <3>1 DEF Part
      <3>3. b - a + 1 = n /\ \A i \in 1..n : a - 1 + i = op.pos + i
        <4>1. PICK c : c = op.pos
          OBVIOUS
        <4>2. c \in Nat /\ n \in Nat /\ a = c + 1 /\ b = c + n
          BY <1>10, <1>11, <3>1, <4>1
        <4>3. b - a + 1 = n /\ \A i \in 1..n : a - 1 + i = c + i
          BY <4>2
        <4>4. QED
          BY <4>1, <4>3
      <3>4. QED
        BY <3>2, <3>3
  <1>14. Lies(t, tape, w)
    <2>1. ASSUME NEW i \in 1..n PROVE t[i] = tape[w + i]
      <3>1. op.pos + i \in 1..Len(F) /\ w + i = off[K] + (op.pos + i)
        <4>1. PICK a, b : a = op.pos /\ b = off[K]
          OBVIOUS
        <4>2. a \in Nat /\ b \in Nat /\ a + n <= Len(F) /\ Len(F) \in Nat /\ w = b + a
          BY <1>8, <1>9, <1>10, <1>11, <4>1
        <4>3. a + i \in 1..Len(F) /\ w + i = b + (a + i)
          BY <1>11, <4>2
        <4>4. QED
          BY <4>1, <4>3
      <3>2. F[op.pos + i] = tape[off[K] + (op.pos + i)]
        BY <1>9, <3>1 DEF Lies
      <3>3. QED
        BY <1>13, <3>1, <3>2
    <2>2. QED
      BY <1>13, <2>1 DEF Lies
  <1>15. PICK w2, o2, s2 : w2 = w + n /\ o2 = ops' /\ s2 = stream'
    OBVIOUS
  <1>16. w2 \in Nat /\ w2 = off[K] + (op.pos + n) /\ w2 <= off[N + 1]
    <2>1. PICK a, b, c, d : a = op.pos /\ b = off[K] /\ c = Len(F) /\ d = off[N + 1]
      OBVIOUS
    <2>2. a \in Nat /\ b \in Nat /\ a + n <= c /\ c \in Nat /\ w = b + a /\ b + c <= d
      BY <1>8, <1>9, <1>10, <1>11, <2>1
    <2>3. d \in Nat
      <3>1. N + 1 \in 1..Len(sent) + 1
        BY <1>3, <1>4
      <3>2. QED
        BY <1>2, <2>1, <3>1 DEF Laid
    <2>4. w + n \in Nat /\ w + n = b + (a + n) /\ w + n <= d
      BY <1>11, <2>2, <2>3
    <2>5. QED
      BY <1>15, <2>1, <2>4
  <1>17. ASSUME reading PROVE At(inp, s2, tape, off, sent, w2)
    <2>1. At(inp, stream, tape, off, sent, w) /\ IsSeq(stream)
      BY <1>2, <1>17 DEF At
    <2>2. s2 = stream \o t
      BY <1>5, <1>8, <1>12, <1>15
    <2>3. Joined(stream, t, s2)
      BY <1>13, <2>1, <2>2, SeqCat
    <2>4. w2 = w + Len(t)
      BY <1>13, <1>15
    <2>5. QED
      BY <1>2, <1>13, <1>14, <2>1, <2>3, <2>4, AtJoined
  <1>18. Writes(off, w2, sent, o2, m_outbufs) /\ (Len(o2) = 0 => w2 = off[N + 1])
    <2>1. CASE op.pos + n = op.len /\ ops' = Tail(ops)
      <3>1. Len(o2) = M - 1 /\ \A i \in 1..M - 1 : o2[i] = ops[i + 1]
        BY <1>4, <1>15, <2>1
      <3>2. w2 = off[K + 1]
        BY <1>8, <1>9, <1>16, <2>1
      <3>3. ASSUME NEW i \in 1..Len(o2)
            PROVE  Pending(o2[i], sent[Len(sent) - Len(o2) + i], m_outbufs) /\ o2[i].pos = 0
        <4>1. /\ i + 1 \in 1..M /\ i + 1 # 1 /\ o2[i] = ops[i + 1]
              /\ Len(sent) - Len(o2) + i = N - M + (i + 1)
          BY <1>3, <1>4, <3>1
        <4>2. Pending(ops[i + 1], sent[N - M + (i + 1)], m_outbufs) /\ ops[i + 1].pos = 0
          BY <1>2, <1>3, <4>1 DEF Writes
        <4>3. QED
          BY <4>1, <4>2
      <3>4. ASSUME Len(o2) > 0 PROVE w2 = off[Len(sent) - Len(o2) + 1] + o2[1].pos
        <4>1. 1 \in 1..Len(o2) /\ Len(sent) - Len(o2) + 1 = K + 1
          BY <1>3, <1>4, <1>7, <3>1, <3>4
        <4>2. o2[1].pos = 0
          BY <3>3, <4>1
        <4>3. QED
          BY <1>9, <3>2, <4>1, <4>2
      <3>5. Len(o2) <= Len(sent)
        BY <1>3, <1>4, <3>1
      <3>6. Writes(off, w2, sent, o2, m_outbufs)
        BY <3>3, <3>4, <3>5 DEF Writes
      <3>7. ASSUME Len(o2) = 0 PROVE w2 = off[N + 1]
        <4>1. K + 1 = N + 1
          BY <1>4, <1>7, <3>1, <3>7
        <4>2. QED
          BY <3>2, <4>1
      <3>8. QED
        BY <3>6, <3>7
    <2>2. CASE op.pos + n < op.len /\ ops' = Append(Tail(ops), [op EXCEPT !.pos = @ + n])
      <3>1. M = 1 /\ K = N
        BY <1>4, <1>5, <1>7, <1>10, <1>11, <2>2
      <3>2. PICK x : x = [op EXCEPT !.pos = @ + n]
        OBVIOUS
      <3>3. x.buf = op.buf /\ x.pos = op.pos + n /\ x.len = op.len
        BY <1>10, <1>11, <3>2, OpMoved
      <3>4. Len(o2) = 1 /\ o2[1] = x
        <4>1. PICK y : y = Tail(ops)
          OBVIOUS
        <4>2. IsSeq(y) /\ Len(y) = 0 /\ o2 = Append(y, x)
          BY <1>4, <1>15, <2>2, <3>1, <3>2, <4>1
        <4>3. Len(Append(y, x)) = Len(y) + 1 /\ Append(y, x)[Len(y) + 1] = x
          BY <4>2, SeqAdd
        <4>4. Len(y) + 1 = 1
          BY <4>2
        <4>5. QED
          BY <4>2, <4>3, <4>4
      <3>5. Pending(x, sent[N], m_outbufs)
        BY <1>7, <1>8, <2>2, <3>1, <3>3 DEF Pending
      <3>6. \A i \in 1..Len(o2) : i = 1 /\ Len(sent) - Len(o2) + i = N
        BY <1>3, <1>4, <3>4
      <3>7. Len(sent) - Len(o2) + 1 = N
        BY <1>3, <1>4, <3>4
      <3>8. w2 = off[N] + o2[1].pos
        BY <1>16, <3>1, <3>3, <3>4
      <3>9. Len(o2) <= Len(sent)
        BY <1>3, <1>4, <3>4
      <3>10. Writes(off, w2, sent, o2, m_outbufs)
        BY <3>4, <3>5, <3>6, <3>7, <3>8, <3>9 DEF Writes
      <3>11. QED
        BY <3>4, <3>10
    <2>3. QED
      BY <1>5, <2>1, <2>2
  <1>19. OnWire(tape, off, w2)'
    BY <1>2, <1>3, <1>6, <1>15, <1>16, <1>17, <1>18 DEF OnWire
  <1>20. QED
    BY <1>6, <1>19 DEF WireInv, Bufs

\* the connector stops,
LEMMA WireStopped ==
    ASSUME WireInv, Stopped, UNCHANGED <<stream, inp, reading, sent>> PROVE WireInv'
  <1>1. PICK tape, off, w : OnWire(tape, off, w)
    BY DEF WireInv
  <1>2. m_isWorking' = FALSE /\ ops' = <<>> /\ UNCHANGED m_outbufs
    BY DEF Stopped
  <1>3. Len(ops') = 0
    BY <1>2, NoneLen
  <1>4. Len(sent) \in Nat
    BY <1>1, SeqLen DEF OnWire, Laid
  <1>5. Writes(off, w, sent, ops', m_outbufs)
    BY <1>3, <1>4 DEF Writes
  <1>6. OnWire(tape, off, w)'
    BY <1>1, <1>2, <1>5 DEF OnWire
  <1>7. QED
    BY <1>2, <1>6 DEF WireInv, Bufs

\* the receiver stops,
LEMMA AtLeft ==
    ASSUME NEW p, NEW data, NEW tape, NEW off, NEW snt, NEW v, At(p, data, tape, off, snt, v)
    PROVE  /\ Left(p, snt) /\ p.m_inpNumReceived < p.m_inpNumExpected /\ p.m_inpNumExpected <= MaxMsgSize
           /\ p.m_inpNumExpected \in Nat
  <1>1. PICK o : Between(p, tape, o)
    BY DEF At
  <1>2. p.m_inpNumReceived \in Nat /\ p.m_inpNumExpected \in Nat /\ p.m_inpNumExpected <= MaxMsgSize
    BY <1>1, ParserNat, ExpectedNat DEF Between
  <1>3. p.m_inpNumReceived < p.m_inpNumExpected
    BY <1>1 DEF Between, InHeader
  <1>4. p.m_inpNumReceived <= MaxMsgSize
    BY <1>2, <1>3, StreamAssumption
  <1>5. QED
    BY <1>2, <1>3, <1>4 DEF At, Left

LEMMA WireLeft ==
    ASSUME WireInv, reading' = FALSE, UNCHANGED <<m_outbufs, ops, m_isWorking, stream, inp, sent>> PROVE WireInv'
  <1>1. PICK tape, off, w : OnWire(tape, off, w)
    BY DEF WireInv
  <1>2. Left(inp, sent)
    BY <1>1, AtLeft DEF OnWire
  <1>3. OnWire(tape, off, w)'
    BY <1>1, <1>2 DEF OnWire
  <1>4. QED
    BY <1>3 DEF WireInv, Bufs

\* a peer sends something else,
LEMMA WireAlien ==
    ASSUME WireInv, m_isWorking, ops = <<>>, NEW bytes \in Alien, stream' = stream \o bytes,
           sent' = Append(sent, [type |-> "alien", payload |-> bytes]),
           UNCHANGED <<m_outbufs, ops, m_isWorking, inp, reading>>
    PROVE  WireInv'
  <1>1. PICK tape, off, w : OnWire(tape, off, w)
    BY DEF WireInv
  <1>2. Len(ops) = 0
    BY NoneLen
  <1>3. /\ Laid(tape, off, sent) /\ w \in Nat /\ w = off[Len(sent) + 1]
        /\ reading => At(inp, stream, tape, off, sent, w)
        /\ ~reading => Left(inp, sent)
    BY <1>1, <1>2 DEF OnWire
  <1>4. PICK m, N, s2, st2 : m = [type |-> "alien", payload |-> bytes] /\ N = Len(sent) /\ s2 = sent' /\ st2 = stream'
    OBVIOUS
  <1>5. Carried(m) /\ Frame(m) = bytes /\ IsSeq(bytes) /\ Len(bytes) \in Nat
    <2>1. NoMessage(bytes)
      BY StreamAssumption
    <2>2. Carried(m)
      BY <1>4, <2>1 DEF Carried
    <2>3. Frame(m) = bytes
      BY <1>4 DEF Frame
    <2>4. QED
      BY <2>1, <2>2, <2>3, FrameOfAlien, SeqLen
  <1>6. PICK tape2, off2 : More(tape, off, sent, m, tape2, off2, s2)
    BY <1>3, <1>4, <1>5, OneMore
  <1>7. N \in Nat /\ IsSeq(sent) /\ N + 1 \in 1..N + 1 /\ N + 1 \in 1..N + 2
    BY <1>3, <1>4, SeqLen DEF Laid
  <1>8. /\ Laid(tape2, off2, s2) /\ Len(s2) = N + 1 /\ s2[N + 1] = m
        /\ \A i \in 1..N : s2[i] = sent[i]
        /\ off2[N + 1] = w /\ off2[N + 2] = w + Len(bytes)
    BY <1>3, <1>4, <1>5, <1>6, <1>7 DEF More
  <1>9. Lies(bytes, tape2, w)
    <2>1. N + 1 \in 1..Len(s2)
      BY <1>7, <1>8
    <2>2. Lies(Frame(s2[N + 1]), tape2, off2[N + 1])
      BY <1>8, <2>1 DEF Laid
    <2>3. QED
      BY <1>5, <1>8, <2>2
  <1>10. PICK w2 : w2 = w + Len(bytes)
    OBVIOUS
  <1>11. w2 \in Nat /\ off2[Len(s2) + 1] = w2
    <2>1. Len(s2) + 1 = N + 2
      BY <1>7, <1>8
    <2>2. QED
      BY <1>3, <1>5, <1>8, <1>10, <2>1
  <1>12. ASSUME reading PROVE At(inp, st2, tape2, off2, s2, w2)
    <2>1. At(inp, stream, tape, off, sent, w)
      BY <1>3, <1>12
    <2>2. w <= off[Len(sent) + 1]
      BY <1>3
    <2>3. At(inp, stream, tape2, off2, s2, w)
      BY <1>3, <1>6, <2>1, <2>2, AtMore
    <2>4. IsSeq(stream)
      BY <2>1 DEF At
    <2>5. Joined(stream, bytes, st2)
      BY <1>4, <1>5, <2>4, SeqCat
    <2>6. QED
      BY <1>5, <1>8, <1>9, <1>10, <2>3, <2>5, AtJoined
  <1>13. ~reading => Left(inp, s2)
    BY <1>3, <1>4, <1>7, <1>8, HandedUpMore DEF Left
  <1>14. Writes(off2, w2, s2, ops, m_outbufs)
    BY <1>2, <1>7, <1>8 DEF Writes
  <1>15. OnWire(tape2, off2, w2)'
    BY <1>2, <1>4, <1>8, <1>11, <1>12, <1>13, <1>14 DEF OnWire
  <1>16. QED
    BY <1>15 DEF WireInv, Bufs

\* and the receiver reads what has arrived.
LEMMA WireRead ==
    ASSUME WireInv, handle_read_p PROVE WireInv'
  <1>1. PICK tape, off, w : OnWire(tape, off, w)
    BY DEF WireInv
  <1>2. reading /\ UNCHANGED <<m_outbufs, ops, m_isWorking, sent>>
    BY DEF handle_read_p, outVars
  <1>3. PICK n \in 1..Len(stream) :
            inp' = dataReceived(inp, SubSeq(stream, 1, n)) /\ stream' = SubSeq(stream, n + 1, Len(stream))
    BY DEF handle_read_p
  <1>4. /\ Laid(tape, off, sent) /\ w \in Nat /\ w <= off[Len(sent) + 1]
        /\ Writes(off, w, sent, ops, m_outbufs)
        /\ Len(ops) = 0 /\ m_isWorking => w = off[Len(sent) + 1]
        /\ At(inp, stream, tape, off, sent, w)
    BY <1>1, <1>2 DEF OnWire
  <1>5. IsSeq(stream) /\ Len(stream) \in Nat
    BY <1>4, SeqLen DEF At
  <1>6. PICK d, e : d = SubSeq(stream, 1, n) /\ e = SubSeq(stream, n + 1, Len(stream))
    OBVIOUS
  <1>7. Part(stream, 1, n, d) /\ Part(stream, n + 1, Len(stream), e)
    <2>1. 1 \in 1..Len(stream) + 1 /\ n \in 1 - 1..Len(stream)
      BY <1>5
    <2>2. n + 1 \in 1..Len(stream) + 1 /\ Len(stream) \in (n + 1) - 1..Len(stream)
      BY <1>5
    <2>3. Part(stream, 1, n, d)
      BY <1>5, <1>6, <2>1, SeqPart
    <2>4. Part(stream, n + 1, Len(stream), e)
      BY <1>5, <1>6, <2>2, SeqPart
    <2>5. QED
      BY <2>3, <2>4
  <1>8. PICK x \in Nat : /\ At(inp, d, tape, off, sent, x) /\ x <= w /\ Lies(e, tape, x) /\ IsSeq(e)
                         /\ w = x + Len(e)
    BY <1>4, <1>7, AtPart
  <1>9. x <= off[Len(sent) + 1]
    <2>1. Len(sent) \in Nat
      BY <1>4, SeqLen DEF Laid
    <2>2. Len(sent) + 1 \in 1..Len(sent) + 1
      BY <2>1
    <2>3. off[Len(sent) + 1] \in Nat
      BY <1>4, <2>2 DEF Laid
    <2>4. QED
      BY <1>4, <1>8, <2>3
  <1>10. PICK p : p = dataReceived(inp, d)
    OBVIOUS
  <1>11. PICK z : z = <<>> /\ (At(p, z, tape, off, sent, x) \/ Bad(p, sent))
    BY <1>4, <1>8, <1>9, <1>10, ReadEnds
  <1>12. inp' = p /\ stream' = e
    BY <1>3, <1>6, <1>10
  <1>13. reading' = (inp'.res = "OK")
    BY DEF handle_read_p
  <1>14. CASE At(p, z, tape, off, sent, x)
    <2>1. Len(z) = 0
      BY <1>11, NoneLen
    <2>2. IsSeq(z) /\ p.res = "OK"
      BY <1>14 DEF At, Between
    <2>3. Joined(z, e, e)
      <3>1. Len(e) \in Nat /\ Len(e) = 0 + Len(e) /\ \A i \in 1..Len(e) : 0 + i = i
        BY <1>8, SeqLen
      <3>2. QED
        BY <1>8, <2>1, <3>1 DEF Joined
    <2>4. At(p, e, tape, off, sent, w)
      BY <1>4, <1>8, <1>14, <2>3, AtJoined
    <2>5. reading' = TRUE
      BY <1>12, <1>13, <2>2
    <2>6. OnWire(tape, off, w)'
      BY <1>2, <1>4, <1>12, <2>4, <2>5 DEF OnWire
    <2>7. QED
      BY <1>2, <2>5, <2>6 DEF WireInv, Bufs
  <1>15. CASE Bad(p, sent)
    <2>1. p.res # "OK" /\ Left(p, sent)
      BY <1>15 DEF Bad, Left
    <2>2. reading' = FALSE
      BY <1>12, <1>13, <2>1
    <2>3. OnWire(tape, off, w)'
      BY <1>2, <1>4, <1>12, <2>1, <2>2 DEF OnWire
    <2>4. QED
      BY <1>2, <2>2, <2>3 DEF WireInv, Bufs
  <1>16. QED
    BY <1>11, <1>14, <1>15
-----------------------------------------------------------------------------
StreamInv == RingInv /\ TodoInv /\ WireInv

\* Every action keeps the invariant.
LEMMA StreamStep == ASSUME ~PartialWrites, StreamInv, [StreamNext]_tvars PROVE StreamInv'
  <1> USE DEF StreamInv
  <1>1. CASE sendData
    <2>1. /\ m_isWorking /\ todo # <<>> /\ m_numFreeOutBuf > 0 /\ todo' = Tail(todo) /\ Send(Head(todo))
          /\ UNCHANGED <<m_isWorking, stream, inp, reading>>
      BY <1>1 DEF sendData
    <2>2. Message(Head(todo))
      BY <2>1, TodoHead
    <2>3. RingInv'
      BY <2>1, <2>2, RingSend
    <2>4. WireInv'
      BY <2>1, <2>2, WireSend
    <2>5. QED
      BY <2>1, <2>3, <2>4, TodoNext
  <1>2. CASE sendDataOverflow
    <2>1. /\ UNCHANGED <<m_outbufs, m_numFreeOutBuf, m_curFreeBufIdx, ops, m_isWorking, stream, inp, reading, sent>>
          /\ todo # <<>> /\ todo' = Tail(todo)
      BY <1>2 DEF sendDataOverflow, outVars
    <2>2. RingInv'
      BY <2>1 DEF RingInv
    <2>3. QED
      BY <2>1, <2>2, WireStutter, TodoNext
  <1>3. CASE transmit
    <2>1. UNCHANGED todo
      BY <1>3 DEF transmit
    <2>2. QED
      BY <1>3, <2>1, RingTransmit, WireTransmit, TodoNext
  <1>4. CASE stop
    <2>1. Stopped /\ UNCHANGED <<todo, stream, inp, reading, sent>>
      BY <1>4 DEF stop
    <2>2. QED
      BY <2>1, RingStopped, WireStopped, TodoNext
  <1>5. CASE handle_timer_p
    <2>1. UNCHANGED <<todo, m_outbufs, m_numFreeOutBuf, m_curFreeBufIdx, ops, m_isWorking, stream, inp, reading, sent>>
      BY <1>5 DEF handle_timer_p, outVars
    <2>2. RingInv'
      BY <2>1 DEF RingInv
    <2>3. QED
      BY <2>1, <2>2, WireStutter, TodoNext
  <1>6. CASE ka_timeout_tx_p
    <2>1. UNCHANGED <<todo, stream, inp, reading>>
      BY <1>6 DEF ka_timeout_tx_p
    <2>2. CASE UNCHANGED <<outVars, m_isWorking, sent>>
      <3>1. UNCHANGED <<m_outbufs, m_numFreeOutBuf, m_curFreeBufIdx, ops, m_isWorking, sent>>
        BY <2>2 DEF outVars
      <3>2. RingInv'
        BY <3>1 DEF RingInv
      <3>3. QED
        BY <2>1, <3>1, <3>2, WireStutter, TodoNext
    <2>3. CASE m_isWorking /\ m_numFreeOutBuf > 0 /\ Send([type |-> "KA", payload |-> <<>>]) /\ UNCHANGED m_isWorking
      <3>1. PICK m : m = [type |-> "KA", payload |-> <<>>]
        OBVIOUS
      <3>2. Message(m) /\ Send(m)
        BY <2>3, <3>1, KAMessage
      <3>3. RingInv'
        BY <2>3, <3>2, RingSend
      <3>4. WireInv'
        BY <2>1, <2>3, <3>2, WireSend
      <3>5. QED
        BY <2>1, <3>3, <3>4, TodoNext
    <2>4. CASE Stopped /\ UNCHANGED sent
      BY <2>1, <2>4, RingStopped, WireStopped, TodoNext
    <2>5. QED
      BY <1>6, <2>2, <2>3, <2>4 DEF ka_timeout_tx_p
  <1>7. CASE ka_timeout_rx_p
    <2>1. /\ reading' = FALSE
          /\ UNCHANGED <<todo, m_outbufs, m_numFreeOutBuf, m_curFreeBufIdx, ops, m_isWorking, stream, inp, sent>>
      BY <1>7 DEF ka_timeout_rx_p, outVars
    <2>2. RingInv'
      BY <2>1 DEF RingInv
    <2>3. QED
      BY <2>1, <2>2, WireLeft, TodoNext
  <1>8. CASE alien
    <2>1. /\ m_isWorking /\ ops = <<>>
          /\ UNCHANGED <<todo, m_outbufs, m_numFreeOutBuf, m_curFreeBufIdx, ops, m_isWorking, inp, reading>>
      BY <1>8 DEF alien, outVars
    <2>2. PICK bytes \in Alien : /\ stream' = stream \o bytes
                                 /\ sent' = Append(sent, [type |-> "alien", payload |-> bytes])
      BY <1>8 DEF alien
    <2>3. RingInv'
      BY <2>1 DEF RingInv
    <2>4. WireInv'
      BY <2>1, <2>2, WireAlien
    <2>5. QED
      BY <2>1, <2>3, <2>4, TodoNext
  <1>9. CASE handle_read_p
    <2>1. UNCHANGED <<todo, m_numFreeOutBuf, m_curFreeBufIdx, ops>>
      BY <1>9 DEF handle_read_p, outVars
    <2>2. RingInv'
      BY <2>1 DEF RingInv
    <2>3. QED
      BY <1>9, <2>1, <2>2, WireRead, TodoNext
  <1>10. CASE UNCHANGED tvars
    <2>1. UNCHANGED <<todo, m_outbufs, m_numFreeOutBuf, m_curFreeBufIdx, ops, m_isWorking, stream, inp, reading, sent>>
      BY <1>10 DEF tvars, outVars
    <2>2. RingInv'
      BY <2>1 DEF RingInv
    <2>3. QED
      BY <2>1, <2>2, WireStutter, TodoNext
  <1>11. QED
    BY <1>1, <1>2, <1>3, <1>4, <1>5, <1>6, <1>7, <1>8, <1>9, <1>10 DEF StreamNext

\* The invariant holds always.
LEMMA StreamAlways == ASSUME ~PartialWrites PROVE StreamSpec => []StreamInv
  <1>1. StreamInit => StreamInv
    BY RingInit, TodoInit, WireInit DEF StreamInv
  <1>2. StreamInv /\ [StreamNext]_tvars => StreamInv'
    BY StreamStep
  <1>3. QED
    BY <1>1, <1>2, PTL DEF StreamSpec

\* A serializer between two rounds, and one that has stopped, stays in its buffer.
LEMMA WireFits == WireInv => InputFits
  <1> SUFFICES ASSUME WireInv PROVE InputFits
    OBVIOUS
  <1>1. PICK tape, off, w : OnWire(tape, off, w)
    BY DEF WireInv
  <1>2. CASE reading
    <2>1. At(inp, stream, tape, off, sent, w)
      BY <1>1, <1>2 DEF OnWire
    <2>2. QED
      BY <2>1, AtLeft DEF InputFits, Left
  <1>3. CASE ~reading
    BY <1>1, <1>3 DEF OnWire, Left, InputFits
  <1>4. QED
    BY <1>2, <1>3

\* Between two messages less is there than a whole one.
LEMMA NotWhole ==
    ASSUME NEW p, NEW tape, NEW o \in Nat, Between(p, tape, o), NEW F, NEW m, OnTape(F, tape, o), Whole(F, m) \/ Refused(F)
    PROVE  p.m_inpNumReceived < Len(F)
  <1>1. p.m_inpNumReceived \in Nat /\ Len(F) \in Nat /\ Len(F) >= HdrSize
    BY ParserNat, SeqLen DEF Between, OnTape
  <1>2. CASE InHeader(p)
    BY <1>1, <1>2 DEF InHeader, HdrSize
  <1>3. CASE InBody(p) /\ p.m_inpNumReceived < p.m_inpNumExpected
    <2>1. 1 \in 1..p.m_inpNumReceived /\ 3 \in 1..p.m_inpNumReceived /\ 1 \in 1..Len(F) /\ 3 \in 1..Len(F)
      BY <1>1, <1>3 DEF InBody, HdrSize
    <2>2. p.m_inpBuf[1] = F[1] /\ p.m_inpBuf[3] = F[3]
      BY <2>1 DEF Between, Holds, OnTape, Lies
    <2>3. F[1] = COOKIE /\ F[3] \in Nat /\ p.m_inpNumExpected = HdrSize + F[3] /\ p.m_inpNumExpected <= MaxMsgSize
      BY <1>3, <2>2 DEF InBody
    <2>4. HdrSize + F[3] <= Len(F)
      BY <1>1, <2>3, StreamAssumption DEF Whole, Refused, AlwaysShort, HdrSize
    <2>5. QED
      BY <1>1, <1>3, <2>3, <2>4 DEF HdrSize
  <1>4. QED
    BY <1>2, <1>3 DEF Between

\* At the end of the tape no frame is incomplete.
LEMMA WireHandedUp == WireInv => HandedUpIsSent
  <1> SUFFICES ASSUME WireInv PROVE HandedUpIsSent
    OBVIOUS
  <1>1. PICK tape, off, w : OnWire(tape, off, w)
    BY DEF WireInv
  <1>2. HandedUp(inp.got, sent) /\ Laid(tape, off, sent) /\ IsSeq(sent)
    BY <1>1 DEF OnWire, At, Left, WireInv, Laid
  <1>3. IsSeq(inp.got) /\ Len(inp.got) \in Nat /\ Len(sent) \in Nat /\ Len(inp.got) <= Len(sent)
    BY <1>2, SeqLen DEF HandedUp
  <1>4. IsPrefix(inp.got, sent)
    <2>1. PICK g, s : g = SubSeq(inp.got, 1, Len(inp.got)) /\ s = SubSeq(sent, 1, Len(inp.got))
      OBVIOUS
    <2>2. PICK n : n = Len(inp.got)
      OBVIOUS
    <2>3. 1 \in 1..n + 1 /\ n \in 1 - 1..n /\ 1 \in 1..Len(sent) + 1 /\ n \in 1 - 1..Len(sent)
      BY <1>3, <2>2
    <2>4. Part(inp.got, 1, n, g)
      BY <1>3, <2>1, <2>2, <2>3, SeqPart
    <2>5. Part(sent, 1, n, s)
      BY <1>2, <2>1, <2>2, <2>3, SeqPart
    <2>6. IsSeq(g) /\ Len(g) = n /\ \A i \in 1..n : g[i] = inp.got[i]
      BY <1>3, <2>2, <2>4 DEF Part
    <2>7. IsSeq(s) /\ Len(s) = n /\ \A i \in 1..n : s[i] = sent[i]
      BY <1>3, <2>2, <2>5 DEF Part
    <2>8. \A i \in 1..n : inp.got[i] = sent[i]
      BY <1>2, <2>2 DEF HandedUp
    <2>9. g = s
      BY <2>6, <2>7, <2>8, SeqSame
    <2>10. QED
      BY <1>3, <2>1, <2>9 DEF IsPrefix
  <1>5. ASSUME reading, m_isWorking, ops = <<>>, stream = <<>> PROVE inp.got = sent /\ inp.m_inpNumReceived = 0
    <2>1. Len(ops) = 0
      BY <1>5, NoneLen
    <2>2. Len(stream) = 0
      BY <1>5, NoneLen
    <2>3. PICK k, o, N : k = Len(inp.got) + 1 /\ o = off[k] /\ N = Len(sent)
      OBVIOUS
    <2>4. Between(inp, tape, o) /\ o + inp.m_inpNumReceived + Len(stream) = off[N + 1]
      BY <1>1, <1>5, <2>1, <2>3 DEF OnWire, At
    <2>5. inp.m_inpNumReceived \in Nat
      BY <2>4, ParserNat DEF Between
    <2>6. k \in 1..N + 1 /\ o \in Nat
      BY <1>2, <1>3, <2>3 DEF Laid
    <2>7. o + inp.m_inpNumReceived = off[N + 1]
      BY <2>2, <2>4, <2>5, <2>6
    <2>8. k = N + 1
      <3> SUFFICES ASSUME k # N + 1 PROVE FALSE
        OBVIOUS
      <3>1. k \in 1..N /\ k + 1 \in 1..N + 1
        BY <1>3, <2>3, <2>6
      <3>2. PICK F : F = Frame(sent[k])
        OBVIOUS
      <3>3. /\ Carried(sent[k]) /\ off[k + 1] = o + Len(F) /\ Lies(F, tape, o) /\ off[k + 1] \in Nat
            /\ off[k + 1] <= off[N + 1]
        BY <1>2, <2>3, <3>1, <3>2 DEF Laid
      <3>4. /\ IsSeq(F) /\ Len(F) \in Nat /\ Len(F) >= HdrSize /\ (Whole(F, sent[k]) \/ Refused(F))
        BY <3>2, <3>3, FrameSound
      <3>5. OnTape(F, tape, o)
        BY <3>3, <3>4 DEF OnTape
      <3>6. inp.m_inpNumReceived < Len(F)
        BY <2>4, <2>6, <3>4, <3>5, NotWhole
      <3>7. o + Len(F) <= o + inp.m_inpNumReceived
        BY <2>7, <3>3
      <3>8. QED
        BY <2>5, <2>6, <3>4, <3>6, <3>7
    <2>9. inp.m_inpNumReceived = 0
      BY <2>3, <2>5, <2>6, <2>7, <2>8
    <2>10. Len(inp.got) = Len(sent)
      BY <1>3, <2>3, <2>8
    <2>11. inp.got = sent
      <3>1. \A i \in 1..Len(inp.got) : inp.got[i] = sent[i]
        BY <1>2 DEF HandedUp
      <3>2. QED
        BY <1>2, <1>3, <2>10, <3>1, SeqSame
    <2>12. QED
      BY <2>9, <2>11
  <1>6. QED
    BY <1>4, <1>5 DEF HandedUpIsSent

-----------------------------------------------------------------------------
(* The count of the output buffers, whatever the order in which writes are served *)

\* The free buffers and the writes under way make up the ring.
CountInv == IsSeq(ops) /\ m_numFreeOutBuf \in Nat /\ m_numFreeOutBuf + Len(ops) = NumOutBufs

\* A message that is sent, or cannot be serialized, keeps the count.
LEMMA CountSend ==
    ASSUME CountInv, m_numFreeOutBuf > 0, NEW msg, Send(msg)
    PROVE  CountInv'
  <1>1. NumOutBufs \in Nat /\ Len(ops) \in Nat
    BY StreamAssumption, SeqLen DEF CountInv
  <1>2. CASE PrepFails(msg)
    BY <1>2 DEF Send, CountInv
  <1>3. CASE ~PrepFails(msg)
    <2>1. PICK x : ops' = Append(ops, x)
      BY <1>3 DEF Send
    <2>2. IsSeq(ops') /\ Len(ops') = Len(ops) + 1
      BY <2>1, SeqAdd DEF CountInv
    <2>3. m_numFreeOutBuf' = m_numFreeOutBuf - 1
      BY <1>3 DEF Send
    <2>4. QED BY <1>1, <2>2, <2>3 DEF CountInv
  <1>4. QED BY <1>2, <1>3

\* So does a write that is over, or goes on behind the others.
LEMMA CountTransmit == ASSUME CountInv, transmit PROVE CountInv'
  <1>1. NumOutBufs \in Nat /\ Len(ops) \in Nat
    BY StreamAssumption, SeqLen DEF CountInv
  <1>2. Len(ops) >= 1 /\ IsSeq(Tail(ops)) /\ Len(Tail(ops)) = Len(ops) - 1
    BY SeqTail DEF CountInv, transmit
  <1>3. CASE ops' = Tail(ops) /\ m_numFreeOutBuf' = Freed(1)
    <2>1. m_numFreeOutBuf' = m_numFreeOutBuf + 1
      BY <1>1, <1>2, <1>3 DEF Freed, CountInv
    <2>2. QED BY <1>1, <1>2, <1>3, <2>1 DEF CountInv
  <1>4. CASE (\E x : ops' = Append(Tail(ops), x)) /\ UNCHANGED m_numFreeOutBuf
    <2>1. PICK x : ops' = Append(Tail(ops), x)
      BY <1>4
    <2>2. IsSeq(ops') /\ Len(ops') = Len(Tail(ops)) + 1
      BY <1>2, <2>1, SeqAdd
    <2>3. QED BY <1>1, <1>2, <1>4, <2>2 DEF CountInv
  <1>5. QED BY <1>3, <1>4 DEF transmit

\* And the end of all writes when the connector stops.
LEMMA CountStopped == ASSUME CountInv, Stopped PROVE CountInv'
  <1>1. NumOutBufs \in Nat /\ Len(ops) \in Nat
    BY StreamAssumption, SeqLen DEF CountInv
  <1>2. m_numFreeOutBuf' = NumOutBufs /\ ops' = <<>>
    BY <1>1 DEF Stopped, Freed, CountInv
  <1>3. IsSeq(ops') /\ Len(ops') = 0
    BY <1>2, NoneIsSeq, NoneLen
  <1>4. QED BY <1>1, <1>2, <1>3 DEF CountInv

\* No output buffer is lost or counted twice, for every number of buffers, every script and every order in which
\* the system serves parts of the writes: unlike which buffer is free, how many are free is right.
THEOREM BuffersCounted == StreamSpec => []BuffersAccounted
  <1>1. StreamInit => CountInv
    <2> SUFFICES ASSUME StreamInit PROVE CountInv
      OBVIOUS
    <2>1. ops = <<>> /\ m_numFreeOutBuf = NumOutBufs
      BY DEF StreamInit
    <2>2. IsSeq(ops) /\ Len(ops) = 0
      BY <2>1, NoneIsSeq, NoneLen
    <2>3. QED BY <2>1, <2>2, StreamAssumption DEF CountInv
  <1>2. ASSUME CountInv, [StreamNext]_tvars PROVE CountInv'
    <2>1. ASSUME UNCHANGED <<ops, m_numFreeOutBuf>> PROVE CountInv'
      BY <1>2, <2>1 DEF CountInv
    <2>2. CASE sendData
      BY <1>2, <2>2, CountSend DEF sendData
    <2>3. CASE transmit
      BY <1>2, <2>3, CountTransmit
    <2>4. CASE stop
      BY <1>2, <2>4, CountStopped DEF stop
    <2>5. CASE ka_timeout_tx_p
      <3>1. CASE UNCHANGED outVars
        BY <2>1, <3>1 DEF outVars
      <3>2. CASE m_numFreeOutBuf > 0 /\ Send([type |-> "KA", payload |-> <<>>])
        BY <1>2, <3>2, CountSend
      <3>3. CASE Stopped
        BY <1>2, <3>3, CountStopped
      <3>4. QED BY <2>5, <3>1, <3>2, <3>3 DEF ka_timeout_tx_p
    <2>6. CASE UNCHANGED outVars
      BY <2>1, <2>6 DEF outVars
    <2>7. QED BY <1>2, <2>2, <2>3, <2>4, <2>5, <2>6
          DEF StreamNext, tvars, sendDataOverflow, handle_timer_p, ka_timeout_rx_p, alien, handle_read_p
  <1>3. CountInv => BuffersAccounted
    BY DEF CountInv, BuffersAccounted
  <1>4. QED BY <1>1, <1>2, <1>3, PTL DEF StreamSpec
-----------------------------------------------------------------------------
\* dataReceived stays in its input buffer, for every size of the buffer, every cut of the stream into
\* reads and everything a peer may send instead of a message.
THEOREM InputNeverOverflows == ASSUME ~PartialWrites PROVE StreamSpec => []InputFits
  BY StreamAlways, WireFits, PTL DEF StreamInv

\* However the stream is cut into reads, dataReceived hands up the messages that were sent, their
\* fields in host order again, in the order they were sent, and nothing behind something that is not
\* a message; when all bytes have arrived it has handed up all of them.
THEOREM MessagesArrive == ASSUME ~PartialWrites PROVE StreamSpec => []HandedUpIsSent
  BY StreamAlways, WireHandedUp, PTL DEF StreamInv
=============================================================================
