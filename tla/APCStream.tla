------------------------------ MODULE APCStream -----------------------------
(***************************************************************************)
(* CAPCSerializer (APInterface/APCSerializer.cpp), the output buffers of   *)
(* CAPCConnector and its keep-alive timers, CAPCKATimer (APInterface/      *)
(* APCConnector.cpp): messages on the stream between the bridge and the    *)
(* Manager.                                                                *)
(*                                                                         *)
(* A message is put into one of a ring of output buffers and written       *)
(* asynchronously; several writes may be under way.  At the other end the  *)
(* bytes come in reads of any length, and dataReceived cuts them into      *)
(* messages again.  The model is one direction: the sending connector and  *)
(* the receiving one (the Manager's, external, uses the same protocol).    *)
(*                                                                         *)
(* The header is three units, cookie, type and length; the sequence        *)
(* numbers are in APCSession.  A payload is a sequence of bytes.           *)
(***************************************************************************)
EXTENDS Integers, Sequences, SequencesExt

CONSTANTS Script,       \* what is sent, in this order: messages [type, payload]
          Alien,        \* byte sequences a peer of another make may send
          MaxMsgSize,   \* APC_MAX_MSG_SIZE, in units
          NumOutBufs,   \* APC_NUM_OUT_BUFS
          PartialWrites,\* may a part of a buffer be taken when another write waits
          MaxKAs,       \* bound on calls of the keep-alive timer
          MaxFaults     \* bound on waits in vain, closed sockets, silences and alien messages

COOKIE  == "cookie"
HdrSize == 3

VARIABLES todo,              \* what is still to be sent
          m_outbufs, m_numFreeOutBuf, m_curFreeBufIdx,   \* of the sending connector
          ops,               \* its writes under way: [buf, pos, len], in the order they are served
          m_isWorking,
          kaDue, kas,        \* the io thread is in a call of m_kaTxTimer; how many there were
          stream,            \* bytes on the way
          inp,               \* the receiving serializer: [m_inpBuf, m_inpNumReceived,
                             \* m_inpNumExpected, res, got]
          reading,           \* the receiving connector works
          sent, faults

outVars == <<m_outbufs, m_numFreeOutBuf, m_curFreeBufIdx, ops>>
kaVars  == <<kaDue, kas>>
tvars   == <<todo, outVars, m_isWorking, kaVars, stream, inp, reading, sent, faults>>

Fault == faults < MaxFaults /\ faults' = faults + 1

StreamInit ==
    /\ todo = Script
    /\ m_outbufs = [i \in 0..NumOutBufs - 1 |-> <<>>]
    /\ m_numFreeOutBuf = NumOutBufs /\ m_curFreeBufIdx = 0 /\ ops = <<>>
    /\ m_isWorking = TRUE /\ reading = TRUE /\ kaDue = FALSE /\ kas = 0
    /\ stream = <<>> /\ sent = <<>> /\ faults = 0
    /\ inp = [m_inpBuf |-> <<>>, m_inpNumReceived |-> 0, m_inpNumExpected |-> HdrSize,
              res |-> "OK", got |-> <<>>]
-----------------------------------------------------------------------------
(* CAPCSerializer *)

\* Sizes of the messages whose fields are converted, and the places of these fields.
MsgSize == [NET_TX |-> 12, NET_TXDONE |-> 3, TIME_MAP |-> 22, CONNECT |-> 126]
Fields  == [NET_TX     |-> {<<2, 3>>, <<6, 9>>, <<11, 12>>},
            NET_TXDONE |-> {<<1, 2>>},
            TIME_MAP   |-> {<<1, 8>>, <<9, 12>>, <<13, 20>>, <<21, 22>>},
            CONNECT    |-> {<<2, 5>>, <<38, 41>>, <<43, 46>>}]

\* bufferCast_p
TooShort(type, payload) == type \in DOMAIN MsgSize /\ Len(payload) < MsgSize[type]

\* Not a message: no cookie, a length beyond the input buffer, or too few bytes for the type.
NoMessage(bytes) ==
    /\ bytes = [i \in 1..Len(bytes) |-> bytes[i]] /\ Len(bytes) \in Nat /\ Len(bytes) >= HdrSize
    /\ \/ bytes[1] # COOKIE
       \/ bytes[3] \in Nat /\ HdrSize + bytes[3] > MaxMsgSize
       \/ /\ bytes[3] \in Nat /\ HdrSize + bytes[3] <= Len(bytes)
          /\ bytes[2] \in DOMAIN MsgSize /\ bytes[3] < MsgSize[bytes[2]]

ASSUME StreamAssumption ==
    /\ NumOutBufs \in {1, 2, 4} /\ PartialWrites \in BOOLEAN
    /\ MaxMsgSize \in Nat /\ MaxMsgSize >= HdrSize /\ MaxFaults \in Nat
    /\ Script \in Seq([type : STRING \ {"alien"}, payload : Seq(Nat)])
    /\ \A bytes \in Alien : NoMessage(bytes)

\* convert: the bytes of each field are turned round.
convert(type, payload) ==
    IF type \notin DOMAIN Fields THEN payload
    ELSE [i \in DOMAIN payload |->
             IF \E f \in Fields[type] : i \in f[1]..f[2]
             THEN LET f == CHOOSE f \in Fields[type] : i \in f[1]..f[2] IN payload[f[1] + f[2] - i]
             ELSE payload[i]]

\* prepMsg, when the message fits (PrepFails).
prepMsg(msg) == <<COOKIE, msg.type, Len(msg.payload)>> \o convert(msg.type, msg.payload)

PrepFails(msg) == Len(msg.payload) + HdrSize > MaxMsgSize \/ TooShort(msg.type, msg.payload)

\* fillInpBuf_p
fillInpBuf_p(p, data) ==
    LET rest == p.m_inpNumExpected - p.m_inpNumReceived
        len  == IF Len(data) < rest THEN Len(data) ELSE rest
    IN  [p EXCEPT !.m_inpBuf = SubSeq(@, 1, p.m_inpNumReceived) \o SubSeq(data, 1, len),
                  !.m_inpNumReceived = @ + len]

Consumed(p, q, data) == SubSeq(data, q.m_inpNumReceived - p.m_inpNumReceived + 1, Len(data))

\* Mutant: the size is compared before it is added.
headerReceived_early(p) ==
    LET n == p.m_inpNumExpected + p.m_inpBuf[3] IN
    [p EXCEPT !.m_inpNumExpected = n,
              !.res = IF p.m_inpBuf[1] # COOKIE THEN "PROTOCOL"
                      ELSE IF p.m_inpNumExpected > MaxMsgSize THEN "SIZE" ELSE "OK"]

\* The header is complete: the rest is expected, if the message is one and fits.
headerReceived(p) ==
    LET n == p.m_inpNumExpected + p.m_inpBuf[3] IN
    [p EXCEPT !.m_inpNumExpected = n,
              !.res = IF p.m_inpBuf[1] # COOKIE THEN "PROTOCOL"
                      ELSE IF n > MaxMsgSize THEN "SIZE" ELSE "OK"]

\* Mutant: the fields stay in network order.
msgReceived_raw(p) ==
    LET type == p.m_inpBuf[2]
        data == SubSeq(p.m_inpBuf, HdrSize + 1, p.m_inpNumReceived)
    IN  [p EXCEPT !.res = IF TooShort(type, data) THEN "SIZE" ELSE "OK",
                  !.got = IF TooShort(type, data) THEN @
                          ELSE Append(@, [type |-> type, payload |-> data]),
                  !.m_inpNumReceived = 0, !.m_inpNumExpected = HdrSize]

\* The message is complete: it is converted and handed up (messageReceived), and the
\* next header is expected.
msgReceived(p) ==
    LET type == p.m_inpBuf[2]
        data == SubSeq(p.m_inpBuf, HdrSize + 1, p.m_inpNumReceived)
        ok   == ~TooShort(type, data)
    IN  [p EXCEPT !.res = IF ok THEN "OK" ELSE "SIZE",
                  !.got = IF ok THEN Append(@, [type |-> type, payload |-> convert(type, data)])
                          ELSE @,
                  !.m_inpNumReceived = 0, !.m_inpNumExpected = HdrSize]

\* fillInpBuf_p takes what is expected and leaves the rest of the read.
Filled(q) == LET p == fillInpBuf_p(q.p, q.data) IN [p |-> p, data |-> Consumed(q.p, p, q.data)]

\* dataReceived: one round of its loop on [p: the serializer, data: what is left of the read].
dataRound(q) ==
    LET a == Filled(q)
        b == [a EXCEPT !.p = IF @.m_inpNumReceived = HdrSize THEN headerReceived(@) ELSE @]
        c == IF b.p.m_inpNumExpected # b.p.m_inpNumReceived /\ b.data # <<>> THEN Filled(b) ELSE b
    IN  IF q.data = <<>> \/ q.p.res # "OK" THEN q
        ELSE IF b.p.res # "OK" THEN b
        ELSE [c EXCEPT !.p = IF @.m_inpNumExpected = @.m_inpNumReceived THEN msgReceived(@) ELSE @]

\* Every round takes at least one byte of the read.
dataReceived(p, data) ==
    LET loop[n \in 0..Len(data)] ==
            IF n = 0 THEN [p |-> p, data |-> data] ELSE dataRound(loop[n - 1])
    IN  loop[Len(data)].p
-----------------------------------------------------------------------------
(* CAPCConnector, sending *)

\* returnBuf_p after getFreeBuf_p: the index goes on and back.
returnBuf_p(idx) == LET next == (idx + 1) % NumOutBufs
                    IN  (IF next = 0 THEN NumOutBufs ELSE next) - 1

\* Mutant: a message that cannot be serialized keeps its buffer.
Send_leak(msg) ==
    /\ m_curFreeBufIdx' = (m_curFreeBufIdx + 1) % NumOutBufs
    /\ m_numFreeOutBuf' = m_numFreeOutBuf - 1
    /\ IF PrepFails(msg) THEN UNCHANGED <<m_outbufs, ops, sent>>
       ELSE /\ m_outbufs' = [m_outbufs EXCEPT ![m_curFreeBufIdx] = prepMsg(msg)]
            /\ ops' = Append(ops, [buf |-> m_curFreeBufIdx, pos |-> 0, len |-> Len(prepMsg(msg))])
            /\ sent' = Append(sent, msg)

\* With a free buffer: getFreeBuf_p, prepMsg, async_write; a message that cannot be
\* serialized gives the buffer back.
Send(msg) ==
    IF PrepFails(msg)
    THEN /\ m_curFreeBufIdx' = returnBuf_p(m_curFreeBufIdx)
         /\ UNCHANGED <<m_outbufs, m_numFreeOutBuf, ops, sent>>
    ELSE /\ m_outbufs' = [m_outbufs EXCEPT ![m_curFreeBufIdx] = prepMsg(msg)]
         /\ ops' = Append(ops, [buf |-> m_curFreeBufIdx, pos |-> 0, len |-> Len(prepMsg(msg))])
         /\ m_numFreeOutBuf' = m_numFreeOutBuf - 1
         /\ m_curFreeBufIdx' = (m_curFreeBufIdx + 1) % NumOutBufs
         /\ sent' = Append(sent, msg)

\* A thread sends the next message.
sendData ==
    /\ m_isWorking /\ todo # <<>> /\ m_numFreeOutBuf > 0
    /\ todo' = Tail(todo) /\ Send(Head(todo))
    /\ UNCHANGED <<m_isWorking, kaVars, stream, inp, reading, faults>>

\* ... without one: the wait for a buffer ends in vain.
sendDataOverflow ==
    /\ m_isWorking /\ todo # <<>> /\ m_numFreeOutBuf = 0 /\ Fault
    /\ todo' = Tail(todo)
    /\ UNCHANGED <<outVars, m_isWorking, kaVars, stream, inp, reading, sent>>

\* freeBuf_p: completed writes free buffers in the order of the ring.
Freed(n) == IF m_numFreeOutBuf + n <= NumOutBufs THEN m_numFreeOutBuf + n ELSE NumOutBufs

\* The system takes n bytes of the write that is served; a write that is over calls
\* handle_write_p, any other goes on after the rest.
transmit ==
    /\ ops # <<>> /\ m_isWorking /\ ~kaDue
    /\ LET op == Head(ops) IN
       \E n \in 1..op.len - op.pos :
          /\ n = op.len - op.pos \/ Len(ops) = 1 \/ PartialWrites
          /\ stream' = stream \o SubSeq(m_outbufs[op.buf], op.pos + 1, op.pos + n)
          /\ \/ /\ op.pos + n = op.len
                /\ ops' = Tail(ops) /\ m_numFreeOutBuf' = Freed(1)
             \/ /\ op.pos + n < op.len
                /\ ops' = Append(Tail(ops), [op EXCEPT !.pos = @ + n])
                /\ UNCHANGED m_numFreeOutBuf
    /\ UNCHANGED <<todo, m_outbufs, m_curFreeBufIdx, m_isWorking, kaVars, inp, reading, sent, faults>>

\* The connector stops: the socket is closed, writes end with an error.
Stopped ==
    /\ m_isWorking' = FALSE
    /\ ops' = <<>> /\ m_numFreeOutBuf' = Freed(Len(ops))
    /\ UNCHANGED <<m_outbufs, m_curFreeBufIdx>>

stop ==
    /\ m_isWorking /\ Fault /\ Stopped
    /\ UNCHANGED <<todo, kaVars, stream, inp, reading, sent>>
-----------------------------------------------------------------------------
(* CAPCKATimer *)

\* The timer is restarted and its callback taken under the lock; it is called after the unlock,
\* when another thread may have stopped the connector.
handle_timer_p ==
    /\ m_isWorking /\ ~kaDue /\ kas < MaxKAs
    /\ kaDue' = TRUE /\ kas' = kas + 1
    /\ UNCHANGED <<todo, outVars, m_isWorking, stream, inp, reading, sent, faults>>

\* ka_timeout_tx_p: a keep-alive unless something was written lately. Without a buffer the io
\* thread, which would free one, waits in vain, and the connection is stopped.
ka_timeout_tx_p ==
    /\ kaDue /\ kaDue' = FALSE
    /\ \/ UNCHANGED <<outVars, m_isWorking, sent>>
       \/ /\ m_isWorking /\ m_numFreeOutBuf > 0
          /\ Send([type |-> "KA", payload |-> <<>>]) /\ UNCHANGED m_isWorking
       \/ m_isWorking /\ m_numFreeOutBuf = 0 /\ Stopped /\ UNCHANGED sent
    /\ UNCHANGED <<todo, kas, stream, inp, reading, faults>>

\* ka_timeout_rx_p: the receiving connector heard nothing for m_rxTimeout and stops, whatever is
\* still on the way.
ka_timeout_rx_p ==
    /\ reading /\ Fault /\ reading' = FALSE
    /\ UNCHANGED <<todo, outVars, m_isWorking, kaVars, stream, inp, sent>>
-----------------------------------------------------------------------------
(* The receiving connector *)

\* A peer of another make sends something else between two messages.
alien ==
    /\ m_isWorking /\ ops = <<>> /\ Fault
    /\ \E bytes \in Alien : /\ stream' = stream \o bytes
                           /\ sent' = Append(sent, [type |-> "alien", payload |-> bytes])
    /\ UNCHANGED <<todo, outVars, m_isWorking, kaVars, inp, reading>>

\* handle_read_p: n bytes are read; the connector stops on an error.
handle_read_p ==
    /\ reading /\ stream # <<>>
    /\ \E n \in 1..Len(stream) :
          /\ inp' = dataReceived(inp, SubSeq(stream, 1, n))
          /\ stream' = SubSeq(stream, n + 1, Len(stream))
    /\ reading' = (inp'.res = "OK")
    /\ UNCHANGED <<todo, outVars, m_isWorking, kaVars, sent, faults>>

StreamNext == sendData \/ sendDataOverflow \/ transmit \/ stop
              \/ handle_timer_p \/ ka_timeout_tx_p \/ ka_timeout_rx_p
              \/ alien \/ handle_read_p

StreamSpec == StreamInit /\ [][StreamNext]_tvars
-----------------------------------------------------------------------------
(* Properties *)

\* However the stream is cut into reads, the messages handed up (messageReceived) are those
\* sent, in order, and nothing is handed up after something that is not a message.  Once the
\* bytes have arrived it is all of them, and nothing is left in the input buffer.
HandedUpIsSent ==
    /\ IsPrefix(inp.got, sent)
    /\ reading /\ m_isWorking /\ ops = <<>> /\ stream = <<>>
          => inp.got = sent /\ inp.m_inpNumReceived = 0

\* dataReceived never copies beyond its buffer, not even for a length no sender uses.
InputFits == /\ inp.m_inpNumReceived <= MaxMsgSize
             /\ reading => inp.m_inpNumReceived < inp.m_inpNumExpected
                           /\ inp.m_inpNumExpected <= MaxMsgSize

\* No output buffer is lost or counted twice, after messages that cannot be serialized, keep-alives,
\* waits in vain, writes in parts and closed sockets: the free ones and the writes under way make up
\* the ring (getFreeBuf_p, returnBuf_p, freeBuf_p).  A lost one would end in senders that wait with
\* the client's lock held, one counted twice in the warning of incrNumFreeBuf_p.
BuffersAccounted == m_numFreeOutBuf + Len(ops) = NumOutBufs

\* What APCConnector.h says of m_curFreeBufIdx, "Index of current free buffer": a buffer
\* that is given out next is not one a write still reads from.
FreeBufferIsFree ==
    m_numFreeOutBuf > 0 => \A i \in DOMAIN ops : ops[i].buf # m_curFreeBufIdx
=============================================================================
