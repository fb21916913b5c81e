----------------------------- MODULE SerialPort -----------------------------
(***************************************************************************)
(* CSerialPort (APInterface/SerialPort.cpp): frames on the serial line.    *)
(*                                                                         *)
(* Commands are written by whoever calls insertMsg, acknowledgements by    *)
(* the io thread, without a lock in common: two threads are in write() at  *)
(* once, share the pool of output buffers, and their asynchronous writes   *)
(* are under way together.  The operating system may take a part of a      *)
(* buffer; the rest is then written after what was queued meanwhile.       *)
(*                                                                         *)
(* The model is one direction of the line: write() at one end, handleRead  *)
(* with the decoder at the other (the AP, which is external, frames in the *)
(* same way).  The port may be closed and opened by handleRetryTimeout of  *)
(* the transport, and the line may change a byte.                          *)
(***************************************************************************)
EXTENDS HDLC

CONSTANTS Writers,      \* threads that write
          Script,       \* the messages each of them writes
          Noise,        \* what a byte may become on the line
          MaxFaults     \* bound on partial writes, re-openings and changed bytes

\* A message has a header at least.
ASSUME SerialAssumption ==
    Script \in [Writers -> Seq(Seq(0..255) \ {<<>>})] /\ Noise \subseteq 0..255

VARIABLES m_pool,    \* the output buffers: allocated or not
          wr,        \* the place of each writer in write()
          todo,      \* what each still has to write
          ops,       \* asynchronous writes under way, in the order they are served
          line,      \* bytes on the line
          dec,       \* the decoder, m_encoder of the reader
          isOpen,    \* m_serial.is_open()
          reading,   \* a read is scheduled
          sent, got, \* messages given to async_write, frames handed to the transport
          whole,     \* the last frame on the line is in one piece
          clean,     \* no fault, overlap or stale reference so far
          faults

svars == <<m_pool, wr, todo, ops, line, dec, isOpen, reading, sent, got, whole, clean, faults>>

Idle == [at |-> "idle"]

Fault == faults < MaxFaults /\ faults' = faults + 1

SerialInit ==
    /\ m_pool = <<>> /\ wr = [w \in Writers |-> Idle] /\ todo = Script
    /\ ops = <<>> /\ line = <<>> /\ dec = hdlcReset
    /\ isOpen = TRUE /\ reading = TRUE
    /\ sent = <<>> /\ got = <<>>
    /\ whole = TRUE /\ clean = TRUE /\ faults = 0
-----------------------------------------------------------------------------
(* CBufferPool *)

FreeBuffers == {i \in DOMAIN m_pool : ~m_pool[i]}

\* Mutant: the buffer that is found is not marked.
alloc_unmarked == IF FreeBuffers = {} THEN Append(m_pool, TRUE) ELSE m_pool

\* alloc: the first free buffer, or a new one.
alloc == IF FreeBuffers = {} THEN Append(m_pool, TRUE)
         ELSE [m_pool EXCEPT ![CHOOSE i \in FreeBuffers : \A j \in FreeBuffers : i <= j] = TRUE]

allocated == IF FreeBuffers = {} THEN Len(m_pool) + 1
             ELSE CHOOSE i \in FreeBuffers : \A j \in FreeBuffers : i <= j

\* free, of the buffers of all writes that are over (handleWriteComplete).
freed(bs) == [i \in DOMAIN m_pool |-> m_pool[i] /\ i \notin bs]
-----------------------------------------------------------------------------
(* write() *)

writeAlloc(w) ==
    /\ wr[w] = Idle /\ todo[w] # <<>>
    /\ m_pool' = alloc
    /\ wr' = [wr EXCEPT ![w] = [at |-> "get", buf |-> allocated]]
    /\ UNCHANGED <<todo, ops, line, dec, isOpen, reading, sent, got, whole, clean, faults>>

\* get: a reference into the pool, used without its lock; it is good as long as the
\* pool does not grow.
writeGet(w) ==
    /\ wr[w].at = "get"
    /\ wr' = [wr EXCEPT ![w] = [at |-> "fill", buf |-> wr[w].buf, size |-> Len(m_pool)]]
    /\ UNCHANGED <<m_pool, todo, ops, line, dec, isOpen, reading, sent, got, whole, clean,
                   faults>>

\* The frame is put into the buffer and its write begins; through a stale reference, it
\* may be empty.
writeFill(w) ==
    /\ wr[w].at = "fill"
    /\ LET frame == encodeHDLC(Head(todo[w]))
           stale == wr[w].size # Len(m_pool)
       IN  \E data \in {frame} \cup (IF stale THEN {<<>>} ELSE {}) :
              /\ ops' = Append(ops, [buf |-> wr[w].buf, data |-> data])
              /\ clean' = (clean /\ ops = <<>> /\ ~stale)
    /\ sent' = Append(sent, Head(todo[w]))
    /\ todo' = [todo EXCEPT ![w] = Tail(@)]
    /\ wr' = [wr EXCEPT ![w] = Idle]
    /\ UNCHANGED <<m_pool, line, dec, isOpen, reading, got, whole, faults>>
-----------------------------------------------------------------------------
(* The io thread *)

\* The system takes n bytes of the write that is served, seldom not all; a write that is
\* not over is continued after the others.
transmit ==
    /\ ops # <<>> /\ isOpen
    /\ LET op == Head(ops) IN
       \E n \in 0..Len(op.data) :
          LET rest == SubSeq(op.data, n + 1, Len(op.data)) IN
          /\ line' = line \o SubSeq(op.data, 1, n)
          /\ \/ /\ rest = <<>>
                /\ ops' = Tail(ops) /\ m_pool' = freed({op.buf})
                /\ UNCHANGED faults
             \/ /\ rest # <<>> /\ n > 0 /\ Fault
                /\ ops' = Append(Tail(ops), [op EXCEPT !.data = rest]) /\ UNCHANGED m_pool
          /\ whole' = (rest = <<>> /\ \E m \in Range(sent) : op.data = encodeHDLC(m))
    /\ UNCHANGED <<wr, todo, dec, isOpen, reading, sent, got, clean>>

\* A write on a closed port is over, with an error.
writeError ==
    /\ ops # <<>> /\ ~isOpen
    /\ m_pool' = freed({Head(ops).buf}) /\ ops' = Tail(ops)
    /\ whole' = FALSE /\ clean' = FALSE
    /\ UNCHANGED <<wr, todo, line, dec, isOpen, reading, sent, got, faults>>

\* A byte goes to the decoder, and the frame it completes to the transport
\* (frameComplete).
readByte(r, b) ==
    LET e == addByte(r.dec, b)
    IN  [dec |-> [e EXCEPT !.frame = <<>>],
         got |-> IF e.frame = <<>> THEN r.got ELSE Append(r.got, e.frame)]

\* The bytes of a read, one by one.
readBytes(r, data) ==
    LET after[n \in 0..Len(data)] == IF n = 0 THEN r ELSE readByte(after[n - 1], data[n])
    IN  after[Len(data)]

\* The next read is scheduled.
handleRead ==
    /\ reading /\ isOpen /\ line # <<>>
    /\ LET end == readBytes([dec |-> dec, got |-> got], line)
       IN  dec' = end.dec /\ got' = end.got
    /\ line' = <<>>
    /\ UNCHANGED <<m_pool, wr, todo, ops, isOpen, reading, sent, whole, clean, faults>>

\* closePort: reads and writes are cancelled, what is on the line is lost; the decoder
\* keeps what it has.
closePort ==
    /\ isOpen /\ Fault
    /\ isOpen' = FALSE /\ reading' = FALSE /\ line' = <<>>
    /\ m_pool' = freed({ops[i].buf : i \in DOMAIN ops}) /\ ops' = <<>>
    /\ whole' = FALSE /\ clean' = FALSE
    /\ UNCHANGED <<wr, todo, dec, sent, got>>

\* openPort and restart.  When the port cannot be opened, the read that is scheduled
\* ends at once, and the next retry tries again.
openPort ==
    /\ ~isOpen
    /\ isOpen' = TRUE /\ reading' = TRUE
    /\ UNCHANGED <<m_pool, wr, todo, ops, line, dec, sent, got, whole, clean, faults>>

\* The line changes a byte.
noise ==
    /\ Fault
    /\ \E i \in DOMAIN line, b \in Noise : b # line[i] /\ line' = [line EXCEPT ![i] = b]
    /\ whole' = FALSE /\ clean' = FALSE
    /\ UNCHANGED <<m_pool, wr, todo, ops, dec, isOpen, reading, sent, got>>

SerialNext == \/ \E w \in Writers : writeAlloc(w) \/ writeGet(w) \/ writeFill(w)
              \/ transmit \/ writeError \/ handleRead \/ closePort \/ openPort \/ noise

SerialSpec == SerialInit /\ [][SerialNext]_svars
-----------------------------------------------------------------------------
(* Properties *)

Quiet == ops = <<>> /\ line = <<>> /\ \A w \in Writers : wr[w] = Idle

\* The buffers a thread or a write has.
Holders == {<<"thread", w>> : w \in {v \in Writers : wr[v] # Idle}} \cup {<<"op", i>> : i \in DOMAIN ops}
Held(h) == IF h[1] = "thread" THEN wr[h[2]].buf ELSE ops[h[2]].buf

\* A buffer has one holder at a time, over all interleavings of two writers and any order
\* in which writes end, and one that nobody holds is free again: the pool of
\* SerialPort.cpp neither hands a buffer out twice nor leaks one.
BufferHasOneHolder ==
    /\ \A g, h \in Holders : Held(g) = Held(h) => g = h
    /\ {i \in DOMAIN m_pool : m_pool[i]} = {Held(h) : h \in Holders}

\* What reaches the transport is a message that was written, whatever the line, the
\* re-opened port and overlapping writes have done to the bytes (addByte).
FramesReal == \A i \in DOMAIN got : \E j \in DOMAIN sent : got[i] = sent[j]

\* Writes that do not overlap on a line without faults: every message arrives once, in
\* order.
CleanIsDelivered == clean => IsPrefix(got, sent) /\ (Quiet => got = sent)

\* The decoder finds the beginning of a frame again: once a frame has crossed the line in
\* one piece, it holds nothing of what came before (the padding at both ends).
Resynchronised == Quiet /\ whole => dec = hdlcReset
=============================================================================
