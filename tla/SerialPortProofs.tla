-------------------------- MODULE SerialPortProofs --------------------------
(***************************************************************************)
(* The serial line, for every number of threads that write, every message  *)
(* and every fault of the line.                                            *)
(*                                                                         *)
(* BufferHasOneHolder: what the holders of buffers are is kept apart from  *)
(* how they are stored; a step changes who holds which buffer in one of    *)
(* four ways, a thread gets a free buffer, hands it to a write, a write is *)
(* over, or the write that is served goes to the end of the queue.         *)
(*                                                                         *)
(* Resynchronised and CleanIsDelivered: what the decoder makes of a frame, *)
(* from any state and from hdlcReset, is computed once (FrameResets,       *)
(* FrameDelivers), the exclusive or and the check sequence bit by bit, and *)
(* the invariant says what the decoder will be once it has read the line   *)
(* and what is still to be written.                                        *)
(***************************************************************************)
EXTENDS SerialPort, WellFoundedInduction, TLAPS

IsSeq(s) == \E S : s \in Seq(S)

\* Places of a thread in write(), and writes under way.
Place(p) == \/ p = Idle
            \/ \E b \in Nat : p = [at |-> "get", buf |-> b]
            \/ \E b \in Nat : \E n : p = [at |-> "fill", buf |-> b, size |-> n]
Op(o) == \E b \in Nat : \E d : o = [buf |-> b, data |-> d]

\* Thread w has buffer b in its hands, write i has it, and b is taken.
Thread(x, w, b) == w \in Writers /\ x[w] # Idle /\ x[w].buf = b
Write(o, i, b)  == i \in 1..Len(o) /\ o[i].buf = b
Taken(p)        == {i \in DOMAIN p : p[i]}

PoolType == /\ m_pool \in Seq(BOOLEAN)
            /\ DOMAIN wr = Writers /\ wr = [w \in Writers |-> wr[w]] /\ \A w \in Writers : Place(wr[w])
            /\ IsSeq(ops) /\ \A i \in 1..Len(ops) : Op(ops[i])

\* Each of the buffers taken has one holder, and no other has.
OneEach(x, o, T) ==
    /\ \A v, w, b : Thread(x, v, b) /\ Thread(x, w, b) => v = w
    /\ \A i, j, b : Write(o, i, b) /\ Write(o, j, b) => i = j
    /\ \A w, i, b : ~(Thread(x, w, b) /\ Write(o, i, b))
    /\ \A b : b \in T <=> (\E w : Thread(x, w, b)) \/ (\E i : Write(o, i, b))

PoolInv == PoolType /\ OneEach(wr, ops, Taken(m_pool))
-----------------------------------------------------------------------------
(* The pool *)

\* A set of numbers has a smallest one.
LEMMA Smallest ==
    ASSUME NEW T \in SUBSET Nat, T # {}
    PROVE  \E i \in T : \A j \in T : i <= j
  <1> DEFINE R == OpToRel(<, Nat)
  <1>1. IsWellFoundedOn(R, Nat)
    BY NatLessThanWellFounded
  <1>2. ASSUME NEW i \in Nat, NEW j \in Nat, <<j, i>> \notin R PROVE i <= j
    <2>1. ~(j < i)
      BY <1>2 DEF OpToRel
    <2>2. QED BY <2>1
  <1> HIDE DEF R
  <1>3. T \subseteq Nat
    OBVIOUS
  <1>4. PICK i \in T : \A j \in T : ~(<<j, i>> \in R)
    BY <1>1, <1>3, WFMin
  <1>5. QED BY <1>2, <1>3, <1>4

\* alloc gives a buffer nobody has, and takes it.
LEMMA Allocating ==
    ASSUME m_pool \in Seq(BOOLEAN)
    PROVE  /\ alloc \in Seq(BOOLEAN) /\ allocated \in Nat
           /\ allocated \notin Taken(m_pool) /\ Taken(alloc) = Taken(m_pool) \cup {allocated}
  <1>1. Len(m_pool) \in Nat /\ DOMAIN m_pool = 1..Len(m_pool)
    OBVIOUS
  <1>2. CASE FreeBuffers = {}
    <2>1. allocated = Len(m_pool) + 1 /\ alloc = Append(m_pool, TRUE)
      BY <1>2 DEF allocated, alloc
    <2>2. /\ Append(m_pool, TRUE) \in Seq(BOOLEAN) /\ DOMAIN Append(m_pool, TRUE) = 1..(Len(m_pool) + 1)
          /\ \A i \in 1..Len(m_pool) : Append(m_pool, TRUE)[i] = m_pool[i]
          /\ Append(m_pool, TRUE)[Len(m_pool) + 1] = TRUE
      OBVIOUS
    <2>3. QED BY <1>1, <2>1, <2>2 DEF Taken
  <1>3. CASE FreeBuffers # {}
    <2>1. FreeBuffers \in SUBSET Nat
      BY <1>1 DEF FreeBuffers
    <2>2. \E i \in FreeBuffers : \A j \in FreeBuffers : i <= j
      BY <1>3, <2>1, Smallest
    <2>3. allocated \in FreeBuffers /\ alloc = [m_pool EXCEPT ![allocated] = TRUE]
      BY <1>3, <2>2 DEF allocated, alloc
    <2>4. allocated \in 1..Len(m_pool) /\ ~m_pool[allocated]
      BY <1>1, <2>3 DEF FreeBuffers
    <2>5. /\ alloc \in Seq(BOOLEAN) /\ DOMAIN alloc = 1..Len(m_pool) /\ alloc[allocated] = TRUE
          /\ \A i \in 1..Len(m_pool) : i # allocated => alloc[i] = m_pool[i]
      BY <1>1, <2>3, <2>4
    <2>6. QED BY <1>1, <2>4, <2>5 DEF Taken
  <1>4. QED BY <1>2, <1>3

\* freed gives back the buffers named.
LEMMA Freeing ==
    ASSUME m_pool \in Seq(BOOLEAN), NEW bs
    PROVE  freed(bs) \in Seq(BOOLEAN) /\ Taken(freed(bs)) = Taken(m_pool) \ bs
  <1>1. Len(m_pool) \in Nat /\ DOMAIN m_pool = 1..Len(m_pool)
    OBVIOUS
  <1>2. freed(bs) = [i \in 1..Len(m_pool) |-> m_pool[i] /\ i \notin bs]
    BY <1>1 DEF freed
  <1>3. freed(bs) \in Seq(BOOLEAN)
    BY <1>1, <1>2
  <1>4. DOMAIN freed(bs) = 1..Len(m_pool) /\ \A i \in 1..Len(m_pool) : freed(bs)[i] <=> m_pool[i] /\ i \notin bs
    BY <1>2
  <1>5. QED BY <1>1, <1>3, <1>4 DEF Taken
-----------------------------------------------------------------------------
(* Who holds which buffer *)

\* Thread w, which has none, gets a buffer nobody has.
LEMMA Gets ==
    ASSUME NEW x, NEW y, NEW o, NEW T, OneEach(x, o, T), NEW w, NEW b, b \notin T,
           \A c : ~Thread(x, w, c),
           \A v, c : Thread(y, v, c) <=> Thread(x, v, c) \/ (v = w /\ c = b)
    PROVE  OneEach(y, o, T \cup {b})
  BY DEF OneEach

\* A thread keeps what it has.
LEMMA Keeps ==
    ASSUME NEW x, NEW y, NEW o, NEW T, OneEach(x, o, T),
           \A v, c : Thread(y, v, c) <=> Thread(x, v, c)
    PROVE  OneEach(y, o, T)
  BY DEF OneEach

\* Thread w hands its buffer to write n, a new one.
LEMMA Hands ==
    ASSUME NEW x, NEW y, NEW o, NEW p, NEW T, OneEach(x, o, T), NEW w, NEW b, Thread(x, w, b),
           NEW n, \A c : ~Write(o, n, c),
           \A v, c : Thread(y, v, c) <=> Thread(x, v, c) /\ v # w,
           \A i, c : Write(p, i, c) <=> Write(o, i, c) \/ (i = n /\ c = b)
    PROVE  OneEach(y, p, T)
  <1>1. \A c : Thread(x, w, c) => c = b
    BY DEF Thread
  <1>2. \A v, u, c : Thread(y, v, c) /\ Thread(y, u, c) => v = u
    BY DEF OneEach
  <1>3. \A i, j, c : Write(p, i, c) /\ Write(p, j, c) => i = j
    BY DEF OneEach
  <1>4. \A v, i, c : ~(Thread(y, v, c) /\ Write(p, i, c))
    BY DEF OneEach
  <1>5. ASSUME NEW c PROVE c \in T <=> (\E v : Thread(y, v, c)) \/ (\E i : Write(p, i, c))
    <2>1. c \in T <=> (\E v : Thread(x, v, c)) \/ (\E i : Write(o, i, c))
      BY DEF OneEach
    <2>2. CASE c = b
      BY <2>1, <2>2
    <2>3. CASE c # b
      BY <1>1, <2>1, <2>3
    <2>4. QED BY <2>2, <2>3
  <1>6. QED BY <1>2, <1>3, <1>4, <1>5 DEF OneEach
-----------------------------------------------------------------------------
(* The queue of writes *)

\* The first write is over.
LEMMA OpsTail ==
    ASSUME NEW o, IsSeq(o), o # <<>>
    PROVE  /\ IsSeq(Tail(o)) /\ Head(o) = o[1] /\ 1 \in 1..Len(o) /\ Len(Tail(o)) = Len(o) - 1 /\ Len(o) \in Nat
           /\ \A i \in 1..Len(Tail(o)) : i + 1 \in 1..Len(o) /\ i + 1 # 1 /\ Tail(o)[i] = o[i + 1]
           /\ \A i \in 1..Len(o) : i # 1 => i - 1 \in 1..Len(Tail(o)) /\ i - 1 + 1 = i
  <1>1. PICK S : o \in Seq(S)
    BY DEF IsSeq
  <1>2. /\ Tail(o) \in Seq(S) /\ Head(o) = o[1] /\ 1 \in 1..Len(o) /\ Len(o) \in Nat /\ Len(Tail(o)) = Len(o) - 1
        /\ \A i \in 1..Len(Tail(o)) : Tail(o)[i] = o[i + 1]
    BY <1>1
  <1>3. QED BY <1>2 DEF IsSeq

\* One is added.
LEMMA OpsAdd ==
    ASSUME NEW o, IsSeq(o), NEW c
    PROVE  /\ IsSeq(Append(o, c)) /\ Len(o) \in Nat /\ Len(Append(o, c)) = Len(o) + 1
           /\ \A i \in 1..Len(o) : i \in 1..Len(Append(o, c)) /\ i # Len(o) + 1 /\ Append(o, c)[i] = o[i]
           /\ Append(o, c)[Len(o) + 1] = c /\ Len(o) + 1 \in 1..Len(Append(o, c)) /\ Len(o) + 1 \notin 1..Len(o)
           /\ \A i \in 1..Len(Append(o, c)) : i \in 1..Len(o) \/ i = Len(o) + 1
  <1>1. PICK S : o \in Seq(S)
    BY DEF IsSeq
  <1>2. o \in Seq(S \cup {c})
    BY <1>1
  <1>3. PICK T : o \in Seq(T) /\ c \in T
    BY <1>2
  <1>4. /\ Append(o, c) \in Seq(T) /\ Len(Append(o, c)) = Len(o) + 1 /\ Len(o) \in Nat
        /\ \A i \in 1..Len(o) : Append(o, c)[i] = o[i]
        /\ Append(o, c)[Len(o) + 1] = c
    BY <1>3
  <1>5. QED BY <1>4 DEF IsSeq

\* What the pool and the writes become when the first write is over.
LEMMA Over ==
    ASSUME PoolInv, ops # <<>>, UNCHANGED wr, ops' = Tail(ops), m_pool' = freed({Head(ops).buf})
    PROVE  PoolInv'
  <1> DEFINE b == ops[1].buf
  <1>1. IsSeq(ops) /\ m_pool \in Seq(BOOLEAN) /\ OneEach(wr, ops, Taken(m_pool))
    BY DEF PoolInv, PoolType
  <1>2. m_pool' \in Seq(BOOLEAN) /\ Taken(m_pool') = Taken(m_pool) \ {b}
    BY <1>1, Freeing, OpsTail
  <1>3. Write(ops, 1, b)
    BY <1>1, OpsTail DEF Write
  <1>4. \A i, c : Write(ops', i, c) => Write(ops, i + 1, c) /\ i + 1 # 1
    BY <1>1, OpsTail DEF Write
  <1>5. \A i, c : Write(ops, i, c) /\ i # 1 => Write(ops', i - 1, c)
    BY <1>1, OpsTail DEF Write
  <1>6. \A i, c : Write(ops, i, c) /\ c = b => i = 1
    BY <1>1, <1>3 DEF OneEach
  <1>7. \A w, c : Thread(wr, w, c) => c # b
    BY <1>1, <1>3 DEF OneEach
  <1>8. \A i, c : Write(ops, 1, c) => c = b
    BY DEF Write
  <1>9. \A i, j, c : Write(ops', i, c) /\ Write(ops', j, c) => i = j
    <2>1. \A i, c : Write(ops', i, c) => i \in Int
      BY <1>1, OpsTail DEF Write
    <2>2. \A i, j, c : Write(ops', i, c) /\ Write(ops', j, c) => i + 1 = j + 1
      BY <1>1, <1>4 DEF OneEach
    <2>3. QED BY <2>1, <2>2
  <1>10. OneEach(wr, ops', Taken(m_pool) \ {b})
    <2>1. \A v, i, c : ~(Thread(wr, v, c) /\ Write(ops', i, c))
      BY <1>1, <1>4 DEF OneEach
    <2>2. ASSUME NEW c PROVE c \in Taken(m_pool) \ {b} <=> (\E v : Thread(wr, v, c)) \/ (\E i : Write(ops', i, c))
      <3>1. c \in Taken(m_pool) <=> (\E v : Thread(wr, v, c)) \/ (\E i : Write(ops, i, c))
        BY <1>1 DEF OneEach
      <3>2. (\E i : Write(ops', i, c)) <=> (\E i : Write(ops, i, c)) /\ c # b
        BY <1>4, <1>5, <1>6, <1>8
      <3>3. QED BY <1>7, <3>1, <3>2
    <2>3. QED BY <1>1, <1>9, <2>1, <2>2 DEF OneEach
  <1>11. IsSeq(ops') /\ \A i \in 1..Len(ops') : Op(ops'[i])
    BY <1>1, OpsTail DEF PoolInv, PoolType
  <1>12. QED BY <1>2, <1>10, <1>11 DEF PoolInv, PoolType

\* The first write goes on behind the others.
LEMMA GoesOn ==
    ASSUME PoolInv, ops # <<>>, UNCHANGED <<wr, m_pool>>, NEW d, ops' = Append(Tail(ops), [Head(ops) EXCEPT !.data = d])
    PROVE  PoolInv'
  <1> DEFINE t == Tail(ops)
             n == Len(Tail(ops)) + 1
  <1>1. IsSeq(ops) /\ OneEach(wr, ops, Taken(m_pool)) /\ Op(ops[1]) /\ Head(ops) = ops[1]
    BY OpsTail DEF PoolInv, PoolType
  <1>2. PICK e : e = [ops[1] EXCEPT !.data = d]
    OBVIOUS
  <1>3. Op(e) /\ e.buf = ops[1].buf
    <2>1. PICK b, c : b \in Nat /\ ops[1] = [buf |-> b, data |-> c]
      BY <1>1 DEF Op
    <2>2. e = [buf |-> b, data |-> d]
      BY <1>2, <2>1
    <2>3. Op(e)
      BY <2>1, <2>2 DEF Op
    <2>4. e.buf = b /\ ops[1].buf = b
      BY <2>1, <2>2
    <2>5. QED BY <2>3, <2>4
  <1>4. ops' = Append(t, e) /\ IsSeq(t)
    BY <1>1, <1>2, OpsTail
  <1>5. \A i, c : Write(ops', i, c) <=> Write(t, i, c) \/ (i = n /\ c = ops[1].buf)
    BY <1>3, <1>4, OpsAdd DEF Write
  <1>6. \A i, c : Write(t, i, c) => Write(ops, i + 1, c) /\ i + 1 # 1 /\ i \in Int
    BY <1>1, OpsTail DEF Write
  <1>7. \A i, c : Write(ops, i, c) /\ i # 1 => Write(t, i - 1, c)
    BY <1>1, OpsTail DEF Write
  <1>8. \A c : Write(ops, 1, c) <=> c = ops[1].buf
    BY <1>1, OpsTail DEF Write
  <1>9. \A i, j, c : Write(ops', i, c) /\ Write(ops', j, c) => i = j
    <2>1. \A i, j, c : Write(t, i, c) /\ Write(t, j, c) => i = j
      <3>1. \A i, j, c : Write(t, i, c) /\ Write(t, j, c) => i + 1 = j + 1
        BY <1>1, <1>6 DEF OneEach
      <3>2. QED BY <1>6, <3>1
    <2>2. \A i : ~Write(t, i, ops[1].buf)
      <3>1. Write(ops, 1, ops[1].buf)
        BY <1>8
      <3>2. \A i : Write(t, i, ops[1].buf) => i + 1 = 1
        BY <1>1, <1>6, <3>1 DEF OneEach
      <3>3. QED BY <1>6, <3>2
    <2>3. QED BY <1>5, <2>1, <2>2
  <1>10. ASSUME NEW c PROVE (\E i : Write(ops', i, c)) <=> (\E i : Write(ops, i, c))
    BY <1>5, <1>6, <1>7, <1>8
  <1>11. OneEach(wr, ops', Taken(m_pool))
    <2>1. \A v, i, c : ~(Thread(wr, v, c) /\ Write(ops', i, c))
      BY <1>1, <1>10 DEF OneEach
    <2>2. QED BY <1>1, <1>9, <1>10, <2>1 DEF OneEach
  <1>12. IsSeq(ops') /\ \A i \in 1..Len(ops') : Op(ops'[i])
    <2>1. \A i \in 1..Len(t) : Op(t[i])
      BY <1>1, OpsTail DEF PoolInv, PoolType
    <2>2. QED BY <1>3, <1>4, <2>1, OpsAdd
  <1>13. QED BY <1>11, <1>12 DEF PoolInv, PoolType

\* All writes are over.
LEMMA AllOver ==
    ASSUME PoolInv, UNCHANGED wr, ops' = <<>>, m_pool' = freed({ops[i].buf : i \in DOMAIN ops})
    PROVE  PoolInv'
  <1> DEFINE bs == {ops[i].buf : i \in DOMAIN ops}
  <1>1. IsSeq(ops) /\ m_pool \in Seq(BOOLEAN) /\ OneEach(wr, ops, Taken(m_pool))
    BY DEF PoolInv, PoolType
  <1>2. m_pool' \in Seq(BOOLEAN) /\ Taken(m_pool') = Taken(m_pool) \ bs
    BY <1>1, Freeing
  <1>3. DOMAIN ops = 1..Len(ops)
    BY <1>1 DEF IsSeq
  <1>4. \A c : c \in bs <=> \E i : Write(ops, i, c)
    BY <1>3 DEF Write
  <1>5. IsSeq(<<>>) /\ \A i, c : ~Write(<<>>, i, c)
    BY DEF IsSeq, Write
  <1>6. OneEach(wr, <<>>, Taken(m_pool) \ bs)
    <2> HIDE DEF bs
    <2> QED BY <1>1, <1>4, <1>5 DEF OneEach
  <1>7. \A i \in 1..Len(ops') : Op(ops'[i])
    OBVIOUS
  <1>8. QED BY <1>2, <1>5, <1>6, <1>7 DEF PoolInv, PoolType
-----------------------------------------------------------------------------
\* The place of one thread changes.
LEMMA Moves ==
    ASSUME PoolType, NEW w \in Writers, NEW p, Place(p), wr' = [wr EXCEPT ![w] = p]
    PROVE  /\ DOMAIN wr' = Writers /\ wr' = [v \in Writers |-> wr'[v]] /\ \A v \in Writers : Place(wr'[v])
           /\ wr'[w] = p
           /\ \A v, c : v # w => (Thread(wr', v, c) <=> Thread(wr, v, c))
           /\ \A c : Thread(wr', w, c) <=> p # Idle /\ p.buf = c
  <1>1. /\ DOMAIN wr' = Writers /\ wr' = [v \in Writers |-> wr'[v]] /\ wr'[w] = p
        /\ \A v \in Writers : v # w => wr'[v] = wr[v]
    BY DEF PoolType
  <1>2. QED BY <1>1 DEF PoolType, Thread

LEMMA PoolStep == PoolInv /\ [SerialNext]_svars => PoolInv'
  <1>1. SUFFICES ASSUME PoolInv, [SerialNext]_svars PROVE PoolInv'
    OBVIOUS
  <1>2. PoolType /\ OneEach(wr, ops, Taken(m_pool)) /\ m_pool \in Seq(BOOLEAN) /\ IsSeq(ops)
    BY <1>1 DEF PoolInv, PoolType
  <1>3. ASSUME NEW w \in Writers, writeAlloc(w) PROVE PoolInv'
    <2>1. PICK b : b = allocated
      OBVIOUS
    <2>2. PICK p : p = [at |-> "get", buf |-> b]
      OBVIOUS
    <2>3. b \in Nat /\ b \notin Taken(m_pool) /\ m_pool' \in Seq(BOOLEAN) /\ Taken(m_pool') = Taken(m_pool) \cup {b}
      BY <1>2, <1>3, <2>1, Allocating DEF writeAlloc
    <2>4. Place(p) /\ p # Idle /\ p.buf = b
      BY <2>2, <2>3 DEF Place, Idle
    <2>5. wr[w] = Idle /\ wr' = [wr EXCEPT ![w] = p] /\ ops' = ops
      BY <1>3, <2>1, <2>2 DEF writeAlloc
    <2>6. /\ DOMAIN wr' = Writers /\ wr' = [v \in Writers |-> wr'[v]] /\ \A v \in Writers : Place(wr'[v])
          /\ \A v, c : v # w => (Thread(wr', v, c) <=> Thread(wr, v, c))
          /\ \A c : Thread(wr', w, c) <=> c = b
      BY <1>2, <2>4, <2>5, Moves
    <2>7. \A c : ~Thread(wr, w, c)
      BY <2>5 DEF Thread
    <2>8. \A v, c : Thread(wr', v, c) <=> Thread(wr, v, c) \/ (v = w /\ c = b)
      BY <2>6, <2>7
    <2>9. OneEach(wr', ops, Taken(m_pool) \cup {b})
      BY <1>2, <2>3, <2>7, <2>8, Gets
    <2>10. QED BY <1>2, <2>3, <2>5, <2>6, <2>9 DEF PoolInv, PoolType
  <1>4. ASSUME NEW w \in Writers, writeGet(w) PROVE PoolInv'
    <2>1. PICK p : p = [at |-> "fill", buf |-> wr[w].buf, size |-> Len(m_pool)]
      OBVIOUS
    <2>2. wr[w] # Idle /\ wr[w].buf \in Nat
      BY <1>2, <1>4 DEF writeGet, PoolType, Place, Idle
    <2>3. Place(p) /\ p # Idle /\ p.buf = wr[w].buf
      BY <2>1, <2>2 DEF Place, Idle
    <2>4. wr' = [wr EXCEPT ![w] = p] /\ ops' = ops /\ m_pool' = m_pool
      BY <1>4, <2>1 DEF writeGet
    <2>5. /\ DOMAIN wr' = Writers /\ wr' = [v \in Writers |-> wr'[v]] /\ \A v \in Writers : Place(wr'[v])
          /\ \A v, c : v # w => (Thread(wr', v, c) <=> Thread(wr, v, c))
          /\ \A c : Thread(wr', w, c) <=> wr[w].buf = c
      BY <1>2, <2>3, <2>4, Moves
    <2>6. \A v, c : Thread(wr', v, c) <=> Thread(wr, v, c)
      BY <2>2, <2>5 DEF Thread
    <2>7. OneEach(wr', ops, Taken(m_pool))
      BY <1>2, <2>6, Keeps
    <2>8. QED BY <1>2, <2>4, <2>5, <2>7 DEF PoolInv, PoolType
  <1>5. ASSUME NEW w \in Writers, writeFill(w) PROVE PoolInv'
    <2>1. wr[w] # Idle /\ wr[w].buf \in Nat
      BY <1>2, <1>5 DEF writeFill, PoolType, Place, Idle
    <2>2. PICK b \in Nat : b = wr[w].buf
      BY <2>1
    <2>3. PICK d : ops' = Append(ops, [buf |-> b, data |-> d])
      BY <1>5, <2>2 DEF writeFill
    <2>4. PICK e : e = [buf |-> b, data |-> d]
      OBVIOUS
    <2>5. Op(e) /\ e.buf = b
      BY <2>4 DEF Op
    <2>6. wr' = [wr EXCEPT ![w] = Idle] /\ m_pool' = m_pool /\ ops' = Append(ops, e)
      BY <1>5, <2>3, <2>4 DEF writeFill
    <2>7. Place(Idle)
      BY DEF Place
    <2>8. /\ DOMAIN wr' = Writers /\ wr' = [v \in Writers |-> wr'[v]] /\ \A v \in Writers : Place(wr'[v])
          /\ \A v, c : v # w => (Thread(wr', v, c) <=> Thread(wr, v, c))
          /\ \A c : ~Thread(wr', w, c)
      BY <1>2, <2>6, <2>7, Moves
    <2>9. PICK n : n = Len(ops) + 1
      OBVIOUS
    <2>10. \A c : ~Write(ops, n, c)
      BY <1>2, <2>9, OpsAdd DEF Write
    <2>11. \A i, c : Write(ops', i, c) <=> Write(ops, i, c) \/ (i = n /\ c = b)
      BY <1>2, <2>5, <2>6, <2>9, OpsAdd DEF Write
    <2>12. Thread(wr, w, b)
      BY <2>1, <2>2 DEF Thread
    <2>13. \A v, c : Thread(wr', v, c) <=> Thread(wr, v, c) /\ v # w
      BY <2>8
    <2>14. OneEach(wr', ops', Taken(m_pool))
      <3>1. PICK y, p : y = wr' /\ p = ops'
        OBVIOUS
      <3>2. \A v, c : Thread(y, v, c) <=> Thread(wr, v, c) /\ v # w
        BY <2>13, <3>1
      <3>3. \A i, c : Write(p, i, c) <=> Write(ops, i, c) \/ (i = n /\ c = b)
        BY <2>11, <3>1
      <3>4. OneEach(wr, ops, Taken(m_pool))
        BY <1>2
      <3>5. OneEach(y, p, Taken(m_pool))
        BY <2>10, <2>12, <3>2, <3>3, <3>4, Hands
      <3>6. QED BY <3>1, <3>5
    <2>15. IsSeq(ops') /\ \A i \in 1..Len(ops') : Op(ops'[i])
      BY <1>2, <2>5, <2>6, OpsAdd DEF PoolType
    <2>16. QED BY <1>2, <2>6, <2>8, <2>14, <2>15 DEF PoolInv, PoolType
  <1>6. CASE transmit
    <2>1. ops # <<>> /\ wr' = wr
      BY <1>6 DEF transmit
    <2>2. \/ ops' = Tail(ops) /\ m_pool' = freed({Head(ops).buf})
          \/ m_pool' = m_pool /\ \E d : ops' = Append(Tail(ops), [Head(ops) EXCEPT !.data = d])
      BY <1>6 DEF transmit
    <2>3. QED BY <1>1, <2>1, <2>2, Over, GoesOn
  <1>7. CASE writeError
    BY <1>1, <1>7, Over DEF writeError
  <1>8. CASE closePort
    BY <1>1, <1>8, AllOver DEF closePort
  <1>9. CASE UNCHANGED <<m_pool, wr, ops>>
    BY <1>1, <1>9 DEF PoolInv, PoolType
  <1>10. CASE handleRead \/ openPort \/ noise \/ UNCHANGED svars
    BY <1>9, <1>10 DEF handleRead, openPort, noise, svars
  <1>11. QED BY <1>1, <1>3, <1>4, <1>5, <1>6, <1>7, <1>8, <1>10 DEF SerialNext

LEMMA PoolStarts == SerialInit => PoolInv
  <1>1. SUFFICES ASSUME SerialInit PROVE PoolInv
    OBVIOUS
  <1>2. m_pool = <<>> /\ ops = <<>> /\ wr = [w \in Writers |-> Idle]
    BY <1>1 DEF SerialInit
  <1>3. PoolType
    BY <1>2 DEF PoolType, IsSeq, Place
  <1>4. Taken(m_pool) = {} /\ (\A w, b : ~Thread(wr, w, b)) /\ \A i, b : ~Write(ops, i, b)
    BY <1>2 DEF Taken, Thread, Write
  <1>5. QED BY <1>3, <1>4 DEF PoolInv, OneEach

LEMMA PoolHolds == SerialSpec => []PoolInv
  BY PoolStarts, PoolStep, PTL DEF SerialSpec

\* The pool of output buffers neither hands a buffer out twice nor leaks one, whatever threads are in write() and in
\* whatever order their writes end.
THEOREM OneHolder == SerialSpec => []BufferHasOneHolder
  <1>1. PoolInv => BufferHasOneHolder
    <2>1. SUFFICES ASSUME PoolInv PROVE BufferHasOneHolder
      OBVIOUS
    <2>2. OneEach(wr, ops, Taken(m_pool)) /\ DOMAIN ops = 1..Len(ops)
      BY <2>1 DEF PoolInv, PoolType, IsSeq
    <2>3. ASSUME NEW h \in Holders
          PROVE  \/ h[1] = "thread" /\ h = <<"thread", h[2]>> /\ Thread(wr, h[2], Held(h))
                 \/ h[1] = "op" /\ h = <<"op", h[2]>> /\ Write(ops, h[2], Held(h))
      BY <2>2, <2>3 DEF Holders, Held, Thread, Write
    <2>4. \A g, h \in Holders : Held(g) = Held(h) => g = h
      BY <2>2, <2>3 DEF OneEach
    <2>5. ASSUME NEW b PROVE (\E h \in Holders : b = Held(h)) <=> b \in Taken(m_pool)
      <3>1. ASSUME NEW w, Thread(wr, w, b) PROVE \E h \in Holders : b = Held(h)
        <4>1. <<"thread", w>> \in Holders /\ Held(<<"thread", w>>) = b
          BY <3>1 DEF Holders, Held, Thread
        <4>2. QED BY <4>1
      <3>2. ASSUME NEW i, Write(ops, i, b) PROVE \E h \in Holders : b = Held(h)
        <4>1. <<"op", i>> \in Holders /\ Held(<<"op", i>>) = b
          BY <2>2, <3>2 DEF Holders, Held, Write
        <4>2. QED BY <4>1
      <3>3. QED BY <2>2, <2>3, <3>1, <3>2 DEF OneEach
    <2>6. QED BY <2>4, <2>5 DEF BufferHasOneHolder, Taken
  <1>2. QED BY <1>1, PoolHolds, PTL
-----------------------------------------------------------------------------
(* Loops *)

\* What holds before the first round of a loop, and after a round when it held before, holds after all of them: T is the set
\* of the rounds after which it does not.
LEMMA NoFirstBad ==
    ASSUME NEW n \in Nat, NEW T, T \subseteq 0..n, 0 \notin T,
           \A i \in 1..n : i - 1 \notin T => i \notin T
    PROVE  T = {}
  <1>1. SUFFICES ASSUME T # {} PROVE FALSE
    OBVIOUS
  <1>2. T \in SUBSET Nat
    OBVIOUS
  <1>3. PICK k \in T : \A j \in T : k <= j
    BY <1>1, <1>2, Smallest
  <1>4. k \in 1..n /\ ~(k <= k - 1)
    BY <1>3
  <1>5. k - 1 \notin T
    BY <1>3, <1>4
  <1>6. QED BY <1>3, <1>4, <1>5

\* The values of the rounds up to k, with one more.
OneMore(g, f, v, k) ==
    /\ g = [i \in 0..k |-> g[i]] /\ g[k] = v /\ g[0] = f[0] /\ g[k - 1] = f[k - 1]
    /\ \A i \in 1..k - 1 : g[i] = f[i] /\ g[i - 1] = f[i - 1]

LEMMA OneRoundMore ==
    ASSUME NEW k \in Nat, k # 0, NEW f, NEW v
    PROVE  \E g : OneMore(g, f, v, k)
  <1>1. PICK g : g = [i \in 0..k |-> IF i = k THEN v ELSE f[i]]
    OBVIOUS
  <1>2. g = [i \in 0..k |-> g[i]] /\ g[k] = v
    BY <1>1
  <1>3. ASSUME NEW i \in 0..k - 1 PROVE g[i] = f[i]
    BY <1>1
  <1>4. k - 1 \in 0..k - 1 /\ 0 \in 0..k - 1 /\ k - 1 \in 0..k /\ \A i \in 1..k - 1 : i \in 0..k - 1 /\ i - 1 \in 0..k - 1
    OBVIOUS
  <1>5. OneMore(g, f, v, k)
    BY <1>2, <1>3, <1>4 DEF OneMore
  <1>6. QED BY <1>5

\* readBytes: the state after each of the bytes of s.
Reads(f, r, s, n) == f = [i \in 0..n |-> IF i = 0 THEN r ELSE readByte(f[i - 1], s[i])]

LEMMA ReadsExist ==
    ASSUME NEW r, NEW s, NEW n \in Nat
    PROVE  \E f : Reads(f, r, s, n)
  <1> DEFINE T == {k \in 0..n : ~\E f : Reads(f, r, s, k)}
  <1>1. 0 \notin T
    <2>1. PICK f : f = [i \in 0..0 |-> r]
      OBVIOUS
    <2>2. f = [i \in 0..0 |-> IF i = 0 THEN r ELSE readByte(f[i - 1], s[i])]
      BY <2>1
    <2>3. QED BY <2>2 DEF Reads
  <1>2. ASSUME NEW k \in 1..n, k - 1 \notin T PROVE k \notin T
    <2>1. k - 1 \in 0..n /\ k \in Nat /\ k # 0
      OBVIOUS
    <2>2. PICK f : Reads(f, r, s, k - 1)
      BY <1>2, <2>1
    <2>3. DOMAIN f = 0..k - 1 /\ \A i \in 0..k - 1 : f[i] = IF i = 0 THEN r ELSE readByte(f[i - 1], s[i])
      BY <2>2 DEF Reads
    <2>4. PICK v : v = readByte(f[k - 1], s[k])
      OBVIOUS
    <2>5. PICK g : OneMore(g, f, v, k)
      BY <2>1, OneRoundMore
    <2>6. /\ g = [i \in 0..k |-> g[i]] /\ g[k] = v
          /\ \A i \in 1..k - 1 : g[i] = f[i] /\ g[i - 1] = f[i - 1]
          /\ g[0] = f[0] /\ g[k - 1] = f[k - 1]
      BY <2>5 DEF OneMore
    <2>7. ASSUME NEW i \in 0..k PROVE g[i] = IF i = 0 THEN r ELSE readByte(g[i - 1], s[i])
      <3>1. CASE i = 0
        <4>1. 0 \in 0..k - 1
          BY <2>1
        <4>2. QED BY <2>3, <2>6, <3>1, <4>1
      <3>2. CASE i = k
        BY <2>1, <2>4, <2>6, <3>2
      <3>3. CASE i # 0 /\ i # k
        <4>1. i \in 1..k - 1 /\ i \in 0..k - 1
          BY <2>1, <3>3
        <4>2. QED BY <2>3, <2>6, <3>3, <4>1
      <3>4. QED BY <3>1, <3>2, <3>3
    <2>8. Reads(g, r, s, k)
      BY <2>6, <2>7 DEF Reads
    <2>9. QED BY <2>8
  <1>3. T = {}
    <2>1. T \subseteq 0..n /\ \A k \in 1..n : k - 1 \notin T => k \notin T
      BY <1>2
    <2> HIDE DEF T
    <2>2. QED BY <1>1, <2>1, NoFirstBad
  <1>4. QED BY <1>3

\* appendHDLC: what is in dst after each of the bytes of s.
Escapes(f, r, s, n) == f = [i \in 0..n |-> IF i = 0 THEN r ELSE f[i - 1] \o EscapeByte(s[i])]

LEMMA EscapesExist ==
    ASSUME NEW r, NEW s, NEW n \in Nat
    PROVE  \E f : Escapes(f, r, s, n)
  <1> DEFINE T == {k \in 0..n : ~\E f : Escapes(f, r, s, k)}
  <1>1. 0 \notin T
    <2>1. PICK f : f = [i \in 0..0 |-> r]
      OBVIOUS
    <2>2. f = [i \in 0..0 |-> IF i = 0 THEN r ELSE f[i - 1] \o EscapeByte(s[i])]
      BY <2>1
    <2>3. QED BY <2>2 DEF Escapes
  <1>2. ASSUME NEW k \in 1..n, k - 1 \notin T PROVE k \notin T
    <2>1. k - 1 \in 0..n /\ k \in Nat /\ k # 0
      OBVIOUS
    <2>2. PICK f : Escapes(f, r, s, k - 1)
      BY <1>2, <2>1
    <2>3. DOMAIN f = 0..k - 1 /\ \A i \in 0..k - 1 : f[i] = IF i = 0 THEN r ELSE f[i - 1] \o EscapeByte(s[i])
      BY <2>2 DEF Escapes
    <2>4. PICK v : v = f[k - 1] \o EscapeByte(s[k])
      OBVIOUS
    <2>5. PICK g : OneMore(g, f, v, k)
      BY <2>1, OneRoundMore
    <2>6. /\ g = [i \in 0..k |-> g[i]] /\ g[k] = v
          /\ \A i \in 1..k - 1 : g[i] = f[i] /\ g[i - 1] = f[i - 1]
          /\ g[0] = f[0] /\ g[k - 1] = f[k - 1]
      BY <2>5 DEF OneMore
    <2>7. ASSUME NEW i \in 0..k PROVE g[i] = IF i = 0 THEN r ELSE g[i - 1] \o EscapeByte(s[i])
      <3>1. CASE i = 0
        <4>1. 0 \in 0..k - 1
          BY <2>1
        <4>2. QED BY <2>3, <2>6, <3>1, <4>1
      <3>2. CASE i = k
        BY <2>1, <2>4, <2>6, <3>2
      <3>3. CASE i # 0 /\ i # k
        <4>1. i \in 1..k - 1 /\ i \in 0..k - 1
          BY <2>1, <3>3
        <4>2. QED BY <2>3, <2>6, <3>3, <4>1
      <3>4. QED BY <3>1, <3>2, <3>3
    <2>8. Escapes(g, r, s, k)
      BY <2>6, <2>7 DEF Escapes
    <2>9. QED BY <2>8
  <1>3. T = {}
    <2>1. T \subseteq 0..n /\ \A k \in 1..n : k - 1 \notin T => k \notin T
      BY <1>2
    <2> HIDE DEF T
    <2>2. QED BY <1>1, <2>1, NoFirstBad
  <1>4. QED BY <1>3

\* computeFCS16: the check sequence after each of the bytes of s.
Sums(f, r, s, n) == f = [i \in 0..n |-> IF i = 0 THEN r ELSE addOneByteToFcs16(f[i - 1], s[i])]

LEMMA SumsExist ==
    ASSUME NEW r, NEW s, NEW n \in Nat
    PROVE  \E f : Sums(f, r, s, n)
  <1> DEFINE T == {k \in 0..n : ~\E f : Sums(f, r, s, k)}
  <1>1. 0 \notin T
    <2>1. PICK f : f = [i \in 0..0 |-> r]
      OBVIOUS
    <2>2. f = [i \in 0..0 |-> IF i = 0 THEN r ELSE addOneByteToFcs16(f[i - 1], s[i])]
      BY <2>1
    <2>3. QED BY <2>2 DEF Sums
  <1>2. ASSUME NEW k \in 1..n, k - 1 \notin T PROVE k \notin T
    <2>1. k - 1 \in 0..n /\ k \in Nat /\ k # 0
      OBVIOUS
    <2>2. PICK f : Sums(f, r, s, k - 1)
      BY <1>2, <2>1
    <2>3. DOMAIN f = 0..k - 1 /\ \A i \in 0..k - 1 : f[i] = IF i = 0 THEN r ELSE addOneByteToFcs16(f[i - 1], s[i])
      BY <2>2 DEF Sums
    <2>4. PICK v : v = addOneByteToFcs16(f[k - 1], s[k])
      OBVIOUS
    <2>5. PICK g : OneMore(g, f, v, k)
      BY <2>1, OneRoundMore
    <2>6. /\ g = [i \in 0..k |-> g[i]] /\ g[k] = v
          /\ \A i \in 1..k - 1 : g[i] = f[i] /\ g[i - 1] = f[i - 1]
          /\ g[0] = f[0] /\ g[k - 1] = f[k - 1]
      BY <2>5 DEF OneMore
    <2>7. ASSUME NEW i \in 0..k PROVE g[i] = IF i = 0 THEN r ELSE addOneByteToFcs16(g[i - 1], s[i])
      <3>1. CASE i = 0
        <4>1. 0 \in 0..k - 1
          BY <2>1
        <4>2. QED BY <2>3, <2>6, <3>1, <4>1
      <3>2. CASE i = k
        BY <2>1, <2>4, <2>6, <3>2
      <3>3. CASE i # 0 /\ i # k
        <4>1. i \in 1..k - 1 /\ i \in 0..k - 1
          BY <2>1, <3>3
        <4>2. QED BY <2>3, <2>6, <3>3, <4>1
      <3>4. QED BY <3>1, <3>2, <3>3
    <2>8. Sums(g, r, s, k)
      BY <2>6, <2>7 DEF Sums
    <2>9. QED BY <2>8
  <1>3. T = {}
    <2>1. T \subseteq 0..n /\ \A k \in 1..n : k - 1 \notin T => k \notin T
      BY <1>2
    <2> HIDE DEF T
    <2>2. QED BY <1>1, <2>1, NoFirstBad
  <1>4. QED BY <1>3

LEMMA SeqNat == ASSUME NEW s, IsSeq(s) PROVE Len(s) \in Nat
  BY DEF IsSeq

ReadAs(f, r, s) == /\ f[0] = r /\ readBytes(r, s) = f[Len(s)]
                   /\ \A i \in 1..Len(s) : f[i] = readByte(f[i - 1], s[i])

LEMMA ReadBytes ==
    ASSUME NEW r, NEW s, IsSeq(s)
    PROVE  \E f : ReadAs(f, r, s)
  <1>1. PICK n \in Nat : n = Len(s)
    BY SeqNat
  <1>2. PICK f : f = CHOOSE g : Reads(g, r, s, n)
    OBVIOUS
  <1>3. Reads(f, r, s, n)
    BY <1>2, ReadsExist
  <1>4. readBytes(r, s) = f[n]
    BY <1>1, <1>2 DEF readBytes, Reads
  <1>5. \A i \in 0..n : f[i] = IF i = 0 THEN r ELSE readByte(f[i - 1], s[i])
    BY <1>3 DEF Reads
  <1>6. f[0] = r /\ \A i \in 1..n : f[i] = readByte(f[i - 1], s[i])
    <2>1. 0 \in 0..n /\ \A i \in 1..n : i \in 0..n /\ i # 0
      OBVIOUS
    <2>2. QED BY <1>5, <2>1
  <1>7. ReadAs(f, r, s)
    BY <1>1, <1>4, <1>6 DEF ReadAs
  <1>8. QED BY <1>7

\* Two readings of the same bytes that begin alike end alike.
Alike(f, o, g, s, n) ==
    /\ f[o] = g[0]
    /\ \A i \in 1..n : f[o + i] = readByte(f[o + i - 1], s[i]) /\ g[i] = readByte(g[i - 1], s[i])

LEMMA ReadSame ==
    ASSUME NEW n \in Nat, NEW o \in Nat, NEW f, NEW g, NEW s, Alike(f, o, g, s, n)
    PROVE  f[o + n] = g[n]
  <1> DEFINE T == {i \in 0..n : f[o + i] # g[i]}
  <1>1. 0 \notin T
    BY DEF Alike
  <1>2. ASSUME NEW i \in 1..n, i - 1 \notin T PROVE i \notin T
    <2>1. i - 1 \in 0..n /\ o + (i - 1) = o + i - 1
      OBVIOUS
    <2>2. f[o + i - 1] = g[i - 1]
      BY <1>2, <2>1
    <2>3. f[o + i] = g[i]
      BY <2>2 DEF Alike
    <2>4. QED BY <2>3
  <1>3. T = {}
    <2>1. T \subseteq 0..n /\ \A k \in 1..n : k - 1 \notin T => k \notin T
      BY <1>2
    <2> HIDE DEF T
    <2>2. QED BY <1>1, <2>1, NoFirstBad
  <1>4. QED BY <1>3

LEMMA SeqCat ==
    ASSUME NEW s, NEW t, IsSeq(s), IsSeq(t)
    PROVE  /\ IsSeq(s \o t) /\ Len(s \o t) = Len(s) + Len(t) /\ Len(s) \in Nat /\ Len(t) \in Nat
           /\ \A i \in 1..Len(s) : (s \o t)[i] = s[i]
           /\ \A i \in 1..Len(t) : (s \o t)[Len(s) + i] = t[i]
  <1>1. PICK S : s \in Seq(S)
    BY DEF IsSeq
  <1>2. PICK T : t \in Seq(T)
    BY DEF IsSeq
  <1>3. PICK U : U = S \cup T
    OBVIOUS
  <1>4. s \in Seq(U) /\ t \in Seq(U)
    BY <1>1, <1>2, <1>3
  <1>5. s \o t \in Seq(U) /\ Len(s \o t) = Len(s) + Len(t) /\ Len(s) \in Nat /\ Len(t) \in Nat
    BY <1>4
  <1>6. \A i \in 1..Len(s) : (s \o t)[i] = s[i]
    BY <1>4
  <1>7. ASSUME NEW i \in 1..Len(t) PROVE (s \o t)[Len(s) + i] = t[i]
    BY <1>4
  <1>8. QED BY <1>5, <1>6, <1>7 DEF IsSeq

\* What is read in two parts is read as a whole.
LEMMA ReadCat ==
    ASSUME NEW r, NEW s, NEW t, IsSeq(s), IsSeq(t)
    PROVE  readBytes(r, s \o t) = readBytes(readBytes(r, s), t)
  <1>1. PICK m, n : m = Len(s) /\ n = Len(t)
    OBVIOUS
  <1>2. PICK st : st = s \o t
    OBVIOUS
  <1>3. /\ IsSeq(st) /\ Len(st) = m + n /\ m \in Nat /\ n \in Nat
        /\ \A i \in 1..m : st[i] = s[i]
        /\ \A i \in 1..n : st[m + i] = t[i]
    BY <1>1, <1>2, SeqCat
  <1>4. IsSeq(st)
    BY <1>3
  <1>5. PICK f : ReadAs(f, r, st)
    BY <1>4, ReadBytes
  <1>6. /\ f[0] = r /\ readBytes(r, st) = f[Len(st)]
        /\ \A i \in 1..Len(st) : f[i] = readByte(f[i - 1], st[i])
    BY <1>5 DEF ReadAs
  <1>7. PICK g : /\ g[0] = r /\ readBytes(r, s) = g[Len(s)] /\ \A i \in 1..Len(s) : g[i] = readByte(g[i - 1], s[i])
    BY ReadBytes DEF ReadAs
  <1>8. f[m] = g[m]
    <2>1. ASSUME NEW i \in 1..m PROVE f[0 + i] = readByte(f[0 + i - 1], s[i]) /\ g[i] = readByte(g[i - 1], s[i])
      <3>1. i \in 1..m + n /\ 0 + i = i
        BY <1>3
      <3>2. QED BY <1>1, <1>3, <1>6, <1>7, <3>1
    <2>2. f[0 + m] = g[m]
      <3>1. Alike(f, 0, g, s, m)
        BY <1>6, <1>7, <2>1 DEF Alike
      <3>2. 0 \in Nat /\ m \in Nat
        BY <1>3
      <3>3. QED BY <3>1, <3>2, ReadSame
    <2>3. QED BY <1>3, <2>2
  <1>9. PICK h : /\ h[0] = f[m] /\ readBytes(f[m], t) = h[Len(t)] /\ \A i \in 1..Len(t) : h[i] = readByte(h[i - 1], t[i])
    BY ReadBytes DEF ReadAs
  <1>10. f[m + n] = h[n]
    <2>1. ASSUME NEW i \in 1..n PROVE f[m + i] = readByte(f[m + i - 1], t[i]) /\ h[i] = readByte(h[i - 1], t[i])
      <3>1. m + i \in 1..m + n
        BY <1>3
      <3>2. QED BY <1>1, <1>3, <1>6, <1>9, <3>1
    <2>2. Alike(f, m, h, t, n)
      BY <1>9, <2>1 DEF Alike
    <2>3. m \in Nat /\ n \in Nat
      BY <1>3
    <2>4. QED BY <2>2, <2>3, ReadSame
  <1>11. QED BY <1>1, <1>2, <1>3, <1>6, <1>7, <1>8, <1>9, <1>10

LEMMA ReadNone == ASSUME NEW r, NEW s, s = <<>> PROVE readBytes(r, s) = r
  <1>1. IsSeq(s) /\ Len(s) = 0
    <2>1. s \in Seq({}) /\ Len(s) = 0
      OBVIOUS
    <2>2. QED BY <2>1 DEF IsSeq
  <1>2. PICK f : ReadAs(f, r, s)
    BY <1>1, ReadBytes
  <1>3. QED BY <1>1, <1>2 DEF ReadAs

LEMMA ReadOne == ASSUME NEW r, NEW b PROVE IsSeq(<<b>>) /\ readBytes(r, <<b>>) = readByte(r, b)
  <1>1. PICK s : s = <<b>>
    OBVIOUS
  <1>2. s \in Seq({b}) /\ Len(s) = 1 /\ s[1] = b
    BY <1>1
  <1>3. IsSeq(s)
    BY <1>2 DEF IsSeq
  <1>4. readBytes(r, s) = readByte(r, b)
    BY <1>2, <1>3, ReadBytes DEF ReadAs
  <1>5. QED BY <1>1, <1>3, <1>4

LEMMA ReadTwo == ASSUME NEW r, NEW b, NEW c PROVE IsSeq(<<b, c>>) /\ readBytes(r, <<b, c>>) = readByte(readByte(r, b), c)
  <1>1. PICK s : s = <<b, c>>
    OBVIOUS
  <1>2. s \in Seq({b, c}) /\ Len(s) = 2 /\ s[1] = b /\ s[2] = c
    BY <1>1
  <1>3. IsSeq(s)
    BY <1>2 DEF IsSeq
  <1>4. PICK f : /\ f[0] = r /\ readBytes(r, s) = f[2] /\ \A i \in 1..2 : f[i] = readByte(f[i - 1], s[i])
    BY <1>2, <1>3, ReadBytes DEF ReadAs
  <1>5. f[1] = readByte(f[0], s[1]) /\ f[2] = readByte(f[1], s[2])
    BY <1>4
  <1>6. readBytes(r, s) = readByte(readByte(r, b), c)
    BY <1>2, <1>4, <1>5
  <1>7. QED BY <1>1, <1>3, <1>6

\* appendHDLC and computeFCS16, round by round.
EscapedAs(f, dst, s) == /\ f[0] = dst /\ appendHDLC(dst, s) = f[Len(s)]
                        /\ \A i \in 1..Len(s) : f[i] = f[i - 1] \o EscapeByte(s[i])

LEMMA AppendHDLC ==
    ASSUME NEW dst, NEW s, IsSeq(s)
    PROVE  \E f : EscapedAs(f, dst, s)
  <1>1. PICK n \in Nat : n = Len(s)
    BY SeqNat
  <1>2. PICK f : f = CHOOSE g : Escapes(g, dst, s, n)
    OBVIOUS
  <1>3. Escapes(f, dst, s, n)
    BY <1>2, EscapesExist
  <1>4. appendHDLC(dst, s) = f[n]
    BY <1>1, <1>2 DEF appendHDLC, Escapes
  <1>5. \A i \in 0..n : f[i] = IF i = 0 THEN dst ELSE f[i - 1] \o EscapeByte(s[i])
    BY <1>3 DEF Escapes
  <1>6. f[0] = dst /\ \A i \in 1..n : f[i] = f[i - 1] \o EscapeByte(s[i])
    <2>1. 0 \in 0..n /\ \A i \in 1..n : i \in 0..n /\ i # 0
      OBVIOUS
    <2>2. QED BY <1>5, <2>1
  <1>7. EscapedAs(f, dst, s)
    BY <1>1, <1>4, <1>6 DEF EscapedAs
  <1>8. QED BY <1>7

SummedAs(h, c, s) == h[0] = c /\ \A i \in 1..Len(s) : h[i] = addOneByteToFcs16(h[i - 1], s[i])

LEMMA Summed ==
    ASSUME NEW c, NEW s, IsSeq(s)
    PROVE  /\ \E h : SummedAs(h, c, s)
           /\ \E h : SummedAs(h, initFcs16, s) /\ computeFCS16(s) = closeFcs16(h[Len(s)])
  <1>1. PICK n \in Nat : n = Len(s)
    BY SeqNat
  <1>2. ASSUME NEW d, NEW h, Sums(h, d, s, n) PROVE SummedAs(h, d, s)
    <2>1. \A i \in 0..n : h[i] = IF i = 0 THEN d ELSE addOneByteToFcs16(h[i - 1], s[i])
      BY <1>2 DEF Sums
    <2>2. 0 \in 0..n /\ \A i \in 1..n : i \in 0..n /\ i # 0
      OBVIOUS
    <2>3. QED BY <1>1, <2>1, <2>2 DEF SummedAs
  <1>3. \E h : SummedAs(h, c, s)
    BY <1>2, SumsExist
  <1>4. PICK h : h = CHOOSE g : Sums(g, initFcs16, s, n)
    OBVIOUS
  <1>5. Sums(h, initFcs16, s, n)
    BY <1>4, SumsExist
  <1>6. computeFCS16(s) = closeFcs16(h[n])
    BY <1>1, <1>4 DEF computeFCS16, Sums
  <1>7. QED BY <1>1, <1>2, <1>3, <1>5, <1>6
-----------------------------------------------------------------------------
(* Words, bit by bit *)

Word(x) == x \in Nat /\ x < 65536

\* A bit of the exclusive or, and four of them.
Bit(x, y, n) == ((x \div n) + (y \div n)) % 2
Digit(x, y, n, n2, n4, n8) == Bit(x, y, n) + 2 * Bit(x, y, n2) + 4 * Bit(x, y, n4) + 8 * Bit(x, y, n8)

LEMMA BitRange == ASSUME NEW x \in Int, NEW y \in Int, NEW n \in Nat, n > 0 PROVE Bit(x, y, n) \in 0..1
  <1>1. PICK z \in Int : z = (x \div n) + (y \div n)
    OBVIOUS
  <1>2. z % 2 \in 0..1
    OBVIOUS
  <1>3. QED BY <1>1, <1>2 DEF Bit

D0(x, y) == Digit(x, y, 1, 2, 4, 8)
D1(x, y) == Digit(x, y, 16, 32, 64, 128)
D2(x, y) == Digit(x, y, 256, 512, 1024, 2048)
D3(x, y) == Digit(x, y, 4096, 8192, 16384, 32768)

LEMMA XorDigits ==
    ASSUME NEW x \in Int, NEW y \in Int
    PROVE  /\ D0(x, y) \in 0..15 /\ D1(x, y) \in 0..15 /\ D2(x, y) \in 0..15 /\ D3(x, y) \in 0..15
           /\ Xor(x, y) = D0(x, y) + 16 * D1(x, y) + 256 * D2(x, y) + 4096 * D3(x, y)
  <1>1. \A n \in Nat : n > 0 => Bit(x, y, n) \in 0..1
    BY BitRange
  <1>2. D0(x, y) \in 0..15
    <2>1. PICK b1 \in 0..1 : b1 = Bit(x, y, 1)
      BY <1>1, SMT
    <2>2. PICK b2 \in 0..1 : b2 = Bit(x, y, 2)
      BY <1>1, SMT
    <2>3. PICK b4 \in 0..1 : b4 = Bit(x, y, 4)
      BY <1>1, SMT
    <2>4. PICK b8 \in 0..1 : b8 = Bit(x, y, 8)
      BY <1>1, SMT
    <2>5. b1 + 2 * b2 + 4 * b4 + 8 * b8 \in 0..15
      BY SMT
    <2>6. QED BY <2>1, <2>2, <2>3, <2>4, <2>5, SMT DEF D0, Digit
  <1>3. D1(x, y) \in 0..15
    <2>1. PICK b16 \in 0..1 : b16 = Bit(x, y, 16)
      BY <1>1, SMT
    <2>2. PICK b32 \in 0..1 : b32 = Bit(x, y, 32)
      BY <1>1, SMT
    <2>3. PICK b64 \in 0..1 : b64 = Bit(x, y, 64)
      BY <1>1, SMT
    <2>4. PICK b128 \in 0..1 : b128 = Bit(x, y, 128)
      BY <1>1, SMT
    <2>5. b16 + 2 * b32 + 4 * b64 + 8 * b128 \in 0..15
      BY SMT
    <2>6. QED BY <2>1, <2>2, <2>3, <2>4, <2>5, SMT DEF D1, Digit
  <1>4. D2(x, y) \in 0..15
    <2>1. PICK b256 \in 0..1 : b256 = Bit(x, y, 256)
      BY <1>1, SMT
    <2>2. PICK b512 \in 0..1 : b512 = Bit(x, y, 512)
      BY <1>1, SMT
    <2>3. PICK b1024 \in 0..1 : b1024 = Bit(x, y, 1024)
      BY <1>1, SMT
    <2>4. PICK b2048 \in 0..1 : b2048 = Bit(x, y, 2048)
      BY <1>1, SMT
    <2>5. b256 + 2 * b512 + 4 * b1024 + 8 * b2048 \in 0..15
      BY SMT
    <2>6. QED BY <2>1, <2>2, <2>3, <2>4, <2>5, SMT DEF D2, Digit
  <1>5. D3(x, y) \in 0..15
    <2>1. PICK b4096 \in 0..1 : b4096 = Bit(x, y, 4096)
      BY <1>1, SMT
    <2>2. PICK b8192 \in 0..1 : b8192 = Bit(x, y, 8192)
      BY <1>1, SMT
    <2>3. PICK b16384 \in 0..1 : b16384 = Bit(x, y, 16384)
      BY <1>1, SMT
    <2>4. PICK b32768 \in 0..1 : b32768 = Bit(x, y, 32768)
      BY <1>1, SMT
    <2>5. b4096 + 2 * b8192 + 4 * b16384 + 8 * b32768 \in 0..15
      BY SMT
    <2>6. QED BY <2>1, <2>2, <2>3, <2>4, <2>5, SMT DEF D3, Digit
  <1>6. \A n \in Nat \ {0} : Bit(x, y, n) \in Int
    BY BitRange
  <1>7. /\ 16 * D1(x, y) = 16 * Bit(x, y, 16) + 32 * Bit(x, y, 32) + 64 * Bit(x, y, 64) + 128 * Bit(x, y, 128)
        /\ 256 * D2(x, y) = 256 * Bit(x, y, 256) + 512 * Bit(x, y, 512) + 1024 * Bit(x, y, 1024) + 2048 * Bit(x, y, 2048)
        /\ 4096 * D3(x, y) = 4096 * Bit(x, y, 4096) + 8192 * Bit(x, y, 8192) + 16384 * Bit(x, y, 16384) + 32768 * Bit(x, y, 32768)
    BY <1>6, SMT DEF Digit, D1, D2, D3
  <1>8. Xor(x, y) = D0(x, y) + 16 * D1(x, y) + 256 * D2(x, y) + 4096 * D3(x, y)
    BY <1>6, <1>7, SMT DEF Xor, D0, Digit, Bit
  <1>9. QED BY <1>2, <1>3, <1>4, <1>5, <1>8

LEMMA XorRange == ASSUME NEW x \in Int, NEW y \in Int PROVE Word(Xor(x, y))
  <1>1. PICK z : z = Xor(x, y)
    OBVIOUS
  <1>2. PICK d0, d1, d2, d3 : d0 = D0(x, y) /\ d1 = D1(x, y) /\ d2 = D2(x, y) /\ d3 = D3(x, y)
    OBVIOUS
  <1>3. d0 \in 0..15 /\ d1 \in 0..15 /\ d2 \in 0..15 /\ d3 \in 0..15 /\ z = d0 + 16 * d1 + 256 * d2 + 4096 * d3
    BY <1>1, <1>2, XorDigits, SMT
  <1>4. Word(z)
    BY <1>3, SMT DEF Word
  <1>5. QED BY <1>1, <1>4

\* Bytes have no bits but eight.
LEMMA XorByte == ASSUME NEW x \in 0..255, NEW y \in 0..255 PROVE Xor(x, y) \in 0..255
  <1>1. x \in Int /\ y \in Int
    OBVIOUS
  <1>2. /\ Bit(x, y, 256) = 0 /\ Bit(x, y, 512) = 0 /\ Bit(x, y, 1024) = 0 /\ Bit(x, y, 2048) = 0
        /\ Bit(x, y, 4096) = 0 /\ Bit(x, y, 8192) = 0 /\ Bit(x, y, 16384) = 0 /\ Bit(x, y, 32768) = 0
    BY SMT DEF Bit
  <1>3. D2(x, y) = 0 /\ D3(x, y) = 0
    BY <1>2, SMT DEF D2, D3, Digit
  <1>4. PICK d0 \in 0..15, d1 \in 0..15 : d0 = D0(x, y) /\ d1 = D1(x, y)
    BY <1>1, XorDigits, SMT
  <1>5. Xor(x, y) = d0 + 16 * d1
    BY <1>1, <1>3, <1>4, XorDigits, SMT
  <1>6. QED BY <1>5, SMT

\* Xor with all ones turns a word round, digit by digit.
LEMMA XorOnes == ASSUME NEW x, Word(x) PROVE Xor(x, 65535) = 65535 - x
  <1>1. x \in Int /\ 0 <= x /\ x < 65536 /\ 65535 \in Int
    BY SMT DEF Word
  <1>2. x \div 1 = 16 * (x \div 16) + 15 - D0(x, 65535)
    <2>1. Bit(x, 65535, 1) = 1 + 2 * (x \div 2) - (x \div 1)
      BY <1>1, SMT DEF Bit
    <2>2. Bit(x, 65535, 2) = 1 + 2 * (x \div 4) - (x \div 2)
      BY <1>1, SMT DEF Bit
    <2>3. Bit(x, 65535, 4) = 1 + 2 * (x \div 8) - (x \div 4)
      BY <1>1, SMT DEF Bit
    <2>4. Bit(x, 65535, 8) = 1 + 2 * (x \div 16) - (x \div 8)
      BY <1>1, SMT DEF Bit
    <2>5. x \div 1 \in Int /\ x \div 2 \in Int /\ x \div 4 \in Int /\ x \div 8 \in Int /\ x \div 16 \in Int
      BY <1>1, SMT
    <2>6. QED BY <2>1, <2>2, <2>3, <2>4, <2>5, SMT DEF Digit, D0
  <1>3. x \div 16 = 16 * (x \div 256) + 15 - D1(x, 65535)
    <2>1. Bit(x, 65535, 16) = 1 + 2 * (x \div 32) - (x \div 16)
      BY <1>1, SMT DEF Bit
    <2>2. Bit(x, 65535, 32) = 1 + 2 * (x \div 64) - (x \div 32)
      BY <1>1, SMT DEF Bit
    <2>3. Bit(x, 65535, 64) = 1 + 2 * (x \div 128) - (x \div 64)
      BY <1>1, SMT DEF Bit
    <2>4. Bit(x, 65535, 128) = 1 + 2 * (x \div 256) - (x \div 128)
      BY <1>1, SMT DEF Bit
    <2>5. x \div 16 \in Int /\ x \div 32 \in Int /\ x \div 64 \in Int /\ x \div 128 \in Int /\ x \div 256 \in Int
      BY <1>1, SMT
    <2>6. QED BY <2>1, <2>2, <2>3, <2>4, <2>5, SMT DEF Digit, D1
  <1>4. x \div 256 = 16 * (x \div 4096) + 15 - D2(x, 65535)
    <2>1. Bit(x, 65535, 256) = 1 + 2 * (x \div 512) - (x \div 256)
      BY <1>1, SMT DEF Bit
    <2>2. Bit(x, 65535, 512) = 1 + 2 * (x \div 1024) - (x \div 512)
      BY <1>1, SMT DEF Bit
    <2>3. Bit(x, 65535, 1024) = 1 + 2 * (x \div 2048) - (x \div 1024)
      BY <1>1, SMT DEF Bit
    <2>4. Bit(x, 65535, 2048) = 1 + 2 * (x \div 4096) - (x \div 2048)
      BY <1>1, SMT DEF Bit
    <2>5. x \div 256 \in Int /\ x \div 512 \in Int /\ x \div 1024 \in Int /\ x \div 2048 \in Int /\ x \div 4096 \in Int
      BY <1>1, SMT
    <2>6. QED BY <2>1, <2>2, <2>3, <2>4, <2>5, SMT DEF Digit, D2
  <1>5. x \div 4096 = 16 * (x \div 65536) + 15 - D3(x, 65535)
    <2>1. Bit(x, 65535, 4096) = 1 + 2 * (x \div 8192) - (x \div 4096)
      BY <1>1, SMT DEF Bit
    <2>2. Bit(x, 65535, 8192) = 1 + 2 * (x \div 16384) - (x \div 8192)
      BY <1>1, SMT DEF Bit
    <2>3. Bit(x, 65535, 16384) = 1 + 2 * (x \div 32768) - (x \div 16384)
      BY <1>1, SMT DEF Bit
    <2>4. Bit(x, 65535, 32768) = 1 + 2 * (x \div 65536) - (x \div 32768)
      BY <1>1, SMT DEF Bit
    <2>5. x \div 4096 \in Int /\ x \div 8192 \in Int /\ x \div 16384 \in Int /\ x \div 32768 \in Int /\ x \div 65536 \in Int
      BY <1>1, SMT
    <2>6. QED BY <2>1, <2>2, <2>3, <2>4, <2>5, SMT DEF Digit, D3
  <1>6. x \div 1 = x /\ x \div 65536 = 0 /\ x \div 16 \in Int /\ x \div 256 \in Int /\ x \div 4096 \in Int
    BY <1>1, SMT
  <1>7. PICK d0, d1, d2, d3 : d0 = D0(x, 65535) /\ d1 = D1(x, 65535) /\ d2 = D2(x, 65535) /\ d3 = D3(x, 65535)
    OBVIOUS
  <1>8. PICK y : y = 65535
    OBVIOUS
  <1>9. /\ D0(x, y) \in 0..15 /\ D1(x, y) \in 0..15 /\ D2(x, y) \in 0..15 /\ D3(x, y) \in 0..15
         /\ Xor(x, y) = D0(x, y) + 16 * D1(x, y) + 256 * D2(x, y) + 4096 * D3(x, y)
    <2>1. x \in Int /\ y \in Int
      BY <1>1, <1>8, SMT
    <2>2. QED BY <2>1, XorDigits, SMT
  <1>10. /\ d0 = D0(x, 65535) /\ d1 = D1(x, 65535) /\ d2 = D2(x, 65535) /\ d3 = D3(x, 65535)
        /\ Xor(x, 65535) = d0 + 16 * d1 + 256 * d2 + 4096 * d3
        /\ d0 \in Int /\ d1 \in Int /\ d2 \in Int /\ d3 \in Int
    BY <1>7, <1>8, <1>9, SMT
  <1>11. PICK p \in Int, q \in Int, r \in Int : p = x \div 16 /\ q = x \div 256 /\ r = x \div 4096
    BY <1>6, SMT
  <1>12. x = 16 * p + 15 - d0 /\ p = 16 * q + 15 - d1 /\ q = 16 * r + 15 - d2 /\ r = 15 - d3
    BY <1>2, <1>3, <1>4, <1>5, <1>6, <1>10, <1>11, SMT
  <1>13. QED BY <1>1, <1>10, <1>12, SMT

\* Xor of a byte and its complement.
LEMMA XorComplement == ASSUME NEW x \in 0..255 PROVE Xor(x, 255 - x) = 255
  BY SMT DEF Xor

-----------------------------------------------------------------------------
(* The check sequence *)

LEMMA Table255 == fcstab[255] = 3960
  <1>1. FcsStep(255) = 33911
    <2>1. Xor(127, 33800) = 33911
      BY SMT DEF Xor
    <2>2. FcsStep(255) = Xor(127, 33800)
      BY SMT DEF FcsStep
    <2>3. QED BY <2>1, <2>2, SMT
  <1>2. FcsStep(33911) = 50739
    <2>1. Xor(16955, 33800) = 50739
      BY SMT DEF Xor
    <2>2. FcsStep(33911) = Xor(16955, 33800)
      BY SMT DEF FcsStep
    <2>3. QED BY <2>1, <2>2, SMT
  <1>3. FcsStep(50739) = 59153
    <2>1. Xor(25369, 33800) = 59153
      BY SMT DEF Xor
    <2>2. FcsStep(50739) = Xor(25369, 33800)
      BY SMT DEF FcsStep
    <2>3. QED BY <2>1, <2>2, SMT
  <1>4. FcsStep(59153) = 63360
    <2>1. Xor(29576, 33800) = 63360
      BY SMT DEF Xor
    <2>2. FcsStep(59153) = Xor(29576, 33800)
      BY SMT DEF FcsStep
    <2>3. QED BY <2>1, <2>2, SMT
  <1>5. FcsStep(63360) = 31680
    BY SMT DEF FcsStep
  <1>6. FcsStep(31680) = 15840
    BY SMT DEF FcsStep
  <1>7. FcsStep(15840) = 7920
    BY SMT DEF FcsStep
  <1>8. FcsStep(7920) = 3960
    BY SMT DEF FcsStep
  <1>9. FcsSteps(255) = 3960
    BY <1>1, <1>2, <1>3, <1>4, <1>5, <1>6, <1>7, <1>8, SMT DEF FcsSteps
  <1>10. 255 \in 0..255
    BY SMT
  <1>11. QED BY <1>9, <1>10, SMT DEF fcstab

LEMMA Table135 == fcstab[135] = 61623
  <1>1. FcsStep(135) = 33867
    <2>1. Xor(67, 33800) = 33867
      BY SMT DEF Xor
    <2>2. FcsStep(135) = Xor(67, 33800)
      BY SMT DEF FcsStep
    <2>3. QED BY <2>1, <2>2, SMT
  <1>2. FcsStep(33867) = 50733
    <2>1. Xor(16933, 33800) = 50733
      BY SMT DEF Xor
    <2>2. FcsStep(33867) = Xor(16933, 33800)
      BY SMT DEF FcsStep
    <2>3. QED BY <2>1, <2>2, SMT
  <1>3. FcsStep(50733) = 59166
    <2>1. Xor(25366, 33800) = 59166
      BY SMT DEF Xor
    <2>2. FcsStep(50733) = Xor(25366, 33800)
      BY SMT DEF FcsStep
    <2>3. QED BY <2>1, <2>2, SMT
  <1>4. FcsStep(59166) = 29583
    BY SMT DEF FcsStep
  <1>5. FcsStep(29583) = 48591
    <2>1. Xor(14791, 33800) = 48591
      BY SMT DEF Xor
    <2>2. FcsStep(29583) = Xor(14791, 33800)
      BY SMT DEF FcsStep
    <2>3. QED BY <2>1, <2>2, SMT
  <1>6. FcsStep(48591) = 56047
    <2>1. Xor(24295, 33800) = 56047
      BY SMT DEF Xor
    <2>2. FcsStep(48591) = Xor(24295, 33800)
      BY SMT DEF FcsStep
    <2>3. QED BY <2>1, <2>2, SMT
  <1>7. FcsStep(56047) = 59775
    <2>1. Xor(28023, 33800) = 59775
      BY SMT DEF Xor
    <2>2. FcsStep(56047) = Xor(28023, 33800)
      BY SMT DEF FcsStep
    <2>3. QED BY <2>1, <2>2, SMT
  <1>8. FcsStep(59775) = 61623
    <2>1. Xor(29887, 33800) = 61623
      BY SMT DEF Xor
    <2>2. FcsStep(59775) = Xor(29887, 33800)
      BY SMT DEF FcsStep
    <2>3. QED BY <2>1, <2>2, SMT
  <1>9. FcsSteps(135) = 61623
    BY <1>1, <1>2, <1>3, <1>4, <1>5, <1>6, <1>7, <1>8, SMT DEF FcsSteps
  <1>10. 135 \in 0..255
    BY SMT
  <1>11. QED BY <1>9, <1>10, SMT DEF fcstab

\* What is left of a byte after the first of the two bytes of the check sequence, and after the second.
LEMMA Second ==
    ASSUME NEW h \in 0..255, NEW f, f = Xor(h, 3960), NEW j, j = f % 256, NEW i, i = 255 - h
    PROVE  f \div 256 = 15 /\ Xor(j, i) = 135
  <1>1. h \in Int /\ 3960 \in Int
    BY SMT
  <1>2. PICK b1 \in 0..1 : b1 = Bit(h, 3960, 1)
    BY <1>1, BitRange, SMT
  <1>3. PICK b2 \in 0..1 : b2 = Bit(h, 3960, 2)
    BY <1>1, BitRange, SMT
  <1>4. PICK b4 \in 0..1 : b4 = Bit(h, 3960, 4)
    BY <1>1, BitRange, SMT
  <1>5. PICK b8 \in 0..1 : b8 = Bit(h, 3960, 8)
    BY <1>1, BitRange, SMT
  <1>6. PICK b16 \in 0..1 : b16 = Bit(h, 3960, 16)
    BY <1>1, BitRange, SMT
  <1>7. PICK b32 \in 0..1 : b32 = Bit(h, 3960, 32)
    BY <1>1, BitRange, SMT
  <1>8. PICK b64 \in 0..1 : b64 = Bit(h, 3960, 64)
    BY <1>1, BitRange, SMT
  <1>9. PICK b128 \in 0..1 : b128 = Bit(h, 3960, 128)
    BY <1>1, BitRange, SMT
  <1>10. /\ Bit(h, 3960, 256) = 1 /\ Bit(h, 3960, 512) = 1 /\ Bit(h, 3960, 1024) = 1 /\ Bit(h, 3960, 2048) = 1
         /\ Bit(h, 3960, 4096) = 0 /\ Bit(h, 3960, 8192) = 0 /\ Bit(h, 3960, 16384) = 0 /\ Bit(h, 3960, 32768) = 0
    BY SMT DEF Bit
  <1>11. D2(h, 3960) = 15 /\ D3(h, 3960) = 0
    BY <1>10, SMT DEF D2, D3, Digit
  <1>12. PICK k \in Int : k = b1 + 2 * b2 + 4 * b4 + 8 * b8 + 16 * b16 + 32 * b32 + 64 * b64 + 128 * b128
    BY SMT
  <1>13. D0(h, 3960) + 16 * D1(h, 3960) = k
    BY <1>2, <1>3, <1>4, <1>5, <1>6, <1>7, <1>8, <1>9, <1>12, SMT DEF D0, D1, Digit
  <1>14. Xor(h, 3960) = k + 3840
    <2>1. PICK y : y = 3960
      OBVIOUS
    <2>2. y \in Int
      BY <2>1, SMT
    <2>3. /\ D0(h, y) \in 0..15 /\ D1(h, y) \in 0..15
          /\ Xor(h, y) = D0(h, y) + 16 * D1(h, y) + 256 * D2(h, y) + 4096 * D3(h, y)
      BY <1>1, <2>2, XorDigits, SMT
    <2>4. QED BY <1>11, <1>13, <2>1, <2>3, SMT
  <1>15. k \in 0..255
    BY <1>12, SMT
  <1>16. Xor(h, 3960) \div 256 = 15 /\ Xor(h, 3960) % 256 = k
    BY <1>14, <1>15, SMT
  <1>17. PICK g \in 0..255 : g = 255 - h
    BY SMT
  <1>18. Bit(k, g, 1) = 1
    <2>1. PICK q \in Int : q = h \div 1
      BY SMT
    <2>2. g \div 1 = 255 - q
      BY <1>17, <2>1, SMT
    <2>3. b1 = (q + 3960) % 2
      BY <1>2, <2>1, SMT DEF Bit
    <2>4. PICK r \in Int : r = b2 + 2 * b4 + 4 * b8 + 8 * b16 + 16 * b32 + 32 * b64 + 64 * b128
      BY SMT
    <2>5. k \div 1 = b1 + 2 * r
      BY <1>12, <2>4, SMT
    <2>6. (b1 + 2 * r + 255 - q) % 2 = 1
      BY <2>3, SMT
    <2>7. QED BY <2>2, <2>5, <2>6, SMT DEF Bit
  <1>19. Bit(k, g, 2) = 1
    <2>1. PICK q \in Int : q = h \div 2
      BY SMT
    <2>2. g \div 2 = 127 - q
      BY <1>17, <2>1, SMT
    <2>3. b2 = (q + 1980) % 2
      BY <1>3, <2>1, SMT DEF Bit
    <2>4. PICK r \in Int : r = b4 + 2 * b8 + 4 * b16 + 8 * b32 + 16 * b64 + 32 * b128
      BY SMT
    <2>5. k \div 2 = b2 + 2 * r
      BY <1>12, <2>4, SMT
    <2>6. (b2 + 2 * r + 127 - q) % 2 = 1
      BY <2>3, SMT
    <2>7. QED BY <2>2, <2>5, <2>6, SMT DEF Bit
  <1>20. Bit(k, g, 4) = 1
    <2>1. PICK q \in Int : q = h \div 4
      BY SMT
    <2>2. g \div 4 = 63 - q
      BY <1>17, <2>1, SMT
    <2>3. b4 = (q + 990) % 2
      BY <1>4, <2>1, SMT DEF Bit
    <2>4. PICK r \in Int : r = b8 + 2 * b16 + 4 * b32 + 8 * b64 + 16 * b128
      BY SMT
    <2>5. k \div 4 = b4 + 2 * r
      BY <1>12, <2>4, SMT
    <2>6. (b4 + 2 * r + 63 - q) % 2 = 1
      BY <2>3, SMT
    <2>7. QED BY <2>2, <2>5, <2>6, SMT DEF Bit
  <1>21. Bit(k, g, 8) = 0
    <2>1. PICK q \in Int : q = h \div 8
      BY SMT
    <2>2. g \div 8 = 31 - q
      BY <1>17, <2>1, SMT
    <2>3. b8 = (q + 495) % 2
      BY <1>5, <2>1, SMT DEF Bit
    <2>4. PICK r \in Int : r = b16 + 2 * b32 + 4 * b64 + 8 * b128
      BY SMT
    <2>5. k \div 8 = b8 + 2 * r
      BY <1>12, <2>4, SMT
    <2>6. (b8 + 2 * r + 31 - q) % 2 = 0
      BY <2>3, SMT
    <2>7. QED BY <2>2, <2>5, <2>6, SMT DEF Bit
  <1>22. Bit(k, g, 16) = 0
    <2>1. PICK q \in Int : q = h \div 16
      BY SMT
    <2>2. g \div 16 = 15 - q
      BY <1>17, <2>1, SMT
    <2>3. b16 = (q + 247) % 2
      BY <1>6, <2>1, SMT DEF Bit
    <2>4. PICK r \in Int : r = b32 + 2 * b64 + 4 * b128
      BY SMT
    <2>5. k \div 16 = b16 + 2 * r
      BY <1>12, <2>4, SMT
    <2>6. (b16 + 2 * r + 15 - q) % 2 = 0
      BY <2>3, SMT
    <2>7. QED BY <2>2, <2>5, <2>6, SMT DEF Bit
  <1>23. Bit(k, g, 32) = 0
    <2>1. PICK q \in Int : q = h \div 32
      BY SMT
    <2>2. g \div 32 = 7 - q
      BY <1>17, <2>1, SMT
    <2>3. b32 = (q + 123) % 2
      BY <1>7, <2>1, SMT DEF Bit
    <2>4. PICK r \in Int : r = b64 + 2 * b128
      BY SMT
    <2>5. k \div 32 = b32 + 2 * r
      BY <1>12, <2>4, SMT
    <2>6. (b32 + 2 * r + 7 - q) % 2 = 0
      BY <2>3, SMT
    <2>7. QED BY <2>2, <2>5, <2>6, SMT DEF Bit
  <1>24. Bit(k, g, 64) = 0
    <2>1. PICK q \in Int : q = h \div 64
      BY SMT
    <2>2. g \div 64 = 3 - q
      BY <1>17, <2>1, SMT
    <2>3. b64 = (q + 61) % 2
      BY <1>8, <2>1, SMT DEF Bit
    <2>4. PICK r \in Int : r = b128
      BY SMT
    <2>5. k \div 64 = b64 + 2 * r
      BY <1>12, <2>4, SMT
    <2>6. (b64 + 2 * r + 3 - q) % 2 = 0
      BY <2>3, SMT
    <2>7. QED BY <2>2, <2>5, <2>6, SMT DEF Bit
  <1>25. Bit(k, g, 128) = 1
    <2>1. PICK q \in Int : q = h \div 128
      BY SMT
    <2>2. g \div 128 = 1 - q
      BY <1>17, <2>1, SMT
    <2>3. b128 = (q + 30) % 2
      BY <1>9, <2>1, SMT DEF Bit
    <2>4. k \div 128 = b128
      BY <1>12, SMT
    <2>5. (b128 + 1 - q) % 2 = 1
      BY <2>3, SMT
    <2>6. QED BY <2>2, <2>4, <2>5, SMT DEF Bit
  <1>26. D0(k, g) = 7 /\ D1(k, g) = 8
    BY <1>18, <1>19, <1>20, <1>21, <1>22, <1>23, <1>24, <1>25, SMT DEF D0, D1, Digit
  <1>27. /\ Bit(k, g, 256) = 0 /\ Bit(k, g, 512) = 0 /\ Bit(k, g, 1024) = 0 /\ Bit(k, g, 2048) = 0
         /\ Bit(k, g, 4096) = 0 /\ Bit(k, g, 8192) = 0 /\ Bit(k, g, 16384) = 0 /\ Bit(k, g, 32768) = 0
    BY <1>15, SMT DEF Bit
  <1>28. D2(k, g) = 0 /\ D3(k, g) = 0
    BY <1>27, SMT DEF D2, D3, Digit
  <1>29. k \in Int /\ g \in Int
    BY SMT
  <1>30. Xor(k, g) = D0(k, g) + 16 * D1(k, g) + 256 * D2(k, g) + 4096 * D3(k, g)
    BY <1>29, XorDigits, SMT
  <1>31. Xor(k, g) = 135
    BY <1>26, <1>28, <1>30, SMT
  <1>32. QED BY <1>15, <1>16, <1>17, <1>31, SMT

LEMMA StepNat == ASSUME NEW r \in Nat PROVE FcsStep(r) \in Nat
  <1>1. PICK q \in Nat : q = r \div 2
    BY SMT
  <1>2. q \in Int /\ 33800 \in Int
    BY SMT
  <1>3. Xor(q, 33800) \in Nat
    BY <1>2, XorRange, SMT DEF Word
  <1>4. QED BY <1>1, <1>3, SMT DEF FcsStep

LEMMA TableNat == ASSUME NEW b \in 0..255 PROVE fcstab[b] \in Nat
  <1>1. b \in Nat
    BY SMT
  <1>2. \A r \in Nat : FcsStep(r) \in Nat
    BY StepNat
  <1>3. FcsSteps(b) \in Nat
    BY <1>1, <1>2, Zenon DEF FcsSteps
  <1>4. QED BY <1>3, SMT DEF fcstab

\* The check sequence stays a word.
LEMMA SumWord == ASSUME NEW f, Word(f), NEW b \in 0..255 PROVE Word(addOneByteToFcs16(f, b))
  <1>1. PICK l \in 0..255, h \in Int : l = f % 256 /\ h = f \div 256
    BY SMT DEF Word
  <1>2. PICK x : x = Xor(l, b)
    OBVIOUS
  <1>3. x \in 0..255
    <2>1. l \in 0..255 /\ b \in 0..255
      BY <1>1
    <2>2. Xor(l, b) \in 0..255
      BY <2>1, XorByte, Zenon
    <2>3. QED BY <1>2, <2>2
  <1>4. PICK t : t = fcstab[x]
    OBVIOUS
  <1>5. t \in Int
    BY <1>3, <1>4, TableNat, SMT
  <1>6. Word(Xor(h, t))
    BY <1>1, <1>5, XorRange
  <1>7. addOneByteToFcs16(f, b) = Xor(h, t)
    BY <1>1, <1>2, <1>4 DEF addOneByteToFcs16
  <1>8. QED BY <1>6, <1>7

\* Over the check sequence of any data, its two bytes leave the same: the value validateChecksum expects.
LEMMA Residue ==
    ASSUME NEW f, Word(f), NEW c, c = closeFcs16(f), NEW lo, NEW hi, lo = c % 256, hi = c \div 256
    PROVE  /\ lo \in 0..255 /\ hi \in 0..255
           /\ closeFcs16(addOneByteToFcs16(addOneByteToFcs16(f, lo), hi)) = 3911
  <1>1. c = 65535 - f
    BY XorOnes DEF closeFcs16
  <1>2. PICK l \in 0..255, h \in 0..255 : l = f % 256 /\ h = f \div 256 /\ f = 256 * h + l
    <2>1. f % 256 \in 0..255
      BY SMT DEF Word
    <2>2. f \div 256 \in 0..255
      BY SMT DEF Word
    <2>3. f = 256 * (f \div 256) + (f % 256)
      BY SMT DEF Word
    <2>4. QED BY <2>1, <2>2, <2>3
  <1>3. lo = 255 - l /\ hi = 255 - h
    BY <1>1, <1>2, SMT
  <1>4. lo \in 0..255 /\ hi \in 0..255
    BY <1>2, <1>3, SMT
  <1>5. Xor(l, lo) = 255
    BY <1>2, <1>3, XorComplement, SMT
  <1>6. PICK f1 : f1 = addOneByteToFcs16(f, lo)
    OBVIOUS
  <1>7. f1 = Xor(h, 3960)
    BY <1>2, <1>5, <1>6, Table255, SMT DEF addOneByteToFcs16
  <1>8. PICK k : k = f1 % 256
    OBVIOUS
  <1>9. f1 \div 256 = 15 /\ Xor(k, hi) = 135
    BY <1>3, <1>7, <1>8, Second, SMT
  <1>10. addOneByteToFcs16(f1, hi) = Xor(15, 61623)
    BY <1>8, <1>9, Table135, SMT DEF addOneByteToFcs16
  <1>11. Xor(15, 61623) = 61624 /\ Xor(61624, 65535) = 3911
    BY SMT DEF Xor
  <1>12. QED BY <1>4, <1>6, <1>10, <1>11, SMT DEF closeFcs16
-----------------------------------------------------------------------------
(* The decoder *)

\* A decoder and what it has handed on.
Decoder(s, b, c, m) == [state |-> s, buffer |-> b, fcs |-> c, frame |-> m]
Reader(s, b, c, g) == [dec |-> Decoder(s, b, c, <<>>), got |-> g]

\* Fields of a decoder, and what is assigned to them.
LEMMA Fields ==
    ASSUME NEW s, NEW b, NEW c, NEW m, NEW d, d = Decoder(s, b, c, m)
    PROVE  d.state = s /\ d.buffer = b /\ d.fcs = c /\ d.frame = m
  BY DEF Decoder

LEMMA SetFrame ==
    ASSUME NEW s, NEW b, NEW c, NEW f, NEW d, d = Decoder(s, b, c, f), NEW m, NEW e, e = [d EXCEPT !.frame = m]
    PROVE  e = Decoder(s, b, c, m)
  BY DEF Decoder

LEMMA SetState ==
    ASSUME NEW s, NEW b, NEW c, NEW m, NEW d, d = Decoder(s, b, c, m), NEW t, NEW e, e = [d EXCEPT !.state = t]
    PROVE  e = Decoder(t, b, c, m)
  BY DEF Decoder

\* What addByte answers, and what readByte makes of it.
Answers(s, b, c, x, s2, b2, c2, m) == addByte(Decoder(s, b, c, <<>>), x) = Decoder(s2, b2, c2, m)

LEMMA ByteRead ==
    ASSUME NEW s, NEW b, NEW c, NEW g, NEW x, NEW s2, NEW b2, NEW c2, NEW m,
           Answers(s, b, c, x, s2, b2, c2, m)
    PROVE  /\ m = <<>> => readByte(Reader(s, b, c, g), x) = Reader(s2, b2, c2, g)
           /\ m # <<>> => readByte(Reader(s, b, c, g), x) = Reader(s2, b2, c2, Append(g, m))
  <1>1. PICK d, z : d = Decoder(s, b, c, <<>>) /\ z = <<>>
    OBVIOUS
  <1>2. PICK e, e2 : e = addByte(d, x) /\ e2 = [e EXCEPT !.frame = z]
    OBVIOUS
  <1>3. e = Decoder(s2, b2, c2, m)
    BY <1>1, <1>2 DEF Answers
  <1>4. e.frame = m /\ e2 = Decoder(s2, b2, c2, z)
    BY <1>2, <1>3, Fields DEF Decoder
  <1>5. PICK r : r = [dec |-> d, got |-> g]
    OBVIOUS
  <1>6. r.dec = d /\ r.got = g /\ r = Reader(s, b, c, g)
    BY <1>1, <1>5 DEF Reader
  <1>7. readByte(r, x) = [dec |-> e2, got |-> IF e.frame = z THEN g ELSE Append(g, e.frame)]
    BY <1>1, <1>2, <1>6 DEF readByte
  <1>8. QED BY <1>1, <1>4, <1>6, <1>7 DEF Reader

LEMMA Appended ==
    ASSUME NEW s, NEW b, NEW c, NEW y, NEW d, d = Decoder(s, b, c, <<>>)
    PROVE  hdlcAppend(d, y) = Decoder(s, Append(b, y), addOneByteToFcs16(c, y), <<>>)
  <1>1. PICK b2, c2, z : b2 = Append(b, y) /\ c2 = addOneByteToFcs16(c, y) /\ z = <<>>
    OBVIOUS
  <1>2. d = Decoder(s, b, c, z)
    BY <1>1
  <1>3. d.buffer = b /\ d.fcs = c
    BY <1>2, Fields
  <1>4. PICK d1 : d1 = [d EXCEPT !.buffer = b2]
    OBVIOUS
  <1>5. d1 = Decoder(s, b2, c, z)
    BY <1>2, <1>4 DEF Decoder
  <1>6. PICK d2 : d2 = [d1 EXCEPT !.fcs = c2]
    OBVIOUS
  <1>7. d2 = Decoder(s, b2, c2, z)
    BY <1>5, <1>6 DEF Decoder
  <1>8. PICK e : e = [d2 EXCEPT !.frame = z]
    OBVIOUS
  <1>9. e = Decoder(s, b2, c2, z)
    BY <1>7, <1>8 DEF Decoder
  <1>10. e = [d EXCEPT !.buffer = b2, !.fcs = c2, !.frame = z]
    BY <1>4, <1>6, <1>8
  <1>11. hdlcAppend(d, y) = e
    BY <1>1, <1>3, <1>10 DEF hdlcAppend
  <1>12. QED BY <1>1, <1>9, <1>11

LEMMA ByteEscaped ==
    ASSUME NEW b, NEW c, NEW g, NEW x, NEW y, y = Xor(x, HDLC_XORBYTE)
    PROVE  readByte(Reader("ESCAPE", b, c, g), x) = Reader("DATA", Append(b, y), addOneByteToFcs16(c, y), g)
  <1>1. PICK d, b2, c2, z : /\ d = Decoder("ESCAPE", b, c, <<>>)
                            /\ b2 = Append(b, y) /\ c2 = addOneByteToFcs16(c, y) /\ z = <<>>
    OBVIOUS
  <1>2. d.state = "ESCAPE"
    BY <1>1, Fields
  <1>3. PICK e, e2 : e = hdlcAppend(d, y) /\ e2 = [e EXCEPT !.state = "DATA"]
    OBVIOUS
  <1>4. e = Decoder("ESCAPE", b2, c2, z)
    BY <1>1, <1>3, Appended
  <1>5. e2 = Decoder("DATA", b2, c2, z)
    BY <1>3, <1>4, SetState
  <1>6. addByte(d, x) = e2
    BY <1>2, <1>3 DEF addByte
  <1>7. Answers("ESCAPE", b, c, x, "DATA", b2, c2, z)
    BY <1>1, <1>5, <1>6 DEF Answers
  <1>8. readByte(Reader("ESCAPE", b, c, g), x) = Reader("DATA", b2, c2, g)
    BY <1>1, <1>7, ByteRead
  <1>9. QED BY <1>1, <1>8

LEMMA ByteEscape ==
    ASSUME NEW s, s # "ESCAPE", NEW b, NEW c, NEW g
    PROVE  readByte(Reader(s, b, c, g), HDLC_ESCCHAR) = Reader("ESCAPE", b, c, g)
  <1>1. PICK d, z : d = Decoder(s, b, c, <<>>) /\ z = <<>>
    OBVIOUS
  <1>2. d.state = s /\ d = Decoder(s, b, c, z)
    BY <1>1, Fields
  <1>3. PICK e, e2 : e = [d EXCEPT !.state = "ESCAPE"] /\ e2 = [e EXCEPT !.frame = z]
    OBVIOUS
  <1>4. e = Decoder("ESCAPE", b, c, z)
    BY <1>2, <1>3, SetState
  <1>5. e2 = [e EXCEPT !.frame = z]
    BY <1>3
  <1>6. e2 = Decoder("ESCAPE", b, c, z)
    BY <1>4, <1>5 DEF Decoder
  <1>7. e2 = [d EXCEPT !.state = "ESCAPE", !.frame = z]
    BY <1>3
  <1>8. addByte(d, HDLC_ESCCHAR) = [d EXCEPT !.state = "ESCAPE", !.frame = z]
    BY <1>1, <1>2 DEF addByte
  <1>9. Answers(s, b, c, HDLC_ESCCHAR, "ESCAPE", b, c, z)
    BY <1>1, <1>6, <1>7, <1>8 DEF Answers
  <1>10. QED BY <1>1, <1>9, ByteRead

LEMMA ByteData ==
    ASSUME NEW s, s # "ESCAPE", NEW b, NEW c, NEW g, NEW x, x # HDLC_ESCCHAR, x # HDLC_PADDING
    PROVE  readByte(Reader(s, b, c, g), x) = Reader(s, Append(b, x), addOneByteToFcs16(c, x), g)
  <1>1. PICK d, b2, c2, z : /\ d = Decoder(s, b, c, <<>>)
                            /\ b2 = Append(b, x) /\ c2 = addOneByteToFcs16(c, x) /\ z = <<>>
    OBVIOUS
  <1>2. d.state = s
    BY <1>1, Fields
  <1>3. addByte(d, x) = hdlcAppend(d, x)
    BY <1>2 DEF addByte
  <1>4. hdlcAppend(d, x) = Decoder(s, b2, c2, z)
    BY <1>1, Appended
  <1>5. Answers(s, b, c, x, s, b2, c2, z)
    BY <1>1, <1>3, <1>4 DEF Answers
  <1>6. readByte(Reader(s, b, c, g), x) = Reader(s, b2, c2, g)
    BY <1>1, <1>5, ByteRead
  <1>7. QED BY <1>1, <1>6

LEMMA ResetWith == ASSUME NEW m PROVE [hdlcReset EXCEPT !.frame = m] = Decoder("COMPLETE", <<>>, initFcs16, m)
  <1>1. PICK h, z : h = hdlcReset /\ z = <<>>
    OBVIOUS
  <1>2. PICK e : e = [h EXCEPT !.frame = m]
    OBVIOUS
  <1>3. h = Decoder("COMPLETE", z, initFcs16, z)
    BY <1>1 DEF hdlcReset, Decoder
  <1>4. e = Decoder("COMPLETE", z, initFcs16, m)
    BY <1>2, <1>3 DEF Decoder
  <1>5. QED BY <1>1, <1>2, <1>4

\* A padding hands on what is in the buffer but its check sequence, when that is right.
FrameOf(m, b, c) == m = IF Len(b) > 2 /\ closeFcs16(c) = 3911 THEN SubSeq(b, 1, Len(b) - 2) ELSE <<>>

LEMMA BytePadding ==
    ASSUME NEW s, s # "ESCAPE", NEW b, NEW c, NEW g, NEW m, FrameOf(m, b, c)
    PROVE  /\ m = <<>> => readByte(Reader(s, b, c, g), HDLC_PADDING) = Reader("COMPLETE", <<>>, initFcs16, g)
           /\ m # <<>> => readByte(Reader(s, b, c, g), HDLC_PADDING) = Reader("COMPLETE", <<>>, initFcs16, Append(g, m))
  <1>1. HDLC_PADDING # HDLC_ESCCHAR
    BY DEF HDLC_PADDING, HDLC_ESCCHAR
  <1>2. PICK d, z : d = Decoder(s, b, c, <<>>) /\ z = <<>>
    OBVIOUS
  <1>3. d.state = s /\ d.buffer = b /\ d.fcs = c
    BY <1>2, Fields
  <1>4. addByte(d, HDLC_PADDING) = [hdlcReset EXCEPT !.frame = m]
    BY <1>1, <1>3 DEF addByte, validateChecksum, FrameOf
  <1>5. addByte(d, HDLC_PADDING) = Decoder("COMPLETE", z, initFcs16, m)
    BY <1>2, <1>4, ResetWith
  <1>6. Answers(s, b, c, HDLC_PADDING, "COMPLETE", z, initFcs16, m)
    BY <1>2, <1>5 DEF Answers
  <1>7. /\ m = <<>> => readByte(Reader(s, b, c, g), HDLC_PADDING) = Reader("COMPLETE", z, initFcs16, g)
        /\ m # <<>> => readByte(Reader(s, b, c, g), HDLC_PADDING) = Reader("COMPLETE", z, initFcs16, Append(g, m))
    BY <1>6, ByteRead
  <1>8. QED BY <1>2, <1>7
-----------------------------------------------------------------------------
(* A frame *)

LEMMA XorEscape == Xor(126, 32) = 94 /\ Xor(94, 32) = 126 /\ Xor(125, 32) = 93 /\ Xor(93, 32) = 125
  BY SMT DEF Xor

\* What EscapeByte makes of a byte is read as the byte.
LEMMA EscapeRead ==
    ASSUME NEW s, s # "ESCAPE", NEW b, NEW c, NEW g, NEW x
    PROVE  /\ IsSeq(EscapeByte(x))
           /\ \E t : t # "ESCAPE" /\ readBytes(Reader(s, b, c, g), EscapeByte(x)) = Reader(t, Append(b, x), addOneByteToFcs16(c, x), g)
  <1>1. PICK r : r = Reader(s, b, c, g)
    OBVIOUS
  <1>2. CASE x \in {HDLC_PADDING, HDLC_ESCCHAR}
    <2>1. PICK y : y = Xor(x, HDLC_XORBYTE)
      OBVIOUS
    <2>2. Xor(y, HDLC_XORBYTE) = x
      BY <1>2, <2>1, XorEscape DEF HDLC_PADDING, HDLC_ESCCHAR, HDLC_XORBYTE
    <2>3. EscapeByte(x) = <<HDLC_ESCCHAR, y>>
      BY <1>2, <2>1 DEF EscapeByte
    <2>4. IsSeq(EscapeByte(x)) /\ readBytes(r, EscapeByte(x)) = readByte(readByte(r, HDLC_ESCCHAR), y)
      BY <2>3, ReadTwo
    <2>5. readByte(r, HDLC_ESCCHAR) = Reader("ESCAPE", b, c, g)
      BY <1>1, ByteEscape
    <2>6. readByte(Reader("ESCAPE", b, c, g), y) = Reader("DATA", Append(b, x), addOneByteToFcs16(c, x), g)
      BY <2>2, ByteEscaped
    <2>7. QED BY <1>1, <2>4, <2>5, <2>6
  <1>3. CASE x \notin {HDLC_PADDING, HDLC_ESCCHAR}
    <2>1. EscapeByte(x) = <<x>>
      BY <1>3 DEF EscapeByte
    <2>2. IsSeq(EscapeByte(x)) /\ readBytes(r, EscapeByte(x)) = readByte(r, x)
      BY <2>1, ReadOne
    <2>3. readByte(r, x) = Reader(s, Append(b, x), addOneByteToFcs16(c, x), g)
      BY <1>1, <1>3, ByteData
    <2>4. QED BY <1>1, <2>2, <2>3
  <1>4. QED BY <1>2, <1>3

\* The buffer a has grown into b by n bytes of src.
Grown(a, b, src, n) == /\ IsSeq(b) /\ Len(b) = Len(a) + n
                       /\ \A i \in 1..Len(a) : b[i] = a[i]
                       /\ \A i \in 1..n : b[Len(a) + i] = src[i]

LEMMA GrownNone == ASSUME NEW a, IsSeq(a), NEW src PROVE Grown(a, a, src, 0)
  <1>1. Len(a) \in Nat
    BY SeqNat
  <1>2. Len(a) = Len(a) + 0
    BY <1>1
  <1>3. QED BY <1>2 DEF Grown

LEMMA GrownMore ==
    ASSUME NEW a, IsSeq(a), NEW b, NEW src, NEW n \in Nat, n > 0, Grown(a, b, src, n - 1), NEW c, c = Append(b, src[n])
    PROVE  Grown(a, c, src, n)
  <1>1. PICK k, l : k = Len(a) /\ l = Len(b)
    OBVIOUS
  <1>2. k \in Nat /\ l \in Nat /\ l = k + n - 1 /\ IsSeq(b)
    BY <1>1, SeqNat DEF Grown
  <1>3. /\ IsSeq(c) /\ Len(c) = l + 1 /\ c[l + 1] = src[n]
        /\ \A i \in 1..l : c[i] = b[i]
    <2>1. PICK x : x = src[n]
      OBVIOUS
    <2>2. IsSeq(b)
      BY <1>2
    <2>3. /\ IsSeq(Append(b, x)) /\ Len(Append(b, x)) = Len(b) + 1 /\ Append(b, x)[Len(b) + 1] = x
          /\ \A i \in 1..Len(b) : Append(b, x)[i] = b[i]
      BY <2>2, OpsAdd
    <2>4. QED BY <1>1, <2>1, <2>3
  <1>4. \A i \in 1..k : c[i] = a[i]
    <2>1. \A i \in 1..k : i \in 1..l
      BY <1>2
    <2>2. QED BY <1>1, <1>3, <2>1 DEF Grown
  <1>5. ASSUME NEW i \in 1..n PROVE c[k + i] = src[i]
    <2>1. CASE i = n
      <3>1. k + i = l + 1
        BY <1>2, <2>1
      <3>2. QED BY <1>3, <2>1, <3>1
    <2>2. CASE i # n
      <3>1. i \in 1..n - 1 /\ k + i \in 1..l
        BY <1>2, <2>2
      <3>2. QED BY <1>1, <1>3, <3>1 DEF Grown
    <2>3. QED BY <2>1, <2>2
  <1>6. Len(c) = k + n
    BY <1>2, <1>3
  <1>7. QED BY <1>1, <1>3, <1>4, <1>5, <1>6 DEF Grown

\* The reader after the first n bytes of src, behind the escaped form e of them.
BodyAs(r, e, a, src, h, g, n) ==
    /\ IsSeq(e)
    /\ \E t, b : t # "ESCAPE" /\ readBytes(r, e) = Reader(t, b, h[n], g) /\ (IsSeq(a) => Grown(a, b, src, n))

LEMMA BodyMore ==
    ASSUME NEW r, NEW e, NEW a, NEW src, NEW h, NEW g, NEW n \in Nat, n > 0, BodyAs(r, e, a, src, h, g, n - 1),
           h[n] = addOneByteToFcs16(h[n - 1], src[n]), NEW e2, e2 = e \o EscapeByte(src[n])
    PROVE  BodyAs(r, e2, a, src, h, g, n)
  <1>1. PICK t, b : t # "ESCAPE" /\ readBytes(r, e) = Reader(t, b, h[n - 1], g) /\ (IsSeq(a) => Grown(a, b, src, n - 1))
    BY DEF BodyAs
  <1>2. PICK x, c, b2 : x = src[n] /\ c = h[n - 1] /\ b2 = Append(b, x)
    OBVIOUS
  <1>3. IsSeq(e) /\ IsSeq(EscapeByte(x))
    BY EscapeRead DEF BodyAs
  <1>4. PICK t2 : t2 # "ESCAPE" /\ readBytes(Reader(t, b, c, g), EscapeByte(x)) = Reader(t2, b2, addOneByteToFcs16(c, x), g)
    BY <1>1, <1>2, EscapeRead
  <1>5. readBytes(r, e \o EscapeByte(x)) = readBytes(readBytes(r, e), EscapeByte(x))
    BY <1>3, ReadCat
  <1>6. readBytes(r, e2) = Reader(t2, b2, h[n], g)
    BY <1>1, <1>2, <1>4, <1>5
  <1>7. IsSeq(e2)
    BY <1>2, <1>3, SeqCat
  <1>8. IsSeq(a) => Grown(a, b2, src, n)
    BY <1>1, <1>2, GrownMore
  <1>9. QED BY <1>4, <1>6, <1>7, <1>8 DEF BodyAs

\* appendHDLC escapes src so that it is read as src.
LEMMA BodyRead ==
    ASSUME NEW r, NEW dst, NEW src, IsSeq(dst), IsSeq(src), NEW s, NEW b, NEW c, NEW g, s # "ESCAPE",
           readBytes(r, dst) = Reader(s, b, c, g), NEW h, SummedAs(h, c, src)
    PROVE  BodyAs(r, appendHDLC(dst, src), b, src, h, g, Len(src))
  <1>1. PICK f : EscapedAs(f, dst, src)
    BY AppendHDLC
  <1>2. PICK n \in Nat : n = Len(src)
    BY SeqNat
  <1>3. /\ f[0] = dst /\ appendHDLC(dst, src) = f[n] /\ h[0] = c
        /\ \A i \in 1..n : f[i] = f[i - 1] \o EscapeByte(src[i]) /\ h[i] = addOneByteToFcs16(h[i - 1], src[i])
    BY <1>1, <1>2 DEF EscapedAs, SummedAs
  <1> DEFINE T == {i \in 0..n : ~BodyAs(r, f[i], b, src, h, g, i)}
  <1>4. 0 \notin T
    <2>1. IsSeq(b) => Grown(b, b, src, 0)
      BY GrownNone
    <2>2. readBytes(r, f[0]) = Reader(s, b, h[0], g) /\ IsSeq(f[0])
      BY <1>3
    <2>3. BodyAs(r, f[0], b, src, h, g, 0)
      BY <2>1, <2>2 DEF BodyAs
    <2>4. QED BY <2>3
  <1>5. ASSUME NEW i \in 1..n, i - 1 \notin T PROVE i \notin T
    <2>1. i - 1 \in 0..n /\ i \in Nat /\ i > 0
      BY <1>2
    <2>2. BodyAs(r, f[i - 1], b, src, h, g, i - 1)
      BY <1>5, <2>1
    <2>3. f[i] = f[i - 1] \o EscapeByte(src[i]) /\ h[i] = addOneByteToFcs16(h[i - 1], src[i])
      BY <1>3
    <2>4. BodyAs(r, f[i], b, src, h, g, i)
      BY <2>1, <2>2, <2>3, BodyMore
    <2>5. QED BY <2>4
  <1>6. T = {}
    <2>1. T \subseteq 0..n /\ \A k \in 1..n : k - 1 \notin T => k \notin T
      BY <1>5
    <2> HIDE DEF T
    <2>2. QED BY <1>2, <1>4, <2>1, NoFirstBad
  <1>7. n \in 0..n
    BY <1>2
  <1>8. BodyAs(r, f[n], b, src, h, g, n)
    BY <1>6, <1>7
  <1>9. QED BY <1>2, <1>3, <1>8

LEMMA CatOne == ASSUME NEW s, IsSeq(s), NEW x PROVE Append(s, x) = s \o <<x>>
  <1>1. PICK S : s \in Seq(S)
    BY DEF IsSeq
  <1>2. PICK T : T = S \cup {x}
    OBVIOUS
  <1>3. s \in Seq(T) /\ x \in T
    BY <1>1, <1>2
  <1>4. QED BY <1>3

LEMMA SomeFrame == ASSUME NEW b, NEW c PROVE \E m : FrameOf(m, b, c)
  <1>1. CASE Len(b) > 2 /\ closeFcs16(c) = 3911
    <2>1. FrameOf(SubSeq(b, 1, Len(b) - 2), b, c)
      BY <1>1 DEF FrameOf
    <2>2. QED BY <2>1
  <1>2. CASE ~(Len(b) > 2 /\ closeFcs16(c) = 3911)
    <2>1. FrameOf(<<>>, b, c)
      BY <1>2 DEF FrameOf
    <2>2. QED BY <2>1
  <1>3. QED BY <1>1, <1>2

\* The check sequence of m, in two bytes.
Fcs(m) == <<computeFCS16(m) % 256, computeFCS16(m) \div 256>>

\* A frame, read from its opening padding on (which leaves the reader in s, b, c and g): a padding is all that is to come.
FrameAs(r, m, a, h, g, t, b, c) ==
    /\ IsSeq(encodeHDLC(m)) /\ t # "ESCAPE"
    /\ readBytes(r, encodeHDLC(m)) = readByte(Reader(t, b, c, g), HDLC_PADDING)
    /\ c = addOneByteToFcs16(addOneByteToFcs16(h[Len(m)], Fcs(m)[1]), Fcs(m)[2])
    /\ IsSeq(a) => \E d : Grown(a, d, m, Len(m)) /\ Grown(d, b, Fcs(m), 2)

LEMMA FrameBody ==
    ASSUME NEW r, NEW m, IsSeq(m), NEW s, NEW b, NEW c, NEW g, s # "ESCAPE", readByte(r, HDLC_PADDING) = Reader(s, b, c, g),
           NEW h, SummedAs(h, c, m)
    PROVE  \E t2, b2, c2 : FrameAs(r, m, b, h, g, t2, b2, c2)
  <1>1. PICK e0, e1, e2, fcs : /\ e0 = <<HDLC_PADDING>> /\ fcs = Fcs(m)
                               /\ e1 = appendHDLC(e0, m) /\ e2 = appendHDLC(e1, fcs)
    OBVIOUS
  <1>2. IsSeq(e0) /\ readBytes(r, e0) = Reader(s, b, c, g)
    BY <1>1, ReadOne
  <1>3. BodyAs(r, e1, b, m, h, g, Len(m))
    BY <1>1, <1>2, BodyRead
  <1>4. PICK t1, b1 : t1 # "ESCAPE" /\ readBytes(r, e1) = Reader(t1, b1, h[Len(m)], g) /\ (IsSeq(b) => Grown(b, b1, m, Len(m)))
    BY <1>3 DEF BodyAs
  <1>5. IsSeq(e1)
    BY <1>3 DEF BodyAs
  <1>6. IsSeq(fcs) /\ Len(fcs) = 2
    <2>1. PICK x, y : fcs = <<x, y>>
      BY <1>1 DEF Fcs
    <2>2. fcs \in Seq({x, y}) /\ Len(fcs) = 2
      BY <2>1
    <2>3. QED BY <2>2 DEF IsSeq
  <1>7. PICK k, k1, k2 : k = h[Len(m)] /\ k1 = addOneByteToFcs16(k, fcs[1]) /\ k2 = addOneByteToFcs16(k1, fcs[2])
    OBVIOUS
  <1>8. PICK h2 : h2 = [i \in 0..2 |-> IF i = 0 THEN k ELSE IF i = 1 THEN k1 ELSE k2]
    OBVIOUS
  <1>9. h2[0] = k /\ h2[1] = k1 /\ h2[2] = k2
    BY <1>8
  <1>10. SummedAs(h2, k, fcs)
    <2>1. ASSUME NEW i \in 1..Len(fcs) PROVE h2[i] = addOneByteToFcs16(h2[i - 1], fcs[i])
      <3>1. i = 1 \/ i = 2
        BY <1>6
      <3>2. CASE i = 1
        BY <1>7, <1>9, <3>2
      <3>3. CASE i = 2
        BY <1>7, <1>9, <3>3
      <3>4. QED BY <3>1, <3>2, <3>3
    <2>2. QED BY <1>9, <2>1 DEF SummedAs
  <1>11. readBytes(r, e1) = Reader(t1, b1, k, g) /\ t1 # "ESCAPE"
    BY <1>4, <1>7
  <1>12. BodyAs(r, e2, b1, fcs, h2, g, Len(fcs))
    BY <1>1, <1>5, <1>6, <1>10, <1>11, BodyRead
  <1>13. BodyAs(r, e2, b1, fcs, h2, g, 2)
    BY <1>6, <1>12
  <1>14. PICK t2, b2 : t2 # "ESCAPE" /\ readBytes(r, e2) = Reader(t2, b2, h2[2], g) /\ (IsSeq(b1) => Grown(b1, b2, fcs, 2))
    BY <1>13 DEF BodyAs
  <1>15. IsSeq(e2)
    BY <1>13 DEF BodyAs
  <1>16. encodeHDLC(m) = Append(e2, HDLC_PADDING)
    BY <1>1 DEF encodeHDLC, Fcs
  <1>17. encodeHDLC(m) = e2 \o <<HDLC_PADDING>>
    BY <1>15, <1>16, CatOne
  <1>18. PICK z : z = <<HDLC_PADDING>>
    OBVIOUS
  <1>19. IsSeq(z) /\ \A q : readBytes(q, z) = readByte(q, HDLC_PADDING)
    BY <1>18, ReadOne
  <1>20. IsSeq(encodeHDLC(m)) /\ readBytes(r, encodeHDLC(m)) = readBytes(readBytes(r, e2), z)
    BY <1>15, <1>17, <1>18, <1>19, ReadCat, SeqCat
  <1>21. readBytes(r, encodeHDLC(m)) = readByte(Reader(t2, b2, k2, g), HDLC_PADDING)
    BY <1>9, <1>14, <1>19, <1>20
  <1>22. IsSeq(b) => Grown(b, b1, m, Len(m)) /\ Grown(b1, b2, Fcs(m), 2)
    BY <1>1, <1>4, <1>14 DEF Grown
  <1>23. k2 = addOneByteToFcs16(addOneByteToFcs16(h[Len(m)], Fcs(m)[1]), Fcs(m)[2])
    BY <1>1, <1>7
  <1>24. FrameAs(r, m, b, h, g, t2, b2, k2)
    BY <1>14, <1>20, <1>21, <1>22, <1>23 DEF FrameAs
  <1>25. QED BY <1>24

\* Whatever the decoder has been through, a frame in one piece leaves it as new.
LEMMA FrameResets ==
    ASSUME NEW s, NEW b, NEW c, NEW g, NEW m, IsSeq(m)
    PROVE  IsSeq(encodeHDLC(m)) /\ \E g2 : readBytes(Reader(s, b, c, g), encodeHDLC(m)) = Reader("COMPLETE", <<>>, initFcs16, g2)
  <1>1. PICK r : r = Reader(s, b, c, g)
    OBVIOUS
  <1>2. PICK s1, b1, c1, g1 : s1 # "ESCAPE" /\ readByte(r, HDLC_PADDING) = Reader(s1, b1, c1, g1)
    <2>1. CASE s = "ESCAPE"
      BY <1>1, <2>1, ByteEscaped
    <2>2. CASE s # "ESCAPE"
      <3>1. PICK k : FrameOf(k, b, c)
        BY SomeFrame
      <3>2. \E g1 : readByte(r, HDLC_PADDING) = Reader("COMPLETE", <<>>, initFcs16, g1)
        BY <1>1, <2>2, <3>1, BytePadding
      <3>3. QED BY <3>2
    <2>3. QED BY <2>1, <2>2
  <1>3. PICK h : SummedAs(h, c1, m)
    BY Summed
  <1>4. PICK t2, b2, c2 : FrameAs(r, m, b1, h, g1, t2, b2, c2)
    BY <1>2, <1>3, FrameBody
  <1>5. /\ IsSeq(encodeHDLC(m)) /\ t2 # "ESCAPE"
        /\ readBytes(r, encodeHDLC(m)) = readByte(Reader(t2, b2, c2, g1), HDLC_PADDING)
    BY <1>4 DEF FrameAs
  <1>6. PICK k : FrameOf(k, b2, c2)
    BY SomeFrame
  <1>7. \E g2 : readByte(Reader(t2, b2, c2, g1), HDLC_PADDING) = Reader("COMPLETE", <<>>, initFcs16, g2)
    BY <1>5, <1>6, BytePadding
  <1>8. QED BY <1>1, <1>5, <1>7

\* A decoder that is as new hands on the message of a frame.
LEMMA FrameDelivers ==
    ASSUME NEW g, NEW m, m \in Seq(0..255), m # <<>>
    PROVE  /\ IsSeq(encodeHDLC(m))
           /\ readBytes(Reader("COMPLETE", <<>>, initFcs16, g), encodeHDLC(m)) = Reader("COMPLETE", <<>>, initFcs16, Append(g, m))
  <1>1. PICK r, z : r = Reader("COMPLETE", <<>>, initFcs16, g) /\ z = <<>>
    OBVIOUS
  <1>2. PICK n \in Nat : n = Len(m) /\ n > 0
    OBVIOUS
  <1>3. IsSeq(m) /\ \A i \in 1..n : m[i] \in 0..255
    <2>1. IsSeq(m)
      BY DEF IsSeq
    <2>2. \A i \in 1..n : m[i] \in 0..255
      BY <1>2
    <2>3. QED BY <2>1, <2>2
  <1>4. IsSeq(z) /\ Len(z) = 0
    <2>1. z \in Seq({}) /\ Len(z) = 0
      BY <1>1
    <2>2. QED BY <2>1 DEF IsSeq
  <1>5. readByte(r, HDLC_PADDING) = Reader("COMPLETE", z, initFcs16, g)
    <2>1. FrameOf(z, z, initFcs16)
      BY <1>1, <1>4 DEF FrameOf
    <2>2. QED BY <1>1, <2>1, BytePadding
  <1>6. PICK h : SummedAs(h, initFcs16, m) /\ computeFCS16(m) = closeFcs16(h[Len(m)])
    BY <1>3, Summed
  <1>7. PICK t2, b2, c2 : FrameAs(r, m, z, h, g, t2, b2, c2)
    BY <1>3, <1>5, <1>6, FrameBody
  <1>8. /\ IsSeq(encodeHDLC(m)) /\ t2 # "ESCAPE"
        /\ readBytes(r, encodeHDLC(m)) = readByte(Reader(t2, b2, c2, g), HDLC_PADDING)
        /\ c2 = addOneByteToFcs16(addOneByteToFcs16(h[Len(m)], Fcs(m)[1]), Fcs(m)[2])
    BY <1>7 DEF FrameAs
  <1>9. PICK d : Grown(z, d, m, Len(m)) /\ Grown(d, b2, Fcs(m), 2)
    BY <1>4, <1>7 DEF FrameAs
  <1>10. \A i \in 1..n : h[i] = addOneByteToFcs16(h[i - 1], m[i])
    BY <1>2, <1>6 DEF SummedAs
  <1>11. Word(h[n])
    <2> DEFINE T == {i \in 0..n : ~Word(h[i])}
    <2>1. 0 \notin T
      <3>1. h[0] = 65535
        BY <1>6 DEF SummedAs, initFcs16
      <3>2. QED BY <3>1, SMT DEF Word
    <2>2. ASSUME NEW i \in 1..n, i - 1 \notin T PROVE i \notin T
      <3>1. i - 1 \in 0..n
        BY <1>2
      <3>2. Word(h[i - 1]) /\ m[i] \in 0..255
        BY <1>3, <2>2, <3>1
      <3>3. Word(addOneByteToFcs16(h[i - 1], m[i]))
        BY <3>2, SumWord
      <3>4. Word(h[i])
        BY <1>10, <3>3
      <3>5. QED BY <3>4
    <2>3. T = {}
      <3>1. T \subseteq 0..n /\ \A k \in 1..n : k - 1 \notin T => k \notin T
        BY <2>2
      <3> HIDE DEF T
      <3>2. QED BY <1>2, <2>1, <3>1, NoFirstBad
    <2>4. n \in 0..n
      BY <1>2
    <2>5. QED BY <2>3, <2>4
  <1>12. closeFcs16(c2) = 3911
    <2>1. PICK f, c, lo, hi : f = h[n] /\ c = closeFcs16(f) /\ lo = c % 256 /\ hi = c \div 256
      OBVIOUS
    <2>2. Fcs(m)[1] = lo /\ Fcs(m)[2] = hi
      BY <1>2, <1>6, <2>1 DEF Fcs
    <2>3. c2 = addOneByteToFcs16(addOneByteToFcs16(f, lo), hi)
      BY <1>2, <1>8, <2>1, <2>2
    <2>4. Word(f)
      BY <1>11, <2>1
    <2>5. closeFcs16(addOneByteToFcs16(addOneByteToFcs16(f, lo), hi)) = 3911
      BY <2>1, <2>4, Residue
    <2>6. QED BY <2>3, <2>5
  <1>13. IsSeq(d) /\ Len(d) = n /\ \A i \in 1..n : d[i] = m[i]
    <2>1. IsSeq(d) /\ Len(d) = 0 + n /\ \A i \in 1..n : d[0 + i] = m[i]
      BY <1>2, <1>4, <1>9 DEF Grown
    <2>2. \A i \in 1..n : 0 + i = i
      BY <1>2
    <2>3. QED BY <1>2, <2>1, <2>2
  <1>14. IsSeq(b2) /\ Len(b2) = n + 2 /\ \A i \in 1..n : b2[i] = m[i]
    BY <1>9, <1>13 DEF Grown
  <1>15. SubSeq(b2, 1, Len(b2) - 2) = m
    <2>1. PICK S : b2 \in Seq(S)
      BY <1>14 DEF IsSeq
    <2>2. PICK q : q = SubSeq(b2, 1, n)
      OBVIOUS
    <2>3. q \in Seq(S) /\ Len(q) = n /\ \A i \in 1..n : q[i] = b2[i]
      BY <1>2, <1>14, <2>1, <2>2
    <2>4. q = [i \in 1..n |-> q[i]]
      BY <2>3
    <2>5. m = [i \in 1..n |-> m[i]]
      BY <1>2
    <2>6. \A i \in 1..n : q[i] = m[i]
      BY <1>14, <2>3
    <2>7. q = m
      BY <2>4, <2>5, <2>6
    <2>8. Len(b2) - 2 = n
      BY <1>2, <1>14
    <2>9. QED BY <2>2, <2>7, <2>8
  <1>16. FrameOf(m, b2, c2)
    <2>1. Len(b2) > 2
      BY <1>2, <1>14
    <2>2. QED BY <1>12, <1>15, <2>1 DEF FrameOf
  <1>17. readByte(Reader(t2, b2, c2, g), HDLC_PADDING) = Reader("COMPLETE", <<>>, initFcs16, Append(g, m))
    BY <1>8, <1>16, BytePadding
  <1>18. QED BY <1>1, <1>8, <1>17

\* A frame is not empty: it changes a decoder that has just read an escape.
LEMMA FrameNotEmpty == ASSUME NEW m, IsSeq(m) PROVE encodeHDLC(m) # <<>>
  <1>1. SUFFICES ASSUME encodeHDLC(m) = <<>> PROVE FALSE
    OBVIOUS
  <1>2. PICK r, q : r = Reader("ESCAPE", 0, 0, 0) /\ q = readBytes(r, encodeHDLC(m))
    OBVIOUS
  <1>3. PICK g : q = Reader("COMPLETE", <<>>, initFcs16, g)
    BY <1>2, FrameResets
  <1>4. q = r
    BY <1>1, <1>2, ReadNone
  <1>5. PICK d : d = r.dec
    OBVIOUS
  <1>6. d = Decoder("ESCAPE", 0, 0, <<>>) /\ d = Decoder("COMPLETE", <<>>, initFcs16, <<>>)
    BY <1>2, <1>3, <1>4, <1>5 DEF Reader
  <1>7. d.state = "ESCAPE" /\ d.state = "COMPLETE"
    BY <1>6, Fields
  <1>8. QED BY <1>7
-----------------------------------------------------------------------------
(* What is on the line *)

Messages == Seq(0..255) \ {<<>>}

AsNew(r, g) == r = Reader("COMPLETE", <<>>, initFcs16, g)

LineType == /\ IsSeq(line) /\ IsSeq(got) /\ sent \in Seq(Messages)
            /\ \E s, b, c : dec = Decoder(s, b, c, <<>>)

TodoType == /\ todo \in [Writers -> Seq(Messages)]
            /\ \A w \in Writers : wr[w] # Idle => todo[w] # <<>>

DataType == \A i \in 1..Len(ops) : IsSeq(ops[i].data)

\* What the decoder will have read ends in a frame in one piece, or it has read all and is as new.
WholeInv == whole => \/ line = <<>> /\ dec = hdlcReset
                     \/ \E l, m : IsSeq(l) /\ IsSeq(m) /\ line = l \o encodeHDLC(m)

\* What is still to be written.
Pending(o, p) == (o = <<>> /\ p = <<>>) \/ (o # <<>> /\ Tail(o) = <<>> /\ p = o[1].data)

\* Once the line and what is still to be written are read, all that was sent has arrived.
CleanInv == clean => \E p : Pending(ops, p) /\ AsNew(readBytes([dec |-> dec, got |-> got], line \o p), sent)

LineInv == PoolInv /\ LineType /\ TodoType /\ DataType /\ WholeInv /\ CleanInv

LEMMA NoneIsSeq == IsSeq(<<>>)
  <1>1. <<>> \in Seq({})
    OBVIOUS
  <1>2. QED BY <1>1 DEF IsSeq

LEMMA CatNone == ASSUME NEW s, IsSeq(s), NEW z, z = <<>> PROVE s \o z = s
  <1>1. PICK S : s \in Seq(S)
    BY DEF IsSeq
  <1>2. QED BY <1>1

LEMMA CatTwice == ASSUME NEW s, IsSeq(s), NEW t, IsSeq(t), NEW u, IsSeq(u) PROVE (s \o t) \o u = s \o (t \o u)
  <1>1. PICK S : s \in Seq(S)
    BY DEF IsSeq
  <1>2. PICK T : t \in Seq(T)
    BY DEF IsSeq
  <1>3. PICK U : u \in Seq(U)
    BY DEF IsSeq
  <1>4. PICK V : V = S \cup T \cup U
    OBVIOUS
  <1>5. s \in Seq(V) /\ t \in Seq(V) /\ u \in Seq(V)
    BY <1>1, <1>2, <1>3, <1>4
  <1>6. QED BY <1>5

\* A sequence in two parts.
Split(d, n, a, b) == a = SubSeq(d, 1, n) /\ b = SubSeq(d, n + 1, Len(d))

LEMMA Parts ==
    ASSUME NEW d, IsSeq(d), NEW n \in 0..Len(d), NEW a, NEW b, Split(d, n, a, b)
    PROVE  IsSeq(a) /\ IsSeq(b) /\ a \o b = d
  <1>1. PICK S : d \in Seq(S)
    BY DEF IsSeq
  <1>2. Len(d) \in Nat
    BY SeqNat
  <1>3. a \in Seq(S) /\ Len(a) = n /\ \A i \in 1..n : a[i] = d[i]
    BY <1>1, <1>2 DEF Split
  <1>4. b \in Seq(S) /\ Len(b) = Len(d) - n /\ \A i \in 1..Len(d) - n : b[i] = d[n + i]
    BY <1>1, <1>2 DEF Split
  <1>5. IsSeq(a) /\ IsSeq(b)
    BY <1>3, <1>4 DEF IsSeq
  <1>6. PICK c : c = a \o b
    OBVIOUS
  <1>7. c \in Seq(S) /\ Len(c) = Len(d)
    <2>1. a \in Seq(S) /\ b \in Seq(S)
      BY <1>3, <1>4
    <2>2. c \in Seq(S) /\ Len(c) = Len(a) + Len(b)
      BY <1>6, <2>1
    <2>3. n + (Len(d) - n) = Len(d)
      BY <1>2
    <2>4. QED BY <1>3, <1>4, <2>2, <2>3
  <1>8. ASSUME NEW i \in 1..Len(d) PROVE c[i] = d[i]
    <2>1. CASE i <= n
      BY <1>2, <1>3, <1>4, <1>6, <2>1
    <2>2. CASE ~(i <= n)
      <3>1. i - n \in 1..Len(d) - n /\ n + (i - n) = i
        BY <1>2, <2>2
      <3>2. c[i] = b[i - n]
        <4>1. \A j \in 1..Len(b) : (a \o b)[Len(a) + j] = b[j]
          BY <1>5, SeqCat
        <4>2. (a \o b)[n + (i - n)] = b[i - n]
          BY <1>3, <1>4, <3>1, <4>1
        <4>3. QED BY <1>6, <3>1, <4>2
      <3>3. QED BY <1>4, <3>1, <3>2
    <2>3. QED BY <2>1, <2>2
  <1>9. c = [i \in 1..Len(d) |-> c[i]] /\ d = [i \in 1..Len(d) |-> d[i]]
    BY <1>1, <1>7
  <1>10. c = d
    BY <1>8, <1>9
  <1>11. QED BY <1>5, <1>6, <1>10

\* The bytes of a reading, typed.
LEMMA ReaderKept ==
    ASSUME NEW r, NEW x, \E s, b, c, g : r = Reader(s, b, c, g)
    PROVE  /\ \E s, b, c, g : readByte(r, x) = Reader(s, b, c, g)
           /\ readByte(r, x).got = r.got \/ \E m : readByte(r, x).got = Append(r.got, m)
  <1>1. PICK s, b, c, g : r = Reader(s, b, c, g)
    OBVIOUS
  <1>2. \A t, d, e, f : Reader(t, d, e, f).got = f
    BY DEF Reader
  <1>3. CASE s = "ESCAPE"
    <2>1. PICK y : y = Xor(x, HDLC_XORBYTE)
      OBVIOUS
    <2>2. readByte(r, x) = Reader("DATA", Append(b, y), addOneByteToFcs16(c, y), g)
      BY <1>1, <1>3, <2>1, ByteEscaped
    <2>3. QED BY <1>1, <1>2, <2>2
  <1>4. CASE s # "ESCAPE" /\ x = HDLC_ESCCHAR
    BY <1>1, <1>2, <1>4, ByteEscape
  <1>5. CASE s # "ESCAPE" /\ x = HDLC_PADDING
    <2>1. PICK m : FrameOf(m, b, c)
      BY SomeFrame
    <2>2. \/ readByte(r, x) = Reader("COMPLETE", <<>>, initFcs16, g)
          \/ readByte(r, x) = Reader("COMPLETE", <<>>, initFcs16, Append(g, m))
      BY <1>1, <1>5, <2>1, BytePadding
    <2>3. r.got = g
      BY <1>1, <1>2
    <2>4. CASE readByte(r, x) = Reader("COMPLETE", <<>>, initFcs16, g)
      <3>1. readByte(r, x).got = g
        BY <1>2, <2>4
      <3>2. QED BY <2>3, <2>4, <3>1
    <2>5. CASE readByte(r, x) = Reader("COMPLETE", <<>>, initFcs16, Append(g, m))
      <3>1. readByte(r, x).got = Append(g, m)
        <4>1. PICK k, q : k = Append(g, m) /\ q = readByte(r, x)
          OBVIOUS
        <4>2. q = Reader("COMPLETE", <<>>, initFcs16, k)
          BY <2>5, <4>1
        <4>3. q.got = k
          BY <1>2, <4>2
        <4>4. QED BY <4>1, <4>3
      <3>2. QED BY <2>3, <2>5, <3>1
    <2>6. QED BY <2>2, <2>4, <2>5
  <1>6. CASE s # "ESCAPE" /\ x # HDLC_ESCCHAR /\ x # HDLC_PADDING
    <2>1. readByte(r, x) = Reader(s, Append(b, x), addOneByteToFcs16(c, x), g)
      BY <1>1, <1>6, ByteData
    <2>2. QED BY <1>1, <1>2, <2>1
  <1>7. QED BY <1>3, <1>4, <1>5, <1>6

\* t begins with s.
Begins(s, t) == IsSeq(t) /\ Len(s) <= Len(t) /\ \A i \in 1..Len(s) : t[i] = s[i]

LEMMA BeginsMore == ASSUME NEW s, IsSeq(s), NEW t, Begins(s, t), NEW m PROVE Begins(s, Append(t, m))
  <1>1. IsSeq(t) /\ Len(s) \in Nat
    BY SeqNat DEF Begins
  <1>2. /\ IsSeq(Append(t, m)) /\ Len(Append(t, m)) = Len(t) + 1 /\ Len(t) \in Nat
        /\ \A i \in 1..Len(t) : Append(t, m)[i] = t[i]
    BY <1>1, OpsAdd
  <1>3. Len(s) <= Len(t)
    BY DEF Begins
  <1>4. Len(s) <= Len(Append(t, m)) /\ \A i \in 1..Len(s) : i \in 1..Len(t)
    BY <1>1, <1>2, <1>3
  <1>5. QED BY <1>2, <1>4 DEF Begins

\* A reading keeps the type of the reader, and what was handed on stays handed on.
ReaderAs(r, g) == (\E s, b, c, k : r = Reader(s, b, c, k)) /\ Begins(g, r.got)

LEMMA ReadingKept ==
    ASSUME NEW r, NEW g, IsSeq(g), ReaderAs(r, g), NEW s, IsSeq(s)
    PROVE  ReaderAs(readBytes(r, s), g)
  <1>1. PICK f : ReadAs(f, r, s)
    BY ReadBytes
  <1>2. PICK n \in Nat : n = Len(s)
    BY SeqNat
  <1>3. /\ f[0] = r /\ readBytes(r, s) = f[n]
        /\ \A i \in 1..n : f[i] = readByte(f[i - 1], s[i])
    BY <1>1, <1>2 DEF ReadAs
  <1> DEFINE T == {i \in 0..n : ~ReaderAs(f[i], g)}
  <1>4. 0 \notin T
    BY <1>3
  <1>5. ASSUME NEW i \in 1..n, i - 1 \notin T PROVE i \notin T
    <2>1. i - 1 \in 0..n
      BY <1>2
    <2>2. PICK q, x : q = f[i - 1] /\ x = s[i]
      OBVIOUS
    <2>3. ReaderAs(q, g) /\ f[i] = readByte(q, x)
      BY <1>3, <1>5, <2>1, <2>2
    <2>4. /\ \E t, b, c, k : readByte(q, x) = Reader(t, b, c, k)
          /\ readByte(q, x).got = q.got \/ \E m : readByte(q, x).got = Append(q.got, m)
      BY <2>3, ReaderKept DEF ReaderAs
    <2>5. Begins(g, readByte(q, x).got)
      BY <2>3, <2>4, BeginsMore DEF ReaderAs
    <2>6. ReaderAs(f[i], g)
      BY <2>3, <2>4, <2>5 DEF ReaderAs
    <2>7. QED BY <2>6
  <1>6. T = {}
    <2>1. T \subseteq 0..n /\ \A k \in 1..n : k - 1 \notin T => k \notin T
      BY <1>5
    <2> HIDE DEF T
    <2>2. QED BY <1>2, <1>4, <2>1, NoFirstBad
  <1>7. n \in 0..n
    BY <1>2
  <1>8. QED BY <1>3, <1>6, <1>7

LEMMA ReaderNow == LineType => /\ \E s, b, c : [dec |-> dec, got |-> got] = Reader(s, b, c, got)
                               /\ ReaderAs([dec |-> dec, got |-> got], got)
  <1>1. SUFFICES ASSUME LineType PROVE /\ \E s, b, c : [dec |-> dec, got |-> got] = Reader(s, b, c, got)
                                       /\ ReaderAs([dec |-> dec, got |-> got], got)
    OBVIOUS
  <1>2. PICK s, b, c : dec = Decoder(s, b, c, <<>>)
    BY <1>1 DEF LineType
  <1>3. PICK r : r = [dec |-> dec, got |-> got]
    OBVIOUS
  <1>4. r = Reader(s, b, c, got) /\ r.got = got
    BY <1>2, <1>3 DEF Reader
  <1>5. Begins(got, got)
    <2>1. IsSeq(got) /\ Len(got) \in Nat
      BY <1>1, SeqNat DEF LineType
    <2>2. QED BY <2>1 DEF Begins
  <1>6. ReaderAs(r, got)
    BY <1>4, <1>5 DEF ReaderAs
  <1>7. QED BY <1>3, <1>4, <1>6

\* A step that leaves the line alone.
LEMMA LineSame ==
    ASSUME LineInv, UNCHANGED <<ops, line, dec, sent, got, whole, clean>>
    PROVE  LineType' /\ DataType' /\ WholeInv' /\ CleanInv'
  BY DEF LineInv, LineType, DataType, WholeInv, CleanInv

LEMMA SeqHead ==
    ASSUME NEW S, NEW s, s \in Seq(S), s # <<>>
    PROVE  Head(s) \in S /\ Tail(s) \in Seq(S)
  OBVIOUS

LEMMA LineFill ==
    ASSUME LineInv, NEW w \in Writers, writeFill(w)
    PROVE  LineType' /\ TodoType' /\ DataType' /\ WholeInv' /\ CleanInv'
  <1>1. PoolType /\ LineType /\ TodoType /\ DataType /\ WholeInv /\ CleanInv
    BY DEF LineInv, PoolInv
  <1>2. wr[w] # Idle
    <2>1. wr[w].at = "fill"
      BY DEF writeFill
    <2>2. QED BY <2>1 DEF Idle
  <1>3. todo[w] \in Seq(Messages) /\ todo[w] # <<>>
    BY <1>1, <1>2 DEF TodoType
  <1>4. PICK m : m = Head(todo[w])
    OBVIOUS
  <1>5. m \in Messages /\ Tail(todo[w]) \in Seq(Messages)
    BY <1>3, <1>4, SeqHead
  <1>6. m \in Seq(0..255) /\ m # <<>>
    BY <1>5 DEF Messages
  <1>7. IsSeq(m)
    BY <1>6 DEF IsSeq
  <1>8. IsSeq(encodeHDLC(m))
    BY <1>7, FrameResets
  <1>9. PICK data : /\ data = encodeHDLC(m) \/ data = <<>>
                    /\ clean' => clean /\ ops = <<>> /\ data = encodeHDLC(m)
                    /\ ops' = Append(ops, [buf |-> wr[w].buf, data |-> data])
    BY <1>4 DEF writeFill
  <1>10. IsSeq(data)
    BY <1>8, <1>9, NoneIsSeq
  <1>11. line' = line /\ dec' = dec /\ got' = got /\ whole' = whole /\ sent' = Append(sent, m)
    BY <1>4 DEF writeFill
  <1>12. LineType'
    <2>1. sent \in Seq(Messages)
      BY <1>1 DEF LineType
    <2>2. Append(sent, m) \in Seq(Messages)
      BY <1>5, <2>1
    <2>3. QED BY <1>1, <1>11, <2>2 DEF LineType
  <1>13. TodoType'
    <2>1. todo' = [todo EXCEPT ![w] = Tail(todo[w])] /\ wr' = [wr EXCEPT ![w] = Idle]
      BY DEF writeFill
    <2>2. DOMAIN wr = Writers /\ todo \in [Writers -> Seq(Messages)]
      BY <1>1 DEF PoolType, TodoType
    <2>3. todo' \in [Writers -> Seq(Messages)]
      BY <1>5, <2>1, <2>2
    <2>4. ASSUME NEW v \in Writers, wr'[v] # Idle PROVE todo'[v] # <<>>
      <3>1. v # w
        BY <2>1, <2>2, <2>4
      <3>2. wr'[v] = wr[v] /\ todo'[v] = todo[v]
        BY <2>1, <2>2, <3>1
      <3>3. QED BY <1>1, <2>4, <3>2 DEF TodoType
    <2>5. QED BY <2>3, <2>4 DEF TodoType
  <1>14. IsSeq(ops)
    BY <1>1 DEF PoolType
  <1>15. PICK o : o = [buf |-> wr[w].buf, data |-> data]
    OBVIOUS
  <1>16. o.data = data /\ ops' = Append(ops, o)
    BY <1>9, <1>15
  <1>17. /\ \A i \in 1..Len(ops) : Append(ops, o)[i] = ops[i]
         /\ Append(ops, o)[Len(ops) + 1] = o
         /\ \A i \in 1..Len(Append(ops, o)) : i \in 1..Len(ops) \/ i = Len(ops) + 1
    BY <1>14, OpsAdd
  <1>18. DataType'
    BY <1>1, <1>10, <1>16, <1>17 DEF DataType
  <1>19. WholeInv'
    BY <1>1, <1>11 DEF WholeInv
  <1>20. ASSUME clean' PROVE \E p : Pending(ops', p) /\ AsNew(readBytes([dec |-> dec', got |-> got'], line' \o p), sent')
    <2>1. clean /\ ops = <<>> /\ data = encodeHDLC(m)
      BY <1>9, <1>20
    <2>2. PICK p : Pending(ops, p) /\ AsNew(readBytes([dec |-> dec, got |-> got], line \o p), sent)
      BY <1>1, <2>1 DEF CleanInv
    <2>3. p = <<>>
      BY <2>1, <2>2 DEF Pending
    <2>4. IsSeq(line) /\ line \o p = line
      BY <1>1, <2>3, CatNone DEF LineType
    <2>5. PICK r : r = [dec |-> dec, got |-> got]
      OBVIOUS
    <2>6. readBytes(r, line) = Reader("COMPLETE", <<>>, initFcs16, sent)
      BY <2>2, <2>4, <2>5 DEF AsNew
    <2>7. readBytes(r, line \o data) = readBytes(readBytes(r, line), data)
      BY <1>10, <2>4, ReadCat
    <2>8. readBytes(Reader("COMPLETE", <<>>, initFcs16, sent), encodeHDLC(m)) = Reader("COMPLETE", <<>>, initFcs16, Append(sent, m))
      BY <1>6, FrameDelivers
    <2>9. AsNew(readBytes(r, line \o data), Append(sent, m))
      BY <2>1, <2>6, <2>7, <2>8 DEF AsNew
    <2>10. Pending(ops', data)
      <3>1. ops' = <<o>>
        BY <1>16, <2>1
      <3>2. <<o>> # <<>> /\ Tail(<<o>>) = <<>> /\ <<o>>[1] = o
        OBVIOUS
      <3>3. QED BY <1>16, <3>1, <3>2 DEF Pending
    <2>11. QED BY <1>11, <2>5, <2>9, <2>10
  <1>21. CleanInv'
    BY <1>20 DEF CleanInv
  <1>22. QED BY <1>12, <1>13, <1>18, <1>19, <1>21

LEMMA LineTransmit ==
    ASSUME LineInv, transmit
    PROVE  LineType' /\ TodoType' /\ DataType' /\ WholeInv' /\ CleanInv'
  <1>1. PoolType /\ LineType /\ TodoType /\ DataType /\ WholeInv /\ CleanInv
    BY DEF LineInv, PoolInv
  <1>2. PICK op, d : op = Head(ops) /\ d = Head(ops).data
    OBVIOUS
  <1>3. /\ ops # <<>> /\ wr' = wr /\ todo' = todo /\ dec' = dec /\ sent' = sent /\ got' = got /\ clean' = clean
    BY DEF transmit
  <1>4. PICK n, a, b :
             /\ n \in 0..Len(d) /\ a = SubSeq(d, 1, n) /\ b = SubSeq(d, n + 1, Len(d)) /\ line' = line \o a
             /\ \/ b = <<>> /\ ops' = Tail(ops)
                \/ ops' = Append(Tail(ops), [op EXCEPT !.data = b])
             /\ whole' => b = <<>> /\ \E m \in Range(sent) : d = encodeHDLC(m)
    BY <1>2 DEF transmit
  <1>5. IsSeq(ops) /\ op = ops[1] /\ Op(op) /\ d = op.data /\ IsSeq(d)
    <2>1. IsSeq(ops)
      BY <1>1 DEF PoolType
    <2>2. Head(ops) = ops[1] /\ 1 \in 1..Len(ops)
      BY <1>3, <2>1, OpsTail
    <2>3. Op(ops[1]) /\ IsSeq(ops[1].data)
      BY <1>1, <2>2 DEF PoolType, DataType
    <2>4. QED BY <1>2, <2>1, <2>2, <2>3
  <1>6. Split(d, n, a, b) /\ n \in 0..Len(d)
    BY <1>4 DEF Split
  <1>7. IsSeq(a) /\ IsSeq(b) /\ a \o b = d
    BY <1>5, <1>6, Parts
  <1>8. IsSeq(line)
    BY <1>1 DEF LineType
  <1>9. IsSeq(line')
    BY <1>4, <1>7, <1>8, SeqCat
  <1>10. LineType'
    BY <1>1, <1>3, <1>9 DEF LineType
  <1>11. TodoType'
    BY <1>1, <1>3 DEF TodoType
  <1>12. PICK o, t : o = [op EXCEPT !.data = b] /\ t = Tail(ops)
    OBVIOUS
  <1>13. o.data = b
    <2>1. PICK x, y : op = [buf |-> x, data |-> y]
      BY <1>5 DEF Op
    <2>2. QED BY <1>12, <2>1
  <1>14. IsSeq(t) /\ \A i \in 1..Len(t) : IsSeq(t[i].data)
    <2>1. IsSeq(t) /\ \A i \in 1..Len(t) : i + 1 \in 1..Len(ops) /\ t[i] = ops[i + 1]
      BY <1>3, <1>5, <1>12, OpsTail
    <2>2. QED BY <1>1, <2>1 DEF DataType
  <1>15. (b = <<>> /\ ops' = t) \/ ops' = Append(t, o)
    BY <1>4, <1>12
  <1>16. DataType'
    <2>1. CASE ops' = t
      BY <1>14, <2>1 DEF DataType
    <2>2. CASE ops' = Append(t, o)
      <3>1. /\ \A i \in 1..Len(t) : Append(t, o)[i] = t[i]
            /\ Append(t, o)[Len(t) + 1] = o
            /\ \A i \in 1..Len(Append(t, o)) : i \in 1..Len(t) \/ i = Len(t) + 1
        BY <1>14, OpsAdd
      <3>2. QED BY <1>7, <1>13, <1>14, <2>2, <3>1 DEF DataType
    <2>3. QED BY <1>15, <2>1, <2>2
  <1>17. ASSUME whole' PROVE \E l, m : IsSeq(l) /\ IsSeq(m) /\ line' = l \o encodeHDLC(m)
    <2>1. PICK m \in Range(sent) : b = <<>> /\ d = encodeHDLC(m)
      BY <1>4, <1>17
    <2>2. a = d
      BY <1>7, <2>1, CatNone
    <2>3. IsSeq(m)
      <3>1. sent \in Seq(Messages)
        BY <1>1 DEF LineType
      <3>2. PICK i \in DOMAIN sent : m = sent[i]
        BY DEF Range
      <3>3. m \in Messages
        BY <3>1, <3>2
      <3>4. QED BY <3>3 DEF Messages, IsSeq
    <2>4. QED BY <1>4, <1>8, <2>1, <2>2, <2>3
  <1>18. WholeInv'
    BY <1>17 DEF WholeInv
  <1>19. ASSUME clean' PROVE \E p : Pending(ops', p) /\ AsNew(readBytes([dec |-> dec', got |-> got'], line' \o p), sent')
    <2>1. PICK p : Pending(ops, p) /\ AsNew(readBytes([dec |-> dec, got |-> got], line \o p), sent)
      BY <1>1, <1>3, <1>19 DEF CleanInv
    <2>2. t = <<>> /\ p = d
      BY <1>3, <1>5, <1>12, <2>1 DEF Pending
    <2>3. line' \o b = line \o d
      <3>1. (line \o a) \o b = line \o (a \o b)
        <4>1. IsSeq(line) /\ IsSeq(a) /\ IsSeq(b)
          BY <1>7, <1>8
        <4>2. PICK u, v, x : u = line /\ v = a /\ x = b
          OBVIOUS
        <4>3. IsSeq(u) /\ IsSeq(v) /\ IsSeq(x)
          BY <4>1, <4>2
        <4>4. (u \o v) \o x = u \o (v \o x)
          BY <4>3, CatTwice
        <4>5. QED BY <4>2, <4>4
      <3>2. QED BY <1>4, <1>7, <3>1
    <2>4. Pending(ops', b)
      <3>1. CASE b = <<>> /\ ops' = t
        BY <2>2, <3>1 DEF Pending
      <3>2. CASE ops' = Append(t, o)
        <4>1. ops' = <<o>>
          BY <2>2, <3>2
        <4>2. <<o>> # <<>> /\ Tail(<<o>>) = <<>> /\ <<o>>[1] = o
          OBVIOUS
        <4>3. QED BY <1>13, <4>1, <4>2 DEF Pending
      <3>3. QED BY <1>15, <3>1, <3>2
    <2>5. QED BY <1>3, <2>1, <2>2, <2>3, <2>4
  <1>20. CleanInv'
    BY <1>19 DEF CleanInv
  <1>21. QED BY <1>10, <1>11, <1>16, <1>18, <1>20

LEMMA LineRead ==
    ASSUME LineInv, handleRead
    PROVE  LineType' /\ TodoType' /\ DataType' /\ WholeInv' /\ CleanInv'
  <1>1. PoolType /\ LineType /\ TodoType /\ DataType /\ WholeInv /\ CleanInv
    BY DEF LineInv, PoolInv
  <1>2. PICK r, e : r = [dec |-> dec, got |-> got] /\ e = readBytes(r, line)
    OBVIOUS
  <1>3. /\ line # <<>> /\ line' = <<>> /\ dec' = e.dec /\ got' = e.got
        /\ wr' = wr /\ todo' = todo /\ ops' = ops /\ sent' = sent /\ whole' = whole /\ clean' = clean
    BY <1>2 DEF handleRead
  <1>4. IsSeq(line) /\ IsSeq(got)
    BY <1>1 DEF LineType
  <1>5. ReaderAs(r, got)
    BY <1>1, <1>2, ReaderNow
  <1>6. ReaderAs(e, got)
    BY <1>2, <1>4, <1>5, ReadingKept
  <1>7. PICK s, b, c, g : e = Reader(s, b, c, g)
    BY <1>6 DEF ReaderAs
  <1>8. e.dec = Decoder(s, b, c, <<>>) /\ e.got = g /\ e = [dec |-> dec', got |-> got'] /\ IsSeq(e.got)
    <2>1. e.dec = Decoder(s, b, c, <<>>) /\ e.got = g
      BY <1>7 DEF Reader
    <2>2. e = [dec |-> e.dec, got |-> e.got]
      BY <1>7, <2>1 DEF Reader
    <2>3. IsSeq(e.got)
      BY <1>6 DEF ReaderAs, Begins
    <2>4. QED BY <1>3, <2>1, <2>2, <2>3
  <1>9. LineType'
    BY <1>1, <1>3, <1>8, NoneIsSeq DEF LineType
  <1>10. TodoType' /\ DataType'
    BY <1>1, <1>3 DEF TodoType, DataType
  <1>11. ASSUME whole' PROVE dec' = hdlcReset
    <2>1. PICK l, m : IsSeq(l) /\ IsSeq(m) /\ line = l \o encodeHDLC(m)
      BY <1>1, <1>3, <1>11 DEF WholeInv
    <2>2. PICK q : q = readBytes(r, l)
      OBVIOUS
    <2>3. ReaderAs(q, got)
      BY <1>4, <1>5, <2>1, <2>2, ReadingKept
    <2>4. PICK s1, b1, c1, g1 : q = Reader(s1, b1, c1, g1)
      BY <2>3 DEF ReaderAs
    <2>5. IsSeq(encodeHDLC(m)) /\ \E g2 : readBytes(q, encodeHDLC(m)) = Reader("COMPLETE", <<>>, initFcs16, g2)
      BY <2>1, <2>4, FrameResets
    <2>6. e = readBytes(q, encodeHDLC(m))
      BY <1>2, <2>1, <2>2, <2>5, ReadCat
    <2>7. PICK g2 : e = Reader("COMPLETE", <<>>, initFcs16, g2)
      BY <2>5, <2>6
    <2>8. e.dec = Decoder("COMPLETE", <<>>, initFcs16, <<>>)
      BY <2>7 DEF Reader
    <2>9. QED BY <1>3, <2>8 DEF Decoder, hdlcReset
  <1>12. WholeInv'
    BY <1>3, <1>11 DEF WholeInv
  <1>13. ASSUME clean' PROVE \E p : Pending(ops', p) /\ AsNew(readBytes([dec |-> dec', got |-> got'], line' \o p), sent')
    <2>1. PICK p : Pending(ops, p) /\ AsNew(readBytes(r, line \o p), sent)
      BY <1>1, <1>2, <1>3, <1>13 DEF CleanInv
    <2>2. IsSeq(p)
      <3>1. CASE ops = <<>>
        BY <2>1, <3>1, NoneIsSeq DEF Pending
      <3>2. CASE ops # <<>>
        <4>1. IsSeq(ops)
          BY <1>1 DEF PoolType
        <4>2. 1 \in 1..Len(ops)
          BY <3>2, <4>1, OpsTail
        <4>3. QED BY <1>1, <2>1, <3>2, <4>2 DEF Pending, DataType
      <3>3. QED BY <3>1, <3>2
    <2>3. readBytes(r, line \o p) = readBytes(e, p)
      BY <1>2, <1>4, <2>2, ReadCat
    <2>4. line' \o p = p
      <3>1. PICK S : p \in Seq(S)
        BY <2>2 DEF IsSeq
      <3>2. <<>> \o p = p
        BY <3>1
      <3>3. QED BY <1>3, <3>2
    <2>5. QED BY <1>3, <1>8, <2>1, <2>3, <2>4
  <1>14. CleanInv'
    BY <1>13 DEF CleanInv
  <1>15. QED BY <1>9, <1>10, <1>12, <1>14

\* A fault: neither is the line clean any more, nor its last frame in one piece.
LEMMA LineFault ==
    ASSUME LineInv, writeError \/ closePort \/ noise
    PROVE  LineType' /\ TodoType' /\ DataType' /\ WholeInv' /\ CleanInv'
  <1>1. PoolType /\ LineType /\ TodoType /\ DataType
    BY DEF LineInv, PoolInv
  <1>2. ~whole' /\ ~clean' /\ wr' = wr /\ todo' = todo /\ dec' = dec /\ sent' = sent /\ got' = got
    BY DEF writeError, closePort, noise
  <1>3. WholeInv' /\ CleanInv' /\ TodoType'
    BY <1>1, <1>2 DEF WholeInv, CleanInv, TodoType
  <1>4. IsSeq(line')
    <2>1. IsSeq(line)
      BY <1>1 DEF LineType
    <2>2. CASE writeError
      BY <2>1, <2>2 DEF writeError
    <2>3. CASE closePort
      BY <2>3, NoneIsSeq DEF closePort
    <2>4. CASE noise
      <3>1. PICK i \in DOMAIN line, b \in Noise : line' = [line EXCEPT ![i] = b]
        BY <2>4 DEF noise
      <3>2. PICK S : line \in Seq(S)
        BY <2>1 DEF IsSeq
      <3>3. PICK T : T = S \cup {b}
        OBVIOUS
      <3>4. line \in Seq(T) /\ b \in T
        BY <3>2, <3>3
      <3>5. [line EXCEPT ![i] = b] \in Seq(T)
        BY <3>1, <3>4
      <3>6. QED BY <3>1, <3>5 DEF IsSeq
    <2>5. QED BY <2>2, <2>3, <2>4
  <1>5. LineType'
    BY <1>1, <1>2, <1>4 DEF LineType
  <1>6. DataType'
    <2>1. CASE writeError
      <3>1. ops # <<>> /\ ops' = Tail(ops) /\ IsSeq(ops)
        BY <1>1, <2>1 DEF writeError, PoolType
      <3>2. \A i \in 1..Len(Tail(ops)) : i + 1 \in 1..Len(ops) /\ Tail(ops)[i] = ops[i + 1]
        BY <3>1, OpsTail
      <3>3. QED BY <1>1, <3>1, <3>2 DEF DataType
    <2>2. CASE closePort
      BY <2>2 DEF closePort, DataType
    <2>3. CASE noise
      BY <1>1, <2>3 DEF noise, DataType
    <2>4. QED BY <2>1, <2>2, <2>3
  <1>7. QED BY <1>3, <1>5, <1>6

LEMMA LineStep == LineInv /\ [SerialNext]_svars => LineInv'
  <1>1. SUFFICES ASSUME LineInv, [SerialNext]_svars PROVE LineInv'
    OBVIOUS
  <1>2. PoolInv'
    BY <1>1, PoolStep DEF LineInv
  <1>3. PoolType /\ TodoType
    BY <1>1 DEF LineInv, PoolInv
  <1>4. SUFFICES LineType' /\ TodoType' /\ DataType' /\ WholeInv' /\ CleanInv'
    BY <1>2 DEF LineInv
  <1>5. ASSUME NEW w \in Writers, writeAlloc(w) \/ writeGet(w) PROVE LineType' /\ TodoType' /\ DataType' /\ WholeInv' /\ CleanInv'
    <2>1. UNCHANGED <<ops, line, dec, sent, got, whole, clean>> /\ todo' = todo
      BY <1>5 DEF writeAlloc, writeGet
    <2>2. todo[w] # <<>>
      <3>1. CASE writeAlloc(w)
        BY <3>1 DEF writeAlloc
      <3>2. CASE writeGet(w)
        <4>1. wr[w].at = "get"
          BY <3>2 DEF writeGet
        <4>2. wr[w] # Idle
          BY <4>1 DEF Idle
        <4>3. QED BY <1>3, <4>2 DEF TodoType
      <3>3. QED BY <1>5, <3>1, <3>2
    <2>3. \E p : wr' = [wr EXCEPT ![w] = p]
      BY <1>5 DEF writeAlloc, writeGet
    <2>4. \A v \in Writers : v # w => wr'[v] = wr[v]
      BY <1>3, <2>3 DEF PoolType
    <2>5. TodoType'
      BY <1>3, <2>1, <2>2, <2>4 DEF TodoType
    <2>6. QED BY <1>1, <2>1, <2>5, LineSame
  <1>6. CASE openPort \/ UNCHANGED svars
    <2>1. UNCHANGED <<ops, line, dec, sent, got, whole, clean>> /\ todo' = todo /\ wr' = wr
      BY <1>6 DEF openPort, svars
    <2>2. TodoType'
      BY <1>3, <2>1 DEF TodoType
    <2>3. QED BY <1>1, <2>1, <2>2, LineSame
  <1>7. QED BY <1>1, <1>5, <1>6, LineFill, LineTransmit, LineRead, LineFault DEF SerialNext

LEMMA LineHolds == SerialSpec => []LineInv
  <1>1. SerialInit => LineInv
    <2>1. SUFFICES ASSUME SerialInit PROVE LineInv
      OBVIOUS
    <2>2. PICK z : z = <<>>
      OBVIOUS
    <2>3. /\ wr = [w \in Writers |-> Idle] /\ todo = Script /\ ops = z /\ line = z /\ dec = hdlcReset
          /\ sent = z /\ got = z
      BY <2>1, <2>2 DEF SerialInit
    <2>4. PoolInv
      BY <2>1, PoolStarts
    <2>5. IsSeq(z) /\ Len(z) = 0 /\ z \in Seq(Messages)
      <3>1. IsSeq(z)
        BY <2>2, NoneIsSeq
      <3>2. QED BY <2>2, <3>1
    <2>6. dec = Decoder("COMPLETE", z, initFcs16, z)
      BY <2>2, <2>3 DEF hdlcReset, Decoder
    <2>7. LineType
      BY <2>2, <2>3, <2>5, <2>6 DEF LineType
    <2>8. TodoType
      BY <2>3, SerialAssumption DEF TodoType, Messages
    <2>9. DataType /\ WholeInv
      BY <2>2, <2>3, <2>5 DEF DataType, WholeInv
    <2>10. CleanInv
      <3>1. Pending(ops, z)
        BY <2>2, <2>3 DEF Pending
      <3>2. PICK r : r = [dec |-> dec, got |-> got]
        OBVIOUS
      <3>3. line \o z = z
        BY <2>2, <2>3, <2>5, CatNone
      <3>4. readBytes(r, line \o z) = r
        BY <2>2, <3>3, ReadNone
      <3>5. r = Reader("COMPLETE", <<>>, initFcs16, sent)
        BY <2>2, <2>3, <2>6, <3>2 DEF Reader
      <3>6. AsNew(readBytes([dec |-> dec, got |-> got], line \o z), sent)
        BY <3>2, <3>4, <3>5 DEF AsNew
      <3>7. QED BY <3>1, <3>6 DEF CleanInv
    <2>11. QED BY <2>4, <2>7, <2>8, <2>9, <2>10 DEF LineInv
  <1>2. QED BY <1>1, LineStep, PTL DEF SerialSpec

\* The decoder finds the beginning of a frame again: whatever noise, re-opened ports, partial and overlapping writes have
\* left it with, a frame that crosses the line in one piece leaves it as new.
THEOREM DecoderResynchronises == SerialSpec => []Resynchronised
  <1>1. LineInv => Resynchronised
    <2>1. SUFFICES ASSUME LineInv, Quiet, whole PROVE dec = hdlcReset
      BY DEF Resynchronised
    <2>2. line = <<>>
      BY <2>1 DEF Quiet
    <2>3. ASSUME NEW l, NEW m, IsSeq(l), IsSeq(m), line = l \o encodeHDLC(m) PROVE FALSE
      <3>1. PICK e, f : e = encodeHDLC(m) /\ f = l \o e
        OBVIOUS
      <3>2. IsSeq(e) /\ e # <<>>
        BY <2>3, <3>1, FrameNotEmpty, FrameResets
      <3>3. Len(e) \in Nat /\ Len(e) # 0
        <4>1. PICK S : e \in Seq(S)
          BY <3>2 DEF IsSeq
        <4>2. QED BY <3>2, <4>1
      <3>4. Len(f) = Len(l) + Len(e) /\ Len(l) \in Nat
        BY <2>3, <3>1, <3>2, SeqCat
      <3>5. f = <<>>
        BY <2>2, <2>3, <3>1
      <3>6. Len(f) = 0
        BY <3>5
      <3>7. QED BY <3>3, <3>4, <3>6
    <2>4. QED BY <2>1, <2>2, <2>3 DEF LineInv, WholeInv
  <1>2. QED BY <1>1, LineHolds, PTL

\* Writes that do not overlap, on a line without faults: every message arrives once, in order, whatever bytes it is made
\* of; the encoder and the decoder, with their escapes and check sequences, are inverse to each other.
THEOREM EveryMessageArrives == SerialSpec => []CleanIsDelivered
  <1>1. LineInv => CleanIsDelivered
    <2>1. SUFFICES ASSUME LineInv, clean PROVE IsPrefix(got, sent) /\ (Quiet => got = sent)
      BY DEF CleanIsDelivered
    <2>2. LineType /\ CleanInv /\ DataType /\ PoolType
      BY <2>1 DEF LineInv, PoolInv
    <2>3. PICK r : r = [dec |-> dec, got |-> got]
      OBVIOUS
    <2>4. PICK p : Pending(ops, p) /\ AsNew(readBytes(r, line \o p), sent)
      BY <2>1, <2>2, <2>3 DEF CleanInv
    <2>5. IsSeq(line) /\ IsSeq(got) /\ sent \in Seq(Messages)
      BY <2>2 DEF LineType
    <2>6. IsSeq(p)
      <3>1. CASE ops = <<>>
        BY <2>4, <3>1, NoneIsSeq DEF Pending
      <3>2. CASE ops # <<>>
        <4>1. IsSeq(ops)
          BY <2>2 DEF PoolType
        <4>2. 1 \in 1..Len(ops)
          BY <3>2, <4>1, OpsTail
        <4>3. QED BY <2>2, <2>4, <3>2, <4>2 DEF Pending, DataType
      <3>3. QED BY <3>1, <3>2
    <2>7. PICK e : e = readBytes(r, line \o p)
      OBVIOUS
    <2>8. e.got = sent
      BY <2>4, <2>7 DEF AsNew, Reader
    <2>9. ReaderAs(r, got)
      BY <2>2, <2>3, ReaderNow
    <2>10. IsSeq(line \o p)
      BY <2>5, <2>6, SeqCat
    <2>11. ReaderAs(e, got)
      BY <2>5, <2>7, <2>9, <2>10, ReadingKept
    <2>12. Begins(got, sent)
      BY <2>8, <2>11 DEF ReaderAs
    <2>13. IsPrefix(got, sent)
      <3>1. Len(got) \in Nat /\ Len(got) <= Len(sent) /\ \A i \in 1..Len(got) : sent[i] = got[i]
        BY <2>5, <2>12, SeqNat DEF Begins
      <3>2. PICK S : got \in Seq(S)
        BY <2>5 DEF IsSeq
      <3>3. PICK n : n = Len(got)
        OBVIOUS
      <3>4. SubSeq(got, 1, n) = [i \in 1..n |-> got[i]]
        BY <3>1, <3>2, <3>3
      <3>5. SubSeq(sent, 1, n) = [i \in 1..n |-> sent[i]]
        BY <2>5, <3>1, <3>3
      <3>6. [i \in 1..n |-> got[i]] = [i \in 1..n |-> sent[i]]
        BY <3>1, <3>3
      <3>7. QED BY <3>1, <3>3, <3>4, <3>5, <3>6 DEF IsPrefix
    <2>14. ASSUME Quiet PROVE got = sent
      <3>1. line = <<>> /\ p = <<>>
        BY <2>4, <2>14 DEF Quiet, Pending
      <3>2. line \o p = <<>>
        BY <3>1
      <3>3. e = r
        BY <2>7, <3>2, ReadNone
      <3>4. r.got = got
        BY <2>3
      <3>5. QED BY <2>8, <3>3, <3>4
    <2>15. QED BY <2>13, <2>14
  <1>2. QED BY <1>1, LineHolds, PTL
=============================================================================
