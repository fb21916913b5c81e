--------------------------- MODULE APCSessionProofs ---------------------------
(*****************************************************************************)
(* Proofs about the session.  The invariant that carries the first of them   *)
(* is the life of a connector: its START is queued, the client knows it, it  *)
(* works, its end is queued and handled, the timer runs, and only then the   *)
(* next one is opened; and each connection asks the Manager once and is      *)
(* answered once.  From it follow that one connector works at a time and     *)
(* that a replay finds its connector.  The second half is the delivery of    *)
(* the packets.                                                              *)
(*****************************************************************************)
EXTENDS APCSession, TLAPS

USE DEF WriteErrors

\* The notifications of a connector, and the frames of the two directions.
Notifs == [t : {"START"}, c : Conns] \cup [t : {"DISCONNECT"}, c : Conns, flag : {"OFFLINE", "DISCONNECT"}]
            \cup [t : {"CONNECT"}, c : Conns, id : Nat, your : Nat] \cup [t : {"MSGRCVD"}, your : Nat]
ToMgr  == [t : {"CONNECT"}, id : Nat] \cup [t : {"DATA"}, seq : Nat] \cup [t : {"DISCONNECT"}]
ToApc  == [t : {"CONNECT"}, id : Nat, your : Nat] \cup [t : {"KA", "NET"}, your : Nat] \cup [t : {"DISCONNECT"}]
Links  == [working : BOOLEAN, connected : BOOLEAN, force : BOOLEAN, reading : BOOLEAN]

\* The type of the client and its connectors.  stop() holds a connector while it closes it.
ClientType == /\ m_apcNotifQ \in Seq(Notifs) /\ conns \in 0..MaxConns /\ m_pConnector \in 0..MaxConns
              /\ m_intfId \in Nat /\ conn \in [Conns -> Links]
              /\ app = "closing" => m_pConnector # 0

\* The type of the lines, the cache and the Manager.
LineType   == /\ toMgr \in [Conns -> Seq(ToMgr)] /\ toApc \in [Conns -> Seq(ToApc)]
              /\ up \in [Conns -> BOOLEAN]
              /\ m_cache \in [last : Nat, num : Nat] /\ m_cache.num <= m_cache.last
              /\ mgr \in [id : Nat, ids : Nat, cur : 0..MaxConns, got : Seq(Nat)]

\* The bounds are numbers.
LEMMA Bounds == MaxConns \in Nat /\ CacheSize \in Nat
  BY SessionAssumption

\* What is known of a sequence after its head is taken, as the notification thread and the readers take it.
LEMMA Tails ==
    ASSUME NEW S, NEW s \in Seq(S), s # <<>>
    PROVE  /\ Len(s) \in Nat \ {0} /\ Head(s) = s[1] /\ Head(s) \in S
           /\ Tail(s) \in Seq(S) /\ Len(Tail(s)) = Len(s) - 1
           /\ \A i \in 1..Len(Tail(s)) : i + 1 \in 1..Len(s) /\ Tail(s)[i] = s[i + 1]
  OBVIOUS

\* What is known of a sequence after one more element.
LEMMA Appends ==
    ASSUME NEW S, NEW s \in Seq(S), NEW e \in S
    PROVE  /\ Append(s, e) \in Seq(S) /\ Len(Append(s, e)) = Len(s) + 1 /\ Len(s) \in Nat
           /\ Append(s, e)[Len(s) + 1] = e
           /\ \A i \in 1..Len(s) : Append(s, e)[i] = s[i]
  OBVIOUS

\* A sequence without elements.
LEMMA EmptyLen == ASSUME NEW S, NEW s \in Seq(S) PROVE (s = <<>>) <=> (Len(s) = 0)
  OBVIOUS

\* The fields of a notification, by its kind.
LEMMA NotifFields ==
    ASSUME NEW n \in Notifs
    PROVE  /\ n.t \in {"START", "DISCONNECT", "CONNECT", "MSGRCVD"}
           /\ n.t # "MSGRCVD" => n.c \in Conns
           /\ n.t = "CONNECT" => n.id \in Nat /\ n.your \in Nat
           /\ n.t = "MSGRCVD" => n.your \in Nat
  BY DEF Notifs

\* The notifications the connectors make are notifications.
LEMMA MakeNotifs ==
    /\ \A c \in Conns : [t |-> "START", c |-> c] \in Notifs
    /\ \A c \in Conns, f \in {"OFFLINE", "DISCONNECT"} : [t |-> "DISCONNECT", c |-> c, flag |-> f] \in Notifs
    /\ \A c \in Conns, i \in Nat, y \in Nat : [t |-> "CONNECT", c |-> c, id |-> i, your |-> y] \in Notifs
    /\ \A y \in Nat : [t |-> "MSGRCVD", your |-> y] \in Notifs
  BY DEF Notifs

\* The fields of a frame, by its kind.
LEMMA FrameFields ==
    /\ \A f \in ToApc : /\ f.t = "CONNECT" => f.id \in Nat /\ f.your \in Nat
                        /\ f.t \in {"KA", "NET"} => f.your \in Nat
    /\ \A f \in ToMgr : /\ f.t = "CONNECT" => f.id \in Nat
                        /\ f.t = "DATA" => f.seq \in Nat
  BY DEF ToApc, ToMgr

\* The frames the two sides make are frames.
LEMMA MakeFrames ==
    /\ \A i \in Nat, y \in Nat : [t |-> "CONNECT", id |-> i, your |-> y] \in ToApc
    /\ \A y \in Nat, k \in {"KA", "NET"} : [t |-> k, your |-> y] \in ToApc
    /\ [t |-> "DISCONNECT"] \in ToApc /\ [t |-> "DISCONNECT"] \in ToMgr
    /\ \A i \in Nat : [t |-> "CONNECT", id |-> i] \in ToMgr
    /\ \A s \in Nat : [t |-> "DATA", seq |-> s] \in ToMgr
  BY DEF ToApc, ToMgr

\* No connector begins to read.
Fewer == \A d \in Conns : conn'[d].reading => conn[d].reading

\* The queue q as the new queue: a connector that ends puts its disconnect behind it and works no more, one that
\* had ended before puts nothing (CAPCConnector::stop reports the end once).
Ends(c, q) == \/ /\ m_apcNotifQ' = q /\ conn' \in [Conns -> Links] /\ Fewer
                 /\ \A d \in Conns : conn'[d].working <=> conn[d].working
              \/ /\ conn[c].working /\ conn' \in [Conns -> Links] /\ Fewer
                 /\ \E n \in Notifs : n.t = "DISCONNECT" /\ n.c = c /\ m_apcNotifQ' = Append(q, n)
                 /\ ~conn'[c].working
                 /\ \A d \in Conns : d # c => conn'[d] = conn[d]

\* CAPCConnector::stop ends a connector, called by itself or by a handler of a notification.
LEMMA Stopping ==
    ASSUME conn \in [Conns -> Links], NEW c \in Conns, NEW flag \in {"OFFLINE", "DISCONNECT"}
    PROVE  /\ stopped(c, flag) => Ends(c, m_apcNotifQ)
           /\ PopAndStop(c, flag) => Ends(c, Tail(m_apcNotifQ))
  <1> DEFINE n == [t |-> "DISCONNECT", c |-> c, flag |-> StopFlag(c, flag)]
  <1>1. n \in Notifs /\ n.t = "DISCONNECT" /\ n.c = c
    BY MakeNotifs DEF StopFlag
  <1> DEFINE k == [conn EXCEPT ![c].working = FALSE, ![c].connected = FALSE]
  <1>2. /\ k \in [Conns -> Links] /\ ~k[c].working
        /\ \A d \in Conns : (d # c => k[d] = conn[d]) /\ k[d].reading = conn[d].reading
    BY DEF Links
  <1> HIDE DEF n, k
  <1>3. CASE ~conn[c].working
    BY <1>3 DEF Ends, Fewer, stopped, PopAndStop
  <1>4. CASE conn[c].working
    <2>1. /\ stopped(c, flag) => conn' = k /\ m_apcNotifQ' = Append(m_apcNotifQ, n)
          /\ PopAndStop(c, flag) => conn' = k /\ m_apcNotifQ' = Append(Tail(m_apcNotifQ), n)
      BY <1>4 DEF stopped, PopAndStop, n, k
    <2>2. QED BY <1>1, <1>2, <1>4, <2>1 DEF Ends, Fewer
  <1>5. QED BY <1>3, <1>4

\* A read that fails ends its connector.
LEMMA ReadFailing ==
    ASSUME conn \in [Conns -> Links], NEW c \in Conns, NEW flag \in {"OFFLINE", "DISCONNECT"}, readError(c, flag)
    PROVE  Ends(c, m_apcNotifQ)
  <1> DEFINE n == [t |-> "DISCONNECT", c |-> c, flag |-> StopFlag(c, flag)]
  <1>1. n \in Notifs /\ n.t = "DISCONNECT" /\ n.c = c
    BY MakeNotifs DEF StopFlag
  <1>2. /\ conn' \in [Conns -> Links] /\ ~conn'[c].working
        /\ \A d \in Conns : (d # c => conn'[d] = conn[d]) /\ (conn'[d].reading => conn[d].reading)
    BY DEF Links, readError
  <1> HIDE DEF n
  <1>3. m_apcNotifQ' = IF conn[c].working THEN Append(m_apcNotifQ, n) ELSE m_apcNotifQ
    BY DEF readError, n
  <1>4. CASE conn[c].working
    BY <1>1, <1>2, <1>3, <1>4 DEF Ends, Fewer
  <1>5. CASE ~conn[c].working
    <2>1. \A d \in Conns : conn'[d].working <=> conn[d].working
      BY <1>2, <1>5
    <2>2. QED BY <1>2, <1>3, <1>5, <2>1 DEF Ends, Fewer
  <1>6. QED BY <1>4, <1>5

\* A new connector has the next number, works, and its START is queued.
LEMMA Opening ==
    ASSUME ClientType, conns < MaxConns, NEW id, Open(id)
    PROVE  /\ conns' = conns + 1 /\ conns' \in Conns /\ conns' \in 0..MaxConns /\ conn' \in [Conns -> Links]
           /\ conn'[conns'].working /\ conn'[conns'].reading = conn[conns'].reading
           /\ \A d \in Conns : d # conns' => conn'[d] = conn[d]
           /\ \E n \in Notifs : n.t = "START" /\ n.c = conns' /\ m_apcNotifQ' = Append(m_apcNotifQ, n)
  <1>1. conns' = conns + 1 /\ conns' \in Conns /\ conns' \in 0..MaxConns
    BY Bounds DEF Open, Conns, ClientType
  <1>2. conn' = [conn EXCEPT ![conns'].working = TRUE] /\ m_apcNotifQ' = Append(m_apcNotifQ, [t |-> "START", c |-> conns'])
    BY DEF Open
  <1>3. QED BY <1>1, <1>2, MakeNotifs DEF ClientType, Links

\* A connector that ends keeps the types.
LEMMA EndsType ==
    ASSUME NEW q \in Seq(Notifs), conn \in [Conns -> Links], NEW c, Ends(c, q)
    PROVE  m_apcNotifQ' \in Seq(Notifs) /\ conn' \in [Conns -> Links]
  <1>1. conn' \in [Conns -> Links]
    BY DEF Ends
  <1>2. m_apcNotifQ' = q \/ \E n \in Notifs : m_apcNotifQ' = Append(q, n)
    BY DEF Ends
  <1>3. QED BY <1>1, <1>2

\* Every step keeps the types of the client and its connectors.
LEMMA ClientTypeStep ==
    ASSUME ClientType, LineType, [Next]_svars
    PROVE  ClientType'
  <1> USE DEF clientVars, connVars, lineVars, svars, ClientType, LineType
  <1>1. CASE UNCHANGED svars
    BY <1>1 DEF svars
  <1>2. CASE apcStarted
    <2>1. Head(m_apcNotifQ).c \in Conns /\ Tail(m_apcNotifQ) \in Seq(Notifs)
      BY <1>2, Tails, NotifFields DEF apcStarted, Notif
    <2>2. QED BY <1>2, <2>1, Bounds DEF apcStarted, Unlocked, Conns
  <1>3. CASE messageConfirms
    BY <1>3, Tails DEF messageConfirms, Notif
  <1>4. CASE apcConnected_refused
    <2>1. Head(m_apcNotifQ).c \in Conns /\ Tail(m_apcNotifQ) \in Seq(Notifs)
      BY <1>4, Tails, NotifFields DEF apcConnected_refused, Notif
    <2>2. Ends(Head(m_apcNotifQ).c, Tail(m_apcNotifQ))
      BY <1>4, <2>1, Stopping DEF apcConnected_refused
    <2>3. QED BY <1>4, <2>1, <2>2, EndsType DEF apcConnected_refused
  <1>5. CASE apcConnected_new
    <2>1. Head(m_apcNotifQ).id \in Nat /\ Tail(m_apcNotifQ) \in Seq(Notifs)
      BY <1>5, Tails, NotifFields DEF apcConnected_new, Notif
    <2>2. QED BY <1>5, <2>1 DEF apcConnected_new
  <1>6. CASE apcConnected_restored
    <2>1. Head(m_apcNotifQ).c \in Conns /\ Tail(m_apcNotifQ) \in Seq(Notifs)
      BY <1>6, Tails, NotifFields DEF apcConnected_restored, Notif
    <2>2. Ends(Head(m_apcNotifQ).c, Tail(m_apcNotifQ))
      <3>1. \/ m_apcNotifQ' = Tail(m_apcNotifQ) /\ UNCHANGED conn
            \/ \E flag \in WriteErrors : PopAndStop(Head(m_apcNotifQ).c, flag)
        BY <1>6 DEF apcConnected_restored
      <3>2. CASE \E flag \in WriteErrors : PopAndStop(Head(m_apcNotifQ).c, flag)
        BY <2>1, <3>2, Stopping DEF ClientType
      <3>3. QED BY <2>1, <3>1, <3>2 DEF ClientType, Ends, Fewer
    <2>3. QED BY <1>6, <2>1, <2>2, EndsType DEF apcConnected_restored
  <1>7. CASE apcDisconnected
    <2>1. Tail(m_apcNotifQ) \in Seq(Notifs)
      BY <1>7, Tails DEF apcDisconnected, Notif
    <2>2. app' # "closing"
      BY <1>7 DEF apcDisconnected, Unlocked
    <2>3. QED BY <1>7, <2>1, <2>2, Bounds DEF apcDisconnected
  <1>8. CASE TimerExpires
    BY <1>8, Bounds DEF TimerExpires
  <1>9. CASE TimePasses
    BY <1>9, Bounds DEF TimePasses
  <1>10. CASE reconnect_p
    <2>1. CASE ipConnect_p /\ Open(m_intfId)
      <3>1. /\ conns' \in 0..MaxConns /\ conn' \in [Conns -> Links]
            /\ \E n \in Notifs : m_apcNotifQ' = Append(m_apcNotifQ, n)
        BY <2>1, Opening DEF ipConnect_p
      <3>2. QED BY <1>10, <3>1 DEF reconnect_p
    <2>2. CASE UNCHANGED <<connVars, lineVars>>
      BY <1>10, <2>2 DEF reconnect_p
    <2>3. QED BY <1>10, <2>1, <2>2 DEF reconnect_p
  <1>11. CASE disconnect_p
    <2>1. m_pConnector # 0 => m_pConnector \in Conns
      BY Bounds DEF Conns
    <2>2. QED BY <1>11, <2>1, Stopping, EndsType DEF disconnect_p
  <1>12. CASE timerIgnored
    BY <1>12, Bounds DEF timerIgnored, TimerHandled
  <1>13. CASE start
    <2>1. CASE ipConnect_p /\ Open(0)
      <3>1. /\ conns' \in 0..MaxConns /\ conn' \in [Conns -> Links]
            /\ \E n \in Notifs : m_apcNotifQ' = Append(m_apcNotifQ, n)
        BY <2>1, Opening DEF ipConnect_p
      <3>2. QED BY <1>13, <3>1 DEF start
    <2>2. CASE UNCHANGED <<connVars, lineVars>>
      BY <1>13, <2>2 DEF start
    <2>3. QED BY <1>13, <2>1, <2>2 DEF start
  <1>14. CASE stop
    <2>1. conn' \in [Conns -> Links]
      <3>1. conn' = conn \/ conn' = [conn EXCEPT ![m_pConnector].force = TRUE]
        BY <1>14 DEF stop
      <3>2. [conn EXCEPT ![m_pConnector].force = TRUE] \in [Conns -> Links]
        BY DEF Links
      <3>3. QED BY <3>1, <3>2
    <2>2. QED BY <1>14, <2>1 DEF stop
  <1>15. CASE stop_close
    <2>1. m_pConnector # 0 => m_pConnector \in Conns
      BY Bounds DEF Conns
    <2>2. QED BY <1>15, <2>1, Stopping, EndsType DEF stop_close
  <1>16. CASE stop_wait
    BY <1>16, Bounds DEF stop_wait
  <1>17. CASE stop_join
    BY <1>17 DEF stop_join
  <1>18. CASE sendData
    <2>1. m_pConnector # 0 => m_pConnector \in Conns
      BY Bounds DEF Conns
    <2>2. QED BY <1>18, <2>1, Stopping, EndsType DEF sendData, sendData_p
  <1>19. CASE ManagerConfirms
    BY <1>19, Bounds DEF ManagerConfirms
  <1>20. CASE ManagerRefuses
    BY <1>20, Bounds DEF ManagerRefuses
  <1>21. ASSUME NEW c \in Conns, ManagerReads(c) PROVE ClientType'
    BY <1>21, Bounds DEF ManagerReads
  <1>22. ASSUME NEW c \in Conns, Break(c) PROVE ClientType'
    BY <1>22, Bounds DEF Break
  <1>23. ASSUME NEW c \in Conns, handle_read_p(c) PROVE ClientType'
    BY <1>23 DEF handle_read_p, Links
  <1>24. ASSUME NEW c \in Conns, messageReceived(c) PROVE ClientType'
    <2> DEFINE f == Head(toApc[c])
    <2>1. f \in ToApc
      BY <1>24, Tails DEF messageReceived
    <2>2. CASE /\ f.t = "CONNECT" /\ conn' = [conn EXCEPT ![c].connected = TRUE]
               /\ m_apcNotifQ' = Append(m_apcNotifQ, [t |-> "CONNECT", c |-> c, id |-> f.id, your |-> f.your])
      <3>1. f.id \in Nat /\ f.your \in Nat
        BY <2>1, <2>2, FrameFields
      <3>2. m_apcNotifQ' \in Seq(Notifs)
        <4>1. [t |-> "CONNECT", c |-> c, id |-> f.id, your |-> f.your] \in Notifs
          BY <3>1, MakeNotifs
        <4>2. QED BY <2>2, <4>1
      <3>3. conn' \in [Conns -> Links]
        BY <2>2 DEF Links
      <3>4. QED BY <1>24, <3>2, <3>3 DEF messageReceived
    <2>3. CASE /\ f.t \in {"KA", "NET"} /\ conn' = conn
               /\ m_apcNotifQ' = Append(m_apcNotifQ, [t |-> "MSGRCVD", your |-> f.your])
      <3>1. f.your \in Nat
        BY <2>1, <2>3, FrameFields
      <3>2. m_apcNotifQ' \in Seq(Notifs)
        BY <2>3, <3>1, MakeNotifs
      <3>3. QED BY <1>24, <2>3, <3>2 DEF messageReceived
    <2>4. CASE readError(c, "OFFLINE") \/ readError(c, "DISCONNECT")
      <3>1. m_apcNotifQ' \in Seq(Notifs) /\ conn' \in [Conns -> Links]
        BY <2>4, ReadFailing, EndsType
      <3>2. QED BY <1>24, <3>1 DEF messageReceived
    <2>5. QED BY <1>24, <2>2, <2>3, <2>4 DEF messageReceived
  <1>25. ASSUME NEW c \in Conns, handle_read_end(c) PROVE ClientType'
    BY <1>25 DEF handle_read_end, Links
  <1>26. ASSUME NEW c \in Conns, connectionFails(c) PROVE ClientType'
    BY <1>26, Stopping, EndsType DEF connectionFails
  <1>27. QED
    BY <1>1, <1>2, <1>3, <1>4, <1>5, <1>6, <1>7, <1>8, <1>9, <1>10, <1>11, <1>12, <1>13, <1>14, <1>15, <1>16, <1>17,
       <1>18, <1>19, <1>20, <1>21, <1>22, <1>23, <1>24, <1>25, <1>26
    DEF Next, NotifNext, TimerNext, CallNext, MgrNext, ReadNext

\* The window of the cache: never more packets than were numbered.
Caches == {k \in [last : Nat, num : Nat] : k.num <= k.last}

\* A confirmation leaves a window (CAPCCache::confirmedSeqNum).
LEMMA Confirming ==
    ASSUME m_cache \in Caches, NEW a \in Nat, NEW b \in BOOLEAN PROVE confirmedSeqNum(a, b) \in Caches
  <1> DEFINE left == Least(m_cache.last - a, CacheSize)
  <1>1. CASE a > m_cache.last
    BY <1>1 DEF confirmedSeqNum
  <1>2. CASE ~(a > m_cache.last)
    <2>1. left \in Nat /\ left <= m_cache.last
      BY <1>2, Bounds DEF Least, Caches
    <2>2. Least(m_cache.num, left) \in Nat /\ Least(m_cache.num, left) <= m_cache.last
      BY <2>1 DEF Least, Caches
    <2>3. confirmedSeqNum(a, b) = [m_cache EXCEPT !.num = IF b THEN left ELSE Least(m_cache.num, left)]
      BY <1>2 DEF confirmedSeqNum
    <2> HIDE DEF left
    <2>4. QED BY <2>1, <2>2, <2>3 DEF Caches
  <1>3. QED BY <1>1, <1>2

\* A packet that is added leaves a window (CAPCCache::addPacket).
LEMMA Caching ==
    ASSUME m_cache \in Caches
    PROVE  [last |-> m_cache.last + 1, num |-> Least(m_cache.num + 1, CacheSize)] \in Caches
  BY Bounds DEF Caches, Least

\* What a replay of k packets writes: the oldest k packets of the cache, in order.
LEMMA Replaying ==
    ASSUME NEW cache \in Caches, NEW k \in 0..cache.num
    PROVE  Replay(cache, k) \in Seq(ToMgr) /\ Len(Replay(cache, k)) = k
           /\ \A i \in 1..k : Replay(cache, k)[i] = [t |-> "DATA", seq |-> cache.last - cache.num + i]
  <1>1. k \in Nat /\ \A i \in 1..k : cache.last - cache.num + i \in Nat
    BY DEF Caches
  <1>2. \A i \in 1..k : [t |-> "DATA", seq |-> cache.last - cache.num + i] \in ToMgr
    BY <1>1, MakeFrames
  <1>3. QED BY <1>1, <1>2 DEF Replay

\* Frames written to a connection keep the lines' type.
LEMMA Writing ==
    ASSUME toMgr \in [Conns -> Seq(ToMgr)], NEW c \in Conns, NEW fs \in Seq(ToMgr)
    PROVE  Written(c, fs) \in [Conns -> Seq(ToMgr)]
  <1>1. toMgr[c] \o fs \in Seq(ToMgr)
    OBVIOUS
  <1>2. QED BY <1>1 DEF Written

\* What the Manager remembers.
Records == [id : Nat, ids : Nat, cur : 0..MaxConns, got : Seq(Nat)]

\* The Manager that ends a session keeps its type.
LEMMA ManagerEnds ==
    ASSUME NEW m \in Records PROVE [m EXCEPT !.id = 0, !.cur = 0] \in Records
  <1>1. 0 \in 0..MaxConns /\ 0 \in Nat
    BY Bounds
  <1> DEFINE C == 0..MaxConns
             G == Seq(Nat)
  <1>2. Records = [id : Nat, ids : Nat, cur : C, got : G] /\ 0 \in C
    BY <1>1 DEF Records
  <1> HIDE DEF C, G
  <1>3. QED BY <1>1, <1>2

\* The Manager that takes a packet keeps its type.
LEMMA ManagerTakes ==
    ASSUME NEW m \in Records, NEW s \in Nat PROVE [m EXCEPT !.got = Append(@, s)] \in Records
  <1> DEFINE C == 0..MaxConns
             G == Seq(Nat)
  <1>1. Records = [id : Nat, ids : Nat, cur : C, got : G] /\ Append(m.got, s) \in G
    BY DEF Records
  <1> DEFINE g == Append(m.got, s)
  <1> HIDE DEF C, G, g
  <1>2. [m EXCEPT !.got = g] \in Records
    BY <1>1 DEF g
  <1>3. QED BY <1>2 DEF g

\* A frame more on one line.
LEMMA Extends ==
    ASSUME NEW S, NEW l \in [Conns -> Seq(S)], NEW c \in Conns, NEW e \in S
    PROVE  [l EXCEPT ![c] = Append(@, e)] \in [Conns -> Seq(S)]
  OBVIOUS

\* One frame is a sequence of frames.
LEMMA OneFrame == ASSUME NEW S, NEW f \in S PROVE <<f>> \in Seq(S)
  OBVIOUS

\* Every step keeps the types of the lines, the cache and the Manager.
LEMMA LineTypeStep ==
    ASSUME ClientType, LineType, [Next]_svars
    PROVE  LineType'
  <1> USE DEF clientVars, connVars, lineVars, svars, ClientType, LineType
  <1>1. CASE UNCHANGED svars
    BY <1>1 DEF svars
  <1>2. CASE apcStarted
    BY <1>2, Bounds DEF apcStarted, Notif
  <1>3. CASE messageConfirms
    <2>1. Head(m_apcNotifQ).your \in Nat
      BY <1>3, Tails, NotifFields DEF messageConfirms, Notif
    <2>2. m_cache' \in Caches
      BY <1>3, <2>1, Confirming DEF messageConfirms, Caches
    <2>3. QED BY <1>3, <2>2 DEF messageConfirms, Caches
  <1>4. CASE apcConnected_refused
    BY <1>4, Bounds DEF apcConnected_refused, Notif, PopAndStop
  <1>5. CASE apcConnected_new
    BY <1>5, Bounds DEF apcConnected_new, Notif, stopTimer_p
  <1>6. CASE apcConnected_restored
    <2> DEFINE n == Head(m_apcNotifQ)
               cache == confirmedSeqNum(n.your, TRUE)
    <2>1. n.your \in Nat /\ m_pConnector \in Conns
      BY <1>6, Tails, NotifFields, Bounds DEF apcConnected_restored, Notif, Conns
    <2>2. cache \in Caches
      BY <2>1, Confirming DEF Caches
    <2> HIDE DEF cache
    <2>3. m_cache' = cache /\ \E k \in 0..cache.num : toMgr' = Written(m_pConnector, Replay(cache, k))
      BY <1>6 DEF apcConnected_restored, cache
    <2>4. toMgr' \in [Conns -> Seq(ToMgr)]
      BY <2>1, <2>2, <2>3, Replaying, Writing
    <2>5. QED BY <1>6, <2>2, <2>3, <2>4 DEF apcConnected_restored, Caches
  <1>7. CASE apcDisconnected
    BY <1>7, Bounds DEF apcDisconnected, Notif, stopTimer_p, startTimer_p
  <1>8. CASE TimerExpires
    BY <1>8, Bounds DEF TimerExpires
  <1>9. CASE TimePasses
    BY <1>9, Bounds DEF TimePasses
  <1>10. CASE reconnect_p
    <2>1. CASE ipConnect_p /\ Open(m_intfId)
      <3>1. conns + 1 \in Conns
        BY <2>1, Bounds DEF ipConnect_p, Conns
      <3>2. [t |-> "CONNECT", id |-> m_intfId] \in ToMgr
        BY MakeFrames
      <3>3. toMgr' = [toMgr EXCEPT ![conns + 1] = <<[t |-> "CONNECT", id |-> m_intfId]>>]
        BY <2>1 DEF Open
      <3>4. toMgr' \in [Conns -> Seq(ToMgr)]
        BY <3>1, <3>2, <3>3, OneFrame
      <3>5. up' \in [Conns -> BOOLEAN] /\ toApc' = toApc
        BY <2>1 DEF Open
      <3>6. m_cache' \in Caches /\ mgr' = mgr
        BY <1>10 DEF reconnect_p, Caches
      <3>7. QED BY <3>4, <3>5, <3>6 DEF Caches
    <2>2. CASE UNCHANGED <<connVars, lineVars>>
      BY <1>10, <2>2 DEF reconnect_p
    <2>3. QED BY <1>10, <2>1, <2>2 DEF reconnect_p
  <1>11. CASE disconnect_p
    BY <1>11, Bounds DEF disconnect_p, TimerHandled, stopped
  <1>12. CASE timerIgnored
    BY <1>12, Bounds DEF timerIgnored, TimerHandled
  <1>13. CASE start
    <2>1. CASE ipConnect_p /\ Open(0)
      <3>1. conns + 1 \in Conns
        BY <2>1, Bounds DEF ipConnect_p, Conns
      <3>2. [t |-> "CONNECT", id |-> 0] \in ToMgr
        BY MakeFrames
      <3>3. toMgr' = [toMgr EXCEPT ![conns + 1] = <<[t |-> "CONNECT", id |-> 0]>>]
        BY <2>1 DEF Open
      <3>4. toMgr' \in [Conns -> Seq(ToMgr)]
        BY <3>1, <3>2, <3>3, OneFrame
      <3>5. up' \in [Conns -> BOOLEAN] /\ toApc' = toApc
        BY <2>1 DEF Open
      <3>6. m_cache' \in Caches /\ mgr' = mgr
        BY <1>13 DEF start, Caches
      <3>7. QED BY <3>4, <3>5, <3>6 DEF Caches
    <2>2. CASE UNCHANGED <<connVars, lineVars>>
      BY <1>13, <2>2 DEF start
    <2>3. QED BY <1>13, <2>1, <2>2 DEF start
  <1>14. CASE stop
    <2>1. \/ toMgr' = toMgr
          \/ m_pConnector \in Conns /\ toMgr' = Written(m_pConnector, <<[t |-> "DISCONNECT"]>>)
      BY <1>14, Bounds DEF stop, Conns
    <2>2. toMgr' \in [Conns -> Seq(ToMgr)]
      <3>1. <<[t |-> "DISCONNECT"]>> \in Seq(ToMgr)
        BY MakeFrames, OneFrame
      <3>2. \A c \in Conns : Written(c, <<[t |-> "DISCONNECT"]>>) \in [Conns -> Seq(ToMgr)]
        BY <3>1, Writing
      <3>3. QED BY <2>1, <3>2
    <2>3. QED BY <1>14, <2>2 DEF stop
  <1>15. CASE stop_close
    BY <1>15, Bounds DEF stop_close, stopped
  <1>16. CASE stop_wait
    BY <1>16, Bounds DEF stop_wait
  <1>17. CASE stop_join
    BY <1>17, Bounds DEF stop_join, NoIOWork
  <1>18. CASE sendData
    <2>1. m_cache' \in Caches
      BY <1>18, Caching DEF sendData, sendData_p, Caches
    <2> DEFINE s == m_cache.last + 1
    <2>2. \/ toMgr' = toMgr
          \/ m_pConnector \in Conns /\ toMgr' = Written(m_pConnector, <<[t |-> "DATA", seq |-> s]>>)
      BY <1>18, Bounds DEF sendData, sendData_p, Conns
    <2>3. <<[t |-> "DATA", seq |-> s]>> \in Seq(ToMgr)
      BY MakeFrames, OneFrame
    <2>4. toMgr' \in [Conns -> Seq(ToMgr)]
      <3> DEFINE w == <<[t |-> "DATA", seq |-> s]>>
      <3>1. w \in Seq(ToMgr)
        BY <2>3
      <3> HIDE DEF w
      <3>2. \A c \in Conns : Written(c, w) \in [Conns -> Seq(ToMgr)]
        BY <3>1, Writing
      <3>3. \/ toMgr' = toMgr
            \/ m_pConnector \in Conns /\ toMgr' = Written(m_pConnector, w)
        BY <2>2 DEF w
      <3>4. QED BY <3>2, <3>3
    <2>5. QED BY <1>18, <2>1, <2>4 DEF sendData, sendData_p, Caches
  <1>19. CASE ManagerConfirms
    <2> DEFINE y == mgr.got[Len(mgr.got)]
    <2>1. y \in Nat
      BY <1>19 DEF ManagerConfirms
    <2>2. PICK k \in {"KA", "NET"} : toApc' = [toApc EXCEPT ![mgr.cur] = <<[t |-> k, your |-> y]>>]
      BY <1>19 DEF ManagerConfirms
    <2>3. <<[t |-> k, your |-> y]>> \in Seq(ToApc)
      BY <2>1, MakeFrames, OneFrame
    <2> HIDE DEF y
    <2>4. toApc' \in [Conns -> Seq(ToApc)]
      BY <2>2, <2>3
    <2>5. QED BY <1>19, <2>4 DEF ManagerConfirms
  <1>20. CASE ManagerRefuses
    <2>1. mgr' \in [id : Nat, ids : Nat, cur : 0..MaxConns, got : Seq(Nat)]
      BY <1>20, ManagerEnds DEF ManagerRefuses, Records
    <2> DEFINE e == [t |-> "DISCONNECT"]
    <2>2. \/ toApc' = toApc
          \/ mgr.cur \in Conns /\ toApc' = [toApc EXCEPT ![mgr.cur] = Append(@, e)]
      BY <1>20, Bounds DEF ManagerRefuses, Conns
    <2>3. e \in ToApc
      BY MakeFrames
    <2> HIDE DEF e
    <2>4. toApc' \in [Conns -> Seq(ToApc)]
      <3>1. \A c \in Conns : [toApc EXCEPT ![c] = Append(@, e)] \in [Conns -> Seq(ToApc)]
        BY <2>3, Extends
      <3>2. CASE toApc' = toApc
        BY <3>2
      <3>3. CASE mgr.cur \in Conns /\ toApc' = [toApc EXCEPT ![mgr.cur] = Append(@, e)]
        BY <3>1, <3>3
      <3>4. QED BY <2>2, <3>2, <3>3
    <2>5. QED BY <1>20, <2>1, <2>4 DEF ManagerRefuses
  <1>21. ASSUME NEW c \in Conns, ManagerReads(c) PROVE LineType'
    <2> DEFINE f == Head(toMgr[c])
    <2>1. f \in ToMgr /\ Tail(toMgr[c]) \in Seq(ToMgr)
      BY <1>21, Tails DEF ManagerReads
    <2>2. c \in 0..MaxConns
      BY Bounds DEF Conns
    <2>3. CASE f.t = "CONNECT"
      <3> DEFINE new == f.id = 0
                 id  == IF new THEN mgr.ids + 1 ELSE IF f.id = mgr.id THEN f.id ELSE 0
                 got == IF new THEN <<>> ELSE mgr.got
                 last == IF got = <<>> THEN 0 ELSE got[Len(got)]
                 e == [t |-> "CONNECT", id |-> id, your |-> last]
      <3>1. id \in Nat /\ got \in Seq(Nat)
        BY <2>1, <2>3, FrameFields
      <3>2. last \in Nat
        <4> HIDE DEF got
        <4>1. QED BY <3>1
      <3>3. e \in ToApc
        BY <3>1, <3>2, MakeFrames
      <3>4. /\ mgr' = [id |-> IF id = 0 THEN mgr.id ELSE id, ids |-> IF new THEN id ELSE mgr.ids,
                       cur |-> IF id = 0 THEN mgr.cur ELSE c, got |-> got]
            /\ toApc' = IF up[c] THEN [toApc EXCEPT ![c] = Append(@, e)] ELSE toApc
            /\ up' = [d \in Conns |-> up[d] /\ d >= c]
            /\ toMgr' = [d \in Conns |-> IF d < c THEN <<>> ELSE IF d = c THEN Tail(toMgr[c]) ELSE toMgr[d]]
        BY <1>21, <2>3 DEF ManagerReads
      <3> HIDE DEF id, got, last, e, new
      <3>5. mgr' \in [id : Nat, ids : Nat, cur : 0..MaxConns, got : Seq(Nat)]
        BY <2>2, <3>1, <3>4
      <3>6. toApc' \in [Conns -> Seq(ToApc)]
        BY <3>3, <3>4
      <3>7. toMgr' \in [Conns -> Seq(ToMgr)] /\ up' \in [Conns -> BOOLEAN]
        BY <2>1, <3>4
      <3>8. QED BY <1>21, <3>5, <3>6, <3>7 DEF ManagerReads
    <2>4. CASE f.t # "CONNECT"
      <3>1. toMgr' = [toMgr EXCEPT ![c] = Tail(@)] /\ UNCHANGED <<toApc, up, m_cache>>
        BY <1>21, <2>4 DEF ManagerReads
      <3>2. toMgr' \in [Conns -> Seq(ToMgr)]
        BY <2>1, <3>1
      <3>3. \/ mgr' = mgr
            \/ f.t = "DATA" /\ mgr' = [mgr EXCEPT !.got = Append(@, f.seq)]
            \/ mgr' = [mgr EXCEPT !.id = 0, !.cur = 0]
        BY <1>21, <2>4 DEF ManagerReads
      <3>4. f.t = "DATA" => f.seq \in Nat
        BY <2>1, FrameFields
      <3>5. mgr' \in [id : Nat, ids : Nat, cur : 0..MaxConns, got : Seq(Nat)]
        BY <3>3, <3>4, ManagerEnds, ManagerTakes DEF Records
      <3>6. QED BY <3>1, <3>2, <3>5
    <2>5. QED BY <2>3, <2>4
  <1>22. ASSUME NEW c \in Conns, Break(c) PROVE LineType'
    <2>1. up' \in [Conns -> BOOLEAN]
      BY <1>22 DEF Break
    <2>2. toMgr' \in [Conns -> Seq(ToMgr)]
      BY <1>22 DEF Break
    <2>3. toApc' \in [Conns -> Seq(ToApc)]
      <3>1. toApc' = toApc \/ toApc' = [toApc EXCEPT ![c] = <<>>]
        BY <1>22 DEF Break
      <3>2. [toApc EXCEPT ![c] = <<>>] \in [Conns -> Seq(ToApc)]
        OBVIOUS
      <3>3. QED BY <3>1, <3>2
    <2>4. QED BY <1>22, <2>1, <2>2, <2>3 DEF Break
  <1>23. ASSUME NEW c \in Conns, handle_read_p(c) PROVE LineType'
    BY <1>23, Bounds DEF handle_read_p
  <1>24. ASSUME NEW c \in Conns, messageReceived(c) PROVE LineType'
    <2>1. Tail(toApc[c]) \in Seq(ToApc)
      BY <1>24, Tails DEF messageReceived
    <2>2. QED BY <1>24, <2>1 DEF messageReceived
  <1>25. ASSUME NEW c \in Conns, handle_read_end(c) PROVE LineType'
    BY <1>25, Bounds DEF handle_read_end
  <1>26. ASSUME NEW c \in Conns, connectionFails(c) PROVE LineType'
    BY <1>26, Bounds DEF connectionFails, stopped
  <1>27. QED
    BY <1>1, <1>2, <1>3, <1>4, <1>5, <1>6, <1>7, <1>8, <1>9, <1>10, <1>11, <1>12, <1>13, <1>14, <1>15, <1>16, <1>17,
       <1>18, <1>19, <1>20, <1>21, <1>22, <1>23, <1>24, <1>25, <1>26
    DEF Next, NotifNext, TimerNext, CallNext, MgrNext, ReadNext

\* One of the elements of q has this kind.
Among(q, type) == \E i \in 1..Len(q) : q[i].t = type

\* The notifications of a life: START and DISCONNECT are of connector k, at most one of each, START first.
LifeQ(q, k) ==
    \A i \in 1..Len(q) :
       /\ q[i].t \in {"START", "DISCONNECT"} => q[i].c = k
       /\ \A j \in 1..Len(q) : i < j =>
             /\ q[j].t = "START" => q[i].t \notin {"START", "DISCONNECT"}
             /\ q[j].t = "DISCONNECT" => q[i].t # "DISCONNECT"

\* Some connector works.
Working == \E c \in Conns : conn[c].working

\* Something of a connector is left: a START or a DISCONNECT not handled yet, the client's pointer, or its work.
Busy == \/ Among(m_apcNotifQ, "START") \/ Among(m_apcNotifQ, "DISCONNECT")
        \/ m_pConnector # 0 \/ Working

\* The queue holds the life of the newest connector only.
QueueLife == LifeQ(m_apcNotifQ, conns)

\* Only the newest connector works or is read.
Newest == \A c \in Conns : conn[c].working \/ conn[c].reading => c = conns

\* A connector that works has not reported its end.
WorkLife == Working => ~Among(m_apcNotifQ, "DISCONNECT")

\* The reconnection timer is armed, or due, or neither, and neither while something of a connector is left.
OneTimer == /\ m_reconnectTimer \in [armed : BOOLEAN, due : {0, 1}]
            /\ m_reconnectTimer.armed => m_reconnectTimer.due = 0
            /\ Busy => ~m_reconnectTimer.armed /\ m_reconnectTimer.due = 0

\* The client knows the newest connector or none, and none before its START is handled.
Current == /\ m_pConnector \in {0, conns}
           /\ Among(m_apcNotifQ, "START") => m_pConnector = 0

\* A client that is stopped has no work on the io thread (stopIOSrvThread joined it).
IdleRest == app = "idle" => /\ m_reconnectTimer.due = 0
                            /\ \A c \in Conns : ~conn[c].working /\ ~conn[c].reading

\* The life of a connector: START queued, known to the client, at work, its end queued, handled, the timer, and only
\* then the next connector.
Life == QueueLife /\ Newest /\ WorkLife /\ OneTimer /\ Current /\ IdleRest

\* All notifications of the session before are handled, and its timer is off.  start() resets the client, but neither
\* the queue of CAPCCtrlNotifThread nor the timer: a caller that starts the client again has to wait for this.
AtRest == m_apcNotifQ = <<>> /\ ~m_reconnectTimer.armed

\* An empty queue.
LEMMA Nothing == ASSUME NEW k PROVE LifeQ(<<>>, k) /\ \A type : ~Among(<<>>, type)
  BY DEF LifeQ, Among

\* What is left of a life when its oldest notification is handled.
LEMMA Popped ==
    ASSUME NEW q \in Seq(Notifs), q # <<>>, NEW k, LifeQ(q, k)
    PROVE  /\ LifeQ(Tail(q), k)
           /\ \A type : Among(Tail(q), type) => Among(q, type)
           /\ Among(q, Head(q).t)
           /\ Head(q).t = "START" => Head(q).c = k /\ ~Among(Tail(q), "START")
           /\ Head(q).t = "DISCONNECT" => ~Among(q, "START") /\ ~Among(Tail(q), "DISCONNECT")
  <1> DEFINE r == Tail(q)
  <1>1. /\ Len(q) \in Nat \ {0} /\ Head(q) = q[1]
        /\ Len(r) = Len(q) - 1 /\ \A i \in 1..Len(r) : i + 1 \in 1..Len(q) /\ r[i] = q[i + 1]
    BY Tails
  <1> HIDE DEF r
  <1>2. \A type : Among(r, type) => Among(q, type)
    BY <1>1 DEF Among
  <1>3. Among(q, q[1].t)
    BY <1>1 DEF Among
  <1>4. LifeQ(r, k)
    <2> SUFFICES ASSUME NEW i \in 1..Len(r), NEW j \in 1..Len(r)
                 PROVE  /\ r[i].t \in {"START", "DISCONNECT"} => r[i].c = k
                        /\ i < j => /\ r[j].t = "START" => r[i].t \notin {"START", "DISCONNECT"}
                                    /\ r[j].t = "DISCONNECT" => r[i].t # "DISCONNECT"
      BY DEF LifeQ
    <2>1. i + 1 \in 1..Len(q) /\ j + 1 \in 1..Len(q) /\ r[i] = q[i + 1] /\ r[j] = q[j + 1] /\ (i < j => i + 1 < j + 1)
      BY <1>1
    <2>2. QED BY <2>1 DEF LifeQ
  <1>5. q[1].t = "START" => q[1].c = k
    BY <1>1 DEF LifeQ
  <1>6. \A i \in 1..Len(r) : i + 1 \in 1..Len(q) /\ 1 < i + 1 /\ r[i] = q[i + 1]
    BY <1>1
  <1>7. q[1].t = "START" => ~Among(r, "START")
    BY <1>1, <1>6 DEF LifeQ, Among
  <1>8. q[1].t = "DISCONNECT" => ~Among(r, "DISCONNECT")
    BY <1>1, <1>6 DEF LifeQ, Among
  <1>9. q[1].t = "DISCONNECT" => ~Among(q, "START")
    <2> SUFFICES ASSUME q[1].t = "DISCONNECT", NEW i \in 1..Len(q), q[i].t = "START" PROVE FALSE
      BY DEF Among
    <2>1. 1 \in 1..Len(q) /\ (i = 1 \/ 1 < i)
      BY <1>1
    <2>2. QED BY <2>1 DEF LifeQ
  <1>10. QED BY <1>1, <1>2, <1>3, <1>4, <1>5, <1>7, <1>8, <1>9 DEF r

\* The kinds among a queue after one more notification.
LEMMA Added ==
    ASSUME NEW q \in Seq(Notifs), NEW n \in Notifs
    PROVE  /\ \A type : Among(Append(q, n), type) => Among(q, type) \/ n.t = type
           /\ \A type : Among(q, type) => Among(Append(q, n), type)
  <1>1. /\ Len(Append(q, n)) = Len(q) + 1 /\ Len(q) \in Nat /\ Append(q, n)[Len(q) + 1] = n
        /\ \A i \in 1..Len(q) : Append(q, n)[i] = q[i]
    BY Appends
  <1> DEFINE r == Append(q, n)
  <1> HIDE DEF r
  <1>2. QED BY <1>1 DEF Among, r

\* What may be added to the queue of connector k's life.
LEMMA LifeGrows ==
    ASSUME NEW q \in Seq(Notifs), NEW n \in Notifs, NEW k, NEW l, LifeQ(q, k),
           n.t \in {"START", "DISCONNECT"} => n.c = l,
           n.t = "START" => ~Among(q, "START") /\ ~Among(q, "DISCONNECT"),
           n.t = "DISCONNECT" => ~Among(q, "DISCONNECT"),
           k = l \/ (~Among(q, "START") /\ ~Among(q, "DISCONNECT"))
    PROVE  LifeQ(Append(q, n), l)
  <1> DEFINE r == Append(q, n)
  <1>1. /\ Len(r) = Len(q) + 1 /\ Len(q) \in Nat /\ r[Len(q) + 1] = n
        /\ \A i \in 1..Len(q) : r[i] = q[i]
    BY Appends
  <1> HIDE DEF r
  <1> SUFFICES ASSUME NEW i \in 1..Len(r), NEW j \in 1..Len(r)
               PROVE  /\ r[i].t \in {"START", "DISCONNECT"} => r[i].c = l
                      /\ i < j => /\ r[j].t = "START" => r[i].t \notin {"START", "DISCONNECT"}
                                  /\ r[j].t = "DISCONNECT" => r[i].t # "DISCONNECT"
    BY DEF LifeQ, r
  <1>2. \A m \in 1..Len(q) : q[m].t \in {"START", "DISCONNECT"} => q[m].c = l
    BY DEF LifeQ, Among
  <1>3. r[i].t \in {"START", "DISCONNECT"} => r[i].c = l
    BY <1>1, <1>2
  <1>4. ASSUME i < j PROVE i \in 1..Len(q) /\ r[i] = q[i] /\ (j \in 1..Len(q) \/ r[j] = n)
    BY <1>1, <1>4
  <1>5. ASSUME i < j, j \in 1..Len(q) PROVE /\ r[j].t = "START" => r[i].t \notin {"START", "DISCONNECT"}
                                            /\ r[j].t = "DISCONNECT" => r[i].t # "DISCONNECT"
    <2>1. r[j] = q[j] /\ r[i] = q[i] /\ i \in 1..Len(q)
      BY <1>1, <1>4, <1>5
    <2>2. QED BY <1>5, <2>1 DEF LifeQ
  <1>6. ASSUME i < j, r[j] = n PROVE /\ r[j].t = "START" => r[i].t \notin {"START", "DISCONNECT"}
                                     /\ r[j].t = "DISCONNECT" => r[i].t # "DISCONNECT"
    BY <1>4, <1>6 DEF Among
  <1>7. QED BY <1>3, <1>4, <1>5, <1>6

\* An end that is reported fits the life of the connector.
LEMMA EndsLife ==
    ASSUME NEW q \in Seq(Notifs), conn \in [Conns -> Links], NEW c \in Conns, Ends(c, q), conns' = conns,
           LifeQ(q, conns), Newest, Working => ~Among(q, "DISCONNECT")
    PROVE  /\ QueueLife' /\ Newest' /\ WorkLife' /\ (Working' => Working)
           /\ Among(m_apcNotifQ', "START") => Among(q, "START")
           /\ Among(m_apcNotifQ', "DISCONNECT") => Among(q, "DISCONNECT") \/ Working
           /\ \A d \in Conns : conn'[d].working => conn[d].working
           /\ \A d \in Conns : conn'[d].reading => conn[d].reading
  <1>1. CASE m_apcNotifQ' = q /\ \A d \in Conns : conn'[d].working => conn[d].working
    <2>1. \A d \in Conns : (conn'[d].working => conn[d].working) /\ (conn'[d].reading => conn[d].reading)
      BY <1>1 DEF Ends, Fewer
    <2>2. Working' => Working
      BY <2>1 DEF Working
    <2>3. Newest'
      BY <2>1 DEF Newest
    <2>4. QED BY <1>1, <2>1, <2>2, <2>3 DEF QueueLife, WorkLife
  <1>2. CASE /\ conn[c].working /\ ~conn'[c].working
             /\ \E n \in Notifs : n.t = "DISCONNECT" /\ n.c = c /\ m_apcNotifQ' = Append(q, n)
             /\ \A d \in Conns : d # c => conn'[d] = conn[d]
    <2>1. c = conns /\ Working
      BY <1>2 DEF Newest, Working
    <2>2. \A d \in Conns : ~conn'[d].working /\ (conn'[d].reading => conn[d].reading)
      BY <1>2, <2>1 DEF Newest, Ends, Fewer
    <2>3. ~Working' /\ Newest'
      BY <2>2 DEF Working, Newest
    <2>4. PICK n \in Notifs : n.t = "DISCONNECT" /\ n.c = c /\ m_apcNotifQ' = Append(q, n)
      BY <1>2
    <2>5. LifeQ(Append(q, n), conns)
      BY <2>1, <2>4, LifeGrows
    <2>6. QED BY <2>1, <2>2, <2>3, <2>4, <2>5, Added DEF QueueLife, WorkLife
  <1>3. QED BY <1>1, <1>2 DEF Ends

\* A step that leaves the connectors and their queue, or lets one end, and leaves the timer or stops it.
LEMMA LifeKept ==
    ASSUME ClientType, Life, conns' = conns, QueueLife', Newest', WorkLife',
           m_pConnector' \in {0, m_pConnector},
           Among(m_apcNotifQ', "START") => Among(m_apcNotifQ, "START"),
           Among(m_apcNotifQ', "DISCONNECT") => Among(m_apcNotifQ, "DISCONNECT") \/ Working,
           Working' => Working,
           m_reconnectTimer' = m_reconnectTimer \/ m_reconnectTimer' = stopTimer_p,
           IdleRest'
    PROVE  Life'
  <1>1. Busy' => Busy
    BY DEF Busy
  <1>2. /\ m_reconnectTimer' \in [armed : BOOLEAN, due : {0, 1}]
        /\ m_reconnectTimer'.armed => m_reconnectTimer.armed
        /\ m_reconnectTimer'.due = m_reconnectTimer.due
    BY DEF Life, OneTimer, stopTimer_p
  <1>3. OneTimer'
    BY <1>1, <1>2 DEF Life, OneTimer
  <1>4. Current'
    BY DEF Life, Current
  <1>5. QED BY <1>3, <1>4 DEF Life

\* A step that leaves the queue and begins no work.
LEMMA Same ==
    ASSUME ClientType, Life, UNCHANGED <<conns, m_apcNotifQ>>,
           conn' \in [Conns -> Links],
           \A c \in Conns : /\ conn'[c].working => conn[c].working
                            /\ conn'[c].reading => conn[c].reading
    PROVE  /\ QueueLife' /\ Newest' /\ WorkLife' /\ (Working' => Working)
           /\ Among(m_apcNotifQ', "START") => Among(m_apcNotifQ, "START")
           /\ Among(m_apcNotifQ', "DISCONNECT") => Among(m_apcNotifQ, "DISCONNECT") \/ Working
           /\ app' # "idle" => IdleRest'
           /\ app' = app /\ m_reconnectTimer'.due = m_reconnectTimer.due => IdleRest'
  <1>1. Working' => Working
    BY DEF Working
  <1>2. QED BY <1>1 DEF Life, QueueLife, Newest, WorkLife, IdleRest

\* A step on which a connector may end.
LEMMA EndsKept ==
    ASSUME ClientType, Life, NEW q \in Seq(Notifs), NEW c \in Conns, Ends(c, q), conns' = conns,
           LifeQ(q, conns), \A type : Among(q, type) => Among(m_apcNotifQ, type)
    PROVE  /\ QueueLife' /\ Newest' /\ WorkLife' /\ (Working' => Working)
           /\ Among(m_apcNotifQ', "START") => Among(m_apcNotifQ, "START")
           /\ Among(m_apcNotifQ', "DISCONNECT") => Among(m_apcNotifQ, "DISCONNECT") \/ Working
           /\ app' # "idle" => IdleRest'
           /\ app' = app /\ m_reconnectTimer'.due = m_reconnectTimer.due => IdleRest'
  <1>1. Newest /\ conn \in [Conns -> Links] /\ (Working => ~Among(q, "DISCONNECT"))
    BY DEF Life, ClientType, WorkLife
  <1>2. /\ QueueLife' /\ Newest' /\ WorkLife' /\ (Working' => Working)
        /\ Among(m_apcNotifQ', "START") => Among(q, "START")
        /\ Among(m_apcNotifQ', "DISCONNECT") => Among(q, "DISCONNECT") \/ Working
        /\ \A d \in Conns : conn'[d].working => conn[d].working
        /\ \A d \in Conns : conn'[d].reading => conn[d].reading
    BY <1>1, EndsLife
  <1>3. QED BY <1>2 DEF Life, IdleRest

\* A new connector is opened when nothing of the one before is left.
LEMMA OpenLife ==
    ASSUME ClientType, Life, conns < MaxConns, NEW id, Open(id), ~Busy, \A c \in Conns : ~conn[c].reading,
           m_pConnector' = m_pConnector, app' # "idle",
           m_reconnectTimer' = [armed |-> FALSE, due |-> 0]
    PROVE  Life'
  <1>1. /\ conns' = conns + 1 /\ conns' \in Conns /\ conn'[conns'].working /\ conn'[conns'].reading = conn[conns'].reading
        /\ \A d \in Conns : d # conns' => conn'[d] = conn[d]
        /\ \E n \in Notifs : n.t = "START" /\ n.c = conns' /\ m_apcNotifQ' = Append(m_apcNotifQ, n)
    BY Opening
  <1>2. PICK n \in Notifs : n.t = "START" /\ n.c = conns' /\ m_apcNotifQ' = Append(m_apcNotifQ, n)
    BY <1>1
  <1>3. m_pConnector = 0 /\ ~Among(m_apcNotifQ, "START") /\ ~Among(m_apcNotifQ, "DISCONNECT") /\ ~Working
    BY DEF Busy
  <1>4. m_apcNotifQ \in Seq(Notifs) /\ LifeQ(m_apcNotifQ, conns)
    BY DEF ClientType, Life, QueueLife
  <1>5. LifeQ(Append(m_apcNotifQ, n), conns')
    BY <1>2, <1>3, <1>4, LifeGrows
  <1>6. ~Among(m_apcNotifQ', "DISCONNECT")
    BY <1>2, <1>3, <1>4, Added
  <1>7. Newest'
    BY <1>1, <1>3 DEF Newest, Working
  <1>8. OneTimer'
    BY DEF OneTimer
  <1>9. Current'
    BY <1>3 DEF Current
  <1>10. QED BY <1>2, <1>5, <1>6, <1>7, <1>8, <1>9 DEF Life, QueueLife, WorkLife, IdleRest

\* The timer after its expiry was handled.
LEMMA TimerFields ==
    ASSUME NEW r \in [armed : BOOLEAN, due : {0, 1}], r.armed => r.due = 0, r.due > 0
    PROVE  /\ [r EXCEPT !.due = @ - 1] = [armed |-> FALSE, due |-> 0]
           /\ [[r EXCEPT !.due = @ - 1] EXCEPT !.armed = TRUE] = [armed |-> TRUE, due |-> 0]
           /\ [[r EXCEPT !.due = @ - 1] EXCEPT !.armed = FALSE] = [armed |-> FALSE, due |-> 0]
  <1>1. r = [armed |-> r.armed, due |-> r.due]
    OBVIOUS
  <1>2. r.due = 1 /\ r.armed = FALSE
    OBVIOUS
  <1>3. r = [armed |-> FALSE, due |-> 1]
    BY <1>1, <1>2
  <1>4. [r EXCEPT !.due = @ - 1] = [armed |-> FALSE, due |-> 0]
    <2>1. [r EXCEPT !.due = @ - 1] = [armed |-> r.armed, due |-> r.due - 1]
      BY <1>1
    <2>2. r.due - 1 = 0
      BY <1>2
    <2>3. QED BY <1>2, <2>1, <2>2
  <1>5. ASSUME NEW x \in [armed : BOOLEAN, due : {0, 1}], NEW b \in BOOLEAN
        PROVE  [x EXCEPT !.armed = b] = [armed |-> b, due |-> x.due]
    OBVIOUS
  <1>6. [armed |-> FALSE, due |-> 0] \in [armed : BOOLEAN, due : {0, 1}] /\ [armed |-> FALSE, due |-> 0].due = 0
    OBVIOUS
  <1> DEFINE h == [armed |-> FALSE, due |-> 0]
  <1>7. h \in [armed : BOOLEAN, due : {0, 1}] /\ h.due = 0
    BY <1>6
  <1>8. [r EXCEPT !.due = @ - 1] = h
    BY <1>4
  <1> HIDE DEF h
  <1>9. [h EXCEPT !.armed = TRUE] = [armed |-> TRUE, due |-> 0]
    BY <1>5, <1>7
  <1>10. [h EXCEPT !.armed = FALSE] = [armed |-> FALSE, due |-> 0]
    BY <1>5, <1>7
  <1>11. QED BY <1>4, <1>8, <1>9, <1>10

\* An expiry that is handled finds no connector.
LEMMA DueIdle ==
    ASSUME Life, m_reconnectTimer.due > 0
    PROVE  ~Busy /\ m_pConnector = 0 /\ TimerHandled = [armed |-> FALSE, due |-> 0]
           /\ RestartTimer = [armed |-> TRUE, due |-> 0]
           /\ [TimerHandled EXCEPT !.armed = FALSE] = [armed |-> FALSE, due |-> 0]
  <1>1. ~Busy
    BY DEF Life, OneTimer
  <1>2. m_reconnectTimer \in [armed : BOOLEAN, due : {0, 1}] /\ (m_reconnectTimer.armed => m_reconnectTimer.due = 0)
    BY DEF Life, OneTimer
  <1>3. QED BY <1>1, <1>2, TimerFields DEF Busy, TimerHandled, RestartTimer

\* A handled expiry that opens no connection.
LEMMA DueLife ==
    ASSUME ClientType, Life, m_reconnectTimer.due > 0, UNCHANGED <<conn, conns, m_apcNotifQ, m_pConnector>>,
           NEW a \in BOOLEAN, m_reconnectTimer' = [armed |-> a, due |-> 0], app' # "idle"
    PROVE  Life'
  <1>1. ~Busy
    BY DueIdle
  <1>2. ~Busy'
    BY <1>1 DEF Busy, Working
  <1>3. OneTimer'
    BY <1>2 DEF OneTimer
  <1>4. QED BY <1>3 DEF Life, QueueLife, Newest, WorkLife, Current, IdleRest, Working

\* The life of the connector when a notification of some kind is handled.
LEMMA PopLife ==
    ASSUME ClientType, Life, NEW type, Notif(type)
    PROVE  /\ Tail(m_apcNotifQ) \in Seq(Notifs) /\ LifeQ(Tail(m_apcNotifQ), conns)
           /\ \A x : Among(Tail(m_apcNotifQ), x) => Among(m_apcNotifQ, x)
           /\ Among(m_apcNotifQ, type)
           /\ type = "START" => Head(m_apcNotifQ).c = conns /\ ~Among(Tail(m_apcNotifQ), "START")
           /\ type = "DISCONNECT" => ~Among(m_apcNotifQ, "START") /\ ~Among(Tail(m_apcNotifQ), "DISCONNECT")
           /\ type # "MSGRCVD" => Head(m_apcNotifQ).c \in Conns
  <1>1. m_apcNotifQ \in Seq(Notifs) /\ m_apcNotifQ # <<>> /\ LifeQ(m_apcNotifQ, conns) /\ Head(m_apcNotifQ).t = type
    BY DEF ClientType, Life, QueueLife, Notif
  <1>2. QED BY <1>1, Popped, Tails, NotifFields

\* Every step keeps the life of the connectors, if start() is called at rest.
LEMMA LifeStep ==
    ASSUME ClientType, LineType, Life, [Next]_svars, start => AtRest
    PROVE  Life'
  <1>1. CASE UNCHANGED svars
    BY <1>1 DEF svars, clientVars, connVars, Life, QueueLife, Newest, WorkLife, OneTimer, Current, IdleRest,
       Working, Busy
  <1>2. CASE apcStarted
    <2>1. /\ m_pConnector' = Head(m_apcNotifQ).c /\ m_apcNotifQ' = Tail(m_apcNotifQ) /\ Notif("START")
          /\ UNCHANGED <<conn, conns, app, m_reconnectTimer>>
      BY <1>2 DEF apcStarted
    <2>2. /\ LifeQ(m_apcNotifQ', conns) /\ (\A x : Among(m_apcNotifQ', x) => Among(m_apcNotifQ, x))
          /\ Among(m_apcNotifQ, "START") /\ m_pConnector' = conns /\ ~Among(m_apcNotifQ', "START")
      BY <2>1, PopLife
    <2>3. Busy /\ (Working' => Working)
      BY <2>1, <2>2 DEF Busy, Working
    <2>4. OneTimer'
      BY <2>1, <2>3 DEF Life, OneTimer
    <2>5. QED BY <2>1, <2>2, <2>3, <2>4 DEF Life, QueueLife, Newest, WorkLife, Current, IdleRest
  <1>3. CASE messageConfirms
    <2>1. /\ m_apcNotifQ' = Tail(m_apcNotifQ) /\ Notif("MSGRCVD")
          /\ UNCHANGED <<conn, conns, app, m_pConnector, m_reconnectTimer>>
      BY <1>3 DEF messageConfirms, clientVars
    <2>2. LifeQ(m_apcNotifQ', conns) /\ (\A x : Among(m_apcNotifQ', x) => Among(m_apcNotifQ, x))
      BY <2>1, PopLife
    <2>3. Busy' => Busy
      BY <2>1, <2>2 DEF Busy, Working
    <2>4. OneTimer'
      BY <2>1, <2>3 DEF Life, OneTimer
    <2>5. QED BY <2>1, <2>2, <2>4 DEF Life, QueueLife, Newest, WorkLife, Current, IdleRest, Working
  <1>4. CASE apcConnected_refused
    <2>1. /\ Notif("CONNECT")
          /\ \/ PopAndStop(Head(m_apcNotifQ).c, "DISCONNECT") \/ PopAndStop(Head(m_apcNotifQ).c, "OFFLINE")
             \/ m_apcNotifQ' = Tail(m_apcNotifQ) /\ UNCHANGED conn
      BY <1>4 DEF apcConnected_refused
    <2>2. /\ Tail(m_apcNotifQ) \in Seq(Notifs) /\ LifeQ(Tail(m_apcNotifQ), conns) /\ conn \in [Conns -> Links]
          /\ Head(m_apcNotifQ).c \in Conns
          /\ \A x : Among(Tail(m_apcNotifQ), x) => Among(m_apcNotifQ, x)
      BY <2>1, PopLife DEF ClientType
    <2>3. Ends(Head(m_apcNotifQ).c, Tail(m_apcNotifQ))
      BY <2>1, <2>2, Stopping DEF Ends, Fewer
    <2>4. \E q \in Seq(Notifs), e \in Conns : Ends(e, q) /\ LifeQ(q, conns) /\ \A x : Among(q, x) => Among(m_apcNotifQ, x)
      BY <2>2, <2>3
    <2>5. /\ conns' = conns /\ m_pConnector' \in {0, m_pConnector}
          /\ m_reconnectTimer' = m_reconnectTimer \/ m_reconnectTimer' = stopTimer_p
          /\ app' # "idle" \/ app' = app
      BY <1>4 DEF apcConnected_refused, clientVars
    <2>6. m_reconnectTimer'.due = m_reconnectTimer.due
      BY <2>5 DEF Life, OneTimer, stopTimer_p
    <2>7. /\ QueueLife' /\ Newest' /\ WorkLife' /\ (Working' => Working) /\ IdleRest'
          /\ Among(m_apcNotifQ', "START") => Among(m_apcNotifQ, "START")
          /\ Among(m_apcNotifQ', "DISCONNECT") => Among(m_apcNotifQ, "DISCONNECT") \/ Working
      BY <2>4, <2>5, <2>6, EndsKept
    <2>8. QED BY <2>5, <2>7, LifeKept
  <1>5. CASE apcConnected_new
    <2>1. /\ Notif("CONNECT")
          /\ \/ PopAndStop(Head(m_apcNotifQ).c, "DISCONNECT") \/ PopAndStop(Head(m_apcNotifQ).c, "OFFLINE")
             \/ m_apcNotifQ' = Tail(m_apcNotifQ) /\ UNCHANGED conn
      BY <1>5 DEF apcConnected_new
    <2>2. /\ Tail(m_apcNotifQ) \in Seq(Notifs) /\ LifeQ(Tail(m_apcNotifQ), conns) /\ conn \in [Conns -> Links]
          /\ Head(m_apcNotifQ).c \in Conns
          /\ \A x : Among(Tail(m_apcNotifQ), x) => Among(m_apcNotifQ, x)
      BY <2>1, PopLife DEF ClientType
    <2>3. Ends(Head(m_apcNotifQ).c, Tail(m_apcNotifQ))
      BY <2>1, <2>2, Stopping DEF Ends, Fewer
    <2>4. \E q \in Seq(Notifs), e \in Conns : Ends(e, q) /\ LifeQ(q, conns) /\ \A x : Among(q, x) => Among(m_apcNotifQ, x)
      BY <2>2, <2>3
    <2>5. /\ conns' = conns /\ m_pConnector' \in {0, m_pConnector}
          /\ m_reconnectTimer' = m_reconnectTimer \/ m_reconnectTimer' = stopTimer_p
          /\ app' # "idle" \/ app' = app
      BY <1>5 DEF apcConnected_new, clientVars
    <2>6. m_reconnectTimer'.due = m_reconnectTimer.due
      BY <2>5 DEF Life, OneTimer, stopTimer_p
    <2>7. /\ QueueLife' /\ Newest' /\ WorkLife' /\ (Working' => Working) /\ IdleRest'
          /\ Among(m_apcNotifQ', "START") => Among(m_apcNotifQ, "START")
          /\ Among(m_apcNotifQ', "DISCONNECT") => Among(m_apcNotifQ, "DISCONNECT") \/ Working
      BY <2>4, <2>5, <2>6, EndsKept
    <2>8. QED BY <2>5, <2>7, LifeKept
  <1>6. CASE apcConnected_restored
    <2>1. /\ Notif("CONNECT")
          /\ \/ PopAndStop(Head(m_apcNotifQ).c, "DISCONNECT") \/ PopAndStop(Head(m_apcNotifQ).c, "OFFLINE")
             \/ m_apcNotifQ' = Tail(m_apcNotifQ) /\ UNCHANGED conn
      BY <1>6 DEF apcConnected_restored
    <2>2. /\ Tail(m_apcNotifQ) \in Seq(Notifs) /\ LifeQ(Tail(m_apcNotifQ), conns) /\ conn \in [Conns -> Links]
          /\ Head(m_apcNotifQ).c \in Conns
          /\ \A x : Among(Tail(m_apcNotifQ), x) => Among(m_apcNotifQ, x)
      BY <2>1, PopLife DEF ClientType
    <2>3. Ends(Head(m_apcNotifQ).c, Tail(m_apcNotifQ))
      BY <2>1, <2>2, Stopping DEF Ends, Fewer
    <2>4. \E q \in Seq(Notifs), e \in Conns : Ends(e, q) /\ LifeQ(q, conns) /\ \A x : Among(q, x) => Among(m_apcNotifQ, x)
      BY <2>2, <2>3
    <2>5. /\ conns' = conns /\ m_pConnector' \in {0, m_pConnector}
          /\ m_reconnectTimer' = m_reconnectTimer \/ m_reconnectTimer' = stopTimer_p
          /\ app' # "idle" \/ app' = app
      BY <1>6 DEF apcConnected_restored, clientVars
    <2>6. m_reconnectTimer'.due = m_reconnectTimer.due
      BY <2>5 DEF Life, OneTimer, stopTimer_p
    <2>7. /\ QueueLife' /\ Newest' /\ WorkLife' /\ (Working' => Working) /\ IdleRest'
          /\ Among(m_apcNotifQ', "START") => Among(m_apcNotifQ, "START")
          /\ Among(m_apcNotifQ', "DISCONNECT") => Among(m_apcNotifQ, "DISCONNECT") \/ Working
      BY <2>4, <2>5, <2>6, EndsKept
    <2>8. QED BY <2>5, <2>7, LifeKept
  <1>7. CASE apcDisconnected
    <2>1. /\ Notif("DISCONNECT") /\ m_apcNotifQ' = Tail(m_apcNotifQ) /\ m_pConnector' = 0 /\ UNCHANGED <<conn, conns>>
          /\ m_reconnectTimer' = stopTimer_p \/ m_reconnectTimer' = startTimer_p
          /\ app' = app \/ app' = "woken"
      BY <1>7 DEF apcDisconnected
    <2>2. /\ LifeQ(m_apcNotifQ', conns) /\ ~Among(m_apcNotifQ', "START") /\ ~Among(m_apcNotifQ', "DISCONNECT")
          /\ Among(m_apcNotifQ, "DISCONNECT")
      BY <2>1, PopLife
    <2>3. ~Working /\ ~Working'
      BY <2>1, <2>2 DEF Life, WorkLife, Working
    <2>4. ~Busy' /\ Busy
      BY <2>1, <2>2, <2>3 DEF Busy
    <2>5. m_reconnectTimer' \in [armed : BOOLEAN, due : {0, 1}] /\ m_reconnectTimer'.due = 0
      BY <2>1, <2>4 DEF Life, OneTimer, stopTimer_p, startTimer_p
    <2>6. OneTimer'
      BY <2>4, <2>5 DEF OneTimer
    <2>7. Newest' /\ IdleRest'
      BY <2>1, <2>5 DEF Life, Newest, IdleRest
    <2>8. QED BY <2>1, <2>2, <2>3, <2>6, <2>7 DEF Life, QueueLife, WorkLife, Current
  <1>8. CASE TimerExpires
    <2>1. /\ m_reconnectTimer.armed /\ m_reconnectTimer' = [armed |-> FALSE, due |-> m_reconnectTimer.due + 1]
          /\ UNCHANGED <<conn, conns, m_apcNotifQ, m_pConnector, app>> /\ app # "idle"
      BY <1>8 DEF TimerExpires, connVars
    <2>2. ~Busy /\ m_reconnectTimer.due = 0
      BY <2>1 DEF Life, OneTimer
    <2>3. ~Busy'
      BY <2>1, <2>2 DEF Busy, Working
    <2>4. OneTimer'
      BY <2>1, <2>2, <2>3 DEF OneTimer
    <2>5. QED BY <2>1, <2>4 DEF Life, QueueLife, Newest, WorkLife, Current, IdleRest, Working
  <1>9. CASE TimePasses
    <2>1. /\ conn' \in [Conns -> Links]
          /\ \A d \in Conns : /\ conn'[d].working => conn[d].working
                              /\ conn'[d].reading => conn[d].reading
      BY <1>9 DEF TimePasses, connVars, ClientType
    <2>2. /\ UNCHANGED <<conns, m_apcNotifQ>> /\ m_pConnector' \in {0, m_pConnector}
          /\ m_reconnectTimer' = m_reconnectTimer \/ m_reconnectTimer' = stopTimer_p
          /\ app' # "idle" \/ app' = app
      BY <1>9 DEF TimePasses, clientVars, connVars
    <2>3. m_reconnectTimer'.due = m_reconnectTimer.due
      BY <2>2 DEF Life, OneTimer, stopTimer_p
    <2>4. /\ QueueLife' /\ Newest' /\ WorkLife' /\ (Working' => Working) /\ IdleRest'
          /\ Among(m_apcNotifQ', "START") => Among(m_apcNotifQ, "START")
          /\ Among(m_apcNotifQ', "DISCONNECT") => Among(m_apcNotifQ, "DISCONNECT") \/ Working
      BY <2>1, <2>2, <2>3, Same
    <2>5. QED BY <2>2, <2>4, LifeKept
  <1>10. CASE reconnect_p
    <2>1. m_reconnectTimer.due > 0 /\ app' # "idle" /\ IOFree /\ m_pConnector' = m_pConnector
      BY <1>10 DEF reconnect_p
    <2>2. /\ ~Busy /\ m_pConnector = 0 /\ TimerHandled = [armed |-> FALSE, due |-> 0]
          /\ RestartTimer = [armed |-> TRUE, due |-> 0]
      BY <2>1, DueIdle
    <2>3. CASE ipConnect_p /\ Open(m_intfId) /\ m_reconnectTimer' = TimerUsed
      BY <2>1, <2>2, <2>3, OpenLife DEF ipConnect_p, IOFree, TimerUsed
    <2>4. CASE m_reconnectTimer' = RestartTimer /\ UNCHANGED connVars
      BY <2>1, <2>2, <2>4, DueLife DEF connVars
    <2>5. QED BY <1>10, <2>2, <2>3, <2>4 DEF reconnect_p
  <1>11. CASE disconnect_p
    <2>1. m_reconnectTimer.due > 0 /\ app' # "idle" /\ m_pConnector' = m_pConnector /\ conns' = conns
      BY <1>11 DEF disconnect_p
    <2>2. m_pConnector = 0 /\ [TimerHandled EXCEPT !.armed = FALSE] = [armed |-> FALSE, due |-> 0]
      BY <2>1, DueIdle
    <2>3. m_reconnectTimer' = [armed |-> FALSE, due |-> 0] /\ UNCHANGED <<conn, m_apcNotifQ>>
      BY <1>11, <2>2 DEF disconnect_p
    <2>4. QED BY <2>1, <2>3, DueLife
  <1>12. CASE timerIgnored
    <2>1. m_reconnectTimer.due > 0 /\ app' # "idle" /\ UNCHANGED <<conn, conns, m_apcNotifQ, m_pConnector>>
      BY <1>12 DEF timerIgnored, connVars
    <2>2. m_reconnectTimer' = [armed |-> FALSE, due |-> 0]
      BY <1>12, <2>1, DueIdle DEF timerIgnored
    <2>3. QED BY <2>1, <2>2, DueLife
  <1>13. CASE start
    <2>1. AtRest /\ app = "idle" /\ app' = "run" /\ UNCHANGED <<m_pConnector, m_reconnectTimer>>
      BY <1>13 DEF start, clientVars
    <2>2. /\ m_reconnectTimer = [armed |-> FALSE, due |-> 0] /\ ~Working
          /\ \A c \in Conns : ~conn[c].reading
      BY <2>1 DEF Life, OneTimer, IdleRest, AtRest, Working
    <2>3. CASE ipConnect_p /\ Open(0) /\ m_pConnector = 0
      <3>1. ~Busy
        BY <2>1, <2>2, <2>3, Nothing DEF Busy, AtRest
      <3>2. QED BY <2>1, <2>2, <2>3, <3>1, OpenLife DEF ipConnect_p
    <2>4. CASE UNCHANGED connVars
      BY <2>1, <2>4 DEF connVars, Life, QueueLife, Newest, WorkLife, OneTimer, Current, IdleRest, Working, Busy
    <2>5. QED BY <1>13, <2>3, <2>4 DEF start
  <1>14. CASE stop
    <2>1. /\ conn' \in [Conns -> Links]
          /\ \A d \in Conns : /\ conn'[d].working => conn[d].working
                              /\ conn'[d].reading => conn[d].reading
      <3>1. conn' = conn \/ conn' = [conn EXCEPT ![m_pConnector].force = TRUE]
        BY <1>14 DEF stop
      <3>2. QED BY <3>1 DEF ClientType, Links
    <2>2. /\ UNCHANGED <<conns, m_apcNotifQ>> /\ m_pConnector' \in {0, m_pConnector}
          /\ m_reconnectTimer' = m_reconnectTimer \/ m_reconnectTimer' = stopTimer_p
          /\ app' # "idle" \/ app' = app
      BY <1>14 DEF stop, clientVars, connVars
    <2>3. m_reconnectTimer'.due = m_reconnectTimer.due
      BY <2>2 DEF Life, OneTimer, stopTimer_p
    <2>4. /\ QueueLife' /\ Newest' /\ WorkLife' /\ (Working' => Working) /\ IdleRest'
          /\ Among(m_apcNotifQ', "START") => Among(m_apcNotifQ, "START")
          /\ Among(m_apcNotifQ', "DISCONNECT") => Among(m_apcNotifQ, "DISCONNECT") \/ Working
      BY <2>1, <2>2, <2>3, Same
    <2>5. QED BY <2>2, <2>4, LifeKept
  <1>15. CASE stop_close
    <2>1. m_pConnector # 0 => m_pConnector \in Conns
      BY Bounds DEF ClientType, Conns
    <2>2. m_apcNotifQ \in Seq(Notifs) /\ LifeQ(m_apcNotifQ, conns) /\ conn \in [Conns -> Links]
      BY DEF ClientType, Life, QueueLife
    <2>3. m_pConnector \in Conns /\ stopped(m_pConnector, "DISCONNECT")
      BY <1>15, <2>1 DEF stop_close, ClientType
    <2>4. \E q \in Seq(Notifs), e \in Conns : Ends(e, q) /\ LifeQ(q, conns) /\ \A x : Among(q, x) => Among(m_apcNotifQ, x)
      BY <2>3, <2>2, Stopping
    <2>5. /\ conns' = conns /\ m_pConnector' \in {0, m_pConnector}
          /\ m_reconnectTimer' = m_reconnectTimer \/ m_reconnectTimer' = stopTimer_p
          /\ app' # "idle" \/ app' = app
      BY <1>15 DEF stop_close, clientVars
    <2>6. m_reconnectTimer'.due = m_reconnectTimer.due
      BY <2>5 DEF Life, OneTimer, stopTimer_p
    <2>7. /\ QueueLife' /\ Newest' /\ WorkLife' /\ (Working' => Working) /\ IdleRest'
          /\ Among(m_apcNotifQ', "START") => Among(m_apcNotifQ, "START")
          /\ Among(m_apcNotifQ', "DISCONNECT") => Among(m_apcNotifQ, "DISCONNECT") \/ Working
      BY <2>4, <2>5, <2>6, EndsKept
    <2>8. QED BY <2>5, <2>7, LifeKept
  <1>16. CASE stop_wait
    <2>1. /\ conn' \in [Conns -> Links]
          /\ \A d \in Conns : /\ conn'[d].working => conn[d].working
                              /\ conn'[d].reading => conn[d].reading
      BY <1>16 DEF stop_wait, connVars, ClientType
    <2>2. /\ UNCHANGED <<conns, m_apcNotifQ>> /\ m_pConnector' \in {0, m_pConnector}
          /\ m_reconnectTimer' = m_reconnectTimer \/ m_reconnectTimer' = stopTimer_p
          /\ app' # "idle" \/ app' = app
      BY <1>16 DEF stop_wait, clientVars, connVars
    <2>3. m_reconnectTimer'.due = m_reconnectTimer.due
      BY <2>2 DEF Life, OneTimer, stopTimer_p
    <2>4. /\ QueueLife' /\ Newest' /\ WorkLife' /\ (Working' => Working) /\ IdleRest'
          /\ Among(m_apcNotifQ', "START") => Among(m_apcNotifQ, "START")
          /\ Among(m_apcNotifQ', "DISCONNECT") => Among(m_apcNotifQ, "DISCONNECT") \/ Working
      BY <2>1, <2>2, <2>3, Same
    <2>5. QED BY <2>2, <2>4, LifeKept
  <1>17. CASE stop_join
    <2>1. UNCHANGED <<conn, conns, m_apcNotifQ, m_pConnector, m_reconnectTimer>> /\ NoIOWork
      BY <1>17 DEF stop_join, clientVars, connVars
    <2>2. IdleRest'
      BY <2>1 DEF NoIOWork, IdleRest
    <2>3. QED BY <2>1, <2>2 DEF Life, QueueLife, Newest, WorkLife, OneTimer, Current, Working, Busy
  <1>18. CASE sendData
    <2>1. m_pConnector # 0 => m_pConnector \in Conns
      BY Bounds DEF ClientType, Conns
    <2>2. m_apcNotifQ \in Seq(Notifs) /\ LifeQ(m_apcNotifQ, conns) /\ conn \in [Conns -> Links]
      BY DEF ClientType, Life, QueueLife
    <2>3. /\ m_pConnector \in Conns
          /\ (\E flag \in WriteErrors : stopped(m_pConnector, flag)) \/ UNCHANGED <<conn, m_apcNotifQ>>
      BY <1>18, <2>1 DEF sendData, sendData_p
    <2>4. Ends(m_pConnector, m_apcNotifQ)
      BY <2>3, <2>2, Stopping DEF Ends, Fewer
    <2>5. \E q \in Seq(Notifs), e \in Conns : Ends(e, q) /\ LifeQ(q, conns) /\ \A x : Among(q, x) => Among(m_apcNotifQ, x)
      BY <2>3, <2>4, <2>2
    <2>6. /\ conns' = conns /\ m_pConnector' \in {0, m_pConnector}
          /\ m_reconnectTimer' = m_reconnectTimer \/ m_reconnectTimer' = stopTimer_p
          /\ app' # "idle" \/ app' = app
      BY <1>18 DEF sendData, sendData_p, clientVars
    <2>7. m_reconnectTimer'.due = m_reconnectTimer.due
      BY <2>6 DEF Life, OneTimer, stopTimer_p
    <2>8. /\ QueueLife' /\ Newest' /\ WorkLife' /\ (Working' => Working) /\ IdleRest'
          /\ Among(m_apcNotifQ', "START") => Among(m_apcNotifQ, "START")
          /\ Among(m_apcNotifQ', "DISCONNECT") => Among(m_apcNotifQ, "DISCONNECT") \/ Working
      BY <2>5, <2>6, <2>7, EndsKept
    <2>9. QED BY <2>6, <2>8, LifeKept
  <1>19. CASE ManagerConfirms
    <2>1. /\ conn' \in [Conns -> Links]
          /\ \A d \in Conns : /\ conn'[d].working => conn[d].working
                              /\ conn'[d].reading => conn[d].reading
      BY <1>19 DEF ManagerConfirms, connVars, ClientType
    <2>2. /\ UNCHANGED <<conns, m_apcNotifQ>> /\ m_pConnector' \in {0, m_pConnector}
          /\ m_reconnectTimer' = m_reconnectTimer \/ m_reconnectTimer' = stopTimer_p
          /\ app' # "idle" \/ app' = app
      BY <1>19 DEF ManagerConfirms, clientVars, connVars
    <2>3. m_reconnectTimer'.due = m_reconnectTimer.due
      BY <2>2 DEF Life, OneTimer, stopTimer_p
    <2>4. /\ QueueLife' /\ Newest' /\ WorkLife' /\ (Working' => Working) /\ IdleRest'
          /\ Among(m_apcNotifQ', "START") => Among(m_apcNotifQ, "START")
          /\ Among(m_apcNotifQ', "DISCONNECT") => Among(m_apcNotifQ, "DISCONNECT") \/ Working
      BY <2>1, <2>2, <2>3, Same
    <2>5. QED BY <2>2, <2>4, LifeKept
  <1>20. CASE ManagerRefuses
    <2>1. /\ conn' \in [Conns -> Links]
          /\ \A d \in Conns : /\ conn'[d].working => conn[d].working
                              /\ conn'[d].reading => conn[d].reading
      BY <1>20 DEF ManagerRefuses, connVars, ClientType
    <2>2. /\ UNCHANGED <<conns, m_apcNotifQ>> /\ m_pConnector' \in {0, m_pConnector}
          /\ m_reconnectTimer' = m_reconnectTimer \/ m_reconnectTimer' = stopTimer_p
          /\ app' # "idle" \/ app' = app
      BY <1>20 DEF ManagerRefuses, clientVars, connVars
    <2>3. m_reconnectTimer'.due = m_reconnectTimer.due
      BY <2>2 DEF Life, OneTimer, stopTimer_p
    <2>4. /\ QueueLife' /\ Newest' /\ WorkLife' /\ (Working' => Working) /\ IdleRest'
          /\ Among(m_apcNotifQ', "START") => Among(m_apcNotifQ, "START")
          /\ Among(m_apcNotifQ', "DISCONNECT") => Among(m_apcNotifQ, "DISCONNECT") \/ Working
      BY <2>1, <2>2, <2>3, Same
    <2>5. QED BY <2>2, <2>4, LifeKept
  <1>21. ASSUME NEW c \in Conns, ManagerReads(c) PROVE Life'
    <2>1. /\ conn' \in [Conns -> Links]
          /\ \A d \in Conns : /\ conn'[d].working => conn[d].working
                              /\ conn'[d].reading => conn[d].reading
      BY <1>21 DEF ManagerReads, connVars, ClientType
    <2>2. /\ UNCHANGED <<conns, m_apcNotifQ>> /\ m_pConnector' \in {0, m_pConnector}
          /\ m_reconnectTimer' = m_reconnectTimer \/ m_reconnectTimer' = stopTimer_p
          /\ app' # "idle" \/ app' = app
      BY <1>21 DEF ManagerReads, clientVars, connVars
    <2>3. m_reconnectTimer'.due = m_reconnectTimer.due
      BY <2>2 DEF Life, OneTimer, stopTimer_p
    <2>4. /\ QueueLife' /\ Newest' /\ WorkLife' /\ (Working' => Working) /\ IdleRest'
          /\ Among(m_apcNotifQ', "START") => Among(m_apcNotifQ, "START")
          /\ Among(m_apcNotifQ', "DISCONNECT") => Among(m_apcNotifQ, "DISCONNECT") \/ Working
      BY <2>1, <2>2, <2>3, Same
    <2>5. QED BY <2>2, <2>4, LifeKept
  <1>22. ASSUME NEW c \in Conns, Break(c) PROVE Life'
    <2>1. /\ conn' \in [Conns -> Links]
          /\ \A d \in Conns : /\ conn'[d].working => conn[d].working
                              /\ conn'[d].reading => conn[d].reading
      BY <1>22 DEF Break, connVars, ClientType
    <2>2. /\ UNCHANGED <<conns, m_apcNotifQ>> /\ m_pConnector' \in {0, m_pConnector}
          /\ m_reconnectTimer' = m_reconnectTimer \/ m_reconnectTimer' = stopTimer_p
          /\ app' # "idle" \/ app' = app
      BY <1>22 DEF Break, clientVars, connVars
    <2>3. m_reconnectTimer'.due = m_reconnectTimer.due
      BY <2>2 DEF Life, OneTimer, stopTimer_p
    <2>4. /\ QueueLife' /\ Newest' /\ WorkLife' /\ (Working' => Working) /\ IdleRest'
          /\ Among(m_apcNotifQ', "START") => Among(m_apcNotifQ, "START")
          /\ Among(m_apcNotifQ', "DISCONNECT") => Among(m_apcNotifQ, "DISCONNECT") \/ Working
      BY <2>1, <2>2, <2>3, Same
    <2>5. QED BY <2>2, <2>4, LifeKept
  <1>23. ASSUME NEW c \in Conns, handle_read_p(c) PROVE Life'
    <2>1. /\ conn[c].working /\ UNCHANGED <<conns, m_apcNotifQ, m_pConnector, m_reconnectTimer, app>>
          /\ conn' = [conn EXCEPT ![c].reading = TRUE]
      BY <1>23 DEF handle_read_p, clientVars
    <2>2. \A d \in Conns : conn'[d].working = conn[d].working /\ (conn'[d].reading => conn[d].reading \/ d = c)
      BY <2>1 DEF ClientType, Links
    <2>3. Working' = Working /\ Newest' /\ IdleRest'
      BY <2>1, <2>2 DEF Life, Newest, IdleRest, Working
    <2>4. QueueLife' /\ WorkLife'
      BY <2>1, <2>3 DEF Life, QueueLife, WorkLife
    <2>5. QED BY <2>1, <2>3, <2>4, LifeKept
  <1>24. ASSUME NEW c \in Conns, messageReceived(c) PROVE Life'
    <2> DEFINE f == Head(toApc[c])
    <2>1. /\ UNCHANGED <<conns, m_pConnector, m_reconnectTimer, app>>
          /\ m_apcNotifQ \in Seq(Notifs) /\ LifeQ(m_apcNotifQ, conns) /\ conn \in [Conns -> Links]
      BY <1>24 DEF messageReceived, clientVars, ClientType, Life, QueueLife
    <2>2. f \in ToApc
      BY <1>24, Tails DEF messageReceived, LineType
    <2>3. CASE readError(c, "OFFLINE") \/ readError(c, "DISCONNECT")
      <3>1. Ends(c, m_apcNotifQ)
        BY <2>1, <2>3, ReadFailing
      <3>2. /\ QueueLife' /\ Newest' /\ WorkLife' /\ (Working' => Working) /\ IdleRest'
            /\ Among(m_apcNotifQ', "START") => Among(m_apcNotifQ, "START")
            /\ Among(m_apcNotifQ', "DISCONNECT") => Among(m_apcNotifQ, "DISCONNECT") \/ Working
        BY <2>1, <3>1, EndsKept
      <3>3. QED BY <2>1, <3>2, LifeKept
    <2>4. CASE \E n \in Notifs : /\ n.t \in {"CONNECT", "MSGRCVD"} /\ m_apcNotifQ' = Append(m_apcNotifQ, n)
                                 /\ conn' = conn \/ conn' = [conn EXCEPT ![c].connected = TRUE]
      <3>1. PICK n \in Notifs : /\ n.t \in {"CONNECT", "MSGRCVD"} /\ m_apcNotifQ' = Append(m_apcNotifQ, n)
                                /\ conn' = conn \/ conn' = [conn EXCEPT ![c].connected = TRUE]
        BY <2>4
      <3>2. LifeQ(m_apcNotifQ', conns) /\ \A x \in {"START", "DISCONNECT"} : Among(m_apcNotifQ', x) => Among(m_apcNotifQ, x)
        BY <2>1, <3>1, LifeGrows, Added
      <3>3. \A d \in Conns : conn'[d].working = conn[d].working /\ conn'[d].reading = conn[d].reading
        BY <2>1, <3>1 DEF Links
      <3>4. (Working' => Working) /\ Newest' /\ IdleRest'
        BY <2>1, <3>3 DEF Life, Newest, IdleRest, Working
      <3>5. QueueLife' /\ WorkLife'
        BY <2>1, <3>2, <3>4 DEF Life, QueueLife, WorkLife
      <3>6. QED BY <2>1, <3>2, <3>4, <3>5, LifeKept
    <2>5. CASE /\ f.t = "CONNECT" /\ conn' = [conn EXCEPT ![c].connected = TRUE]
               /\ m_apcNotifQ' = Append(m_apcNotifQ, [t |-> "CONNECT", c |-> c, id |-> f.id, your |-> f.your])
      <3> DEFINE n == [t |-> "CONNECT", c |-> c, id |-> f.id, your |-> f.your]
      <3>1. n \in Notifs /\ n.t = "CONNECT"
        BY <2>2, <2>5, FrameFields, MakeNotifs
      <3> HIDE DEF n
      <3>2. m_apcNotifQ' = Append(m_apcNotifQ, n)
        BY <2>5 DEF n
      <3>3. QED BY <2>4, <2>5, <3>1, <3>2
    <2>6. CASE /\ f.t \in {"KA", "NET"} /\ conn' = conn
               /\ m_apcNotifQ' = Append(m_apcNotifQ, [t |-> "MSGRCVD", your |-> f.your])
      <3> DEFINE n == [t |-> "MSGRCVD", your |-> f.your]
      <3>1. n \in Notifs /\ n.t = "MSGRCVD"
        BY <2>2, <2>6, FrameFields, MakeNotifs
      <3> HIDE DEF n
      <3>2. m_apcNotifQ' = Append(m_apcNotifQ, n)
        BY <2>6 DEF n
      <3>3. QED BY <2>4, <2>6, <3>1, <3>2
    <2>7. QED BY <1>24, <2>3, <2>5, <2>6 DEF messageReceived
  <1>25. ASSUME NEW c \in Conns, handle_read_end(c) PROVE Life'
    <2>1. /\ conn' \in [Conns -> Links]
          /\ \A d \in Conns : /\ conn'[d].working => conn[d].working
                              /\ conn'[d].reading => conn[d].reading
      BY <1>25 DEF handle_read_end, ClientType, Links
    <2>2. /\ UNCHANGED <<conns, m_apcNotifQ>> /\ m_pConnector' \in {0, m_pConnector}
          /\ m_reconnectTimer' = m_reconnectTimer \/ m_reconnectTimer' = stopTimer_p
          /\ app' # "idle" \/ app' = app
      BY <1>25 DEF handle_read_end, clientVars, connVars
    <2>3. m_reconnectTimer'.due = m_reconnectTimer.due
      BY <2>2 DEF Life, OneTimer, stopTimer_p
    <2>4. /\ QueueLife' /\ Newest' /\ WorkLife' /\ (Working' => Working) /\ IdleRest'
          /\ Among(m_apcNotifQ', "START") => Among(m_apcNotifQ, "START")
          /\ Among(m_apcNotifQ', "DISCONNECT") => Among(m_apcNotifQ, "DISCONNECT") \/ Working
      BY <2>1, <2>2, <2>3, Same
    <2>5. QED BY <2>2, <2>4, LifeKept
  <1>26. ASSUME NEW c \in Conns, connectionFails(c) PROVE Life'
    <2>1. m_apcNotifQ \in Seq(Notifs) /\ LifeQ(m_apcNotifQ, conns) /\ conn \in [Conns -> Links]
      BY DEF ClientType, Life, QueueLife
    <2>2. stopped(c, "OFFLINE")
      BY <1>26 DEF connectionFails
    <2>3. \E q \in Seq(Notifs), e \in Conns : Ends(e, q) /\ LifeQ(q, conns) /\ \A x : Among(q, x) => Among(m_apcNotifQ, x)
      BY <2>2, <2>1, Stopping
    <2>4. /\ conns' = conns /\ m_pConnector' \in {0, m_pConnector}
          /\ m_reconnectTimer' = m_reconnectTimer \/ m_reconnectTimer' = stopTimer_p
          /\ app' # "idle" \/ app' = app
      BY <1>26 DEF connectionFails, clientVars
    <2>5. m_reconnectTimer'.due = m_reconnectTimer.due
      BY <2>4 DEF Life, OneTimer, stopTimer_p
    <2>6. /\ QueueLife' /\ Newest' /\ WorkLife' /\ (Working' => Working) /\ IdleRest'
          /\ Among(m_apcNotifQ', "START") => Among(m_apcNotifQ, "START")
          /\ Among(m_apcNotifQ', "DISCONNECT") => Among(m_apcNotifQ, "DISCONNECT") \/ Working
      BY <2>3, <2>4, <2>5, EndsKept
    <2>7. QED BY <2>4, <2>6, LifeKept
  <1>27. QED
    BY <1>1, <1>2, <1>3, <1>4, <1>5, <1>6, <1>7, <1>8, <1>9, <1>10, <1>11, <1>12, <1>13, <1>14, <1>15, <1>16, <1>17,
       <1>18, <1>19, <1>20, <1>21, <1>22, <1>23, <1>24, <1>25, <1>26
    DEF Next, NotifNext, TimerNext, CallNext, MgrNext, ReadNext

\* At most one CONNECT.
One(s) == \A i, j \in 1..Len(s) : s[i].t = "CONNECT" /\ s[j].t = "CONNECT" => i = j

\* The question of connection c is on the line.
Asking(c) == Among(toMgr[c], "CONNECT")

\* The Manager's answer is on the line.
Answered(c) == Among(toApc[c], "CONNECT")

\* A connection asks once, before anything is on the line back and before the Manager knows it.
Line(c) == /\ One(toMgr[c]) /\ One(toApc[c])
           /\ Asking(c) => ~conn[c].reading /\ toApc[c] = <<>> /\ mgr.cur # c
           /\ c > conns => toMgr[c] = <<>> /\ toApc[c] = <<>>

\* Every connection asks once, and the Manager knows no connection that was not opened.
Lines == mgr.cur <= conns /\ \A c \in Conns : Line(c)

\* An empty line has no question.
LEMMA NoneIn == One(<<>>) /\ ~Among(<<>>, "CONNECT")
  BY DEF One, Among

\* One question, after the head is taken.
LEMMA TailOne ==
    ASSUME NEW S, NEW s \in Seq(S), s # <<>>, One(s)
    PROVE  /\ One(Tail(s)) /\ (Among(Tail(s), "CONNECT") => Among(s, "CONNECT"))
           /\ Head(s).t = "CONNECT" => Among(s, "CONNECT") /\ ~Among(Tail(s), "CONNECT")
  <1> DEFINE r == Tail(s)
  <1>1. /\ Len(s) \in Nat \ {0} /\ Head(s) = s[1] /\ Len(r) = Len(s) - 1
        /\ \A i \in 1..Len(r) : i + 1 \in 1..Len(s) /\ r[i] = s[i + 1]
    BY Tails
  <1> HIDE DEF r
  <1>2. One(r)
    <2> SUFFICES ASSUME NEW i \in 1..Len(r), NEW j \in 1..Len(r), r[i].t = "CONNECT", r[j].t = "CONNECT" PROVE i = j
      BY DEF One
    <2>1. i + 1 \in 1..Len(s) /\ j + 1 \in 1..Len(s) /\ s[i + 1].t = "CONNECT" /\ s[j + 1].t = "CONNECT"
      BY <1>1
    <2>2. i + 1 = j + 1
      BY <2>1 DEF One
    <2>3. QED BY <2>2
  <1>3. Among(r, "CONNECT") => Among(s, "CONNECT")
    BY <1>1 DEF Among
  <1>4. s[1].t = "CONNECT" => Among(s, "CONNECT")
    BY <1>1 DEF Among
  <1>5. ASSUME s[1].t = "CONNECT", NEW i \in 1..Len(r), r[i].t = "CONNECT" PROVE FALSE
    <2>1. 1 \in 1..Len(s) /\ i + 1 \in 1..Len(s) /\ s[i + 1].t = "CONNECT" /\ i + 1 # 1
      BY <1>1, <1>5
    <2>2. QED BY <1>5, <2>1 DEF One
  <1>6. QED BY <1>1, <1>2, <1>3, <1>4, <1>5 DEF r, Among

\* One question, after one more frame.
LEMMA AppendOne ==
    ASSUME NEW S, NEW s \in Seq(S), NEW e \in S, One(s)
    PROVE  /\ Among(Append(s, e), "CONNECT") => Among(s, "CONNECT") \/ e.t = "CONNECT"
           /\ (e.t # "CONNECT" \/ ~Among(s, "CONNECT")) => One(Append(s, e))
  <1> DEFINE r == Append(s, e)
  <1>1. /\ Len(r) = Len(s) + 1 /\ Len(s) \in Nat /\ r[Len(s) + 1] = e
        /\ \A i \in 1..Len(s) : r[i] = s[i]
    BY Appends
  <1> HIDE DEF r
  <1>2. Among(r, "CONNECT") => Among(s, "CONNECT") \/ e.t = "CONNECT"
    BY <1>1 DEF Among
  <1>3. ASSUME e.t # "CONNECT" \/ ~Among(s, "CONNECT") PROVE One(r)
    <2> SUFFICES ASSUME NEW i \in 1..Len(r), NEW j \in 1..Len(r), r[i].t = "CONNECT", r[j].t = "CONNECT" PROVE i = j
      BY DEF One
    <2>1. (i \in 1..Len(s) \/ i = Len(s) + 1) /\ (j \in 1..Len(s) \/ j = Len(s) + 1)
      BY <1>1
    <2>2. QED BY <1>1, <1>3, <2>1 DEF One, Among
  <1>4. QED BY <1>2, <1>3 DEF r

\* Frames without a question behind a line.
LEMMA ConcatOne ==
    ASSUME NEW S, NEW s \in Seq(S), NEW f \in Seq(S), One(s), \A i \in 1..Len(f) : f[i].t # "CONNECT"
    PROVE  One(s \o f) /\ (Among(s \o f, "CONNECT") => Among(s, "CONNECT"))
  <1> DEFINE r == s \o f
  <1>1. /\ Len(s) \in Nat /\ Len(f) \in Nat /\ Len(r) = Len(s) + Len(f)
        /\ \A i \in 1..Len(r) : r[i] = IF i <= Len(s) THEN s[i] ELSE f[i - Len(s)]
    OBVIOUS
  <1> HIDE DEF r
  <1>2. ASSUME NEW i \in 1..Len(r), r[i].t = "CONNECT" PROVE i \in 1..Len(s) /\ r[i] = s[i]
    <2>1. CASE i <= Len(s)
      BY <1>1, <2>1
    <2>2. CASE ~(i <= Len(s))
      <3>1. i - Len(s) \in 1..Len(f) /\ r[i] = f[i - Len(s)]
        BY <1>1, <2>2
      <3>2. QED BY <1>2, <3>1
    <2>3. QED BY <2>1, <2>2
  <1>3. Among(r, "CONNECT") => Among(s, "CONNECT")
    BY <1>2 DEF Among
  <1>4. One(r)
    BY <1>2 DEF One
  <1>5. QED BY <1>3, <1>4 DEF r

\* Frames the client writes after the question.
LEMMA WrittenLines ==
    ASSUME ClientType, LineType, Lines, NEW c \in Conns, c <= conns, NEW fs \in Seq(ToMgr), \A i \in 1..Len(fs) : fs[i].t # "CONNECT",
           toMgr' = toMgr \/ toMgr' = Written(c, fs)
    PROVE  \A d \in Conns : /\ One(toMgr'[d]) /\ (Asking(d)' => Asking(d))
                            /\ d > conns => toMgr'[d] = <<>>
  <1>1. CASE toMgr' = toMgr \/ ~up[c]
    BY <1>1 DEF Written, Lines, Line, Asking
  <1>2. CASE up[c] /\ toMgr' = [toMgr EXCEPT ![c] = @ \o fs]
    <2>1. toMgr[c] \in Seq(ToMgr) /\ One(toMgr[c]) /\ conns \in Int /\ c \in Int
      <3>1. toMgr[c] \in Seq(ToMgr)
        BY DEF LineType
      <3>2. One(toMgr[c])
        BY DEF Lines, Line
      <3>3. conns \in Int /\ c \in Int
        BY Bounds DEF ClientType, Conns
      <3>4. QED BY <3>1, <3>2, <3>3
    <2>2. One(toMgr[c] \o fs) /\ (Among(toMgr[c] \o fs, "CONNECT") => Among(toMgr[c], "CONNECT"))
      BY <2>1, ConcatOne
    <2>3. \A d \in Conns : toMgr'[d] = IF d = c THEN toMgr[c] \o fs ELSE toMgr[d]
      BY <1>2 DEF LineType
    <2> TAKE d \in Conns
    <2>4. CASE d = c
      BY <2>1, <2>2, <2>3, <2>4 DEF Asking
    <2>5. CASE d # c
      BY <2>3, <2>5 DEF Asking, Lines, Line
    <2>6. QED BY <2>4, <2>5
  <1>3. QED BY <1>1, <1>2 DEF Written

\* A step that asks nothing keeps the lines.
LEMMA LinesKept ==
    ASSUME ClientType, Lines, conns' = conns, mgr'.cur \in {0, mgr.cur},
           \A d \in Conns : /\ One(toMgr'[d]) /\ One(toApc'[d])
                            /\ Asking(d)' => Asking(d)
                            /\ d > conns => toMgr'[d] = <<>>
                            /\ toApc[d] = <<>> => toApc'[d] = <<>>
                            /\ conn'[d].reading /\ Asking(d) => conn[d].reading
    PROVE  Lines'
  <1>1. mgr'.cur <= conns'
    BY Bounds DEF ClientType, Lines
  <1>2. ASSUME NEW d \in Conns PROVE Line(d)'
    <2>1. Line(d)
      BY DEF Lines
    <2>2. Asking(d)' => ~conn'[d].reading /\ toApc'[d] = <<>> /\ mgr'.cur # d
      <3>1. d # 0
        BY Bounds DEF Conns
      <3>2. QED BY <2>1, <3>1 DEF Line
    <2>3. QED BY <2>1, <2>2 DEF Line
  <1>3. QED BY <1>1, <1>2 DEF Lines

\* A step that leaves the lines.
LEMMA QuietLines ==
    ASSUME ClientType, Lines, UNCHANGED <<conns, mgr, toMgr, toApc>>,
           \A d \in Conns : conn'[d].reading => conn[d].reading \/ toApc[d] # <<>>
    PROVE  Lines'
  <1>1. ASSUME NEW d \in Conns PROVE Line(d)'
    <2>1. Line(d)
      BY DEF Lines
    <2>2. Asking(d)' = Asking(d)
      BY DEF Asking
    <2>3. QED BY <2>1, <2>2 DEF Line
  <1>2. QED BY <1>1 DEF Lines

\* A new connection asks on a line that was never used.
LEMMA OpenLines ==
    ASSUME ClientType, LineType, Lines, conns < MaxConns, NEW id, Open(id), mgr' = mgr,
           \A d \in Conns : ~conn[d].reading
    PROVE  Lines'
  <1>1. /\ conns' = conns + 1 /\ conns' \in Conns /\ conn'[conns'].reading = conn[conns'].reading
        /\ \A d \in Conns : d # conns' => conn'[d] = conn[d]
    BY Opening
  <1>2. conns \in Int /\ mgr.cur \in Int /\ conns' # 0
    BY Bounds DEF ClientType, LineType, Open
  <1>3. \A d \in Conns : ~conn'[d].reading
    BY <1>1
  <1>4. toApc' = toApc /\ toMgr' = [toMgr EXCEPT ![conns'] = <<[t |-> "CONNECT", id |-> id]>>]
    BY <1>1 DEF Open
  <1>5. One(<<[t |-> "CONNECT", id |-> id]>>)
    BY DEF One
  <1>6. ASSUME NEW d \in Conns PROVE Line(d)'
    <2>1. Line(d) /\ d \in Int
      BY Bounds DEF Lines, Conns
    <2>2. CASE d = conns'
      <3>1. toMgr'[d] = <<[t |-> "CONNECT", id |-> id]>>
        BY <1>4, <2>2 DEF LineType
      <3>2. d > conns /\ ~(d > conns') /\ mgr.cur # d
        BY <1>1, <1>2, <2>2 DEF Lines
      <3>3. One(toMgr'[d]) /\ toApc'[d] = <<>>
        BY <1>4, <1>5, <2>1, <3>1, <3>2 DEF Line
      <3>4. QED BY <1>3, <3>2, <3>3, NoneIn DEF Line
    <2>3. CASE d # conns'
      <3>1. toMgr'[d] = toMgr[d] /\ toApc'[d] = toApc[d]
        BY <1>4, <2>3 DEF LineType
      <3>2. d > conns' => d > conns
        BY <1>1, <1>2, <2>1
      <3>3. Asking(d)' = Asking(d)
        BY <3>1 DEF Asking
      <3>4. QED BY <1>3, <2>1, <3>1, <3>2, <3>3 DEF Line
    <2>4. QED BY <2>2, <2>3
  <1>7. mgr'.cur <= conns'
    BY <1>1, <1>2 DEF Lines
  <1>8. QED BY <1>6, <1>7 DEF Lines

\* A connector that ends begins no read.
LEMMA EndsReading ==
    ASSUME NEW c, NEW q, Ends(c, q) PROVE \A d \in Conns : conn'[d].reading => conn[d].reading
  BY DEF Ends, Fewer

\* Every step keeps the lines.
LEMMA LinesStep ==
    ASSUME ClientType, LineType, Life, Lines, [Next]_svars
    PROVE  Lines'
  <1>1. CASE UNCHANGED svars
    BY <1>1, QuietLines DEF svars, connVars, lineVars
  <1>2. CASE apcStarted
    <2>1. UNCHANGED <<conns, mgr, toMgr, toApc>>
      BY <1>2 DEF apcStarted, clientVars, connVars, lineVars
    <2>2. \A d \in Conns : conn'[d].reading => conn[d].reading \/ toApc[d] # <<>>
      BY <1>2 DEF apcStarted, connVars
    <2>3. QED BY <2>1, <2>2, QuietLines
  <1>3. CASE messageConfirms
    <2>1. UNCHANGED <<conns, mgr, toMgr, toApc>>
      BY <1>3 DEF messageConfirms, clientVars, connVars, lineVars
    <2>2. \A d \in Conns : conn'[d].reading => conn[d].reading \/ toApc[d] # <<>>
      BY <1>3 DEF messageConfirms, connVars
    <2>3. QED BY <2>1, <2>2, QuietLines
  <1>4. CASE apcConnected_refused
    <2>1. UNCHANGED <<conns, mgr, toMgr, toApc>>
      BY <1>4 DEF apcConnected_refused, clientVars, connVars, lineVars
    <2>2. \A d \in Conns : conn'[d].reading => conn[d].reading \/ toApc[d] # <<>>
      BY <1>4, Tails, NotifFields, Stopping, EndsReading DEF apcConnected_refused, ClientType, Notif
    <2>3. QED BY <2>1, <2>2, QuietLines
  <1>5. CASE apcConnected_new
    <2>1. UNCHANGED <<conns, mgr, toMgr, toApc>>
      BY <1>5 DEF apcConnected_new, clientVars, connVars, lineVars
    <2>2. \A d \in Conns : conn'[d].reading => conn[d].reading \/ toApc[d] # <<>>
      BY <1>5 DEF apcConnected_new, connVars
    <2>3. QED BY <2>1, <2>2, QuietLines
  <1>6. CASE apcConnected_restored
    <2> DEFINE n == Head(m_apcNotifQ)
               cache == confirmedSeqNum(n.your, TRUE)
    <2>1. n.your \in Nat /\ n.c \in Conns /\ m_pConnector \in Conns /\ m_pConnector <= conns
      BY <1>6, Tails, NotifFields, Bounds DEF apcConnected_restored, Notif, Conns, ClientType, Life, Current
    <2>2. cache \in Caches
      BY <2>1, Confirming DEF Caches, LineType
    <2> HIDE DEF cache
    <2>3. PICK k \in 0..cache.num : toMgr' = Written(m_pConnector, Replay(cache, k))
      BY <1>6 DEF apcConnected_restored, cache
    <2>4. Replay(cache, k) \in Seq(ToMgr) /\ \A i \in 1..Len(Replay(cache, k)) : Replay(cache, k)[i].t # "CONNECT"
      <3>1. /\ Replay(cache, k) \in Seq(ToMgr) /\ Len(Replay(cache, k)) = k
            /\ \A i \in 1..k : Replay(cache, k)[i] = [t |-> "DATA", seq |-> cache.last - cache.num + i]
        BY <2>2, Replaying
      <3>2. \A i \in 1..k : Replay(cache, k)[i].t = "DATA"
        BY <3>1
      <3>3. QED BY <3>1, <3>2
    <2>5. \A d \in Conns : /\ One(toMgr'[d]) /\ (Asking(d)' => Asking(d))
                           /\ d > conns => toMgr'[d] = <<>>
      BY <2>1, <2>3, <2>4, WrittenLines
    <2>6. \A d \in Conns : One(toApc[d])
      BY DEF Lines, Line
    <2>7. UNCHANGED <<conns, mgr, toApc>> /\ \A d \in Conns : conn'[d].reading => conn[d].reading
      <3>1. UNCHANGED conn \/ \E flag \in WriteErrors : PopAndStop(n.c, flag)
        BY <1>6 DEF apcConnected_restored
      <3>2. QED BY <1>6, <2>1, <3>1, Stopping, EndsReading DEF apcConnected_restored, ClientType
    <2>8. QED BY <2>5, <2>6, <2>7, LinesKept
  <1>7. CASE apcDisconnected
    <2>1. UNCHANGED <<conns, mgr, toMgr, toApc>>
      BY <1>7 DEF apcDisconnected, clientVars, connVars, lineVars
    <2>2. \A d \in Conns : conn'[d].reading => conn[d].reading \/ toApc[d] # <<>>
      BY <1>7 DEF apcDisconnected, connVars
    <2>3. QED BY <2>1, <2>2, QuietLines
  <1>8. CASE TimerExpires
    <2>1. UNCHANGED <<conns, mgr, toMgr, toApc>>
      BY <1>8 DEF TimerExpires, clientVars, connVars, lineVars
    <2>2. \A d \in Conns : conn'[d].reading => conn[d].reading \/ toApc[d] # <<>>
      BY <1>8 DEF TimerExpires, connVars
    <2>3. QED BY <2>1, <2>2, QuietLines
  <1>9. CASE TimePasses
    <2>1. UNCHANGED <<conns, mgr, toMgr, toApc>>
      BY <1>9 DEF TimePasses, clientVars, connVars, lineVars
    <2>2. \A d \in Conns : conn'[d].reading => conn[d].reading \/ toApc[d] # <<>>
      BY <1>9 DEF TimePasses, connVars
    <2>3. QED BY <2>1, <2>2, QuietLines
  <1>10. CASE reconnect_p
    <2>1. mgr' = mgr /\ \A d \in Conns : ~conn[d].reading
      BY <1>10 DEF reconnect_p, IOFree
    <2>2. CASE ipConnect_p /\ Open(m_intfId)
      BY <2>1, <2>2, OpenLines DEF ipConnect_p
    <2>3. CASE UNCHANGED <<connVars, lineVars>>
      BY <2>1, <2>3, QuietLines DEF connVars, lineVars
    <2>4. QED BY <1>10, <2>2, <2>3 DEF reconnect_p
  <1>11. CASE disconnect_p
    <2>1. UNCHANGED <<conns, mgr, toMgr, toApc>>
      BY <1>11 DEF disconnect_p, clientVars, connVars, lineVars
    <2>2. \A d \in Conns : conn'[d].reading => conn[d].reading \/ toApc[d] # <<>>
      <3>1. m_pConnector # 0 => m_pConnector \in Conns
        BY Bounds DEF ClientType, Conns
      <3>2. QED BY <1>11, <3>1, Stopping, EndsReading DEF disconnect_p, ClientType
    <2>3. QED BY <2>1, <2>2, QuietLines
  <1>12. CASE timerIgnored
    <2>1. UNCHANGED <<conns, mgr, toMgr, toApc>>
      BY <1>12 DEF timerIgnored, clientVars, connVars, lineVars
    <2>2. \A d \in Conns : conn'[d].reading => conn[d].reading \/ toApc[d] # <<>>
      BY <1>12 DEF timerIgnored, connVars
    <2>3. QED BY <2>1, <2>2, QuietLines
  <1>13. CASE start
    <2>1. mgr' = mgr /\ \A d \in Conns : ~conn[d].reading
      BY <1>13 DEF start, Life, IdleRest
    <2>2. CASE ipConnect_p /\ Open(0)
      BY <2>1, <2>2, OpenLines DEF ipConnect_p
    <2>3. CASE UNCHANGED <<connVars, lineVars>>
      BY <2>1, <2>3, QuietLines DEF connVars, lineVars
    <2>4. QED BY <1>13, <2>2, <2>3 DEF start
  <1>14. CASE stop
    <2> DEFINE fs == <<[t |-> "DISCONNECT"]>>
    <2>1. m_pConnector # 0 => m_pConnector \in Conns /\ m_pConnector <= conns
      BY Bounds DEF ClientType, Conns, Life, Current
    <2>2. fs \in Seq(ToMgr) /\ \A i \in 1..Len(fs) : fs[i].t # "CONNECT"
      <3>1. [t |-> "DISCONNECT"] \in ToMgr
        BY MakeFrames
      <3>2. QED BY <3>1, OneFrame
    <2>3. /\ UNCHANGED <<conns, mgr, toApc>>
          /\ toMgr' # toMgr => m_pConnector # 0 /\ toMgr' = Written(m_pConnector, fs)
      BY <1>14 DEF stop
    <2>4. \A d \in Conns : conn'[d].reading => conn[d].reading
      <3>1. conn' = conn \/ conn' = [conn EXCEPT ![m_pConnector].force = TRUE]
        BY <1>14 DEF stop
      <3>2. QED BY <3>1 DEF ClientType, Links
    <2> HIDE DEF fs
    <2>5. ASSUME NEW d \in Conns PROVE /\ One(toMgr'[d]) /\ (Asking(d)' => Asking(d))
                                       /\ d > conns => toMgr'[d] = <<>>
      <3>1. CASE toMgr' = toMgr
        BY <3>1 DEF Lines, Line, Asking
      <3>2. CASE toMgr' # toMgr
        BY <2>1, <2>2, <2>3, <3>2, WrittenLines
      <3>3. QED BY <3>1, <3>2
    <2>6. \A d \in Conns : One(toApc[d])
      BY DEF Lines, Line
    <2>7. QED BY <2>3, <2>4, <2>5, <2>6, LinesKept
  <1>15. CASE stop_close
    <2>1. UNCHANGED <<conns, mgr, toMgr, toApc>>
      BY <1>15 DEF stop_close, clientVars, connVars, lineVars
    <2>2. \A d \in Conns : conn'[d].reading => conn[d].reading \/ toApc[d] # <<>>
      <3>1. m_pConnector # 0 => m_pConnector \in Conns
        BY Bounds DEF ClientType, Conns
      <3>2. QED BY <1>15, <3>1, Stopping, EndsReading DEF stop_close, ClientType
    <2>3. QED BY <2>1, <2>2, QuietLines
  <1>16. CASE stop_wait
    <2>1. UNCHANGED <<conns, mgr, toMgr, toApc>>
      BY <1>16 DEF stop_wait, clientVars, connVars, lineVars
    <2>2. \A d \in Conns : conn'[d].reading => conn[d].reading \/ toApc[d] # <<>>
      BY <1>16 DEF stop_wait, connVars
    <2>3. QED BY <2>1, <2>2, QuietLines
  <1>17. CASE stop_join
    <2>1. UNCHANGED <<conns, mgr, toMgr, toApc>>
      BY <1>17 DEF stop_join, clientVars, connVars, lineVars
    <2>2. \A d \in Conns : conn'[d].reading => conn[d].reading \/ toApc[d] # <<>>
      BY <1>17 DEF stop_join, connVars
    <2>3. QED BY <2>1, <2>2, QuietLines
  <1>18. CASE sendData
    <2> DEFINE fs == <<[t |-> "DATA", seq |-> m_cache.last + 1]>>
    <2>1. m_pConnector # 0 => m_pConnector \in Conns /\ m_pConnector <= conns
      BY Bounds DEF ClientType, Conns, Life, Current
    <2>2. fs \in Seq(ToMgr) /\ \A i \in 1..Len(fs) : fs[i].t # "CONNECT"
      <3>1. [t |-> "DATA", seq |-> m_cache.last + 1] \in ToMgr
        BY MakeFrames DEF LineType
      <3>2. QED BY <3>1, OneFrame
    <2>3. /\ UNCHANGED <<conns, mgr, toApc>>
          /\ toMgr' # toMgr => m_pConnector # 0 /\ toMgr' = Written(m_pConnector, fs)
      BY <1>18 DEF sendData, sendData_p, clientVars
    <2>4. \A d \in Conns : conn'[d].reading => conn[d].reading
      BY <1>18, <2>1, Stopping, EndsReading DEF sendData, sendData_p, ClientType
    <2> HIDE DEF fs
    <2>5. ASSUME NEW d \in Conns PROVE /\ One(toMgr'[d]) /\ (Asking(d)' => Asking(d))
                                       /\ d > conns => toMgr'[d] = <<>>
      <3>1. CASE toMgr' = toMgr
        BY <3>1 DEF Lines, Line, Asking
      <3>2. CASE toMgr' # toMgr
        BY <2>1, <2>2, <2>3, <3>2, WrittenLines
      <3>3. QED BY <3>1, <3>2
    <2>6. \A d \in Conns : One(toApc[d])
      BY DEF Lines, Line
    <2>7. QED BY <2>3, <2>4, <2>5, <2>6, LinesKept
  <1>19. CASE ManagerConfirms
    <2>1. PICK k \in {"KA", "NET"} : toApc' = [toApc EXCEPT ![mgr.cur] = <<[t |-> k, your |-> mgr.got[Len(mgr.got)]]>>]
      BY <1>19 DEF ManagerConfirms
    <2>2. mgr.cur \in Conns /\ UNCHANGED <<conn, conns, mgr, toMgr>>
      BY <1>19, Bounds DEF ManagerConfirms, LineType, Conns, connVars
    <2>3. One(toApc'[mgr.cur])
      BY <2>1, <2>2 DEF One, LineType
    <2>4. ASSUME NEW d \in Conns PROVE Line(d)'
      <3>1. Line(d) /\ (Asking(d)' = Asking(d))
        BY <2>2 DEF Lines, Asking
      <3>2. CASE d = mgr.cur
        BY <2>2, <2>3, <3>1, <3>2, Bounds DEF Lines, Line, LineType, ClientType
      <3>3. CASE d # mgr.cur
        BY <2>1, <2>2, <3>1, <3>3 DEF Line, LineType
      <3>4. QED BY <3>2, <3>3
    <2>5. QED BY <2>2, <2>4 DEF Lines
  <1>20. CASE ManagerRefuses
    <2> DEFINE e == [t |-> "DISCONNECT"]
    <2>1. mgr.cur \in Conns /\ mgr'.cur = 0 /\ UNCHANGED <<conn, conns, toMgr>>
      BY <1>20, Bounds DEF ManagerRefuses, LineType, Conns, connVars
    <2>2. \/ toApc' = toApc
          \/ toApc' = [toApc EXCEPT ![mgr.cur] = Append(@, e)]
      BY <1>20 DEF ManagerRefuses
    <2>3. e \in ToApc /\ e.t # "CONNECT"
      BY MakeFrames
    <2> HIDE DEF e
    <2>4. One(Append(toApc[mgr.cur], e))
      BY <2>1, <2>3, AppendOne DEF Lines, Line, LineType
    <2>5. ASSUME NEW d \in Conns PROVE Line(d)'
      <3>1. Line(d) /\ (Asking(d)' = Asking(d))
        BY <2>1 DEF Lines, Asking
      <3>2. CASE d = mgr.cur
        <4>1. ~Asking(d) /\ ~(d > conns) /\ (toApc'[d] = toApc[d] \/ toApc'[d] = Append(toApc[d], e))
          BY <2>1, <2>2, <3>1, <3>2, Bounds DEF Lines, Line, LineType, ClientType
        <4>2. QED BY <2>1, <2>4, <3>1, <3>2, <4>1 DEF Line
      <3>3. CASE d # mgr.cur
        <4>1. toApc'[d] = toApc[d] /\ d # 0
          BY <2>2, <3>3, Bounds DEF LineType, Conns
        <4>2. QED BY <2>1, <3>1, <4>1 DEF Line
      <3>4. QED BY <3>2, <3>3
    <2>6. QED BY <2>1, <2>5, Bounds DEF Lines, ClientType
  <1>21. ASSUME NEW c \in Conns, ManagerReads(c) PROVE Lines'
    <2> DEFINE f == Head(toMgr[c])
    <2>1. toMgr[c] \in Seq(ToMgr) /\ toMgr[c] # <<>> /\ f \in ToMgr /\ Line(c) /\ UNCHANGED <<conn, conns>>
      BY <1>21, Tails DEF ManagerReads, LineType, Lines, connVars
    <2>2. /\ One(Tail(toMgr[c])) /\ (Among(Tail(toMgr[c]), "CONNECT") => Asking(c))
          /\ f.t = "CONNECT" => Asking(c) /\ ~Among(Tail(toMgr[c]), "CONNECT")
      BY <2>1, TailOne DEF Line, Asking
    <2>3. c <= conns /\ c \in Int /\ conns \in Int
      BY <2>1, Bounds DEF Line, ClientType, Conns
    <2>4. CASE f.t = "CONNECT"
      <3>1. PICK e \in ToApc : /\ e.t = "CONNECT" /\ toApc' = IF up[c] THEN [toApc EXCEPT ![c] = Append(@, e)] ELSE toApc
                               /\ mgr'.cur \in {mgr.cur, c}
                               /\ toMgr' = [d \in Conns |-> IF d < c THEN <<>> ELSE IF d = c THEN Tail(toMgr[c]) ELSE toMgr[d]]
        <4> DEFINE new == f.id = 0
                   id  == IF new THEN mgr.ids + 1 ELSE IF f.id = mgr.id THEN f.id ELSE 0
                   got == IF new THEN <<>> ELSE mgr.got
                   last == IF got = <<>> THEN 0 ELSE got[Len(got)]
                   e == [t |-> "CONNECT", id |-> id, your |-> last]
        <4>1. id \in Nat /\ got \in Seq(Nat)
          BY <2>1, <2>4, FrameFields DEF LineType
        <4>2. last \in Nat
          <5> HIDE DEF got
          <5>1. QED BY <4>1
        <4>3. e \in ToApc /\ e.t = "CONNECT"
          BY <4>1, <4>2, MakeFrames
        <4>4. /\ mgr' = [id |-> IF id = 0 THEN mgr.id ELSE id, ids |-> IF new THEN id ELSE mgr.ids,
                         cur |-> IF id = 0 THEN mgr.cur ELSE c, got |-> got]
              /\ toApc' = IF up[c] THEN [toApc EXCEPT ![c] = Append(@, e)] ELSE toApc
              /\ toMgr' = [d \in Conns |-> IF d < c THEN <<>> ELSE IF d = c THEN Tail(toMgr[c]) ELSE toMgr[d]]
          BY <1>21, <2>4 DEF ManagerReads
        <4> HIDE DEF id, got, last, e, new
        <4>5. mgr'.cur \in {mgr.cur, c}
          BY <4>4
        <4>6. QED BY <4>3, <4>4, <4>5
      <3>2. toApc[c] = <<>> /\ ~conn[c].reading
        BY <2>1, <2>2, <2>4 DEF Line
      <3>3. One(Append(toApc[c], e)) /\ One(toApc[c])
        BY <3>1, <3>2, AppendOne, NoneIn DEF LineType
      <3>4. ASSUME NEW d \in Conns PROVE Line(d)'
        <4>1. Line(d) /\ d \in Int
          BY Bounds DEF Lines, Conns
        <4>2. CASE d = c
          <5>1. toMgr'[d] = Tail(toMgr[c]) /\ (toApc'[d] = toApc[d] \/ toApc'[d] = Append(toApc[d], e))
            BY <2>3, <3>1, <4>2 DEF LineType
          <5>2. ~Asking(d)'
            BY <2>2, <2>4, <5>1 DEF Asking
          <5>3. QED BY <2>1, <2>2, <2>3, <3>3, <4>2, <5>1, <5>2 DEF Line
        <4>3. CASE d # c
          <5>1. (toMgr'[d] = <<>> \/ toMgr'[d] = toMgr[d]) /\ toApc'[d] = toApc[d]
            BY <2>3, <3>1, <4>1, <4>3 DEF LineType
          <5>2. One(toMgr'[d]) /\ (Asking(d)' => Asking(d))
            BY <4>1, <5>1, NoneIn DEF Asking, Line
          <5>3. Asking(d)' => ~conn'[d].reading /\ toApc'[d] = <<>> /\ mgr'.cur # d
            BY <2>1, <3>1, <4>1, <4>3, <5>1, <5>2 DEF Line
          <5>4. QED BY <2>1, <4>1, <5>1, <5>2, <5>3 DEF Line
        <4>4. QED BY <4>2, <4>3
      <3>5. mgr'.cur <= conns'
        BY <2>1, <2>3, <3>1 DEF Lines
      <3>6. QED BY <3>4, <3>5 DEF Lines
    <2>5. CASE f.t # "CONNECT"
      <3>1. toMgr' = [toMgr EXCEPT ![c] = Tail(@)] /\ UNCHANGED <<toApc, up>>
        BY <1>21, <2>5 DEF ManagerReads
      <3>2. mgr'.cur \in {0, mgr.cur}
        <4>1. \/ mgr' = mgr
              \/ mgr' = [mgr EXCEPT !.got = Append(@, f.seq)]
              \/ mgr' = [mgr EXCEPT !.id = 0, !.cur = 0]
          BY <1>21, <2>5 DEF ManagerReads
        <4>2. QED BY <4>1 DEF LineType
      <3>3. ASSUME NEW d \in Conns PROVE /\ One(toMgr'[d]) /\ One(toApc'[d]) /\ (Asking(d)' => Asking(d))
                                         /\ d > conns => toMgr'[d] = <<>>
                                         /\ toApc[d] = <<>> => toApc'[d] = <<>>
        <4>1. Line(d)
          BY DEF Lines
        <4>2. CASE d = c
          <5>1. toMgr'[d] = Tail(toMgr[c]) /\ ~(d > conns)
            BY <2>3, <3>1, <4>2 DEF LineType
          <5>2. QED BY <2>2, <3>1, <4>1, <4>2, <5>1 DEF Line, Asking
        <4>3. CASE d # c
          <5>1. toMgr'[d] = toMgr[d]
            BY <3>1, <4>3 DEF LineType
          <5>2. QED BY <3>1, <4>1, <5>1 DEF Line, Asking
        <4>4. QED BY <4>2, <4>3
      <3>4. QED BY <2>1, <3>2, <3>3, LinesKept
    <2>6. QED BY <2>4, <2>5
  <1>22. ASSUME NEW c \in Conns, Break(c) PROVE Lines'
    <2>1. UNCHANGED <<conn, conns, mgr>>
      BY <1>22 DEF Break, connVars
    <2>2. ASSUME NEW d \in Conns PROVE /\ One(toMgr'[d]) /\ One(toApc'[d]) /\ (Asking(d)' => Asking(d))
                                       /\ d > conns => toMgr'[d] = <<>>
                                       /\ toApc[d] = <<>> => toApc'[d] = <<>>
      <3>1. (toMgr'[d] = <<>> \/ toMgr'[d] = toMgr[d]) /\ (toApc'[d] = <<>> \/ toApc'[d] = toApc[d])
        BY <1>22 DEF Break, LineType
      <3>2. QED BY <3>1, NoneIn DEF Lines, Line, Asking
    <2>3. QED BY <2>1, <2>2, LinesKept
  <1>23. ASSUME NEW c \in Conns, handle_read_p(c) PROVE Lines'
    <2>1. UNCHANGED <<conns, mgr, toMgr, toApc>>
      BY <1>23 DEF handle_read_p, clientVars, connVars, lineVars
    <2>2. \A d \in Conns : conn'[d].reading => conn[d].reading \/ toApc[d] # <<>>
      BY <1>23 DEF handle_read_p, ClientType, Links
    <2>3. QED BY <2>1, <2>2, QuietLines
  <1>24. ASSUME NEW c \in Conns, messageReceived(c) PROVE Lines'
    <2>1. /\ toApc[c] # <<>> /\ toApc[c] \in Seq(ToApc) /\ toApc' = [toApc EXCEPT ![c] = Tail(@)]
          /\ UNCHANGED <<conns, mgr, toMgr>>
      BY <1>24 DEF messageReceived, LineType
    <2>2. \A d \in Conns : conn'[d].reading => conn[d].reading
      <3>1. \/ conn' = conn \/ conn' = [conn EXCEPT ![c].connected = TRUE]
            \/ readError(c, "OFFLINE") \/ readError(c, "DISCONNECT")
        BY <1>24 DEF messageReceived
      <3>2. QED BY <3>1, ReadFailing, EndsReading DEF ClientType, Links
    <2>3. ASSUME NEW d \in Conns PROVE /\ One(toMgr'[d]) /\ One(toApc'[d]) /\ (Asking(d)' => Asking(d))
                                       /\ d > conns => toMgr'[d] = <<>>
                                       /\ toApc[d] = <<>> => toApc'[d] = <<>>
      <3>1. Line(d)
        BY DEF Lines
      <3>2. toApc'[d] = IF d = c THEN Tail(toApc[c]) ELSE toApc[d]
        BY <2>1 DEF LineType
      <3>3. One(toApc'[d])
        BY <2>1, <3>1, <3>2, TailOne DEF Line
      <3>4. QED BY <2>1, <3>1, <3>2, <3>3 DEF Line, Asking
    <2>4. QED BY <2>1, <2>2, <2>3, LinesKept
  <1>25. ASSUME NEW c \in Conns, handle_read_end(c) PROVE Lines'
    <2>1. UNCHANGED <<conns, mgr, toMgr, toApc>>
      BY <1>25 DEF handle_read_end, clientVars, connVars, lineVars
    <2>2. \A d \in Conns : conn'[d].reading => conn[d].reading \/ toApc[d] # <<>>
      BY <1>25 DEF handle_read_end, ClientType, Links
    <2>3. QED BY <2>1, <2>2, QuietLines
  <1>26. ASSUME NEW c \in Conns, connectionFails(c) PROVE Lines'
    <2>1. UNCHANGED <<conns, mgr, toMgr, toApc>>
      BY <1>26 DEF connectionFails, clientVars, connVars, lineVars
    <2>2. \A d \in Conns : conn'[d].reading => conn[d].reading \/ toApc[d] # <<>>
      BY <1>26, Stopping, EndsReading DEF connectionFails, ClientType
    <2>3. QED BY <2>1, <2>2, QuietLines
  <1>27. QED
    BY <1>1, <1>2, <1>3, <1>4, <1>5, <1>6, <1>7, <1>8, <1>9, <1>10, <1>11, <1>12, <1>13, <1>14, <1>15, <1>16, <1>17,
       <1>18, <1>19, <1>20, <1>21, <1>22, <1>23, <1>24, <1>25, <1>26
    DEF Next, NotifNext, TimerNext, CallNext, MgrNext, ReadNext

\* A step that opens no connection asks nothing, and what is answered was asked.
Less == \A d \in Conns : /\ Asking(d)' => Asking(d)
                         /\ Answered(d)' => Answered(d) \/ (Asking(d) /\ ~conn[d].reading)

\* A step that leaves the lines.
LEMMA SameLess == ASSUME UNCHANGED <<toMgr, toApc>> PROVE Less
  BY DEF Less, Asking, Answered

\* Packets, sent or replayed, ask nothing.
LEMMA WrittenLess ==
    ASSUME ClientType, LineType, Life, Lines, sendData \/ apcConnected_restored
    PROVE  Less
  <1>1. toApc' = toApc /\ \A d \in Conns : Answered(d)' => Answered(d)
    BY DEF sendData, sendData_p, apcConnected_restored, Answered
  <1>2. \A d \in Conns : Asking(d)' => Asking(d)
    <2>1. m_pConnector \in Conns /\ m_pConnector <= conns
      <3>1. m_pConnector # 0
        BY DEF sendData, sendData_p, apcConnected_restored
      <3>2. QED BY <3>1, Bounds DEF ClientType, Conns, Life, Current
    <2>2. CASE sendData
      <3> DEFINE fs == <<[t |-> "DATA", seq |-> m_cache.last + 1]>>
      <3>1. [t |-> "DATA", seq |-> m_cache.last + 1] \in ToMgr
        BY MakeFrames DEF LineType
      <3>2. fs \in Seq(ToMgr) /\ \A i \in 1..Len(fs) : fs[i].t # "CONNECT"
        BY <3>1, OneFrame
      <3>3. toMgr' = toMgr \/ toMgr' = Written(m_pConnector, fs)
        BY <2>2 DEF sendData, sendData_p
      <3> HIDE DEF fs
      <3>4. QED BY <2>1, <3>2, <3>3, WrittenLines
    <2>3. CASE apcConnected_restored
      <3> DEFINE n == Head(m_apcNotifQ)
                 cache == confirmedSeqNum(n.your, TRUE)
      <3>1. n.your \in Nat
        BY <2>3, Tails, NotifFields DEF apcConnected_restored, Notif, ClientType
      <3>2. cache \in Caches
        BY <3>1, Confirming DEF Caches, LineType
      <3> HIDE DEF cache
      <3>3. PICK k \in 0..cache.num : toMgr' = Written(m_pConnector, Replay(cache, k))
        BY <2>3 DEF apcConnected_restored, cache
      <3>4. /\ Replay(cache, k) \in Seq(ToMgr) /\ Len(Replay(cache, k)) = k
            /\ \A i \in 1..k : Replay(cache, k)[i] = [t |-> "DATA", seq |-> cache.last - cache.num + i]
        BY <3>2, Replaying
      <3>5. \A i \in 1..k : Replay(cache, k)[i].t = "DATA"
        BY <3>4
      <3>6. \A i \in 1..Len(Replay(cache, k)) : Replay(cache, k)[i].t # "CONNECT"
        BY <3>4, <3>5
      <3>7. QED BY <2>1, <3>3, <3>4, <3>6, WrittenLines
    <2>4. QED BY <2>2, <2>3
  <1>3. QED BY <1>1, <1>2 DEF Less

\* The Manager's own messages ask and answer nothing.
LEMMA ManagerLess ==
    ASSUME LineType, Lines, ManagerConfirms \/ ManagerRefuses
    PROVE  Less
  <1>1. toMgr' = toMgr /\ mgr.cur \in Conns
    BY Bounds DEF ManagerConfirms, ManagerRefuses, LineType, Conns
  <1>2. \A d \in Conns : Asking(d)' => Asking(d)
    BY <1>1 DEF Asking
  <1>3. ASSUME ManagerConfirms, NEW d \in Conns PROVE Answered(d)' => Answered(d)
    <2>1. PICK k \in {"KA", "NET"} : toApc' = [toApc EXCEPT ![mgr.cur] = <<[t |-> k, your |-> mgr.got[Len(mgr.got)]]>>]
      BY <1>3 DEF ManagerConfirms
    <2>2. CASE d = mgr.cur
      <3>1. toApc'[d] = <<[t |-> k, your |-> mgr.got[Len(mgr.got)]]>>
        BY <2>1, <2>2 DEF LineType
      <3>2. QED BY <3>1 DEF Answered, Among
    <2>3. CASE d # mgr.cur
      <3>1. toApc'[d] = toApc[d]
        BY <2>1, <2>3 DEF LineType
      <3>2. QED BY <3>1 DEF Answered
    <2>4. QED BY <2>2, <2>3
  <1>4. ASSUME ManagerRefuses, NEW d \in Conns PROVE Answered(d)' => Answered(d)
    <2> DEFINE e == [t |-> "DISCONNECT"]
    <2>1. \/ toApc' = toApc
          \/ toApc' = [toApc EXCEPT ![mgr.cur] = Append(@, e)]
      BY <1>4 DEF ManagerRefuses
    <2>2. e \in ToApc /\ e.t # "CONNECT"
      BY MakeFrames
    <2> HIDE DEF e
    <2>3. toApc'[d] = toApc[d] \/ toApc'[d] = Append(toApc[d], e)
      BY <2>1 DEF LineType
    <2>4. toApc[d] \in Seq(ToApc) /\ One(toApc[d])
      BY DEF LineType, Lines, Line
    <2>5. QED BY <2>2, <2>3, <2>4, AppendOne DEF Answered
  <1>5. QED BY <1>2, <1>3, <1>4 DEF Less

\* The Manager answers what was asked.
LEMMA ReadsLess ==
    ASSUME ClientType, LineType, Lines, NEW c \in Conns, ManagerReads(c)
    PROVE  Less
  <1> DEFINE f == Head(toMgr[c])
  <1>1. toMgr[c] \in Seq(ToMgr) /\ toMgr[c] # <<>> /\ f \in ToMgr /\ Line(c)
    BY Tails DEF ManagerReads, LineType, Lines
  <1>2. /\ Among(Tail(toMgr[c]), "CONNECT") => Asking(c)
        /\ f.t = "CONNECT" => Asking(c)
    BY <1>1, TailOne DEF Line, Asking
  <1>3. \A d \in Conns : toMgr'[d] \in {<<>>, toMgr[d], Tail(toMgr[d])} /\ (d # c => toMgr'[d] # Tail(toMgr[d]) \/ toMgr'[d] \in {<<>>, toMgr[d]})
    BY DEF ManagerReads, LineType
  <1>4. \A d \in Conns : Asking(d)' => Asking(d)
    BY <1>2, <1>3, NoneIn DEF Asking
  <1>5. \A d \in Conns : toApc'[d] = toApc[d] \/ (d = c /\ f.t = "CONNECT")
    BY DEF ManagerReads, LineType
  <1>6. f.t = "CONNECT" => Asking(c) /\ ~conn[c].reading
    BY <1>1, <1>2 DEF Line
  <1>7. QED BY <1>4, <1>5, <1>6 DEF Less, Answered

\* A connection that breaks asks and answers nothing.
LEMMA BreakLess ==
    ASSUME LineType, NEW c \in Conns, Break(c)
    PROVE  Less
  <1>1. \A d \in Conns : (toMgr'[d] = <<>> \/ toMgr'[d] = toMgr[d]) /\ (toApc'[d] = <<>> \/ toApc'[d] = toApc[d])
    BY DEF Break, LineType
  <1>2. QED BY <1>1, NoneIn DEF Less, Asking, Answered

\* A frame the io thread takes: an answer is taken once.
LEMMA TakenLess ==
    ASSUME LineType, Lines, NEW c \in Conns, messageReceived(c)
    PROVE  /\ Less /\ \A d \in Conns : Answered(d)' => Answered(d)
           /\ Head(toApc[c]).t = "CONNECT" => Answered(c) /\ ~Answered(c)'
  <1>1. /\ toApc[c] # <<>> /\ toApc[c] \in Seq(ToApc) /\ toApc' = [toApc EXCEPT ![c] = Tail(@)]
        /\ toMgr' = toMgr /\ Line(c)
    BY DEF messageReceived, LineType, Lines
  <1>2. /\ Among(Tail(toApc[c]), "CONNECT") => Answered(c)
        /\ Head(toApc[c]).t = "CONNECT" => Answered(c) /\ ~Among(Tail(toApc[c]), "CONNECT")
    BY <1>1, TailOne DEF Line, Answered
  <1>3. \A d \in Conns : toApc'[d] = IF d = c THEN Tail(toApc[c]) ELSE toApc[d]
    BY <1>1 DEF LineType
  <1>4. QED BY <1>1, <1>2, <1>3 DEF Less, Asking, Answered

\* In queue q, with p as the client's connector, every CONNECT is of connector k, which the client knows by the time
\* it is handled.
BeforeQ(q, p, k) ==
    \A i \in 1..Len(q) : q[i].t = "CONNECT" =>
        /\ p # 0 \/ \E h \in 1..Len(q) : h < i /\ q[h].t = "START"
        /\ \A h \in 1..Len(q) : h < i => q[h].t # "DISCONNECT"
        /\ q[i].c = k

\* A queue without CONNECT.
LEMMA BeforeNone ==
    ASSUME NEW q, ~Among(q, "CONNECT"), NEW p, NEW k PROVE BeforeQ(q, p, k)
  BY DEF BeforeQ, Among

\* Without a connector, and none coming, there is no CONNECT.
LEMMA BeforeIdle ==
    ASSUME NEW q, NEW k, BeforeQ(q, 0, k), ~Among(q, "START") PROVE ~Among(q, "CONNECT")
  BY DEF BeforeQ, Among

\* A CONNECT that is handled finds its connector, and a disconnect that is handled leaves no CONNECT.
LEMMA BeforeHead ==
    ASSUME NEW q \in Seq(Notifs), q # <<>>, NEW p, NEW k, BeforeQ(q, p, k)
    PROVE  /\ Head(q).t = "CONNECT" => p # 0 /\ Head(q).c = k
           /\ Head(q).t = "DISCONNECT" => ~Among(q, "CONNECT")
  <1>1. Len(q) \in Nat \ {0} /\ Head(q) = q[1] /\ 1 \in 1..Len(q)
    BY Tails
  <1>2. q[1].t = "CONNECT" => p # 0 /\ q[1].c = k
    <2>1. \A h \in 1..Len(q) : ~(h < 1)
      BY <1>1
    <2>2. QED BY <1>1, <2>1 DEF BeforeQ
  <1>3. ASSUME q[1].t = "DISCONNECT", NEW i \in 1..Len(q), q[i].t = "CONNECT" PROVE FALSE
    <2>1. i # 1
      BY <1>3
    <2>2. 1 < i
      BY <1>1, <2>1
    <2>3. QED BY <1>1, <1>3, <2>2 DEF BeforeQ
  <1>4. QED BY <1>1, <1>2, <1>3 DEF Among

\* The queue after its oldest notification was handled.
LEMMA BeforePop ==
    ASSUME NEW q \in Seq(Notifs), q # <<>>, NEW p, NEW k, NEW r, BeforeQ(q, p, k), r # 0 \/ (r = p /\ Head(q).t # "START")
    PROVE  BeforeQ(Tail(q), r, k)
  <1> DEFINE u == Tail(q)
  <1>1. /\ Len(q) \in Nat \ {0} /\ Head(q) = q[1] /\ Len(u) = Len(q) - 1
        /\ \A i \in 1..Len(u) : i + 1 \in 1..Len(q) /\ u[i] = q[i + 1]
    BY Tails
  <1> HIDE DEF u
  <1> SUFFICES ASSUME NEW i \in 1..Len(u), u[i].t = "CONNECT"
               PROVE  /\ r # 0 \/ \E h \in 1..Len(u) : h < i /\ u[h].t = "START"
                      /\ \A h \in 1..Len(u) : h < i => u[h].t # "DISCONNECT"
                      /\ u[i].c = k
    BY DEF BeforeQ, u
  <1>2. i + 1 \in 1..Len(q) /\ q[i + 1].t = "CONNECT" /\ u[i] = q[i + 1]
    BY <1>1
  <1>3. u[i].c = k
    BY <1>2 DEF BeforeQ
  <1>4. ASSUME NEW h \in 1..Len(u), h < i PROVE u[h].t # "DISCONNECT"
    <2>1. h + 1 \in 1..Len(q) /\ h + 1 < i + 1 /\ u[h] = q[h + 1]
      BY <1>1, <1>4
    <2>2. QED BY <1>2, <2>1 DEF BeforeQ
  <1>5. ASSUME r = 0 PROVE \E h \in 1..Len(u) : h < i /\ u[h].t = "START"
    <2>1. r = p /\ q[1].t # "START"
      BY <1>1, <1>5
    <2>2. PICK h \in 1..Len(q) : h < i + 1 /\ q[h].t = "START"
      BY <1>2, <1>5, <2>1 DEF BeforeQ
    <2>3. h # 1
      BY <2>1, <2>2
    <2>4. h - 1 \in 1..Len(u) /\ h - 1 < i /\ (h - 1) + 1 = h
      BY <1>1, <2>2, <2>3
    <2>5. u[h - 1] = q[h]
      BY <1>1, <2>4
    <2>6. QED BY <2>2, <2>4, <2>5
  <1>6. QED BY <1>3, <1>4, <1>5

\* The queue after one more notification.
LEMMA BeforeAdd ==
    ASSUME NEW q \in Seq(Notifs), NEW n \in Notifs, NEW p, NEW k, BeforeQ(q, p, k),
           n.t = "CONNECT" => /\ n.c = k /\ ~Among(q, "DISCONNECT")
                              /\ p # 0 \/ Among(q, "START")
    PROVE  BeforeQ(Append(q, n), p, k)
  <1> DEFINE u == Append(q, n)
  <1>1. /\ Len(u) = Len(q) + 1 /\ Len(q) \in Nat /\ u[Len(q) + 1] = n
        /\ \A i \in 1..Len(q) : u[i] = q[i]
    BY Appends
  <1> HIDE DEF u
  <1> SUFFICES ASSUME NEW i \in 1..Len(u), u[i].t = "CONNECT"
               PROVE  /\ p # 0 \/ \E h \in 1..Len(u) : h < i /\ u[h].t = "START"
                      /\ \A h \in 1..Len(u) : h < i => u[h].t # "DISCONNECT"
                      /\ u[i].c = k
    BY DEF BeforeQ, u
  <1>2. \A h \in 1..Len(u) : h < i => h \in 1..Len(q) /\ u[h] = q[h]
    BY <1>1
  <1>3. CASE i \in 1..Len(q)
    <2>1. q[i].t = "CONNECT" /\ u[i] = q[i]
      BY <1>1, <1>3
    <2>2. /\ p # 0 \/ \E h \in 1..Len(q) : h < i /\ q[h].t = "START"
          /\ \A h \in 1..Len(q) : h < i => q[h].t # "DISCONNECT"
          /\ q[i].c = k
      BY <1>3, <2>1 DEF BeforeQ
    <2>3. \A h \in 1..Len(q) : h \in 1..Len(u)
      BY <1>1
    <2>4. QED BY <1>1, <1>2, <2>1, <2>2, <2>3
  <1>4. CASE i = Len(q) + 1
    <2>1. u[i] = n /\ n.t = "CONNECT"
      BY <1>1, <1>4
    <2>2. \A h \in 1..Len(u) : h < i => u[h].t # "DISCONNECT"
      BY <1>2, <2>1 DEF Among
    <2>3. \A h \in 1..Len(q) : h \in 1..Len(u) /\ h < i /\ u[h] = q[h]
      BY <1>1, <1>4
    <2>4. p # 0 \/ \E h \in 1..Len(u) : h < i /\ u[h].t = "START"
      BY <2>1, <2>3 DEF Among
    <2>5. QED BY <2>1, <2>2, <2>4
  <1>5. QED BY <1>1, <1>3, <1>4

\* The question or the answer of connection c is under way.
Unanswered(c) == Asking(c) \/ Answered(c)

\* A connector that works is known to the client, or its START is queued.
Held == \A c \in Conns : conn[c].working => m_pConnector = c \/ Among(m_apcNotifQ, "START")

\* The client knows the connector whose CONNECT it handles.
Before == BeforeQ(m_apcNotifQ, m_pConnector, conns)

\* A connector on which an answer is read works.
ReadsToken == \A c \in Conns : conn[c].reading /\ Answered(c) => conn[c].working

\* A client that is online has the answer, so no other is under way.
OnlineDone == m_state = "ONLINE" => \A c \in Conns : conn[c].working => ~Unanswered(c) /\ ~Among(m_apcNotifQ, "CONNECT")

\* The reconnection timer runs only while the client is not online.
TimerOff == m_reconnectTimer.armed \/ m_reconnectTimer.due > 0 => m_state # "ONLINE"

\* An answer that is queued is the only one.
Spent == Among(m_apcNotifQ, "CONNECT") => \A c \in Conns : conn[c].working => ~Unanswered(c) /\ One(m_apcNotifQ)

\* What holds of a client that runs, until stop() is called: stop() may queue a disconnect in front of an answer.
Runs == Held /\ Before /\ ReadsToken /\ OnlineDone /\ TimerOff /\ Spent
RunInv == app = "run" => Runs

\* Questions and answers only get fewer.
LEMMA LessUnanswered == ASSUME Less PROVE \A d \in Conns : Unanswered(d)' => Unanswered(d)
  BY DEF Less, Unanswered

\* A step on which no connection is opened and no answer queued.
LEMMA RunKept ==
    ASSUME Runs, UNCHANGED <<m_pConnector, conns>>, Less,
           m_state' = m_state \/ m_state' # "ONLINE",
           m_reconnectTimer'.armed \/ m_reconnectTimer'.due > 0 => m_state' # "ONLINE",
           \A d \in Conns : conn'[d].working => conn[d].working,
           \A d \in Conns : conn'[d].reading /\ Answered(d)' => conn'[d].working,
           Among(m_apcNotifQ, "START") => Among(m_apcNotifQ', "START"),
           Among(m_apcNotifQ', "CONNECT") => Among(m_apcNotifQ, "CONNECT"),
           One(m_apcNotifQ) => One(m_apcNotifQ'),
           BeforeQ(m_apcNotifQ', m_pConnector, conns)
    PROVE  Runs'
  <1>1. \A d \in Conns : Unanswered(d)' => Unanswered(d)
    BY LessUnanswered
  <1>2. Held'
    BY DEF Runs, Held
  <1>3. Before' /\ ReadsToken' /\ TimerOff'
    BY DEF Before, ReadsToken, TimerOff
  <1>4. OnlineDone'
    BY <1>1 DEF Runs, OnlineDone
  <1>5. Spent'
    BY <1>1 DEF Runs, Spent
  <1>6. QED BY <1>2, <1>3, <1>4, <1>5 DEF Runs

\* A step that leaves the client, the connectors and their queue.
LEMMA RunSame ==
    ASSUME Runs, UNCHANGED <<m_state, m_pConnector, conns, conn, m_apcNotifQ, m_reconnectTimer>>, Less
    PROVE  Runs'
  <1>1. \A d \in Conns : conn'[d].reading /\ Answered(d)' => conn'[d].working
    BY DEF Less, Runs, ReadsToken
  <1>2. QED BY <1>1, RunKept DEF Runs, Before, TimerOff

\* What is left when a notification is handled.
LEMMA PopQueue ==
    ASSUME ClientType, Life, Runs, m_apcNotifQ # <<>>
    PROVE  /\ Tail(m_apcNotifQ) \in Seq(Notifs)
           /\ Among(Tail(m_apcNotifQ), "CONNECT") => Among(m_apcNotifQ, "CONNECT")
           /\ One(m_apcNotifQ) => One(Tail(m_apcNotifQ))
           /\ One(m_apcNotifQ) /\ Head(m_apcNotifQ).t = "CONNECT" => ~Among(Tail(m_apcNotifQ), "CONNECT")
           /\ Head(m_apcNotifQ).t # "START" =>
                 /\ Among(m_apcNotifQ, "START") => Among(Tail(m_apcNotifQ), "START")
                 /\ BeforeQ(Tail(m_apcNotifQ), m_pConnector, conns)
           /\ Head(m_apcNotifQ).t = "CONNECT" => m_pConnector # 0 /\ Head(m_apcNotifQ).c = conns
  <1>1. m_apcNotifQ \in Seq(Notifs) /\ LifeQ(m_apcNotifQ, conns) /\ BeforeQ(m_apcNotifQ, m_pConnector, conns)
    BY DEF ClientType, Life, QueueLife, Runs, Before
  <1>2. Head(m_apcNotifQ).t # "START" /\ Among(m_apcNotifQ, "START") => Among(Tail(m_apcNotifQ), "START")
    <2> DEFINE q == m_apcNotifQ
               u == Tail(m_apcNotifQ)
    <2>1. /\ Len(q) \in Nat \ {0} /\ Head(q) = q[1] /\ Len(u) = Len(q) - 1
          /\ \A i \in 1..Len(u) : i + 1 \in 1..Len(q) /\ u[i] = q[i + 1]
      BY <1>1, Tails
    <2> HIDE DEF q, u
    <2>2. ASSUME q[1].t # "START", NEW i \in 1..Len(q), q[i].t = "START" PROVE Among(u, "START")
      <3>1. i # 1
        BY <2>2
      <3>2. i - 1 \in 1..Len(u) /\ (i - 1) + 1 = i
        BY <2>1, <3>1
      <3>3. u[i - 1] = q[i]
        BY <2>1, <3>2
      <3>4. QED BY <2>2, <3>2, <3>3 DEF Among
    <2>3. QED BY <2>1, <2>2 DEF Among, q, u
  <1>3. QED BY <1>1, <1>2, Tails, Popped, TailOne, BeforeHead, BeforePop

\* What is known of the queue after a notification that is no answer.
LEMMA AddQueue ==
    ASSUME NEW q \in Seq(Notifs), NEW n \in Notifs, n.t # "CONNECT", NEW p, NEW k, BeforeQ(q, p, k)
    PROVE  /\ Among(q, "START") => Among(Append(q, n), "START")
           /\ Among(Append(q, n), "CONNECT") => Among(q, "CONNECT")
           /\ One(q) => One(Append(q, n))
           /\ BeforeQ(Append(q, n), p, k)
  BY Added, AppendOne, BeforeAdd

\* What the end of a connector does to the queue.
LEMMA EndsQueue ==
    ASSUME NEW q \in Seq(Notifs), NEW c, Ends(c, q), NEW p, NEW k, BeforeQ(q, p, k)
    PROVE  /\ Among(q, "START") => Among(m_apcNotifQ', "START")
           /\ Among(m_apcNotifQ', "CONNECT") => Among(q, "CONNECT")
           /\ One(q) => One(m_apcNotifQ')
           /\ BeforeQ(m_apcNotifQ', p, k)
  <1>1. CASE m_apcNotifQ' = q
    BY <1>1
  <1>2. CASE \E n \in Notifs : n.t = "DISCONNECT" /\ m_apcNotifQ' = Append(q, n)
    BY <1>2, AddQueue
  <1>3. QED BY <1>1, <1>2 DEF Ends

\* What the end of a connector does to the connectors.
LEMMA EndsWorking ==
    ASSUME conn \in [Conns -> Links], NEW c \in Conns, NEW q, Ends(c, q)
    PROVE  /\ \A d \in Conns : conn'[d].working => conn[d].working
           /\ \A d \in Conns : conn'[d].reading => conn[d].reading
           /\ \A d \in Conns : d # c => (conn'[d].working <=> conn[d].working) \/ m_apcNotifQ' = q
  BY DEF Ends, Fewer

\* While an answer is queued, or the client is online, no connector reads an answer.
LEMMA NoToken ==
    ASSUME Runs, Less, \A d \in Conns : conn'[d].reading => conn[d].reading,
           m_state = "ONLINE" \/ Among(m_apcNotifQ, "CONNECT")
    PROVE  \A d \in Conns : conn'[d].reading /\ Answered(d)' => conn'[d].working
  <1> SUFFICES ASSUME NEW d \in Conns, conn'[d].reading, Answered(d)' PROVE FALSE
    OBVIOUS
  <1>1. conn[d].reading /\ Answered(d)
    BY DEF Less
  <1>2. conn[d].working
    BY <1>1 DEF Runs, ReadsToken
  <1>3. QED BY <1>1, <1>2 DEF Runs, OnlineDone, Spent, Unanswered

\* A step that leaves the connectors.
LEMMA SameToken ==
    ASSUME Runs, Less, conn' = conn
    PROVE  \A d \in Conns : conn'[d].reading /\ Answered(d)' => conn'[d].working
  BY DEF Less, Runs, ReadsToken

\* A new connection of a running client.
LEMMA NewRun ==
    ASSUME ClientType, Lines, conns < MaxConns, NEW id, Open(id),
           m_pConnector = 0, ~Working, ~Among(m_apcNotifQ, "CONNECT"), \A d \in Conns : ~conn[d].reading,
           m_state' # "ONLINE"
    PROVE  Runs'
  <1>1. /\ conns' \in Conns /\ conn'[conns'].reading = conn[conns'].reading
        /\ \A d \in Conns : d # conns' => conn'[d] = conn[d]
        /\ \E n \in Notifs : n.t = "START" /\ n.c = conns' /\ m_apcNotifQ' = Append(m_apcNotifQ, n)
    BY Opening
  <1>2. PICK n \in Notifs : n.t = "START" /\ n.c = conns' /\ m_apcNotifQ' = Append(m_apcNotifQ, n)
    BY <1>1
  <1>3. Len(m_apcNotifQ) \in Nat /\ Len(m_apcNotifQ') = Len(m_apcNotifQ) + 1 /\ m_apcNotifQ'[Len(m_apcNotifQ) + 1] = n
    BY <1>2, Appends DEF ClientType
  <1>4. Among(m_apcNotifQ', "START")
    BY <1>2, <1>3 DEF Among
  <1>5. ~Among(m_apcNotifQ', "CONNECT")
    BY <1>2, Added DEF ClientType
  <1>6. \A d \in Conns : ~conn'[d].reading
    BY <1>1
  <1>7. Before'
    BY <1>5, BeforeNone DEF Before
  <1>8. QED BY <1>4, <1>5, <1>6, <1>7 DEF Runs, Held, ReadsToken, OnlineDone, TimerOff, Spent

\* Every step keeps what holds of a client that runs.
LEMMA RunStep ==
    ASSUME ClientType, LineType, Life, Lines, RunInv, [Next]_svars, start => AtRest
    PROVE  RunInv'
  <1>1. CASE UNCHANGED svars
    <2>1. /\ UNCHANGED <<m_state, m_pConnector, conns, conn, m_apcNotifQ, m_reconnectTimer, app>>
          /\ UNCHANGED <<toMgr, toApc>>
      BY <1>1 DEF svars, clientVars, connVars, lineVars
    <2>2. QED BY <2>1, SameLess, RunSame DEF RunInv
  <1>2. CASE apcStarted
    <2> SUFFICES ASSUME app' = "run" PROVE Runs'
      BY DEF RunInv
    <2>1. /\ Runs /\ m_apcNotifQ # <<>> /\ Notif("START") /\ m_pConnector' = Head(m_apcNotifQ).c /\ m_apcNotifQ' = Tail(m_apcNotifQ)
          /\ UNCHANGED <<m_state, conns, conn, m_reconnectTimer, toMgr, toApc>>
      BY <1>2 DEF apcStarted, RunInv, Notif, lineVars
    <2>2. m_pConnector' = conns /\ Head(m_apcNotifQ).c \in Conns
      BY <2>1, PopLife
    <2>3. m_pConnector' # 0
      BY <2>1, <2>2, Bounds DEF Conns
    <2>4. BeforeQ(Tail(m_apcNotifQ), m_pConnector', conns)
      BY <2>1, <2>3, BeforePop DEF ClientType, Runs, Before
    <2>5. Held'
      BY <2>1, <2>2 DEF Held, Life, Newest
    <2>6. Less
      BY <2>1, SameLess
    <2>7. /\ Among(m_apcNotifQ', "CONNECT") => Among(m_apcNotifQ, "CONNECT")
          /\ One(m_apcNotifQ) => One(m_apcNotifQ')
      BY <2>1, PopQueue
    <2>8. \A d \in Conns : Unanswered(d)' => Unanswered(d)
      BY <2>6, LessUnanswered
    <2>9. ReadsToken'
      BY <2>1, <2>6, SameToken DEF ReadsToken
    <2>10. OnlineDone' /\ Spent'
      BY <2>1, <2>7, <2>8 DEF Runs, OnlineDone, Spent
    <2>11. QED BY <2>1, <2>4, <2>5, <2>9, <2>10 DEF Runs, Before, TimerOff
  <1>3. CASE messageConfirms
    <2> SUFFICES ASSUME app' = "run" PROVE Runs'
      BY DEF RunInv
    <2>1. /\ Runs /\ m_apcNotifQ # <<>> /\ Head(m_apcNotifQ).t = "MSGRCVD" /\ m_apcNotifQ' = Tail(m_apcNotifQ)
          /\ UNCHANGED <<m_state, m_pConnector, conns, conn, m_reconnectTimer, toMgr, toApc>>
      BY <1>3 DEF messageConfirms, RunInv, Notif, clientVars, lineVars
    <2>2. Less
      BY <2>1, SameLess
    <2>3. QED BY <2>1, <2>2, SameToken, PopQueue, RunKept DEF Runs, TimerOff
  <1>4. CASE apcConnected_refused
    <2> SUFFICES ASSUME app' = "run" PROVE Runs'
      BY DEF RunInv
    <2>1. /\ Runs /\ m_apcNotifQ # <<>> /\ Notif("CONNECT") /\ Head(m_apcNotifQ).t = "CONNECT"
          /\ PopAndStop(Head(m_apcNotifQ).c, "DISCONNECT")
          /\ UNCHANGED <<m_state, m_pConnector, conns, m_reconnectTimer, toMgr, toApc>>
      BY <1>4 DEF apcConnected_refused, RunInv, Notif, clientVars, lineVars
    <2>2. /\ Tail(m_apcNotifQ) \in Seq(Notifs) /\ m_pConnector # 0 /\ Head(m_apcNotifQ).c \in Conns
          /\ Among(Tail(m_apcNotifQ), "CONNECT") => Among(m_apcNotifQ, "CONNECT")
          /\ One(m_apcNotifQ) => One(Tail(m_apcNotifQ))
          /\ Among(m_apcNotifQ, "START") => Among(Tail(m_apcNotifQ), "START")
          /\ BeforeQ(Tail(m_apcNotifQ), m_pConnector, conns)
          /\ Among(m_apcNotifQ, "CONNECT")
      BY <2>1, PopQueue, PopLife DEF Notif
    <2>3. ~m_reconnectTimer.armed /\ m_reconnectTimer.due = 0
      BY <2>2 DEF Life, OneTimer, Busy
    <2>4. Less
      BY <2>1, SameLess
    <2>5. Ends(Head(m_apcNotifQ).c, Tail(m_apcNotifQ))
      BY <2>1, <2>2, Stopping DEF ClientType
    <2>6. /\ Among(m_apcNotifQ, "START") => Among(m_apcNotifQ', "START")
          /\ Among(m_apcNotifQ', "CONNECT") => Among(m_apcNotifQ, "CONNECT")
          /\ One(m_apcNotifQ) => One(m_apcNotifQ')
          /\ BeforeQ(m_apcNotifQ', m_pConnector, conns)
      BY <2>2, <2>5, EndsQueue
    <2>7. /\ \A d \in Conns : conn'[d].working => conn[d].working
          /\ \A d \in Conns : conn'[d].reading => conn[d].reading
      BY <2>2, <2>5, EndsWorking DEF ClientType
    <2>8. \A d \in Conns : conn'[d].reading /\ Answered(d)' => conn'[d].working
      BY <2>1, <2>2, <2>4, <2>7, NoToken
    <2>9. m_reconnectTimer'.armed \/ m_reconnectTimer'.due > 0 => m_state' # "ONLINE"
      BY <2>1, <2>3
    <2>10. QED BY <2>1, <2>4, <2>6, <2>7, <2>8, <2>9, RunKept
  <1>5. CASE apcConnected_new
    <2> SUFFICES ASSUME app' = "run" PROVE Runs'
      BY DEF RunInv
    <2>1. /\ Runs /\ m_apcNotifQ # <<>> /\ Notif("CONNECT") /\ Head(m_apcNotifQ).t = "CONNECT"
          /\ UNCHANGED <<m_pConnector, conns, toMgr, toApc>>
      BY <1>5 DEF apcConnected_new, RunInv, Notif, lineVars
    <2>2. /\ Tail(m_apcNotifQ) \in Seq(Notifs) /\ m_pConnector # 0 /\ Head(m_apcNotifQ).c \in Conns
          /\ Among(Tail(m_apcNotifQ), "CONNECT") => Among(m_apcNotifQ, "CONNECT")
          /\ One(m_apcNotifQ) => One(Tail(m_apcNotifQ))
          /\ Among(m_apcNotifQ, "START") => Among(Tail(m_apcNotifQ), "START")
          /\ BeforeQ(Tail(m_apcNotifQ), m_pConnector, conns)
          /\ Among(m_apcNotifQ, "CONNECT")
      BY <2>1, PopQueue, PopLife DEF Notif
    <2>3. ~m_reconnectTimer.armed /\ m_reconnectTimer.due = 0
      BY <2>2 DEF Life, OneTimer, Busy
    <2>4. Less
      BY <2>1, SameLess
    <2>5. m_apcNotifQ' = Tail(m_apcNotifQ) /\ conn' = conn /\ m_reconnectTimer' = stopTimer_p
      BY <1>5 DEF apcConnected_new
    <2>6. ~m_reconnectTimer'.armed /\ ~(m_reconnectTimer'.due > 0)
      BY <2>3, <2>5 DEF stopTimer_p, Life, OneTimer
    <2>7. QED
      <3>1. \A d \in Conns : conn[d].working => ~Unanswered(d) /\ One(m_apcNotifQ)
        BY <2>1, <2>2 DEF Runs, Spent
      <3>2. \A d \in Conns : conn[d].working => ~Unanswered(d)' /\ ~Among(m_apcNotifQ', "CONNECT")
        BY <2>1, <2>4, <2>5, <3>1, PopQueue, LessUnanswered
      <3>3. Held' /\ Before'
        BY <2>1, <2>2, <2>5 DEF Runs, Held, Before
      <3>4. OnlineDone' /\ Spent'
        BY <2>5, <3>2 DEF OnlineDone, Spent
      <3>5. ReadsToken'
        BY <2>1, <2>4, <2>5, SameToken DEF ReadsToken
      <3>6. TimerOff'
        BY <2>1, <2>3, <2>6 DEF TimerOff
      <3>7. QED BY <3>3, <3>4, <3>5, <3>6 DEF Runs
  <1>6. CASE apcConnected_restored
    <2> SUFFICES ASSUME app' = "run" PROVE Runs'
      BY DEF RunInv
    <2>1. /\ Runs /\ m_apcNotifQ # <<>> /\ Notif("CONNECT") /\ Head(m_apcNotifQ).t = "CONNECT"
          /\ UNCHANGED <<m_pConnector, conns>>
      BY <1>6 DEF apcConnected_restored, RunInv, Notif
    <2>2. /\ Tail(m_apcNotifQ) \in Seq(Notifs) /\ m_pConnector # 0 /\ Head(m_apcNotifQ).c \in Conns
          /\ Among(Tail(m_apcNotifQ), "CONNECT") => Among(m_apcNotifQ, "CONNECT")
          /\ One(m_apcNotifQ) => One(Tail(m_apcNotifQ))
          /\ Among(m_apcNotifQ, "START") => Among(Tail(m_apcNotifQ), "START")
          /\ BeforeQ(Tail(m_apcNotifQ), m_pConnector, conns)
          /\ Among(m_apcNotifQ, "CONNECT")
      BY <2>1, PopQueue, PopLife DEF Notif
    <2>3. ~m_reconnectTimer.armed /\ m_reconnectTimer.due = 0
      BY <2>2 DEF Life, OneTimer, Busy
    <2>4. Less
      BY <1>6, WrittenLess
    <2>5. m_reconnectTimer' = stopTimer_p
      BY <1>6 DEF apcConnected_restored
    <2>6. ~m_reconnectTimer'.armed /\ ~(m_reconnectTimer'.due > 0)
      BY <2>3, <2>5 DEF stopTimer_p, Life, OneTimer
    <2>7. CASE m_apcNotifQ' = Tail(m_apcNotifQ) /\ conn' = conn
      <3> USE <2>7
      <3>1. \A d \in Conns : conn[d].working => ~Unanswered(d) /\ One(m_apcNotifQ)
        BY <2>1, <2>2 DEF Runs, Spent
      <3>2. \A d \in Conns : conn[d].working => ~Unanswered(d)' /\ ~Among(m_apcNotifQ', "CONNECT")
        BY <2>1, <2>4, <3>1, PopQueue, LessUnanswered
      <3>3. Held' /\ Before'
        BY <2>1, <2>2 DEF Runs, Held, Before
      <3>4. OnlineDone' /\ Spent'
        BY <3>2 DEF OnlineDone, Spent
      <3>5. ReadsToken'
        BY <2>1, <2>4, SameToken DEF ReadsToken
      <3>6. TimerOff'
        BY <2>6 DEF TimerOff
      <3>7. QED BY <3>3, <3>4, <3>5, <3>6 DEF Runs
    <2>8. CASE (\E flag \in WriteErrors : PopAndStop(Head(m_apcNotifQ).c, flag)) /\ m_state' = m_state
      <3>1. Ends(Head(m_apcNotifQ).c, Tail(m_apcNotifQ))
        BY <2>8, <2>2, Stopping DEF ClientType
      <3>2. /\ Among(m_apcNotifQ, "START") => Among(m_apcNotifQ', "START")
            /\ Among(m_apcNotifQ', "CONNECT") => Among(m_apcNotifQ, "CONNECT")
            /\ One(m_apcNotifQ) => One(m_apcNotifQ')
            /\ BeforeQ(m_apcNotifQ', m_pConnector, conns)
        BY <2>2, <3>1, EndsQueue
      <3>3. /\ \A d \in Conns : conn'[d].working => conn[d].working
            /\ \A d \in Conns : conn'[d].reading => conn[d].reading
        BY <2>2, <3>1, EndsWorking DEF ClientType
      <3>4. \A d \in Conns : conn'[d].reading /\ Answered(d)' => conn'[d].working
        BY <2>1, <2>2, <2>4, <3>3, NoToken
      <3>5. QED BY <2>1, <2>4, <2>6, <2>8, <3>2, <3>3, <3>4, RunKept
    <2>9. QED BY <1>6, <2>7, <2>8 DEF apcConnected_restored
  <1>7. CASE apcDisconnected
    <2> SUFFICES ASSUME app' = "run" PROVE Runs'
      BY DEF RunInv
    <2>1. /\ app = "run" /\ m_apcNotifQ # <<>> /\ Notif("DISCONNECT") /\ Head(m_apcNotifQ).t = "DISCONNECT"
          /\ m_apcNotifQ' = Tail(m_apcNotifQ) /\ m_state' # "ONLINE" /\ UNCHANGED <<conn, conns, toApc>>
      BY <1>7 DEF apcDisconnected, Notif, lineVars
    <2>2. Runs
      BY <2>1 DEF RunInv
    <2>3. /\ Among(m_apcNotifQ, "DISCONNECT") /\ ~Working
          /\ ~Among(m_apcNotifQ, "CONNECT")
      BY <2>1, <2>2, PopLife, BeforeHead DEF Life, WorkLife, Runs, Before, ClientType
    <2>4. ~Among(m_apcNotifQ', "CONNECT")
      BY <2>1, <2>2, <2>3, PopQueue
    <2>5. Before'
      BY <2>4, BeforeNone DEF Before
    <2>6. ReadsToken'
      BY <2>1, <2>2 DEF Runs, ReadsToken, Answered
    <2>7. Held'
      BY <2>1, <2>3 DEF Held, Working
    <2>8. QED BY <2>1, <2>4, <2>5, <2>6, <2>7 DEF Runs, OnlineDone, TimerOff, Spent
  <1>8. CASE TimerExpires
    <2> SUFFICES ASSUME app' = "run" PROVE Runs'
      BY DEF RunInv
    <2>1. /\ app = "run" /\ UNCHANGED <<m_pConnector, conns, conn, m_apcNotifQ, toMgr, toApc>>
          /\ m_state' = m_state \/ m_state' # "ONLINE"
      BY <1>8 DEF TimerExpires, connVars, lineVars
    <2>2. Runs /\ Less
      BY <2>1, SameLess DEF RunInv
    <2>3. m_reconnectTimer.armed \/ m_reconnectTimer.due > 0
      BY <1>8 DEF TimerExpires
    <2>4. m_state' # "ONLINE"
      BY <2>1, <2>2, <2>3 DEF Runs, TimerOff
    <2>5. QED BY <2>1, <2>2, <2>4, SameToken, RunKept DEF Runs, Before
  <1>9. CASE TimePasses
    <2> SUFFICES ASSUME app' = "run" PROVE Runs'
      BY DEF RunInv
    <2>1. app = "run" /\ UNCHANGED <<m_state, m_pConnector, conns, conn, m_apcNotifQ, m_reconnectTimer>>
      BY <1>9 DEF TimePasses, clientVars, connVars
    <2>2. Runs /\ Less
      BY <1>9, <2>1, SameLess DEF RunInv, TimePasses, lineVars
    <2>3. QED BY <2>1, <2>2, RunSame
  <1>10. CASE reconnect_p
    <2> SUFFICES ASSUME app' = "run" PROVE Runs'
      BY DEF RunInv
    <2>1. app = "run" /\ m_reconnectTimer.due > 0 /\ UNCHANGED <<m_state, m_pConnector>> /\ IOFree
      BY <1>10 DEF reconnect_p
    <2>2. Runs /\ ~Busy /\ m_pConnector = 0
      BY <2>1, DueIdle DEF RunInv
    <2>3. m_state' # "ONLINE"
      BY <2>1, <2>2 DEF Runs, TimerOff
    <2>4. CASE ipConnect_p /\ Open(m_intfId)
      <3>1. ~Working /\ ~Among(m_apcNotifQ, "START")
        BY <2>2 DEF Busy
      <3>2. ~Among(m_apcNotifQ, "CONNECT")
        BY <2>2, <3>1, BeforeIdle DEF Runs, Before
      <3>3. QED BY <2>1, <2>2, <2>3, <2>4, <3>1, <3>2, NewRun DEF ipConnect_p, IOFree
    <2>5. CASE UNCHANGED <<connVars, lineVars>>
      <3>1. UNCHANGED <<conns, conn, m_apcNotifQ, toMgr, toApc>>
        BY <2>5 DEF connVars, lineVars
      <3>2. Less
        BY <3>1, SameLess
      <3>3. QED BY <2>1, <2>2, <2>3, <3>1, <3>2, SameToken, RunKept DEF Runs, Before
    <2>6. QED BY <1>10, <2>4, <2>5 DEF reconnect_p
  <1>11. CASE disconnect_p
    <2> SUFFICES ASSUME app' = "run" PROVE Runs'
      BY DEF RunInv
    <2>1. /\ app = "run" /\ UNCHANGED <<m_pConnector, conns, conn, m_apcNotifQ, toMgr, toApc>>
          /\ m_state' = m_state \/ m_state' # "ONLINE"
      BY <1>11, DueIdle DEF disconnect_p, connVars, lineVars
    <2>2. Runs /\ Less
      BY <2>1, SameLess DEF RunInv
    <2>3. m_reconnectTimer.armed \/ m_reconnectTimer.due > 0
      BY <1>11 DEF disconnect_p
    <2>4. m_state' # "ONLINE"
      BY <2>1, <2>2, <2>3 DEF Runs, TimerOff
    <2>5. QED BY <2>1, <2>2, <2>4, SameToken, RunKept DEF Runs, Before
  <1>12. CASE timerIgnored
    <2> SUFFICES ASSUME app' = "run" PROVE Runs'
      BY DEF RunInv
    <2>1. /\ app = "run" /\ UNCHANGED <<m_pConnector, conns, conn, m_apcNotifQ, toMgr, toApc>>
          /\ m_state' = m_state \/ m_state' # "ONLINE"
      BY <1>12 DEF timerIgnored, connVars, lineVars
    <2>2. Runs /\ Less
      BY <2>1, SameLess DEF RunInv
    <2>3. m_reconnectTimer.armed \/ m_reconnectTimer.due > 0
      BY <1>12 DEF timerIgnored
    <2>4. m_state' # "ONLINE"
      BY <2>1, <2>2, <2>3 DEF Runs, TimerOff
    <2>5. QED BY <2>1, <2>2, <2>4, SameToken, RunKept DEF Runs, Before
  <1>13. CASE start
    <2> SUFFICES ASSUME app' = "run" PROVE Runs'
      BY DEF RunInv
    <2>1. AtRest /\ app = "idle"
      BY <1>13 DEF start
    <2>2. /\ m_reconnectTimer.due = 0 /\ ~m_reconnectTimer.armed /\ m_apcNotifQ = <<>> /\ ~Working
          /\ \A d \in Conns : ~conn[d].working /\ ~conn[d].reading
      BY <2>1 DEF Life, OneTimer, IdleRest, AtRest, Working
    <2>3. ~Among(m_apcNotifQ, "CONNECT")
      BY <2>2, NoneIn
    <2>4. CASE ipConnect_p /\ Open(0) /\ m_pConnector = 0 /\ m_state' = "INIT"
      BY <2>2, <2>3, <2>4, NewRun DEF ipConnect_p
    <2>5. CASE UNCHANGED connVars /\ m_reconnectTimer' = m_reconnectTimer
      <3>1. UNCHANGED <<conn, m_apcNotifQ, m_reconnectTimer>>
        BY <2>5 DEF connVars
      <3>2. Before'
        BY <2>3, <3>1, BeforeNone DEF Before
      <3>3. QED BY <2>2, <2>3, <3>1, <3>2 DEF Runs, Held, ReadsToken, OnlineDone, TimerOff, Spent
    <2>6. QED BY <1>13, <2>4, <2>5 DEF start, clientVars
  <1>14. CASE stop
    BY <1>14 DEF stop, RunInv
  <1>15. CASE stop_close
    BY <1>15 DEF stop_close, RunInv
  <1>16. CASE stop_wait
    BY <1>16 DEF stop_wait, RunInv
  <1>17. CASE stop_join
    BY <1>17 DEF stop_join, RunInv
  <1>18. CASE sendData
    <2> SUFFICES ASSUME app' = "run" PROVE Runs'
      BY DEF RunInv
    <2>1. /\ app = "run" /\ m_state = "ONLINE" /\ UNCHANGED <<m_state, m_pConnector, conns, m_reconnectTimer>>
          /\ m_pConnector # 0 /\ ((\E flag \in WriteErrors : stopped(m_pConnector, flag)) \/ UNCHANGED <<conn, m_apcNotifQ>>)
      BY <1>18 DEF sendData, sendData_p, clientVars
    <2>2. Runs /\ Less
      BY <1>18, <2>1, WrittenLess DEF RunInv
    <2>3. /\ m_pConnector \in Conns /\ m_apcNotifQ \in Seq(Notifs) /\ conn \in [Conns -> Links]
          /\ BeforeQ(m_apcNotifQ, m_pConnector, conns)
      BY <2>1, <2>2, Bounds DEF ClientType, Conns, Runs, Before
    <2>4. Ends(m_pConnector, m_apcNotifQ)
      BY <2>1, <2>3, Stopping DEF Ends, Fewer
    <2>5. /\ Among(m_apcNotifQ, "START") => Among(m_apcNotifQ', "START")
          /\ Among(m_apcNotifQ', "CONNECT") => Among(m_apcNotifQ, "CONNECT")
          /\ One(m_apcNotifQ) => One(m_apcNotifQ')
          /\ BeforeQ(m_apcNotifQ', m_pConnector, conns)
      BY <2>3, <2>4, EndsQueue
    <2>6. /\ \A d \in Conns : conn'[d].working => conn[d].working
          /\ \A d \in Conns : conn'[d].reading => conn[d].reading
      BY <2>3, <2>4, EndsWorking
    <2>7. \A d \in Conns : conn'[d].reading /\ Answered(d)' => conn'[d].working
      BY <2>1, <2>2, <2>6, NoToken
    <2>8. QED BY <2>1, <2>2, <2>5, <2>6, <2>7, RunKept DEF Runs, TimerOff
  <1>19. CASE ManagerConfirms
    <2> SUFFICES ASSUME app' = "run" PROVE Runs'
      BY DEF RunInv
    <2>1. app = "run" /\ UNCHANGED <<m_state, m_pConnector, conns, conn, m_apcNotifQ, m_reconnectTimer>>
      BY <1>19 DEF ManagerConfirms, clientVars, connVars
    <2>2. Runs /\ Less
      BY <1>19, <2>1, ManagerLess DEF RunInv
    <2>3. QED BY <2>1, <2>2, RunSame
  <1>20. CASE ManagerRefuses
    <2> SUFFICES ASSUME app' = "run" PROVE Runs'
      BY DEF RunInv
    <2>1. app = "run" /\ UNCHANGED <<m_state, m_pConnector, conns, conn, m_apcNotifQ, m_reconnectTimer>>
      BY <1>20 DEF ManagerRefuses, clientVars, connVars
    <2>2. Runs /\ Less
      BY <1>20, <2>1, ManagerLess DEF RunInv
    <2>3. QED BY <2>1, <2>2, RunSame
  <1>21. ASSUME NEW c \in Conns, ManagerReads(c) PROVE RunInv'
    <2> SUFFICES ASSUME app' = "run" PROVE Runs'
      BY DEF RunInv
    <2>1. app = "run" /\ UNCHANGED <<m_state, m_pConnector, conns, conn, m_apcNotifQ, m_reconnectTimer>>
      BY <1>21 DEF ManagerReads, clientVars, connVars
    <2>2. Runs /\ Less
      BY <1>21, <2>1, ReadsLess DEF RunInv
    <2>3. QED BY <2>1, <2>2, RunSame
  <1>22. ASSUME NEW c \in Conns, Break(c) PROVE RunInv'
    <2> SUFFICES ASSUME app' = "run" PROVE Runs'
      BY DEF RunInv
    <2>1. app = "run" /\ UNCHANGED <<m_state, m_pConnector, conns, conn, m_apcNotifQ, m_reconnectTimer>>
      BY <1>22 DEF Break, clientVars, connVars
    <2>2. Runs /\ Less
      BY <1>22, <2>1, BreakLess DEF RunInv
    <2>3. QED BY <2>1, <2>2, RunSame
  <1>23. ASSUME NEW c \in Conns, handle_read_p(c) PROVE RunInv'
    <2> SUFFICES ASSUME app' = "run" PROVE Runs'
      BY DEF RunInv
    <2>1. app = "run" /\ UNCHANGED <<m_state, m_pConnector, conns, m_reconnectTimer, toMgr, toApc>>
      BY <1>23 DEF handle_read_p, clientVars, lineVars
    <2>2. Runs /\ Less
      BY <2>1, SameLess DEF RunInv
    <2>3. BeforeQ(m_apcNotifQ, m_pConnector, conns) /\ m_apcNotifQ \in Seq(Notifs) /\ conn \in [Conns -> Links]
      BY <2>2 DEF Runs, Before, ClientType
    <2>4. m_apcNotifQ' = m_apcNotifQ /\ \A d \in Conns : /\ conn'[d].working = conn[d].working
                                                         /\ conn'[d].reading => conn[d].reading \/ conn[d].working
      BY <1>23, <2>3 DEF handle_read_p, Links
    <2>5. \A d \in Conns : conn'[d].reading /\ Answered(d)' => conn'[d].working
      BY <2>1, <2>2, <2>4 DEF Runs, ReadsToken, Answered
    <2>6. QED BY <2>1, <2>2, <2>3, <2>4, <2>5, RunKept DEF Runs, TimerOff
  <1>24. ASSUME NEW c \in Conns, messageReceived(c) PROVE RunInv'
    <2> SUFFICES ASSUME app' = "run" PROVE Runs'
      BY DEF RunInv
    <2> DEFINE f == Head(toApc[c])
    <2>1. /\ app = "run" /\ UNCHANGED <<m_state, m_pConnector, conns, m_reconnectTimer>>
          /\ conn[c].reading /\ toApc[c] # <<>>
      BY <1>24 DEF messageReceived, clientVars
    <2>2. /\ Runs /\ Less /\ \A d \in Conns : Answered(d)' => Answered(d)
          /\ f.t = "CONNECT" => Answered(c) /\ ~Answered(c)'
      BY <1>24, <2>1, TakenLess DEF RunInv
    <2>3. BeforeQ(m_apcNotifQ, m_pConnector, conns) /\ m_apcNotifQ \in Seq(Notifs) /\ conn \in [Conns -> Links] /\ f \in ToApc
      BY <2>1, <2>2, Tails DEF Runs, Before, ClientType, LineType
    <2>4. CASE readError(c, "OFFLINE") \/ readError(c, "DISCONNECT")
      <3>1. Ends(c, m_apcNotifQ)
        BY <2>3, <2>4, ReadFailing
      <3>2. /\ Among(m_apcNotifQ, "START") => Among(m_apcNotifQ', "START")
            /\ Among(m_apcNotifQ', "CONNECT") => Among(m_apcNotifQ, "CONNECT")
            /\ One(m_apcNotifQ) => One(m_apcNotifQ')
            /\ BeforeQ(m_apcNotifQ', m_pConnector, conns)
        BY <2>3, <3>1, EndsQueue
      <3>3. \A d \in Conns : conn'[d].working => conn[d].working
        BY <2>3, <3>1, EndsWorking
      <3>4. ~conn'[c].reading /\ \A d \in Conns : d # c => conn'[d] = conn[d]
        BY <2>3, <2>4 DEF readError, Links
      <3>5. \A d \in Conns : conn'[d].reading /\ Answered(d)' => conn'[d].working
        BY <2>2, <3>4 DEF Runs, ReadsToken
      <3>6. QED BY <2>1, <2>2, <3>2, <3>3, <3>5, RunKept DEF Runs, TimerOff
    <2>5. CASE /\ f.t \in {"KA", "NET"} /\ conn' = conn
               /\ m_apcNotifQ' = Append(m_apcNotifQ, [t |-> "MSGRCVD", your |-> f.your])
      <3> DEFINE n == [t |-> "MSGRCVD", your |-> f.your]
      <3>1. n \in Notifs /\ n.t # "CONNECT"
        BY <2>3, <2>5, FrameFields, MakeNotifs
      <3> HIDE DEF n
      <3>2. m_apcNotifQ' = Append(m_apcNotifQ, n)
        BY <2>5 DEF n
      <3>3. /\ Among(m_apcNotifQ, "START") => Among(m_apcNotifQ', "START")
            /\ Among(m_apcNotifQ', "CONNECT") => Among(m_apcNotifQ, "CONNECT")
            /\ One(m_apcNotifQ) => One(m_apcNotifQ')
            /\ BeforeQ(m_apcNotifQ', m_pConnector, conns)
        BY <2>3, <3>1, <3>2, AddQueue
      <3>4. QED BY <2>1, <2>2, <2>5, <3>3, SameToken, RunKept DEF Runs, TimerOff
    <2>6. CASE /\ f.t = "CONNECT" /\ conn' = [conn EXCEPT ![c].connected = TRUE]
               /\ m_apcNotifQ' = Append(m_apcNotifQ, [t |-> "CONNECT", c |-> c, id |-> f.id, your |-> f.your])
      <3> DEFINE n == [t |-> "CONNECT", c |-> c, id |-> f.id, your |-> f.your]
      <3>1. n \in Notifs /\ n.t = "CONNECT" /\ n.c = c
        BY <2>3, <2>6, FrameFields, MakeNotifs
      <3> HIDE DEF n
      <3>2. m_apcNotifQ' = Append(m_apcNotifQ, n)
        BY <2>6 DEF n
      <3>3. \A d \in Conns : conn'[d].working = conn[d].working /\ conn'[d].reading = conn[d].reading
        BY <2>3, <2>6 DEF Links
      <3>4. Answered(c) /\ ~Answered(c)' /\ conn[c].working
        BY <2>1, <2>2, <2>6 DEF Runs, ReadsToken
      <3>5. c = conns /\ \A d \in Conns : conn[d].working => d = c
        BY <3>4 DEF Life, Newest
      <3>6. ~Among(m_apcNotifQ, "DISCONNECT") /\ (m_pConnector # 0 \/ Among(m_apcNotifQ, "START"))
        <4>1. Working /\ c # 0
          BY <3>4, Bounds DEF Working, Conns
        <4>2. QED BY <2>2, <3>4, <4>1 DEF Life, WorkLife, Runs, Held
      <3>7. Before'
        BY <2>1, <2>3, <3>1, <3>2, <3>5, <3>6, BeforeAdd DEF Before
      <3>8. m_state # "ONLINE" /\ ~Among(m_apcNotifQ, "CONNECT")
        BY <2>2, <3>4 DEF Runs, OnlineDone, Spent, Unanswered
      <3>9. One(m_apcNotifQ')
        <4>1. One(m_apcNotifQ)
          BY <3>8 DEF One, Among
        <4>2. QED BY <2>3, <3>1, <3>2, <3>8, <4>1, AppendOne
      <3>10. ~Asking(c)'
        <4>1. ~Asking(c)
          BY <3>4, NoneIn DEF Lines, Line, Answered
        <4>2. QED BY <2>2, <4>1 DEF Less
      <3>11. Spent'
        BY <3>3, <3>4, <3>5, <3>9, <3>10 DEF Spent, Unanswered
      <3>12. Held'
        BY <2>1, <2>2, <2>3, <3>1, <3>2, <3>3, Added DEF Runs, Held
      <3>13. ReadsToken'
        BY <2>2, <3>3 DEF Runs, ReadsToken
      <3>14. QED BY <2>1, <3>7, <3>8, <3>11, <3>12, <3>13 DEF Runs, OnlineDone, TimerOff
    <2>7. QED BY <1>24, <2>4, <2>5, <2>6 DEF messageReceived
  <1>25. ASSUME NEW c \in Conns, handle_read_end(c) PROVE RunInv'
    <2> SUFFICES ASSUME app' = "run" PROVE Runs'
      BY DEF RunInv
    <2>1. app = "run" /\ UNCHANGED <<m_state, m_pConnector, conns, m_reconnectTimer, toMgr, toApc>>
      BY <1>25 DEF handle_read_end, clientVars, lineVars
    <2>2. Runs /\ Less
      BY <2>1, SameLess DEF RunInv
    <2>3. BeforeQ(m_apcNotifQ, m_pConnector, conns) /\ m_apcNotifQ \in Seq(Notifs) /\ conn \in [Conns -> Links]
      BY <2>2 DEF Runs, Before, ClientType
    <2>4. m_apcNotifQ' = m_apcNotifQ /\ \A d \in Conns : /\ conn'[d].working = conn[d].working
                                                         /\ conn'[d].reading => conn[d].reading
      BY <1>25, <2>3 DEF handle_read_end, Links
    <2>5. \A d \in Conns : conn'[d].reading /\ Answered(d)' => conn'[d].working
      BY <2>1, <2>2, <2>4 DEF Runs, ReadsToken, Answered
    <2>6. QED BY <2>1, <2>2, <2>3, <2>4, <2>5, RunKept DEF Runs, TimerOff
  <1>26. ASSUME NEW c \in Conns, connectionFails(c) PROVE RunInv'
    <2> SUFFICES ASSUME app' = "run" PROVE Runs'
      BY DEF RunInv
    <2>1. app = "run" /\ UNCHANGED <<m_state, m_pConnector, conns, m_reconnectTimer, toMgr, toApc>>
      BY <1>26 DEF connectionFails, clientVars, lineVars
    <2>2. Runs /\ Less
      BY <2>1, SameLess DEF RunInv
    <2>3. BeforeQ(m_apcNotifQ, m_pConnector, conns) /\ m_apcNotifQ \in Seq(Notifs) /\ conn \in [Conns -> Links]
      BY <2>2 DEF Runs, Before, ClientType
    <2>4. Ends(c, m_apcNotifQ) /\ \A d \in Conns : ~conn[d].reading
      BY <1>26, <2>3, Stopping DEF connectionFails, IOFree
    <2>5. /\ Among(m_apcNotifQ, "START") => Among(m_apcNotifQ', "START")
          /\ Among(m_apcNotifQ', "CONNECT") => Among(m_apcNotifQ, "CONNECT")
          /\ One(m_apcNotifQ) => One(m_apcNotifQ')
          /\ BeforeQ(m_apcNotifQ', m_pConnector, conns)
      BY <2>3, <2>4, EndsQueue
    <2>6. /\ \A d \in Conns : conn'[d].working => conn[d].working
          /\ \A d \in Conns : ~conn'[d].reading
      BY <2>3, <2>4, EndsWorking
    <2>7. QED BY <2>1, <2>2, <2>5, <2>6, RunKept DEF Runs, TimerOff
  <1>27. QED
    BY <1>1, <1>2, <1>3, <1>4, <1>5, <1>6, <1>7, <1>8, <1>9, <1>10, <1>11, <1>12, <1>13, <1>14, <1>15, <1>16, <1>17,
       <1>18, <1>19, <1>20, <1>21, <1>22, <1>23, <1>24, <1>25, <1>26
    DEF Next, NotifNext, TimerNext, CallNext, MgrNext, ReadNext

\* The invariant of the session.
SessionInv == ClientType /\ LineType /\ Life /\ Lines /\ RunInv

\* The client begins in it.
LEMMA SessionInit == Init => SessionInv
  <1> SUFFICES ASSUME Init PROVE SessionInv
    OBVIOUS
  <1>1. ClientType
    BY Bounds DEF Init, ClientType, NewConn, Links
  <1>2. LineType
    BY Bounds DEF Init, LineType
  <1>3. \A c \in Conns : ~conn[c].working /\ ~conn[c].reading
    BY DEF Init, NewConn
  <1>4. Life
    BY <1>3, Nothing DEF Init, NoTimer, Life, QueueLife, Newest, WorkLife, OneTimer, Current, IdleRest, Working, Busy
  <1>5. Lines
    <2>1. ASSUME NEW c \in Conns PROVE Line(c)
      <3>1. toMgr[c] = <<>> /\ toApc[c] = <<>>
        BY DEF Init
      <3>2. QED BY <3>1, NoneIn DEF Line, Asking
    <2>2. QED BY <2>1 DEF Lines, Init
  <1>6. RunInv
    BY DEF Init, RunInv
  <1>7. QED BY <1>1, <1>2, <1>4, <1>5, <1>6 DEF SessionInv

\* Every step keeps it.
LEMMA SessionStep ==
    ASSUME SessionInv, [Next]_svars, start => AtRest
    PROVE  SessionInv'
  BY ClientTypeStep, LineTypeStep, LifeStep, LinesStep, RunStep DEF SessionInv

\* It holds of every behaviour in which start() is called at rest.
LEMMA SessionHolds == Spec /\ [][start => AtRest]_svars => []SessionInv
  <1>1. SessionInv /\ [Next]_svars /\ [start => AtRest]_svars => SessionInv'
    <2>1. CASE UNCHANGED svars
      <3>1. ~start
        BY <2>1 DEF start, svars
      <3>2. QED BY <2>1, <3>1, SessionStep
    <2>2. QED BY <2>1, SessionStep
  <1>2. QED BY <1>1, SessionInit, PTL DEF Spec

\* Only one connector works at a time, whatever the bounds: reconnect_p and start() open a connection only when
\* apcDisconnected has handled the end of the one before.  The hypothesis says when the coupler may call start()
\* again; without it a START left in the queue of the session before makes two connectors work.
THEOREM ConnectorOne == Spec /\ [][start => AtRest]_svars => []OneConnector
  <1>1. SessionInv => OneConnector
    BY DEF SessionInv, Life, Newest, OneConnector
  <1>2. QED BY <1>1, SessionHolds, PTL

\* apcConnected finds m_pConnector when it replays the cache, while the client runs: the START of a connector is
\* queued before the CONNECT the io thread reads from it, and its disconnect behind it.
THEOREM ConnectorAtReplay == Spec /\ [][start => AtRest]_svars => []ReplayHasConnector
  <1>1. SessionInv => ReplayHasConnector
    <2> SUFFICES ASSUME SessionInv, app = "run", m_apcNotifQ # <<>>, Head(m_apcNotifQ).t = "CONNECT"
                 PROVE  m_pConnector # 0
      BY DEF ReplayHasConnector
    <2>1. Runs
      BY DEF SessionInv, RunInv
    <2>2. QED BY <2>1, PopQueue DEF SessionInv
  <1>2. QED BY <1>1, SessionHolds, PTL
-------------------------------------------------------------------------------
(*****************************************************************************)
(* Delivery: the packets of a session reach the Manager in order, none of    *)
(* them twice, and only an overflow of the cache loses one.  The argument:   *)
(* there is one question and one answer (Tok); the client and the Manager    *)
(* agree on what an answer means while it is under way (Agree); the packets  *)
(* got and those on the Manager's line are one rising sequence (Delivery).   *)
(* Most steps are quiet and keep all three; the others come one by one.      *)
(*****************************************************************************)
\* The reconnection timer runs, or its expiry waits to be handled.
TimerOn == m_reconnectTimer.armed \/ m_reconnectTimer.due > 0

\* The io thread reads the frames of a connection that has an answer.
Reader  == \E c \in Conns : conn[c].reading /\ Answered(c)

\* No question and no answer of the newest connection is under way.
Silent  == \A c \in Conns : c = conns => ~Unanswered(c)

\* A connector the client knows, or will, works or has reported its end.
Known   == m_pConnector # 0 \/ Among(m_apcNotifQ, "START") => Working \/ Among(m_apcNotifQ, "DISCONNECT")

\* A deadline for the reconnection is set only while the client is not online.
Deadline == m_disconnectTime # "EMPTY" => m_state # "ONLINE"

\* An end that is to be followed by a reconnection.
EndOffline(n) == n.t = "DISCONNECT" /\ n.flag = "OFFLINE"

\* Such an end is queued.
OffQ(q) == \E i \in 1..Len(q) : EndOffline(q[i])

\* Every answer queued is of connector k.
OwnQ(q, k) == \A i \in 1..Len(q) : q[i].t = "CONNECT" => q[i].c = k

\* No answer is queued behind such an end.
LateQ(q) == \A i, j \in 1..Len(q) : i < j /\ EndOffline(q[i]) => q[j].t # "CONNECT"

\* One answer at most is queued, of connector k, and not behind such an end.
AnswerQ(q, k) == One(q) /\ OwnQ(q, k) /\ LateQ(q)

\* There is one question: while its answer is queued nothing else of it is under way, the client is not online and
\* the timer is off, and no answer is read while a reconnection is to come.
Quest == /\ AnswerQ(m_apcNotifQ, conns)
         /\ Among(m_apcNotifQ, "CONNECT") => ~TimerOn /\ Silent /\ m_state # "ONLINE"
         /\ m_state = "ONLINE" => Silent
         /\ Reader => ~TimerOn /\ ~OffQ(m_apcNotifQ)
Tok == Known /\ Deadline /\ Quest

\* A queue without an answer.
LEMMA QueueNone == ASSUME NEW q, ~Among(q, "CONNECT"), NEW k PROVE AnswerQ(q, k)
  BY DEF AnswerQ, One, OwnQ, LateQ, Among

\* The queue after its oldest notification was handled.
LEMMA QueuePop ==
    ASSUME NEW q \in Seq(Notifs), q # <<>>, NEW k, AnswerQ(q, k)
    PROVE  /\ AnswerQ(Tail(q), k) /\ (OffQ(Tail(q)) => OffQ(q))
           /\ \A type : Among(q, type) /\ Head(q).t # type => Among(Tail(q), type)
           /\ \A type : Among(Tail(q), type) => Among(q, type)
           /\ Head(q).t = "CONNECT" => Among(q, "CONNECT") /\ Head(q).c = k /\ ~Among(Tail(q), "CONNECT")
           /\ EndOffline(Head(q)) => OffQ(q) /\ ~Among(q, "CONNECT")
  <1> DEFINE u == Tail(q)
  <1>1. /\ Len(q) \in Nat \ {0} /\ Head(q) = q[1] /\ Len(u) = Len(q) - 1
        /\ \A i \in 1..Len(u) : i + 1 \in 1..Len(q) /\ u[i] = q[i + 1]
    BY Tails
  <1>2. One(u) /\ (q[1].t = "CONNECT" => Among(q, "CONNECT") /\ ~Among(u, "CONNECT"))
    BY <1>1, TailOne DEF AnswerQ
  <1> HIDE DEF u
  <1>3. OwnQ(u, k)
    BY <1>1 DEF AnswerQ, OwnQ
  <1>4. LateQ(u)
    <2> SUFFICES ASSUME NEW i \in 1..Len(u), NEW j \in 1..Len(u), i < j, EndOffline(u[i]) PROVE u[j].t # "CONNECT"
      BY DEF LateQ
    <2>1. i + 1 \in 1..Len(q) /\ j + 1 \in 1..Len(q) /\ i + 1 < j + 1 /\ u[i] = q[i + 1] /\ u[j] = q[j + 1]
      BY <1>1
    <2>2. QED BY <2>1 DEF AnswerQ, LateQ
  <1>5. OffQ(u) => OffQ(q)
    BY <1>1 DEF OffQ
  <1>6. ASSUME NEW type, NEW i \in 1..Len(q), q[i].t = type, q[1].t # type PROVE Among(u, type)
    <2>1. i # 1
      BY <1>6
    <2>2. i - 1 \in 1..Len(u) /\ (i - 1) + 1 = i
      BY <1>1, <2>1
    <2>3. u[i - 1] = q[i]
      BY <1>1, <2>2
    <2>4. QED BY <1>6, <2>2, <2>3 DEF Among
  <1>7. \A type : Among(u, type) => Among(q, type)
    BY <1>1 DEF Among
  <1>8. q[1].t = "CONNECT" => q[1].c = k
    BY <1>1 DEF AnswerQ, OwnQ
  <1>9. EndOffline(q[1]) => OffQ(q)
    BY <1>1 DEF OffQ
  <1>10. ASSUME EndOffline(q[1]), NEW i \in 1..Len(q), q[i].t = "CONNECT" PROVE FALSE
    <2>1. i # 1
      BY <1>10 DEF EndOffline
    <2>2. 1 \in 1..Len(q) /\ 1 < i
      BY <1>1, <2>1
    <2>3. QED BY <1>10, <2>2 DEF AnswerQ, LateQ
  <1>11. AnswerQ(u, k) /\ \A type : Among(q, type) /\ q[1].t # type => Among(u, type)
    BY <1>2, <1>3, <1>4, <1>6 DEF AnswerQ, Among
  <1>12. EndOffline(q[1]) => ~Among(q, "CONNECT")
    BY <1>10 DEF Among
  <1>13. QED BY <1>1, <1>2, <1>5, <1>7, <1>8, <1>9, <1>11, <1>12 DEF u

\* The queue after one more notification.
LEMMA QueueAdd ==
    ASSUME NEW q \in Seq(Notifs), NEW n \in Notifs, NEW k, AnswerQ(q, k),
           n.t = "CONNECT" => n.c = k /\ ~Among(q, "CONNECT") /\ ~OffQ(q)
    PROVE  /\ AnswerQ(Append(q, n), k) /\ (OffQ(Append(q, n)) => OffQ(q) \/ EndOffline(n))
  <1> DEFINE u == Append(q, n)
  <1>1. /\ Len(u) = Len(q) + 1 /\ Len(q) \in Nat /\ u[Len(q) + 1] = n
        /\ \A i \in 1..Len(q) : u[i] = q[i]
    BY Appends
  <1>2. One(u)
    BY AppendOne DEF AnswerQ
  <1> HIDE DEF u
  <1>3. OwnQ(u, k)
    <2> SUFFICES ASSUME NEW i \in 1..Len(u), u[i].t = "CONNECT" PROVE u[i].c = k
      BY DEF OwnQ
    <2>1. i \in 1..Len(q) \/ i = Len(q) + 1
      BY <1>1
    <2>2. QED BY <1>1, <2>1 DEF AnswerQ, OwnQ
  <1>4. LateQ(u)
    <2> SUFFICES ASSUME NEW i \in 1..Len(u), NEW j \in 1..Len(u), i < j, EndOffline(u[i]) PROVE u[j].t # "CONNECT"
      BY DEF LateQ
    <2>1. i \in 1..Len(q) /\ u[i] = q[i] /\ (j \in 1..Len(q) \/ j = Len(q) + 1)
      BY <1>1
    <2>2. CASE j \in 1..Len(q)
      BY <1>1, <2>1, <2>2 DEF AnswerQ, LateQ
    <2>3. CASE j = Len(q) + 1
      BY <1>1, <2>1, <2>3 DEF OffQ
    <2>4. QED BY <2>1, <2>2, <2>3
  <1>5. ASSUME NEW i \in 1..Len(u), EndOffline(u[i]) PROVE OffQ(q) \/ EndOffline(n)
    <2>1. i \in 1..Len(q) \/ i = Len(q) + 1
      BY <1>1
    <2>2. QED BY <1>1, <1>5, <2>1 DEF OffQ
  <1>6. QED BY <1>2, <1>3, <1>4, <1>5 DEF AnswerQ, OffQ, u

\* What the end of a connector does to the answers and to the connectors.
LEMMA EndsAnswer ==
    ASSUME NEW q \in Seq(Notifs), NEW c \in Conns, Ends(c, q), NEW k, AnswerQ(q, k)
    PROVE  /\ AnswerQ(m_apcNotifQ', k)
           /\ Among(m_apcNotifQ', "CONNECT") => Among(q, "CONNECT")
           /\ Among(m_apcNotifQ', "START") => Among(q, "START")
           /\ Among(q, "DISCONNECT") => Among(m_apcNotifQ', "DISCONNECT")
           /\ Working => Working' \/ Among(m_apcNotifQ', "DISCONNECT")
           /\ \A d \in Conns : conn'[d].reading => conn[d].reading
  <1>1. CASE m_apcNotifQ' = q /\ \A d \in Conns : conn'[d].working <=> conn[d].working
    BY <1>1, EndsReading DEF Working
  <1>2. CASE \E n \in Notifs : n.t = "DISCONNECT" /\ m_apcNotifQ' = Append(q, n)
    <2>1. PICK n \in Notifs : n.t = "DISCONNECT" /\ m_apcNotifQ' = Append(q, n)
      BY <1>2
    <2>2. Among(m_apcNotifQ', "DISCONNECT")
      <3>1. Len(m_apcNotifQ') = Len(q) + 1 /\ Len(q) \in Nat /\ m_apcNotifQ'[Len(q) + 1] = n
        BY <2>1, Appends
      <3>2. QED BY <2>1, <3>1 DEF Among
    <2>3. QED BY <2>1, <2>2, QueueAdd, Added, EndsReading
  <1>3. QED BY <1>1, <1>2 DEF Ends

\* An end the client asked for (disconnect) is no end that is followed by a reconnection.
LEMMA Flagged ==
    ASSUME NEW c \in Conns, NEW k, NEW q \in Seq(Notifs), AnswerQ(q, k),
           \/ stopped(c, "DISCONNECT") /\ q = m_apcNotifQ
           \/ PopAndStop(c, "DISCONNECT") /\ q = Tail(m_apcNotifQ)
    PROVE  OffQ(m_apcNotifQ') => OffQ(q)
  <1> DEFINE n == [t |-> "DISCONNECT", c |-> c, flag |-> StopFlag(c, "DISCONNECT")]
  <1>1. n \in Notifs /\ n.t = "DISCONNECT" /\ n.flag = "DISCONNECT"
    BY MakeNotifs DEF StopFlag
  <1>2. m_apcNotifQ' = q \/ m_apcNotifQ' = Append(q, n)
    BY DEF stopped, PopAndStop
  <1> HIDE DEF n
  <1>3. QED BY <1>1, <1>2, QueueAdd DEF EndOffline

\* stop() asks nothing.
LEMMA StopLess ==
    ASSUME ClientType, LineType, Life, Lines, stop PROVE Less
  <1>1. toApc' = toApc /\ \A d \in Conns : Answered(d)' => Answered(d)
    BY DEF stop, Answered
  <1>2. m_pConnector # 0 => m_pConnector \in Conns /\ m_pConnector <= conns
    BY Bounds DEF ClientType, Conns, Life, Current
  <1> DEFINE fs == <<[t |-> "DISCONNECT"]>>
  <1>3. fs \in Seq(ToMgr) /\ \A i \in 1..Len(fs) : fs[i].t # "CONNECT"
    BY MakeFrames, OneFrame
  <1>4. toMgr' # toMgr => m_pConnector # 0 /\ toMgr' = Written(m_pConnector, fs)
    BY DEF stop
  <1> HIDE DEF fs
  <1>5. \A d \in Conns : Asking(d)' => Asking(d)
    <2>1. CASE toMgr' = toMgr
      BY <2>1 DEF Asking
    <2>2. CASE toMgr' # toMgr
      BY <1>2, <1>3, <1>4, <2>2, WrittenLines
    <2>3. QED BY <2>1, <2>2
  <1>6. QED BY <1>1, <1>5 DEF Less

\* Nothing new is read.
LEMMA ReaderLess ==
    ASSUME Less, \A d \in Conns : conn'[d].reading => conn[d].reading
    PROVE  (Reader' => Reader) /\ (conns' = conns /\ Silent => Silent')
  BY LessUnanswered DEF Less, Reader, Silent

\* With nothing under way nothing is read.
LEMMA NoReader == ASSUME Life, Silent PROVE ~Reader
  BY DEF Life, Newest, Silent, Reader, Unanswered

\* A step on which no answer is queued and no connection opened.
LEMMA QuestKept ==
    ASSUME Quest, conns' = conns, Less, AnswerQ(m_apcNotifQ', conns),
           Among(m_apcNotifQ', "CONNECT") => Among(m_apcNotifQ, "CONNECT") /\ ~TimerOn',
           m_state' = m_state \/ m_state' # "ONLINE",
           Reader' => ~TimerOn' /\ ~OffQ(m_apcNotifQ')
    PROVE  Quest'
  <1>1. Silent => Silent'
    BY LessUnanswered DEF Silent
  <1>2. QED BY <1>1 DEF Quest

\* Every step keeps the one question, if start() is called at rest.
LEMMA TokStep ==
    ASSUME ClientType, LineType, Life, Lines, Tok, [Next]_svars, start => AtRest
    PROVE  Tok'
  <1>1. CASE UNCHANGED svars
    <2>1. /\ UNCHANGED <<m_state, m_disconnectTime, m_pConnector, conns, conn, m_apcNotifQ, m_reconnectTimer>>
          /\ UNCHANGED <<toMgr, toApc>>
      BY <1>1 DEF svars, clientVars, connVars, lineVars
    <2>2. QED BY <2>1 DEF Tok, Known, Deadline, Quest, TimerOn, Silent, Reader, Unanswered, Asking, Answered, Working
  <1>2. CASE apcStarted
    <2>1. /\ m_apcNotifQ # <<>> /\ Head(m_apcNotifQ).t = "START" /\ m_apcNotifQ' = Tail(m_apcNotifQ)
          /\ UNCHANGED <<m_state, m_disconnectTime, conns, conn, m_reconnectTimer, toMgr, toApc>>
      BY <1>2 DEF apcStarted, Notif, lineVars
    <2>2. m_apcNotifQ \in Seq(Notifs) /\ AnswerQ(m_apcNotifQ, conns) /\ Quest
      BY DEF ClientType, Tok, Quest
    <2>3. /\ AnswerQ(m_apcNotifQ', conns) /\ (OffQ(m_apcNotifQ') => OffQ(m_apcNotifQ))
          /\ Among(m_apcNotifQ', "CONNECT") => Among(m_apcNotifQ, "CONNECT")
          /\ Among(m_apcNotifQ, "DISCONNECT") => Among(m_apcNotifQ', "DISCONNECT")
      BY <2>1, <2>2, QueuePop
    <2>4. Less /\ (Reader' => Reader) /\ TimerOn' = TimerOn /\ Working' = Working
      BY <2>1, SameLess, ReaderLess DEF TimerOn, Working
    <2>5. Quest'
      BY <2>1, <2>2, <2>3, <2>4, QuestKept DEF Quest
    <2>6. Among(m_apcNotifQ, "START")
      BY <2>1, <2>2, Popped DEF Life, QueueLife
    <2>7. QED BY <2>1, <2>3, <2>4, <2>5, <2>6 DEF Tok, Known, Deadline
  <1>3. CASE messageConfirms
    <2>1. /\ m_apcNotifQ # <<>> /\ Head(m_apcNotifQ).t = "MSGRCVD" /\ m_apcNotifQ' = Tail(m_apcNotifQ)
          /\ UNCHANGED <<m_state, m_disconnectTime, m_pConnector, conns, conn, m_reconnectTimer, toMgr, toApc>>
      BY <1>3 DEF messageConfirms, Notif, lineVars, clientVars
    <2>2. m_apcNotifQ \in Seq(Notifs) /\ AnswerQ(m_apcNotifQ, conns) /\ Quest
      BY DEF ClientType, Tok, Quest
    <2>3. /\ AnswerQ(m_apcNotifQ', conns) /\ (OffQ(m_apcNotifQ') => OffQ(m_apcNotifQ))
          /\ Among(m_apcNotifQ', "CONNECT") => Among(m_apcNotifQ, "CONNECT")
          /\ Among(m_apcNotifQ', "START") => Among(m_apcNotifQ, "START")
          /\ Among(m_apcNotifQ, "DISCONNECT") => Among(m_apcNotifQ', "DISCONNECT")
      BY <2>1, <2>2, QueuePop
    <2>4. Less /\ (Reader' => Reader) /\ TimerOn' = TimerOn /\ Working' = Working
      BY <2>1, SameLess, ReaderLess DEF TimerOn, Working
    <2>5. Quest'
      BY <2>1, <2>2, <2>3, <2>4, QuestKept DEF Quest
    <2>6. QED BY <2>1, <2>3, <2>4, <2>5 DEF Tok, Known, Deadline
  <1>4. CASE apcConnected_refused
    <2>1. /\ m_apcNotifQ # <<>> /\ Notif("CONNECT") /\ Head(m_apcNotifQ).t = "CONNECT"
          /\ PopAndStop(Head(m_apcNotifQ).c, "DISCONNECT")
          /\ UNCHANGED <<m_state, m_disconnectTime, m_pConnector, conns, m_reconnectTimer, toMgr, toApc>>
      BY <1>4 DEF apcConnected_refused, Notif, clientVars, lineVars
    <2>2. /\ m_apcNotifQ \in Seq(Notifs) /\ AnswerQ(m_apcNotifQ, conns) /\ Quest
          /\ Tail(m_apcNotifQ) \in Seq(Notifs) /\ Head(m_apcNotifQ).c \in Conns
      BY <2>1, PopLife DEF ClientType, Tok, Quest, Notif
    <2>3. /\ AnswerQ(Tail(m_apcNotifQ), conns) /\ (OffQ(Tail(m_apcNotifQ)) => OffQ(m_apcNotifQ))
          /\ Among(m_apcNotifQ, "CONNECT") /\ ~Among(Tail(m_apcNotifQ), "CONNECT")
          /\ Among(Tail(m_apcNotifQ), "START") => Among(m_apcNotifQ, "START")
          /\ Among(m_apcNotifQ, "DISCONNECT") => Among(Tail(m_apcNotifQ), "DISCONNECT")
      BY <2>1, <2>2, QueuePop
    <2>4. ~TimerOn /\ Silent /\ ~Reader
      BY <2>2, <2>3, NoReader DEF Quest
    <2>5. Less
      BY <2>1, SameLess
    <2>6. m_disconnectTime' = "EMPTY" \/ (m_disconnectTime' = m_disconnectTime /\ m_state' = m_state)
      BY <2>1
    <2>7. QED
      <3>1. Ends(Head(m_apcNotifQ).c, Tail(m_apcNotifQ))
        BY <2>1, <2>2, Stopping DEF ClientType
      <3>2. /\ AnswerQ(m_apcNotifQ', conns) /\ ~Among(m_apcNotifQ', "CONNECT")
            /\ Among(m_apcNotifQ', "START") => Among(m_apcNotifQ, "START")
            /\ Among(m_apcNotifQ, "DISCONNECT") => Among(m_apcNotifQ', "DISCONNECT")
            /\ Working => Working' \/ Among(m_apcNotifQ', "DISCONNECT")
            /\ \A d \in Conns : conn'[d].reading => conn[d].reading
        BY <2>2, <2>3, <3>1, EndsAnswer
      <3>3. ~Reader' /\ Silent'
        BY <2>1, <2>4, <2>5, <3>2, ReaderLess
      <3>4. QED BY <2>1, <2>2, <2>6, <2>1, <3>2, <3>3 DEF Tok, Known, Deadline, Quest
  <1>5. CASE apcConnected_new
    <2>1. /\ m_apcNotifQ # <<>> /\ Notif("CONNECT") /\ Head(m_apcNotifQ).t = "CONNECT" /\ m_apcNotifQ' = Tail(m_apcNotifQ)
          /\ UNCHANGED <<m_pConnector, conn, conns, toMgr, toApc>> /\ m_disconnectTime' = "EMPTY"
      BY <1>5 DEF apcConnected_new, Notif, lineVars
    <2>2. /\ m_apcNotifQ \in Seq(Notifs) /\ AnswerQ(m_apcNotifQ, conns) /\ Quest
          /\ Tail(m_apcNotifQ) \in Seq(Notifs) /\ Head(m_apcNotifQ).c \in Conns
      BY <2>1, PopLife DEF ClientType, Tok, Quest, Notif
    <2>3. /\ AnswerQ(Tail(m_apcNotifQ), conns) /\ (OffQ(Tail(m_apcNotifQ)) => OffQ(m_apcNotifQ))
          /\ Among(m_apcNotifQ, "CONNECT") /\ ~Among(Tail(m_apcNotifQ), "CONNECT")
          /\ Among(Tail(m_apcNotifQ), "START") => Among(m_apcNotifQ, "START")
          /\ Among(m_apcNotifQ, "DISCONNECT") => Among(Tail(m_apcNotifQ), "DISCONNECT")
      BY <2>1, <2>2, QueuePop
    <2>4. ~TimerOn /\ Silent /\ ~Reader
      BY <2>2, <2>3, NoReader DEF Quest
    <2>5. Less /\ Working' = Working
      BY <2>1, SameLess DEF Working
    <2>6. ~Reader' /\ Silent'
      BY <2>1, <2>4, <2>5, ReaderLess
    <2>7. QED BY <2>1, <2>3, <2>5, <2>6 DEF Tok, Known, Deadline, Quest
  <1>6. CASE apcConnected_restored
    <2>1. /\ m_apcNotifQ # <<>> /\ Notif("CONNECT") /\ Head(m_apcNotifQ).t = "CONNECT"
          /\ UNCHANGED <<m_pConnector, conns>> /\ m_disconnectTime' = "EMPTY"
      BY <1>6 DEF apcConnected_restored, Notif
    <2>2. /\ m_apcNotifQ \in Seq(Notifs) /\ AnswerQ(m_apcNotifQ, conns) /\ Quest
          /\ Tail(m_apcNotifQ) \in Seq(Notifs) /\ Head(m_apcNotifQ).c \in Conns
      BY <2>1, PopLife DEF ClientType, Tok, Quest, Notif
    <2>3. /\ AnswerQ(Tail(m_apcNotifQ), conns) /\ (OffQ(Tail(m_apcNotifQ)) => OffQ(m_apcNotifQ))
          /\ Among(m_apcNotifQ, "CONNECT") /\ ~Among(Tail(m_apcNotifQ), "CONNECT")
          /\ Among(Tail(m_apcNotifQ), "START") => Among(m_apcNotifQ, "START")
          /\ Among(m_apcNotifQ, "DISCONNECT") => Among(Tail(m_apcNotifQ), "DISCONNECT")
      BY <2>1, <2>2, QueuePop
    <2>4. ~TimerOn /\ Silent /\ ~Reader
      BY <2>2, <2>3, NoReader DEF Quest
    <2>5. Less
      BY <1>6, WrittenLess
    <2>6. m_disconnectTime' = "EMPTY"
      BY <2>1
    <2>7. CASE m_apcNotifQ' = Tail(m_apcNotifQ) /\ conn' = conn
      <3>1. ~Reader' /\ Silent' /\ Working' = Working
        BY <2>1, <2>4, <2>5, <2>7, ReaderLess DEF Working
      <3>2. QED BY <2>1, <2>3, <2>7, <3>1 DEF Tok, Known, Deadline, Quest
    <2>8. CASE (\E flag \in WriteErrors : PopAndStop(Head(m_apcNotifQ).c, flag)) /\ m_state' = m_state
      <3>1. Ends(Head(m_apcNotifQ).c, Tail(m_apcNotifQ))
        BY <2>8, <2>2, Stopping DEF ClientType
      <3>2. /\ AnswerQ(m_apcNotifQ', conns) /\ ~Among(m_apcNotifQ', "CONNECT")
            /\ Among(m_apcNotifQ', "START") => Among(m_apcNotifQ, "START")
            /\ Among(m_apcNotifQ, "DISCONNECT") => Among(m_apcNotifQ', "DISCONNECT")
            /\ Working => Working' \/ Among(m_apcNotifQ', "DISCONNECT")
            /\ \A d \in Conns : conn'[d].reading => conn[d].reading
        BY <2>2, <2>3, <3>1, EndsAnswer
      <3>3. ~Reader' /\ Silent'
        BY <2>1, <2>4, <2>5, <3>2, ReaderLess
      <3>4. QED BY <2>1, <2>2, <2>6, <2>8, <3>2, <3>3 DEF Tok, Known, Deadline, Quest
    <2>9. QED BY <1>6, <2>7, <2>8 DEF apcConnected_restored
  <1>7. CASE apcDisconnected
    <2>1. /\ m_apcNotifQ # <<>> /\ Notif("DISCONNECT") /\ Head(m_apcNotifQ).t = "DISCONNECT"
          /\ m_apcNotifQ' = Tail(m_apcNotifQ) /\ m_pConnector' = 0 /\ m_state' # "ONLINE" /\ UNCHANGED <<conn, conns, toMgr, toApc>>
          /\ m_reconnectTimer' = stopTimer_p \/ EndOffline(Head(m_apcNotifQ))
      <3>1. Head(m_apcNotifQ).flag = "DISCONNECT" => m_reconnectTimer' = stopTimer_p
        BY <1>7 DEF apcDisconnected
      <3>2. Head(m_apcNotifQ).flag \in {"OFFLINE", "DISCONNECT"}
        BY <1>7, Tails DEF apcDisconnected, Notif, ClientType, Notifs
      <3>3. QED BY <1>7, <3>1, <3>2 DEF apcDisconnected, Notif, lineVars, EndOffline
    <2>2. m_apcNotifQ \in Seq(Notifs) /\ AnswerQ(m_apcNotifQ, conns) /\ Quest
      BY DEF ClientType, Tok, Quest
    <2>3. /\ AnswerQ(m_apcNotifQ', conns) /\ (OffQ(m_apcNotifQ') => OffQ(m_apcNotifQ))
          /\ Among(m_apcNotifQ', "CONNECT") => Among(m_apcNotifQ, "CONNECT")
          /\ EndOffline(Head(m_apcNotifQ)) => OffQ(m_apcNotifQ) /\ ~Among(m_apcNotifQ, "CONNECT")
      BY <2>1, <2>2, QueuePop
    <2>4. /\ Among(m_apcNotifQ, "DISCONNECT") /\ ~Among(m_apcNotifQ', "START")
      BY <2>1, PopLife
    <2>5. m_reconnectTimer.due = 0
      BY <2>4 DEF Life, OneTimer, Busy
    <2>6. m_reconnectTimer' = stopTimer_p => ~TimerOn'
      BY <2>5 DEF TimerOn, stopTimer_p, Life, OneTimer
    <2>7. Less /\ (Reader' => Reader)
      BY <2>1, SameLess, ReaderLess
    <2>8. Quest'
      BY <2>1, <2>2, <2>3, <2>6, <2>7, QuestKept DEF Quest
    <2>9. QED BY <2>1, <2>4, <2>8 DEF Tok, Known, Deadline
  <1>8. CASE TimerExpires
    <2>1. /\ UNCHANGED <<m_pConnector, conns, conn, m_apcNotifQ, toMgr, toApc>>
          /\ m_state' = m_state \/ m_state' # "ONLINE"
          /\ m_disconnectTime' # "EMPTY" => m_disconnectTime # "EMPTY"
      BY <1>8 DEF TimerExpires, connVars, lineVars
    <2>2. Less /\ (Reader' => Reader) /\ Working' = Working
      BY <2>1, SameLess, ReaderLess DEF Working
    <2>3. TimerOn' => TimerOn
      BY <1>8 DEF TimerExpires, TimerOn, TimerHandled, Life, OneTimer
    <2>4. Quest'
      BY <2>1, <2>2, <2>3, QuestKept DEF Tok, Quest
    <2>5. QED BY <2>1, <2>2, <2>4 DEF Tok, Known, Deadline
  <1>9. CASE TimePasses
    <2>1. /\ UNCHANGED <<m_pConnector, conns, conn, m_apcNotifQ, toMgr, toApc>>
          /\ m_state' = m_state \/ m_state' # "ONLINE"
          /\ m_disconnectTime' # "EMPTY" => m_disconnectTime # "EMPTY"
      BY <1>9 DEF TimePasses, connVars, lineVars
    <2>2. Less /\ (Reader' => Reader) /\ Working' = Working
      BY <2>1, SameLess, ReaderLess DEF Working
    <2>3. TimerOn' => TimerOn
      BY <1>9 DEF TimePasses, TimerOn, TimerHandled, Life, OneTimer
    <2>4. Quest'
      BY <2>1, <2>2, <2>3, QuestKept DEF Tok, Quest
    <2>5. QED BY <2>1, <2>2, <2>4 DEF Tok, Known, Deadline
  <1>10. CASE reconnect_p
    <2>1. /\ UNCHANGED <<m_state, m_pConnector, m_disconnectTime>> /\ m_reconnectTimer.due > 0 /\ TimerOn
          /\ m_disconnectTime = "SET" /\ \A d \in Conns : ~conn[d].reading
      BY <1>10 DEF reconnect_p, TimerOn, IOFree
    <2>2. m_state # "ONLINE" /\ ~Among(m_apcNotifQ, "CONNECT")
      BY <2>1 DEF Tok, Deadline, Quest
    <2>3. CASE ipConnect_p /\ Open(m_intfId)
      <3>1. PICK n \in Notifs : n.t = "START" /\ m_apcNotifQ' = Append(m_apcNotifQ, n)
        BY <2>3, Opening DEF ipConnect_p
      <3>2. /\ conns' \in Conns /\ conn'[conns'].working /\ conn'[conns'].reading = conn[conns'].reading
            /\ \A d \in Conns : d # conns' => conn'[d] = conn[d]
        BY <2>3, Opening DEF ipConnect_p
      <3>3. ~Among(m_apcNotifQ', "CONNECT")
        BY <3>1, <2>2, Added DEF ClientType
      <3>4. ~Reader' /\ Working'
        BY <3>2, <2>1 DEF Reader, Working
      <3>5. QED BY <2>1, <2>2, <3>3, <3>4, QueueNone DEF Tok, Known, Deadline, Quest
    <2>4. CASE UNCHANGED <<connVars, lineVars>>
      <3>1. UNCHANGED <<conns, conn, m_apcNotifQ, toMgr, toApc>>
        BY <2>4 DEF connVars, lineVars
      <3>2. ~Reader' /\ Working' = Working
        BY <2>1, <3>1 DEF Reader, Working
      <3>3. QED BY <2>1, <2>2, <3>1, <3>2, QueueNone DEF Tok, Known, Deadline, Quest
    <2>5. QED BY <1>10, <2>3, <2>4 DEF reconnect_p
  <1>11. CASE disconnect_p
    <2>1. /\ UNCHANGED <<m_pConnector, conns, conn, m_apcNotifQ, toMgr, toApc>>
          /\ m_state' = m_state \/ m_state' # "ONLINE"
          /\ m_disconnectTime' # "EMPTY" => m_disconnectTime # "EMPTY"
      BY <1>11, DueIdle DEF disconnect_p, connVars, lineVars
    <2>2. Less /\ (Reader' => Reader) /\ Working' = Working
      BY <2>1, SameLess, ReaderLess DEF Working
    <2>3. TimerOn' => TimerOn
      BY <1>11 DEF disconnect_p, TimerOn
    <2>4. Quest'
      BY <2>1, <2>2, <2>3, QuestKept DEF Tok, Quest
    <2>5. QED BY <2>1, <2>2, <2>4 DEF Tok, Known, Deadline
  <1>12. CASE timerIgnored
    <2>1. /\ UNCHANGED <<m_pConnector, conns, conn, m_apcNotifQ, toMgr, toApc>>
          /\ m_state' = m_state \/ m_state' # "ONLINE"
          /\ m_disconnectTime' # "EMPTY" => m_disconnectTime # "EMPTY"
      BY <1>12 DEF timerIgnored, connVars, lineVars
    <2>2. Less /\ (Reader' => Reader) /\ Working' = Working
      BY <2>1, SameLess, ReaderLess DEF Working
    <2>3. TimerOn' => TimerOn
      BY <1>12 DEF timerIgnored, TimerOn, TimerHandled, Life, OneTimer
    <2>4. Quest'
      BY <2>1, <2>2, <2>3, QuestKept DEF Tok, Quest
    <2>5. QED BY <2>1, <2>2, <2>4 DEF Tok, Known, Deadline
  <1>13. CASE start
    <2>1. AtRest /\ app = "idle"
      BY <1>13 DEF start
    <2>2. /\ m_apcNotifQ = <<>> /\ ~Working /\ \A d \in Conns : ~conn[d].reading
      BY <2>1 DEF Life, IdleRest, AtRest, Working
    <2>3. ~Among(m_apcNotifQ, "CONNECT") /\ ~Among(m_apcNotifQ, "START") /\ m_pConnector = 0
      BY <2>2, Nothing DEF Tok, Known
    <2>4. m_state' = "INIT" /\ UNCHANGED m_pConnector
      BY <1>13, <2>3 DEF start
    <2>5. CASE ipConnect_p /\ Open(0)
      <3>1. PICK n \in Notifs : n.t = "START" /\ m_apcNotifQ' = Append(m_apcNotifQ, n)
        BY <2>5, Opening DEF ipConnect_p
      <3>2. /\ conns' \in Conns /\ conn'[conns'].working /\ conn'[conns'].reading = conn[conns'].reading
            /\ \A d \in Conns : d # conns' => conn'[d] = conn[d]
        BY <2>5, Opening DEF ipConnect_p
      <3>3. ~Among(m_apcNotifQ', "CONNECT")
        BY <3>1, <2>3, Added DEF ClientType
      <3>4. ~Reader' /\ Working'
        BY <3>2, <2>2 DEF Reader, Working
      <3>5. QED BY <2>4, <3>3, <3>4, QueueNone DEF Tok, Known, Deadline, Quest
    <2>6. CASE UNCHANGED <<connVars, lineVars>>
      <3>1. UNCHANGED <<conns, conn, m_apcNotifQ>>
        BY <2>6 DEF connVars
      <3>2. ~Reader'
        BY <2>2, <3>1 DEF Reader
      <3>3. QED BY <2>3, <2>4, <3>1, <3>2, QueueNone DEF Tok, Known, Deadline, Quest
    <2>7. QED BY <1>13, <2>3, <2>5, <2>6 DEF start
  <1>14. CASE stop
    <2>1. /\ UNCHANGED <<conns, m_apcNotifQ>> /\ m_pConnector' \in {0, m_pConnector}
          /\ m_state' = m_state \/ m_state' # "ONLINE"
          /\ m_disconnectTime' # "EMPTY" => m_state' = m_state /\ m_disconnectTime # "EMPTY"
          /\ m_reconnectTimer' = m_reconnectTimer \/ m_reconnectTimer' = stopTimer_p
      BY <1>14 DEF stop, clientVars, connVars
    <2>2. \A d \in Conns : (conn'[d].reading => conn[d].reading) /\ (conn'[d].working <=> conn[d].working)
      <3>1. conn' = conn \/ conn' = [conn EXCEPT ![m_pConnector].force = TRUE]
        BY <1>14 DEF stop
      <3>2. QED BY <3>1 DEF ClientType, Links
    <2>3. Less
      BY <1>14, StopLess
    <2>4. (Reader' => Reader) /\ (Working <=> Working') /\ (TimerOn' => TimerOn)
      BY <2>1, <2>2, <2>3, ReaderLess DEF Working, TimerOn, stopTimer_p, Life, OneTimer
    <2>5. Quest'
      BY <2>1, <2>3, <2>4, QuestKept DEF Tok, Quest
    <2>6. QED BY <2>1, <2>4, <2>5 DEF Tok, Known, Deadline
  <1>15. CASE stop_close
    <2>1. /\ UNCHANGED <<m_state, m_disconnectTime, m_pConnector, conns, m_reconnectTimer>>
          /\ m_apcNotifQ \in Seq(Notifs) /\ AnswerQ(m_apcNotifQ, conns) /\ Quest /\ conn \in [Conns -> Links]
      BY <1>15 DEF stop_close, clientVars, ClientType, Tok, Quest
    <2>2. m_pConnector # 0 => m_pConnector \in Conns
      BY Bounds DEF ClientType, Conns
    <2>3. /\ m_pConnector \in Conns /\ stopped(m_pConnector, "DISCONNECT") /\ Ends(m_pConnector, m_apcNotifQ)
      BY <1>15, <2>1, <2>2, Stopping DEF stop_close, ClientType
    <2>4. /\ AnswerQ(m_apcNotifQ', conns)
          /\ Among(m_apcNotifQ', "CONNECT") => Among(m_apcNotifQ, "CONNECT")
          /\ Among(m_apcNotifQ', "START") => Among(m_apcNotifQ, "START")
          /\ Among(m_apcNotifQ, "DISCONNECT") => Among(m_apcNotifQ', "DISCONNECT")
          /\ Working => Working' \/ Among(m_apcNotifQ', "DISCONNECT")
          /\ \A d \in Conns : conn'[d].reading => conn[d].reading
      BY <2>1, <2>3, EndsAnswer
    <2>5. Less
      BY <1>15, SameLess DEF stop_close, lineVars
    <2>6. (Reader' => Reader) /\ TimerOn' = TimerOn
      BY <2>1, <2>4, <2>5, ReaderLess DEF TimerOn
    <2>7. Reader' => ~OffQ(m_apcNotifQ')
      BY <2>1, <2>3, <2>6, Flagged DEF Quest
    <2>8. Quest'
      BY <2>1, <2>4, <2>5, <2>6, <2>7, QuestKept DEF Quest
    <2>9. QED BY <2>1, <2>4, <2>8 DEF Tok, Known, Deadline
  <1>16. CASE stop_wait
    <2>1. /\ UNCHANGED <<conns, m_apcNotifQ>> /\ m_pConnector' \in {0, m_pConnector}
          /\ m_state' = m_state \/ m_state' # "ONLINE"
          /\ m_disconnectTime' # "EMPTY" => m_state' = m_state /\ m_disconnectTime # "EMPTY"
          /\ m_reconnectTimer' = m_reconnectTimer \/ m_reconnectTimer' = stopTimer_p
      BY <1>16 DEF stop_wait, clientVars, connVars
    <2>2. \A d \in Conns : (conn'[d].reading => conn[d].reading) /\ (conn'[d].working <=> conn[d].working)
      BY <1>16 DEF stop_wait, connVars
    <2>3. Less
      BY <1>16, SameLess DEF stop_wait, lineVars
    <2>4. (Reader' => Reader) /\ (Working <=> Working') /\ (TimerOn' => TimerOn)
      BY <2>1, <2>2, <2>3, ReaderLess DEF Working, TimerOn, stopTimer_p, Life, OneTimer
    <2>5. Quest'
      BY <2>1, <2>3, <2>4, QuestKept DEF Tok, Quest
    <2>6. QED BY <2>1, <2>4, <2>5 DEF Tok, Known, Deadline
  <1>17. CASE stop_join
    <2>1. /\ UNCHANGED <<conns, m_apcNotifQ>> /\ m_pConnector' \in {0, m_pConnector}
          /\ m_state' = m_state \/ m_state' # "ONLINE"
          /\ m_disconnectTime' # "EMPTY" => m_state' = m_state /\ m_disconnectTime # "EMPTY"
          /\ m_reconnectTimer' = m_reconnectTimer \/ m_reconnectTimer' = stopTimer_p
      BY <1>17 DEF stop_join, clientVars, connVars
    <2>2. \A d \in Conns : (conn'[d].reading => conn[d].reading) /\ (conn'[d].working <=> conn[d].working)
      BY <1>17 DEF stop_join, connVars
    <2>3. Less
      BY <1>17, SameLess DEF stop_join, lineVars
    <2>4. (Reader' => Reader) /\ (Working <=> Working') /\ (TimerOn' => TimerOn)
      BY <2>1, <2>2, <2>3, ReaderLess DEF Working, TimerOn, stopTimer_p, Life, OneTimer
    <2>5. Quest'
      BY <2>1, <2>3, <2>4, QuestKept DEF Tok, Quest
    <2>6. QED BY <2>1, <2>4, <2>5 DEF Tok, Known, Deadline
  <1>18. CASE sendData
    <2>1. /\ UNCHANGED <<m_state, m_disconnectTime, m_pConnector, conns, m_reconnectTimer>>
          /\ m_apcNotifQ \in Seq(Notifs) /\ AnswerQ(m_apcNotifQ, conns) /\ Quest /\ conn \in [Conns -> Links]
      BY <1>18 DEF sendData, sendData_p, clientVars, ClientType, Tok, Quest
    <2>2. m_pConnector # 0 => m_pConnector \in Conns
      BY Bounds DEF ClientType, Conns
    <2>3. /\ m_pConnector \in Conns /\ Ends(m_pConnector, m_apcNotifQ)
      <3>1. m_pConnector \in Conns /\ ((\E flag \in WriteErrors : stopped(m_pConnector, flag)) \/ UNCHANGED <<conn, m_apcNotifQ>>)
        BY <1>18, <2>2 DEF sendData, sendData_p
      <3>2. QED BY <2>1, <3>1, Stopping DEF Ends, Fewer
    <2>4. /\ AnswerQ(m_apcNotifQ', conns)
          /\ Among(m_apcNotifQ', "CONNECT") => Among(m_apcNotifQ, "CONNECT")
          /\ Among(m_apcNotifQ', "START") => Among(m_apcNotifQ, "START")
          /\ Among(m_apcNotifQ, "DISCONNECT") => Among(m_apcNotifQ', "DISCONNECT")
          /\ Working => Working' \/ Among(m_apcNotifQ', "DISCONNECT")
          /\ \A d \in Conns : conn'[d].reading => conn[d].reading
      BY <2>1, <2>3, EndsAnswer
    <2>5. Less
      BY <1>18, WrittenLess
    <2>6. (Reader' => Reader) /\ TimerOn' = TimerOn
      BY <2>1, <2>4, <2>5, ReaderLess DEF TimerOn
    <2>7. Reader' => ~OffQ(m_apcNotifQ')
      <3>1. m_state = "ONLINE"
        BY <1>18 DEF sendData, sendData_p
      <3>2. QED BY <2>1, <2>6, <3>1, NoReader DEF Quest
    <2>8. Quest'
      BY <2>1, <2>4, <2>5, <2>6, <2>7, QuestKept DEF Quest
    <2>9. QED BY <2>1, <2>4, <2>8 DEF Tok, Known, Deadline
  <1>19. CASE ManagerConfirms
    <2>1. /\ UNCHANGED <<conns, m_apcNotifQ>> /\ m_pConnector' \in {0, m_pConnector}
          /\ m_state' = m_state \/ m_state' # "ONLINE"
          /\ m_disconnectTime' # "EMPTY" => m_state' = m_state /\ m_disconnectTime # "EMPTY"
          /\ m_reconnectTimer' = m_reconnectTimer \/ m_reconnectTimer' = stopTimer_p
      BY <1>19 DEF ManagerConfirms, clientVars, connVars
    <2>2. \A d \in Conns : (conn'[d].reading => conn[d].reading) /\ (conn'[d].working <=> conn[d].working)
      BY <1>19 DEF ManagerConfirms, connVars
    <2>3. Less
      BY <1>19, ManagerLess
    <2>4. (Reader' => Reader) /\ (Working <=> Working') /\ (TimerOn' => TimerOn)
      BY <2>1, <2>2, <2>3, ReaderLess DEF Working, TimerOn, stopTimer_p, Life, OneTimer
    <2>5. Quest'
      BY <2>1, <2>3, <2>4, QuestKept DEF Tok, Quest
    <2>6. QED BY <2>1, <2>4, <2>5 DEF Tok, Known, Deadline
  <1>20. CASE ManagerRefuses
    <2>1. /\ UNCHANGED <<conns, m_apcNotifQ>> /\ m_pConnector' \in {0, m_pConnector}
          /\ m_state' = m_state \/ m_state' # "ONLINE"
          /\ m_disconnectTime' # "EMPTY" => m_state' = m_state /\ m_disconnectTime # "EMPTY"
          /\ m_reconnectTimer' = m_reconnectTimer \/ m_reconnectTimer' = stopTimer_p
      BY <1>20 DEF ManagerRefuses, clientVars, connVars
    <2>2. \A d \in Conns : (conn'[d].reading => conn[d].reading) /\ (conn'[d].working <=> conn[d].working)
      BY <1>20 DEF ManagerRefuses, connVars
    <2>3. Less
      BY <1>20, ManagerLess
    <2>4. (Reader' => Reader) /\ (Working <=> Working') /\ (TimerOn' => TimerOn)
      BY <2>1, <2>2, <2>3, ReaderLess DEF Working, TimerOn, stopTimer_p, Life, OneTimer
    <2>5. Quest'
      BY <2>1, <2>3, <2>4, QuestKept DEF Tok, Quest
    <2>6. QED BY <2>1, <2>4, <2>5 DEF Tok, Known, Deadline
  <1>21. ASSUME NEW c \in Conns, ManagerReads(c) PROVE Tok'
    <2>1. /\ UNCHANGED <<conns, m_apcNotifQ>> /\ m_pConnector' \in {0, m_pConnector}
          /\ m_state' = m_state \/ m_state' # "ONLINE"
          /\ m_disconnectTime' # "EMPTY" => m_state' = m_state /\ m_disconnectTime # "EMPTY"
          /\ m_reconnectTimer' = m_reconnectTimer \/ m_reconnectTimer' = stopTimer_p
      BY <1>21 DEF ManagerReads, clientVars, connVars
    <2>2. \A d \in Conns : (conn'[d].reading => conn[d].reading) /\ (conn'[d].working <=> conn[d].working)
      BY <1>21 DEF ManagerReads, connVars
    <2>3. Less
      BY <1>21, ReadsLess
    <2>4. (Reader' => Reader) /\ (Working <=> Working') /\ (TimerOn' => TimerOn)
      BY <2>1, <2>2, <2>3, ReaderLess DEF Working, TimerOn, stopTimer_p, Life, OneTimer
    <2>5. Quest'
      BY <2>1, <2>3, <2>4, QuestKept DEF Tok, Quest
    <2>6. QED BY <2>1, <2>4, <2>5 DEF Tok, Known, Deadline
  <1>22. ASSUME NEW c \in Conns, Break(c) PROVE Tok'
    <2>1. /\ UNCHANGED <<conns, m_apcNotifQ>> /\ m_pConnector' \in {0, m_pConnector}
          /\ m_state' = m_state \/ m_state' # "ONLINE"
          /\ m_disconnectTime' # "EMPTY" => m_state' = m_state /\ m_disconnectTime # "EMPTY"
          /\ m_reconnectTimer' = m_reconnectTimer \/ m_reconnectTimer' = stopTimer_p
      BY <1>22 DEF Break, clientVars, connVars
    <2>2. \A d \in Conns : (conn'[d].reading => conn[d].reading) /\ (conn'[d].working <=> conn[d].working)
      BY <1>22 DEF Break, connVars
    <2>3. Less
      BY <1>22, BreakLess
    <2>4. (Reader' => Reader) /\ (Working <=> Working') /\ (TimerOn' => TimerOn)
      BY <2>1, <2>2, <2>3, ReaderLess DEF Working, TimerOn, stopTimer_p, Life, OneTimer
    <2>5. Quest'
      BY <2>1, <2>3, <2>4, QuestKept DEF Tok, Quest
    <2>6. QED BY <2>1, <2>4, <2>5 DEF Tok, Known, Deadline
  <1>23. ASSUME NEW c \in Conns, handle_read_p(c) PROVE Tok'
    <2>1. UNCHANGED <<m_state, m_disconnectTime, m_pConnector, conns, m_apcNotifQ, m_reconnectTimer, toMgr, toApc>> /\ conn[c].working
      BY <1>23 DEF handle_read_p, clientVars, lineVars
    <2>2. \A d \in Conns : conn'[d].working <=> conn[d].working
      BY <1>23 DEF handle_read_p, ClientType, Links
    <2>3. Working /\ Working'
      BY <2>1, <2>2 DEF Working
    <2>4. ~TimerOn' /\ ~OffQ(m_apcNotifQ')
      BY <2>1, <2>3 DEF TimerOn, Life, OneTimer, Busy, WorkLife, OffQ, EndOffline, Among
    <2>5. Quest'
      BY <2>1, <2>4, SameLess, QuestKept DEF Tok, Quest, TimerOn
    <2>6. QED BY <2>1, <2>3, <2>5 DEF Tok, Known, Deadline
  <1>24. ASSUME NEW c \in Conns, messageReceived(c) PROVE Tok'
    <2> DEFINE f == Head(toApc[c])
    <2>1. /\ UNCHANGED <<m_state, m_disconnectTime, m_pConnector, conns, m_reconnectTimer>>
          /\ m_apcNotifQ \in Seq(Notifs) /\ AnswerQ(m_apcNotifQ, conns) /\ Quest /\ conn \in [Conns -> Links]
          /\ conn[c].reading /\ toApc[c] # <<>>
      BY <1>24 DEF messageReceived, clientVars, ClientType, Tok, Quest
    <2>2. /\ Less /\ \A d \in Conns : Answered(d)' => Answered(d)
          /\ f.t = "CONNECT" => Answered(c) /\ ~Answered(c)'
      BY <1>24, TakenLess
    <2>3. f \in ToApc
      BY <2>1, Tails DEF LineType
    <2>4. TimerOn' = TimerOn /\ \A d \in Conns : conn[d].reading => d = c
      BY <2>1 DEF TimerOn, Life, Newest
    <2>5. CASE readError(c, "OFFLINE") \/ readError(c, "DISCONNECT")
      <3>1. Ends(c, m_apcNotifQ)
        BY <2>1, <2>5, ReadFailing
      <3>2. /\ AnswerQ(m_apcNotifQ', conns)
            /\ Among(m_apcNotifQ', "CONNECT") => Among(m_apcNotifQ, "CONNECT")
            /\ Among(m_apcNotifQ', "START") => Among(m_apcNotifQ, "START")
            /\ Among(m_apcNotifQ, "DISCONNECT") => Among(m_apcNotifQ', "DISCONNECT")
            /\ Working => Working' \/ Among(m_apcNotifQ', "DISCONNECT")
            /\ \A d \in Conns : conn'[d].reading => conn[d].reading
        BY <2>1, <3>1, EndsAnswer
      <3>3. ~conn'[c].reading
        BY <2>1, <2>5 DEF readError, Links
      <3>4. ~Reader'
        BY <2>4, <3>2, <3>3 DEF Reader
      <3>5. Quest'
        BY <2>1, <2>2, <2>4, <3>2, <3>4, QuestKept DEF Quest
      <3>6. QED BY <2>1, <3>2, <3>5 DEF Tok, Known, Deadline
    <2>6. CASE /\ f.t \in {"KA", "NET"} /\ conn' = conn
               /\ m_apcNotifQ' = Append(m_apcNotifQ, [t |-> "MSGRCVD", your |-> f.your])
      <3> DEFINE n == [t |-> "MSGRCVD", your |-> f.your]
      <3>1. n \in Notifs /\ n.t = "MSGRCVD"
        BY <2>3, <2>6, FrameFields, MakeNotifs
      <3> HIDE DEF n
      <3>2. m_apcNotifQ' = Append(m_apcNotifQ, n)
        BY <2>6 DEF n
      <3>3. /\ AnswerQ(m_apcNotifQ', conns) /\ (OffQ(m_apcNotifQ') => OffQ(m_apcNotifQ))
            /\ Among(m_apcNotifQ', "CONNECT") => Among(m_apcNotifQ, "CONNECT")
            /\ Among(m_apcNotifQ', "START") => Among(m_apcNotifQ, "START")
            /\ Among(m_apcNotifQ, "DISCONNECT") => Among(m_apcNotifQ', "DISCONNECT")
        BY <2>1, <3>1, <3>2, QueueAdd, Added DEF EndOffline
      <3>4. (Reader' => Reader) /\ Working' = Working
        BY <2>2, <2>6, ReaderLess DEF Working
      <3>5. Quest'
        BY <2>1, <2>2, <2>4, <3>3, <3>4, QuestKept DEF Quest
      <3>6. QED BY <2>1, <3>3, <3>4, <3>5 DEF Tok, Known, Deadline
    <2>7. CASE /\ f.t = "CONNECT" /\ conn' = [conn EXCEPT ![c].connected = TRUE]
               /\ m_apcNotifQ' = Append(m_apcNotifQ, [t |-> "CONNECT", c |-> c, id |-> f.id, your |-> f.your])
      <3> DEFINE n == [t |-> "CONNECT", c |-> c, id |-> f.id, your |-> f.your]
      <3>1. n \in Notifs /\ n.t = "CONNECT" /\ n.c = c
        BY <2>3, <2>7, FrameFields, MakeNotifs
      <3> HIDE DEF n
      <3>2. m_apcNotifQ' = Append(m_apcNotifQ, n)
        BY <2>7 DEF n
      <3>3. \A d \in Conns : (conn'[d].working <=> conn[d].working) /\ (conn'[d].reading <=> conn[d].reading)
        BY <2>1, <2>7 DEF Links
      <3>4. Answered(c) /\ ~Answered(c)' /\ c = conns
        BY <2>1, <2>2, <2>7 DEF Life, Newest
      <3>5. Reader /\ ~Silent
        BY <2>1, <3>4 DEF Reader, Silent, Unanswered
      <3>6. ~TimerOn /\ ~OffQ(m_apcNotifQ) /\ m_state # "ONLINE" /\ ~Among(m_apcNotifQ, "CONNECT")
        BY <2>1, <3>5 DEF Quest
      <3>7. AnswerQ(m_apcNotifQ', conns)
        BY <2>1, <3>1, <3>2, <3>4, <3>6, QueueAdd
      <3>8. ~Asking(c)'
        <4>1. ~Asking(c)
          BY <2>1 DEF Lines, Line
        <4>2. QED BY <2>2, <4>1 DEF Less
      <3>9. Silent' /\ ~Reader'
        BY <2>1, <2>4, <3>3, <3>4, <3>8 DEF Silent, Unanswered, Reader
      <3>10. Quest'
        BY <2>1, <2>4, <3>6, <3>7, <3>9 DEF Quest
      <3>11. /\ Among(m_apcNotifQ', "START") => Among(m_apcNotifQ, "START")
             /\ Among(m_apcNotifQ, "DISCONNECT") => Among(m_apcNotifQ', "DISCONNECT")
        BY <2>1, <3>1, <3>2, Added
      <3>12. Working <=> Working'
        BY <3>3 DEF Working
      <3>13. QED BY <2>1, <3>10, <3>11, <3>12 DEF Tok, Known, Deadline
    <2>8. QED BY <1>24, <2>5, <2>6, <2>7 DEF messageReceived
  <1>25. ASSUME NEW c \in Conns, handle_read_end(c) PROVE Tok'
    <2>1. /\ UNCHANGED <<conns, m_apcNotifQ>> /\ m_pConnector' \in {0, m_pConnector}
          /\ m_state' = m_state \/ m_state' # "ONLINE"
          /\ m_disconnectTime' # "EMPTY" => m_state' = m_state /\ m_disconnectTime # "EMPTY"
          /\ m_reconnectTimer' = m_reconnectTimer \/ m_reconnectTimer' = stopTimer_p
      BY <1>25 DEF handle_read_end, clientVars, connVars
    <2>2. \A d \in Conns : (conn'[d].reading => conn[d].reading) /\ (conn'[d].working <=> conn[d].working)
      BY <1>25 DEF handle_read_end, ClientType, Links
    <2>3. Less
      BY <1>25, SameLess DEF handle_read_end, lineVars
    <2>4. (Reader' => Reader) /\ (Working <=> Working') /\ (TimerOn' => TimerOn)
      BY <2>1, <2>2, <2>3, ReaderLess DEF Working, TimerOn, stopTimer_p, Life, OneTimer
    <2>5. Quest'
      BY <2>1, <2>3, <2>4, QuestKept DEF Tok, Quest
    <2>6. QED BY <2>1, <2>4, <2>5 DEF Tok, Known, Deadline
  <1>26. ASSUME NEW c \in Conns, connectionFails(c) PROVE Tok'
    <2>1. /\ UNCHANGED <<m_state, m_disconnectTime, m_pConnector, conns, m_reconnectTimer>>
          /\ m_apcNotifQ \in Seq(Notifs) /\ AnswerQ(m_apcNotifQ, conns) /\ Quest /\ conn \in [Conns -> Links]
      BY <1>26 DEF connectionFails, clientVars, ClientType, Tok, Quest
    <2>2. stopped(c, "OFFLINE") /\ Ends(c, m_apcNotifQ) /\ IOFree
      BY <1>26, <2>1, Stopping DEF connectionFails
    <2>3. /\ AnswerQ(m_apcNotifQ', conns)
          /\ Among(m_apcNotifQ', "CONNECT") => Among(m_apcNotifQ, "CONNECT")
          /\ Among(m_apcNotifQ', "START") => Among(m_apcNotifQ, "START")
          /\ Among(m_apcNotifQ, "DISCONNECT") => Among(m_apcNotifQ', "DISCONNECT")
          /\ Working => Working' \/ Among(m_apcNotifQ', "DISCONNECT")
          /\ \A d \in Conns : conn'[d].reading => conn[d].reading
      BY <2>1, <2>2, EndsAnswer
    <2>4. Less
      BY <1>26, SameLess DEF connectionFails, lineVars
    <2>5. (Reader' => Reader) /\ TimerOn' = TimerOn
      BY <2>1, <2>3, <2>4, ReaderLess DEF TimerOn
    <2>6. Reader' => ~OffQ(m_apcNotifQ')
      BY <2>2, <2>5 DEF Reader, IOFree
    <2>7. Quest'
      BY <2>1, <2>3, <2>4, <2>5, <2>6, QuestKept DEF Quest
    <2>8. QED BY <2>1, <2>3, <2>7 DEF Tok, Known, Deadline
  <1>27. QED
    BY <1>1, <1>2, <1>3, <1>4, <1>5, <1>6, <1>7, <1>8, <1>9, <1>10, <1>11, <1>12, <1>13, <1>14, <1>15, <1>16, <1>17,
       <1>18, <1>19, <1>20, <1>21, <1>22, <1>23, <1>24, <1>25, <1>26
    DEF Next, NotifNext, TimerNext, CallNext, MgrNext, ReadNext

\* A CONNECT of s names session id and packet number your.
Says(s, id, your) == \E i \in 1..Len(s) : s[i].t = "CONNECT" /\ s[i].id = id /\ s[i].your = your

\* The Manager's answer to the newest connector, on the line or queued, not handled yet.
Reply(id, your) == \/ Says(m_apcNotifQ, id, your)
                   \/ \E c \in Conns : /\ c = conns /\ (conn[c].working \/ conn[c].reading)
                                       /\ Says(toApc[c], id, your)

\* What a step does that is no part of the delivery.  The client keeps its session and its numbers (or clears them
\* as it becomes idle), the Manager keeps its packets, lines lose frames or get a DISCONNECT, and no answer is made.
QuietClient == /\ UNCHANGED <<m_intfId, conns>> /\ (m_state' = m_state \/ m_state' # "ONLINE")
               /\ app' # "idle" => app # "idle"
               /\ m_cache'.last = m_cache.last \/ (app' = "idle" /\ m_cache'.last = 0 /\ ~Working')
QuietMgr == /\ mgr'.ids = mgr.ids /\ mgr'.got = mgr.got
            /\ (mgr'.id = mgr.id /\ mgr'.cur = mgr.cur) \/ (mgr'.id = 0 /\ mgr'.cur = 0)
QuietWire(d) == \/ toMgr'[d] = toMgr[d]
                \/ toMgr'[d] = <<>> /\ ~up'[d]
                \/ toMgr[d] # <<>> /\ toMgr'[d] = Tail(toMgr[d]) /\ mgr'.cur # d
                \/ toMgr'[d] = Append(toMgr[d], [t |-> "DISCONNECT"]) /\ m_state' # "ONLINE" /\ d = conns
QuietWires == \A d \in Conns : QuietWire(d) /\ (up'[d] => up[d])
QuietConn == \A d \in Conns : conn'[d].working => conn[d].working
QuietReply == \A id, your : Reply(id, your)' => Reply(id, your)
Quiet == QuietClient /\ QuietMgr /\ QuietWires /\ QuietConn /\ QuietReply

\* The steps that are part of it: the Manager reads a question, or takes a packet;
Asks(c)  == ManagerReads(c) /\ Head(toMgr[c]).t = "CONNECT"
Takes(c) == ManagerReads(c) /\ Head(toMgr[c]).t = "DATA" /\ c = mgr.cur

\* a connection is opened again; the client gets an answer, sends a packet, or is started.
Reopens  == reconnect_p /\ ipConnect_p /\ Open(m_intfId)
Loud == \/ \E c \in Conns : Asks(c) \/ Takes(c)
        \/ apcConnected_new \/ apcConnected_restored \/ sendData \/ Reopens \/ start

\* An answer of the rest is an answer of the whole.
LEMMA SaysTail ==
    ASSUME NEW S, NEW s \in Seq(S), s # <<>>, NEW id, NEW your, Says(Tail(s), id, your)
    PROVE  Says(s, id, your)
  <1> DEFINE u == Tail(s)
  <1>1. \A i \in 1..Len(u) : i + 1 \in 1..Len(s) /\ u[i] = s[i + 1]
    BY Tails
  <1> HIDE DEF u
  <1>2. Says(u, id, your)
    BY DEF u
  <1>3. QED BY <1>1, <1>2 DEF Says

\* An answer after one more element was there, or is the new one.
LEMMA SaysAdd ==
    ASSUME NEW S, NEW s \in Seq(S), NEW e \in S, NEW id, NEW your, Says(Append(s, e), id, your)
    PROVE  Says(s, id, your) \/ (e.t = "CONNECT" /\ e.id = id /\ e.your = your)
  <1> DEFINE u == Append(s, e)
  <1>1. /\ Len(u) = Len(s) + 1 /\ Len(s) \in Nat /\ u[Len(s) + 1] = e
        /\ \A i \in 1..Len(s) : u[i] = s[i]
    BY Appends
  <1> HIDE DEF u
  <1>2. PICK i \in 1..Len(u) : u[i].t = "CONNECT" /\ u[i].id = id /\ u[i].your = your
    BY DEF u, Says
  <1>3. i \in 1..Len(s) \/ i = Len(s) + 1
    BY <1>1
  <1>4. QED BY <1>1, <1>2, <1>3 DEF Says

\* The answer at the head.
LEMMA SaysOne ==
    ASSUME NEW S, NEW s \in Seq(S), s # <<>>, Head(s).t = "CONNECT"
    PROVE  Says(s, Head(s).id, Head(s).your)
  <1>1. 1 \in 1..Len(s) /\ Head(s) = s[1]
    BY Tails
  <1>2. QED BY <1>1 DEF Says

\* An answer is a CONNECT.
LEMMA SaysAmong == ASSUME NEW s, NEW id, NEW your, Says(s, id, your) PROVE Among(s, "CONNECT")
  BY DEF Says, Among

\* A connector that ends queues no answer.
LEMMA EndsSays ==
    ASSUME NEW c, NEW q \in Seq(Notifs), Ends(c, q), NEW id, NEW your, Says(m_apcNotifQ', id, your)
    PROVE  Says(q, id, your)
  <1>1. m_apcNotifQ' = q \/ \E n \in Notifs : n.t = "DISCONNECT" /\ m_apcNotifQ' = Append(q, n)
    BY DEF Ends
  <1>2. QED BY <1>1, SaysAdd

\* No answer is queued, and none is written.
CalmQueue == \A id, your : Says(m_apcNotifQ', id, your) => Says(m_apcNotifQ, id, your)
CalmLines == \A c \in Conns : \A id, your : Says(toApc'[c], id, your) => Says(toApc[c], id, your)

\* Without a new answer the answers under way were under way.
LEMMA ReplyKept ==
    ASSUME conns' = conns, CalmQueue, CalmLines,
           \A d \in Conns : conn'[d].working \/ conn'[d].reading => conn[d].working \/ conn[d].reading
    PROVE  QuietReply
  BY DEF CalmQueue, CalmLines, QuietReply, Reply

\* A step that leaves the lines.
LEMMA QuietSame ==
    ASSUME UNCHANGED <<toMgr, up>> PROVE QuietWires
  BY DEF QuietWires, QuietWire

\* The handlers of the notifications queue no answer.
LEMMA CalmTail ==
    ASSUME m_apcNotifQ \in Seq(Notifs), m_apcNotifQ # <<>>,
           m_apcNotifQ' = Tail(m_apcNotifQ) \/ \E c : Ends(c, Tail(m_apcNotifQ))
    PROVE  CalmQueue
  <1>1. Tail(m_apcNotifQ) \in Seq(Notifs)
    BY Tails
  <1>2. \A id, your : Says(m_apcNotifQ', id, your) => Says(Tail(m_apcNotifQ), id, your)
    BY <1>1, EndsSays
  <1>3. QED BY <1>2, SaysTail DEF CalmQueue

\* The calls and the io thread's failures queue no answer.
LEMMA CalmEnds ==
    ASSUME m_apcNotifQ \in Seq(Notifs), m_apcNotifQ' = m_apcNotifQ \/ \E c : Ends(c, m_apcNotifQ)
    PROVE  CalmQueue
  BY EndsSays DEF CalmQueue

\* Every step is quiet, or one of the seven that matter for the delivery.
LEMMA QuietStep ==
    ASSUME ClientType, LineType, Life, Lines, [Next]_svars
    PROVE  Quiet \/ Loud
  <1>1. CASE UNCHANGED svars
    <2>1. QuietClient /\ QuietMgr /\ QuietWires /\ conn' = conn /\ CalmQueue /\ CalmLines
      BY <1>1 DEF svars, clientVars, connVars, lineVars, QuietClient, QuietMgr, QuietWires, QuietWire, CalmQueue,
         CalmLines
    <2>2. QED BY <2>1, ReplyKept DEF Quiet, QuietConn, QuietClient
  <1>2. CASE apcStarted
    <2>1. QuietClient
      BY <1>2 DEF apcStarted, QuietClient
    <2>2. QuietMgr
      BY <1>2 DEF apcStarted, QuietMgr
    <2>3. QuietWires
      BY <1>2, QuietSame DEF apcStarted, lineVars
    <2>4. \A d \in Conns : (conn'[d].working => conn[d].working) /\ (conn'[d].working \/ conn'[d].reading => conn[d].working \/ conn[d].reading)
      BY <1>2 DEF apcStarted, connVars
    <2>5. CalmQueue
      BY <1>2, CalmTail DEF apcStarted, Notif, ClientType
    <2>6. CalmLines
      BY <1>2 DEF apcStarted, lineVars, CalmLines
    <2>7. QED BY <2>1, <2>2, <2>3, <2>4, <2>5, <2>6, ReplyKept DEF Quiet, QuietConn, QuietClient
  <1>3. CASE messageConfirms
    <2>1. QuietClient
      <3>1. m_cache'.last = m_cache.last
        BY <1>3 DEF messageConfirms, confirmedSeqNum, LineType
      <3>2. QED BY <1>3, <3>1 DEF messageConfirms, QuietClient, clientVars
    <2>2. QuietMgr
      BY <1>3 DEF messageConfirms, QuietMgr
    <2>3. QuietWires
      BY <1>3, QuietSame DEF messageConfirms, lineVars
    <2>4. \A d \in Conns : (conn'[d].working => conn[d].working) /\ (conn'[d].working \/ conn'[d].reading => conn[d].working \/ conn[d].reading)
      BY <1>3 DEF messageConfirms, connVars
    <2>5. CalmQueue
      BY <1>3, CalmTail DEF messageConfirms, Notif, ClientType
    <2>6. CalmLines
      BY <1>3 DEF messageConfirms, lineVars, CalmLines
    <2>7. QED BY <2>1, <2>2, <2>3, <2>4, <2>5, <2>6, ReplyKept DEF Quiet, QuietConn, QuietClient
  <1>4. CASE apcConnected_refused
    <2>1. QuietClient
      BY <1>4 DEF apcConnected_refused, QuietClient, clientVars
    <2>2. QuietMgr
      BY <1>4 DEF apcConnected_refused, QuietMgr
    <2>3. QuietWires
      BY <1>4, QuietSame DEF apcConnected_refused, lineVars
    <2>4. \A d \in Conns : (conn'[d].working => conn[d].working) /\ (conn'[d].working \/ conn'[d].reading => conn[d].working \/ conn[d].reading)
      <3>1. Head(m_apcNotifQ).c \in Conns /\ Ends(Head(m_apcNotifQ).c, Tail(m_apcNotifQ))
        BY <1>4, PopLife, Stopping DEF apcConnected_refused, ClientType
      <3>2. QED BY <3>1, EndsWorking DEF ClientType
    <2>5. CalmQueue
      <3>1. m_apcNotifQ # <<>> /\ Head(m_apcNotifQ).c \in Conns /\ Ends(Head(m_apcNotifQ).c, Tail(m_apcNotifQ))
        BY <1>4, PopLife, Stopping DEF apcConnected_refused, ClientType, Notif
      <3>2. QED BY <3>1, CalmTail DEF ClientType
    <2>6. CalmLines
      BY <1>4 DEF apcConnected_refused, lineVars, CalmLines
    <2>7. QED BY <2>1, <2>2, <2>3, <2>4, <2>5, <2>6, ReplyKept DEF Quiet, QuietConn, QuietClient
  <1>5. CASE apcConnected_new
    BY <1>5 DEF Loud
  <1>6. CASE apcConnected_restored
    BY <1>6 DEF Loud
  <1>7. CASE apcDisconnected
    <2>1. QuietClient
      BY <1>7 DEF apcDisconnected, QuietClient
    <2>2. QuietMgr
      BY <1>7 DEF apcDisconnected, QuietMgr
    <2>3. QuietWires
      BY <1>7, QuietSame DEF apcDisconnected, lineVars
    <2>4. \A d \in Conns : (conn'[d].working => conn[d].working) /\ (conn'[d].working \/ conn'[d].reading => conn[d].working \/ conn[d].reading)
      BY <1>7 DEF apcDisconnected, connVars
    <2>5. CalmQueue
      BY <1>7, CalmTail DEF apcDisconnected, Notif, ClientType
    <2>6. CalmLines
      BY <1>7 DEF apcDisconnected, lineVars, CalmLines
    <2>7. QED BY <2>1, <2>2, <2>3, <2>4, <2>5, <2>6, ReplyKept DEF Quiet, QuietConn, QuietClient
  <1>8. CASE TimerExpires
    <2>1. QuietClient
      BY <1>8 DEF TimerExpires, QuietClient, connVars
    <2>2. QuietMgr
      BY <1>8 DEF TimerExpires, QuietMgr
    <2>3. QuietWires
      BY <1>8, QuietSame DEF TimerExpires, lineVars
    <2>4. \A d \in Conns : (conn'[d].working => conn[d].working) /\ (conn'[d].working \/ conn'[d].reading => conn[d].working \/ conn[d].reading)
      BY <1>8 DEF TimerExpires, connVars
    <2>5. CalmQueue
      BY <1>8, CalmEnds DEF TimerExpires, connVars, ClientType
    <2>6. CalmLines
      BY <1>8 DEF TimerExpires, lineVars, CalmLines
    <2>7. QED BY <2>1, <2>2, <2>3, <2>4, <2>5, <2>6, ReplyKept DEF Quiet, QuietConn, QuietClient
  <1>9. CASE TimePasses
    <2>1. QuietClient
      BY <1>9 DEF TimePasses, QuietClient, connVars
    <2>2. QuietMgr
      BY <1>9 DEF TimePasses, QuietMgr
    <2>3. QuietWires
      BY <1>9, QuietSame DEF TimePasses, lineVars
    <2>4. \A d \in Conns : (conn'[d].working => conn[d].working) /\ (conn'[d].working \/ conn'[d].reading => conn[d].working \/ conn[d].reading)
      BY <1>9 DEF TimePasses, connVars
    <2>5. CalmQueue
      BY <1>9, CalmEnds DEF TimePasses, connVars, ClientType
    <2>6. CalmLines
      BY <1>9 DEF TimePasses, lineVars, CalmLines
    <2>7. QED BY <2>1, <2>2, <2>3, <2>4, <2>5, <2>6, ReplyKept DEF Quiet, QuietConn, QuietClient
  <1>10. CASE reconnect_p
    <2>1. CASE ipConnect_p /\ Open(m_intfId)
      BY <1>10, <2>1 DEF Loud, Reopens
    <2>2. CASE UNCHANGED <<connVars, lineVars>>
      <3>1. QuietClient
        BY <1>10, <2>2 DEF reconnect_p, connVars, QuietClient
      <3>2. QuietMgr
        BY <1>10 DEF reconnect_p, QuietMgr
      <3>3. QuietWires
        BY <2>2, QuietSame DEF lineVars
      <3>4. \A d \in Conns : (conn'[d].working => conn[d].working) /\ (conn'[d].working \/ conn'[d].reading => conn[d].working \/ conn[d].reading)
        BY <2>2 DEF connVars
      <3>5. CalmQueue
        BY <2>2, CalmEnds DEF connVars, ClientType
      <3>6. CalmLines
        BY <2>2 DEF lineVars, CalmLines
      <3>7. QED BY <3>1, <3>2, <3>3, <3>4, <3>5, <3>6, ReplyKept DEF Quiet, QuietConn, QuietClient
    <2>3. QED BY <1>10, <2>1, <2>2 DEF reconnect_p
  <1>11. CASE disconnect_p
    <2>1. UNCHANGED <<conn, m_apcNotifQ>>
      BY <1>11, DueIdle DEF disconnect_p
    <2>2. QuietClient
      BY <1>11 DEF disconnect_p, QuietClient
    <2>3. QuietMgr
      BY <1>11 DEF disconnect_p, QuietMgr
    <2>4. QuietWires
      BY <1>11, QuietSame DEF disconnect_p, lineVars
    <2>5. \A d \in Conns : (conn'[d].working => conn[d].working) /\ (conn'[d].working \/ conn'[d].reading => conn[d].working \/ conn[d].reading)
      BY <2>1
    <2>6. CalmQueue
      BY <2>1, CalmEnds DEF ClientType
    <2>7. CalmLines
      BY <1>11 DEF disconnect_p, lineVars, CalmLines
    <2>8. QED BY <2>2, <2>3, <2>4, <2>5, <2>6, <2>7, ReplyKept DEF Quiet, QuietConn, QuietClient
  <1>12. CASE timerIgnored
    <2>1. QuietClient
      BY <1>12 DEF timerIgnored, QuietClient, connVars
    <2>2. QuietMgr
      BY <1>12 DEF timerIgnored, QuietMgr
    <2>3. QuietWires
      BY <1>12, QuietSame DEF timerIgnored, lineVars
    <2>4. \A d \in Conns : (conn'[d].working => conn[d].working) /\ (conn'[d].working \/ conn'[d].reading => conn[d].working \/ conn[d].reading)
      BY <1>12 DEF timerIgnored, connVars
    <2>5. CalmQueue
      BY <1>12, CalmEnds DEF timerIgnored, connVars, ClientType
    <2>6. CalmLines
      BY <1>12 DEF timerIgnored, lineVars, CalmLines
    <2>7. QED BY <2>1, <2>2, <2>3, <2>4, <2>5, <2>6, ReplyKept DEF Quiet, QuietConn, QuietClient
  <1>13. CASE start
    BY <1>13 DEF Loud
  <1>14. CASE stop
    <2>1. m_pConnector # 0 => m_pConnector \in Conns /\ m_pConnector = conns
      BY Bounds DEF ClientType, Conns, Life, Current
    <2>2. QuietClient
      BY <1>14 DEF stop, QuietClient
    <2>3. QuietMgr
      BY <1>14 DEF stop, QuietMgr
    <2>4. QuietWires
      <3>1. m_state' # "ONLINE" /\ up' = up /\ (toMgr' = toMgr \/ (m_pConnector # 0 /\ toMgr' = Written(m_pConnector, <<[t |-> "DISCONNECT"]>>)))
        BY <1>14 DEF stop
      <3>2. CASE toMgr' = toMgr
        BY <3>1, <3>2, QuietSame
      <3>3. CASE m_pConnector # 0 /\ toMgr' = Written(m_pConnector, <<[t |-> "DISCONNECT"]>>) /\ toMgr' # toMgr
        <4>1. toMgr' = [toMgr EXCEPT ![conns] = @ \o <<[t |-> "DISCONNECT"]>>] /\ conns \in Conns
          BY <2>1, <3>3 DEF Written
        <4>2. toMgr[conns] \o <<[t |-> "DISCONNECT"]>> = Append(toMgr[conns], [t |-> "DISCONNECT"])
          BY <4>1, MakeFrames DEF LineType
        <4>3. \A d \in Conns : toMgr'[d] = IF d = conns THEN Append(toMgr[conns], [t |-> "DISCONNECT"]) ELSE toMgr[d]
          BY <4>1, <4>2 DEF LineType
        <4>4. QED BY <3>1, <4>3 DEF QuietWires, QuietWire
      <3>4. QED BY <3>1, <3>2, <3>3
    <2>5. \A d \in Conns : (conn'[d].working => conn[d].working) /\ (conn'[d].working \/ conn'[d].reading => conn[d].working \/ conn[d].reading)
      <3>1. conn' = conn \/ conn' = [conn EXCEPT ![m_pConnector].force = TRUE]
        BY <1>14 DEF stop
      <3>2. QED BY <3>1 DEF ClientType, Links
    <2>6. CalmQueue
      BY <1>14, CalmEnds DEF stop, ClientType
    <2>7. CalmLines
      BY <1>14 DEF stop, CalmLines
    <2>8. QED BY <2>2, <2>3, <2>4, <2>5, <2>6, <2>7, ReplyKept DEF Quiet, QuietConn, QuietClient
  <1>15. CASE stop_close
    <2>1. m_pConnector \in Conns /\ Ends(m_pConnector, m_apcNotifQ)
      <3>1. m_pConnector \in Conns
        BY <1>15, Bounds DEF ClientType, Conns, stop_close
      <3>2. QED BY <1>15, <3>1, Stopping DEF stop_close, ClientType
    <2>2. QuietClient
      BY <1>15 DEF stop_close, QuietClient, clientVars
    <2>3. QuietMgr
      BY <1>15 DEF stop_close, QuietMgr
    <2>4. QuietWires
      BY <1>15, QuietSame DEF stop_close, lineVars
    <2>5. \A d \in Conns : (conn'[d].working => conn[d].working) /\ (conn'[d].working \/ conn'[d].reading => conn[d].working \/ conn[d].reading)
      BY <2>1, EndsWorking DEF ClientType
    <2>6. CalmQueue
      BY <2>1, CalmEnds DEF ClientType
    <2>7. CalmLines
      BY <1>15 DEF stop_close, lineVars, CalmLines
    <2>8. QED BY <2>2, <2>3, <2>4, <2>5, <2>6, <2>7, ReplyKept DEF Quiet, QuietConn, QuietClient
  <1>16. CASE stop_wait
    <2>1. QuietClient
      BY <1>16 DEF stop_wait, QuietClient, connVars
    <2>2. QuietMgr
      BY <1>16 DEF stop_wait, QuietMgr
    <2>3. QuietWires
      BY <1>16, QuietSame DEF stop_wait, lineVars
    <2>4. \A d \in Conns : (conn'[d].working => conn[d].working) /\ (conn'[d].working \/ conn'[d].reading => conn[d].working \/ conn[d].reading)
      BY <1>16 DEF stop_wait, connVars
    <2>5. CalmQueue
      BY <1>16, CalmEnds DEF stop_wait, connVars, ClientType
    <2>6. CalmLines
      BY <1>16 DEF stop_wait, lineVars, CalmLines
    <2>7. QED BY <2>1, <2>2, <2>3, <2>4, <2>5, <2>6, ReplyKept DEF Quiet, QuietConn, QuietClient
  <1>17. CASE stop_join
    <2>1. QuietClient
      <3>1. ~Working'
        BY <1>17 DEF stop_join, NoIOWork, Working, connVars
      <3>2. QED BY <1>17, <3>1 DEF stop_join, QuietClient, clientVars, connVars
    <2>2. QuietMgr
      BY <1>17 DEF stop_join, QuietMgr
    <2>3. QuietWires
      BY <1>17, QuietSame DEF stop_join, lineVars
    <2>4. \A d \in Conns : (conn'[d].working => conn[d].working) /\ (conn'[d].working \/ conn'[d].reading => conn[d].working \/ conn[d].reading)
      BY <1>17 DEF stop_join, connVars
    <2>5. CalmQueue
      BY <1>17, CalmEnds DEF stop_join, connVars, ClientType
    <2>6. CalmLines
      BY <1>17 DEF stop_join, lineVars, CalmLines
    <2>7. QED BY <2>1, <2>2, <2>3, <2>4, <2>5, <2>6, ReplyKept DEF Quiet, QuietConn, QuietClient
  <1>18. CASE sendData
    BY <1>18 DEF Loud
  <1>19. CASE ManagerConfirms
    <2>1. QuietClient
      BY <1>19 DEF ManagerConfirms, QuietClient, clientVars, connVars
    <2>2. QuietMgr
      BY <1>19 DEF ManagerConfirms, QuietMgr
    <2>3. QuietWires
      BY <1>19, QuietSame DEF ManagerConfirms, lineVars
    <2>4. \A d \in Conns : (conn'[d].working => conn[d].working) /\ (conn'[d].working \/ conn'[d].reading => conn[d].working \/ conn[d].reading)
      BY <1>19 DEF ManagerConfirms, connVars
    <2>5. CalmQueue
      BY <1>19, CalmEnds DEF ManagerConfirms, connVars, ClientType
    <2>6. CalmLines
      <3>1. toApc' = toApc \/ \E d \in Conns : \E f \in ToApc : f.t # "CONNECT" /\ toApc' = [toApc EXCEPT ![d] = <<f>>]
        <4>1. mgr.cur \in Conns /\ mgr.got[Len(mgr.got)] \in Nat
          <5>1. mgr.cur # 0 /\ mgr.got # <<>> /\ mgr.cur \in 0..MaxConns /\ mgr.got \in Seq(Nat)
            BY <1>19 DEF ManagerConfirms, LineType
          <5>2. QED BY <5>1, Bounds DEF Conns
        <4>2. PICK type \in {"KA", "NET"} : toApc' = [toApc EXCEPT ![mgr.cur] = <<[t |-> type, your |-> mgr.got[Len(mgr.got)]]>>]
          BY <1>19 DEF ManagerConfirms
        <4>3. [t |-> type, your |-> mgr.got[Len(mgr.got)]] \in ToApc
          BY <4>1, MakeFrames
        <4>4. QED BY <4>1, <4>2, <4>3
      <3>2. CASE toApc' = toApc
        BY <3>2 DEF CalmLines
      <3>3. CASE \E d \in Conns : \E f \in ToApc : f.t # "CONNECT" /\ toApc' = [toApc EXCEPT ![d] = <<f>>]
        <4>1. PICK d \in Conns, f \in ToApc : f.t # "CONNECT" /\ toApc' = [toApc EXCEPT ![d] = <<f>>]
          BY <3>3
        <4>2. \A id, your : Says(toApc'[d], id, your) => Says(toApc[d], id, your)
          <5>1. toApc'[d] = <<f>>
            BY <4>1 DEF LineType
          <5>2. QED BY <4>1, <5>1 DEF Says
        <4>3. \A e \in Conns : e # d => toApc'[e] = toApc[e]
          BY <4>1 DEF LineType
        <4>4. QED BY <4>2, <4>3 DEF CalmLines
      <3>4. QED BY <3>1, <3>2, <3>3
    <2>7. QED BY <2>1, <2>2, <2>3, <2>4, <2>5, <2>6, ReplyKept DEF Quiet, QuietConn, QuietClient
  <1>20. CASE ManagerRefuses
    <2>1. QuietClient
      BY <1>20 DEF ManagerRefuses, QuietClient, clientVars, connVars
    <2>2. QuietMgr
      BY <1>20 DEF ManagerRefuses, QuietMgr, LineType
    <2>3. QuietWires
      BY <1>20, QuietSame DEF ManagerRefuses, lineVars
    <2>4. \A d \in Conns : (conn'[d].working => conn[d].working) /\ (conn'[d].working \/ conn'[d].reading => conn[d].working \/ conn[d].reading)
      BY <1>20 DEF ManagerRefuses, connVars
    <2>5. CalmQueue
      BY <1>20, CalmEnds DEF ManagerRefuses, connVars, ClientType
    <2>6. CalmLines
      <3>1. toApc' = toApc \/ \E d \in Conns : \E f \in ToApc : f.t # "CONNECT" /\ toApc' = [toApc EXCEPT ![d] = Append(@, f)]
        <4>1. mgr.cur \in Conns
          BY <1>20, Bounds DEF ManagerRefuses, LineType, Conns
        <4>2. QED BY <1>20, <4>1, MakeFrames DEF ManagerRefuses
      <3>2. CASE toApc' = toApc
        BY <3>2 DEF CalmLines
      <3>3. CASE \E d \in Conns : \E f \in ToApc : f.t # "CONNECT" /\ toApc' = [toApc EXCEPT ![d] = Append(@, f)]
        <4>1. PICK d \in Conns, f \in ToApc : f.t # "CONNECT" /\ toApc' = [toApc EXCEPT ![d] = Append(@, f)]
          BY <3>3
        <4>2. \A id, your : Says(toApc'[d], id, your) => Says(toApc[d], id, your)
          <5>1. toApc'[d] = Append(toApc[d], f) /\ toApc[d] \in Seq(ToApc)
            BY <4>1 DEF LineType
          <5>2. QED BY <4>1, <5>1, SaysAdd
        <4>3. \A e \in Conns : e # d => toApc'[e] = toApc[e]
          BY <4>1 DEF LineType
        <4>4. QED BY <4>2, <4>3 DEF CalmLines
      <3>4. QED BY <3>1, <3>2, <3>3
    <2>7. QED BY <2>1, <2>2, <2>3, <2>4, <2>5, <2>6, ReplyKept DEF Quiet, QuietConn, QuietClient
  <1>21. ASSUME NEW c \in Conns, ManagerReads(c) PROVE Quiet \/ Loud
    <2>1. Head(toMgr[c]).t \in {"CONNECT", "DATA", "DISCONNECT"}
      BY <1>21 DEF ManagerReads
    <2>2. CASE Asks(c) \/ Takes(c)
      BY <2>2 DEF Loud
    <2>3. CASE ~Asks(c) /\ ~Takes(c)
      <3>1. /\ Head(toMgr[c]).t \in {"DATA", "DISCONNECT"} /\ (Head(toMgr[c]).t = "DATA" => c # mgr.cur)
            /\ toMgr[c] # <<>> /\ toMgr' = [toMgr EXCEPT ![c] = Tail(@)] /\ UNCHANGED <<toApc, up>>
            /\ mgr' = IF Head(toMgr[c]).t = "DISCONNECT" /\ c = mgr.cur THEN [mgr EXCEPT !.id = 0, !.cur = 0] ELSE mgr
        <4>1. Head(toMgr[c]).t \in {"DATA", "DISCONNECT"} /\ (Head(toMgr[c]).t = "DATA" => c # mgr.cur)
          BY <1>21, <2>1, <2>3 DEF Asks, Takes
        <4>2. QED BY <1>21, <4>1 DEF ManagerReads
      <3>2. QuietClient
        BY <1>21 DEF ManagerReads, QuietClient, clientVars, connVars
      <3>3. QuietMgr /\ mgr'.cur # c
        BY <3>1, Bounds DEF QuietMgr, LineType, Conns
      <3>4. QuietWires
        BY <3>1, <3>3 DEF QuietWires, QuietWire, LineType
      <3>5. CalmQueue /\ CalmLines /\ conn' = conn
        BY <1>21, <3>1 DEF CalmQueue, CalmLines, ManagerReads, connVars
      <3>6. QED BY <3>2, <3>3, <3>4, <3>5, ReplyKept DEF Quiet, QuietConn, QuietClient
    <2>4. QED BY <2>2, <2>3
  <1>22. ASSUME NEW c \in Conns, Break(c) PROVE Quiet \/ Loud
    <2>1. QuietClient
      BY <1>22 DEF Break, QuietClient, clientVars, connVars
    <2>2. QuietMgr
      BY <1>22 DEF Break, QuietMgr
    <2>3. QuietWires
      BY <1>22 DEF Break, LineType, QuietWires, QuietWire
    <2>4. \A d \in Conns : (conn'[d].working => conn[d].working) /\ (conn'[d].working \/ conn'[d].reading => conn[d].working \/ conn[d].reading)
      BY <1>22 DEF Break, connVars
    <2>5. CalmQueue
      BY <1>22, CalmEnds DEF Break, connVars, ClientType
    <2>6. CalmLines
      <3>1. toApc' = toApc \/ toApc' = [toApc EXCEPT ![c] = <<>>]
        BY <1>22 DEF Break
      <3>2. \A d \in Conns : toApc'[d] = toApc[d] \/ toApc'[d] = <<>>
        BY <3>1 DEF LineType
      <3>3. \A id, your : ~Says(<<>>, id, your)
        BY DEF Says
      <3>4. QED BY <3>2, <3>3 DEF CalmLines
    <2>7. QED BY <2>1, <2>2, <2>3, <2>4, <2>5, <2>6, ReplyKept DEF Quiet, QuietConn, QuietClient
  <1>23. ASSUME NEW c \in Conns, handle_read_p(c) PROVE Quiet \/ Loud
    <2>1. QuietClient
      BY <1>23 DEF handle_read_p, QuietClient, clientVars, connVars
    <2>2. QuietMgr
      BY <1>23 DEF handle_read_p, QuietMgr
    <2>3. QuietWires
      BY <1>23, QuietSame DEF handle_read_p, lineVars
    <2>4. \A d \in Conns : (conn'[d].working => conn[d].working) /\ (conn'[d].working \/ conn'[d].reading => conn[d].working \/ conn[d].reading)
      BY <1>23 DEF handle_read_p, ClientType, Links
    <2>5. CalmQueue
      BY <1>23, CalmEnds DEF handle_read_p, connVars, ClientType
    <2>6. CalmLines
      BY <1>23 DEF handle_read_p, lineVars, CalmLines
    <2>7. QED BY <2>1, <2>2, <2>3, <2>4, <2>5, <2>6, ReplyKept DEF Quiet, QuietConn, QuietClient
  <1>24. ASSUME NEW c \in Conns, messageReceived(c) PROVE Quiet \/ Loud
    <2> DEFINE f == Head(toApc[c])
    <2>1. /\ QuietClient /\ QuietMgr /\ QuietWires /\ conn[c].reading /\ toApc[c] # <<>> /\ toApc[c] \in Seq(ToApc)
          /\ toApc' = [toApc EXCEPT ![c] = Tail(@)] /\ m_apcNotifQ \in Seq(Notifs) /\ conn \in [Conns -> Links]
      BY <1>24, QuietSame DEF messageReceived, QuietClient, QuietMgr, clientVars, LineType, ClientType
    <2>2. f \in ToApc
      BY <2>1, Tails
    <2>3. CalmLines
      <3>1. \A d \in Conns : toApc'[d] = IF d = c THEN Tail(toApc[c]) ELSE toApc[d]
        BY <2>1 DEF LineType
      <3>2. QED BY <2>1, <3>1, SaysTail DEF CalmLines
    <2>4. CASE readError(c, "OFFLINE") \/ readError(c, "DISCONNECT")
      <3>1. Ends(c, m_apcNotifQ)
        BY <2>1, <2>4, ReadFailing
      <3>2. CalmQueue /\ \A d \in Conns : (conn'[d].working => conn[d].working) /\ (conn'[d].reading => conn[d].reading)
        BY <2>1, <3>1, CalmEnds, EndsWorking
      <3>3. QED BY <2>1, <2>3, <3>2, ReplyKept DEF Quiet, QuietConn, QuietClient
    <2>5. CASE /\ f.t \in {"KA", "NET"} /\ conn' = conn
               /\ m_apcNotifQ' = Append(m_apcNotifQ, [t |-> "MSGRCVD", your |-> f.your])
      <3> DEFINE n == [t |-> "MSGRCVD", your |-> f.your]
      <3>1. n \in Notifs /\ n.t = "MSGRCVD"
        BY <2>2, <2>5, FrameFields, MakeNotifs
      <3>2. m_apcNotifQ' = Append(m_apcNotifQ, n)
        BY <2>5
      <3> HIDE DEF n
      <3>3. CalmQueue
        BY <2>1, <3>1, <3>2, SaysAdd DEF CalmQueue
      <3>4. QED BY <2>1, <2>3, <2>5, <3>3, ReplyKept DEF Quiet, QuietConn, QuietClient
    <2>6. CASE /\ f.t = "CONNECT" /\ conn' = [conn EXCEPT ![c].connected = TRUE]
               /\ m_apcNotifQ' = Append(m_apcNotifQ, [t |-> "CONNECT", c |-> c, id |-> f.id, your |-> f.your])
      <3> DEFINE n == [t |-> "CONNECT", c |-> c, id |-> f.id, your |-> f.your]
      <3>1. n \in Notifs /\ n.id = f.id /\ n.your = f.your
        BY <2>2, <2>6, FrameFields, MakeNotifs
      <3>2. m_apcNotifQ' = Append(m_apcNotifQ, n)
        BY <2>6
      <3> HIDE DEF n
      <3>3. \A d \in Conns : (conn'[d].working <=> conn[d].working) /\ (conn'[d].reading <=> conn[d].reading)
        BY <2>1, <2>6 DEF Links
      <3>4. c = conns /\ Says(toApc[c], f.id, f.your)
        BY <2>1, <2>6, SaysOne DEF Life, Newest
      <3> HIDE DEF f
      <3>5. \A id, your : Says(m_apcNotifQ', id, your) => Reply(id, your)
        BY <2>1, <3>1, <3>2, <3>4, SaysAdd DEF Reply
      <3>6. QuietReply
        BY <2>1, <2>3, <3>3, <3>5 DEF QuietReply, Reply, CalmLines, QuietClient
      <3>7. QED BY <2>1, <3>3, <3>6 DEF Quiet, QuietConn
    <2>7. QED BY <1>24, <2>4, <2>5, <2>6 DEF messageReceived
  <1>25. ASSUME NEW c \in Conns, handle_read_end(c) PROVE Quiet \/ Loud
    <2>1. QuietClient
      BY <1>25 DEF handle_read_end, QuietClient, clientVars, connVars
    <2>2. QuietMgr
      BY <1>25 DEF handle_read_end, QuietMgr
    <2>3. QuietWires
      BY <1>25, QuietSame DEF handle_read_end, lineVars
    <2>4. \A d \in Conns : (conn'[d].working => conn[d].working) /\ (conn'[d].working \/ conn'[d].reading => conn[d].working \/ conn[d].reading)
      BY <1>25 DEF handle_read_end, ClientType, Links
    <2>5. CalmQueue
      BY <1>25, CalmEnds DEF handle_read_end, connVars, ClientType
    <2>6. CalmLines
      BY <1>25 DEF handle_read_end, lineVars, CalmLines
    <2>7. QED BY <2>1, <2>2, <2>3, <2>4, <2>5, <2>6, ReplyKept DEF Quiet, QuietConn, QuietClient
  <1>26. ASSUME NEW c \in Conns, connectionFails(c) PROVE Quiet \/ Loud
    <2>1. c \in Conns /\ Ends(c, m_apcNotifQ)
      BY <1>26, Stopping DEF connectionFails, ClientType
    <2>2. QuietClient
      BY <1>26 DEF connectionFails, QuietClient, clientVars
    <2>3. QuietMgr
      BY <1>26 DEF connectionFails, QuietMgr
    <2>4. QuietWires
      BY <1>26, QuietSame DEF connectionFails, lineVars
    <2>5. \A d \in Conns : (conn'[d].working => conn[d].working) /\ (conn'[d].working \/ conn'[d].reading => conn[d].working \/ conn[d].reading)
      BY <2>1, EndsWorking DEF ClientType
    <2>6. CalmQueue
      BY <2>1, CalmEnds DEF ClientType
    <2>7. CalmLines
      BY <1>26 DEF connectionFails, lineVars, CalmLines
    <2>8. QED BY <2>2, <2>3, <2>4, <2>5, <2>6, <2>7, ReplyKept DEF Quiet, QuietConn, QuietClient
  <1>27. QED
    BY <1>1, <1>2, <1>3, <1>4, <1>5, <1>6, <1>7, <1>8, <1>9, <1>10, <1>11, <1>12, <1>13, <1>14, <1>15, <1>16, <1>17,
       <1>18, <1>19, <1>20, <1>21, <1>22, <1>23, <1>24, <1>25, <1>26
    DEF Next, NotifNext, TimerNext, CallNext, MgrNext, ReadNext

\* The last packet the Manager got, 0 if it got none.
LastOf(s) == IF s = <<>> THEN 0 ELSE s[Len(s)]

\* No packet is on the way.
NoData(c) == ~Among(toMgr[c], "DATA")

\* The sessions' numbers: the Manager made them, and a client without one has sent nothing.
Ids == /\ m_intfId <= mgr.ids /\ mgr.id <= mgr.ids
       /\ m_intfId = 0 => m_cache.last = 0 /\ m_state # "ONLINE"
       /\ mgr.cur # 0 => mgr.id # 0

\* The question of a connection is in front of all packets and names a session the Manager made; the newest working
\* connector's names the client's session.
Question(c) == \A i \in 1..Len(toMgr[c]) : toMgr[c][i].t = "CONNECT" =>
                  /\ toMgr[c][i].id <= mgr.ids /\ NoData(c)
                  /\ c = conns /\ conn[c].working => toMgr[c][i].id = m_intfId
Questions == \A c \in Conns : Question(c)

\* The lines of the older connections are empty.
Older == \A d \in Conns : d < conns => toMgr[d] = <<>>

\* The newest connection carries no packet.
Empty == \A c \in Conns : c = conns => NoData(c)

\* What an answer means while it is under way: no packet is, and if it accepts the session then the Manager still
\* has it, on this connection, and has not got a packet since.
AnswerIs(id, your) ==
    /\ Empty /\ Older /\ id <= mgr.ids
    /\ id # 0 /\ mgr.cur # 0 => /\ mgr.cur = conns /\ mgr.id = id /\ your = LastOf(mgr.got)
                                /\ m_intfId = 0 => mgr.got = <<>>
    /\ id # 0 /\ mgr.cur = 0 => mgr.id = 0
Answers == \A id, your : Reply(id, your) => AnswerIs(id, your)

\* When the Manager has the newest connection the older ones are empty.
Oldest == mgr.cur = conns => Older

\* A client that is online on it has the Manager's session.
OneId == mgr.cur = conns /\ mgr.cur # 0 /\ m_state = "ONLINE" => m_intfId = mgr.id

\* The client and the Manager agree on the session.
Agree == Ids /\ Questions /\ Answers /\ Oldest /\ OneId

\* Line u is what is left of line s, or a DISCONNECT.
Within(u, s) == \A i \in 1..Len(u) : u[i].t = "DISCONNECT" \/ \E j \in 1..Len(s) : u[i] = s[j]

\* What steps leave of a line.
LEMMA WithinMade ==
    ASSUME NEW s \in Seq(ToMgr)
    PROVE  /\ Within(s, s) /\ Within(<<>>, s)
           /\ s # <<>> => Within(Tail(s), s)
           /\ Within(Append(s, [t |-> "DISCONNECT"]), s)
  <1>1. Within(s, s) /\ Within(<<>>, s)
    BY DEF Within
  <1>2. ASSUME s # <<>> PROVE Within(Tail(s), s)
    <2> DEFINE u == Tail(s)
    <2>1. \A i \in 1..Len(u) : i + 1 \in 1..Len(s) /\ u[i] = s[i + 1]
      BY <1>2, Tails
    <2> HIDE DEF u
    <2>2. Within(u, s)
      BY <2>1 DEF Within
    <2>3. QED BY <2>2 DEF u
  <1>3. Within(Append(s, [t |-> "DISCONNECT"]), s)
    <2> DEFINE e == [t |-> "DISCONNECT"]
               u == Append(s, e)
    <2>1. e \in ToMgr /\ e.t = "DISCONNECT"
      BY MakeFrames
    <2> HIDE DEF e
    <2>2. /\ Len(u) = Len(s) + 1 /\ Len(s) \in Nat /\ u[Len(s) + 1] = e
          /\ \A i \in 1..Len(s) : u[i] = s[i]
      BY <2>1, Appends
    <2> HIDE DEF u
    <2>3. \A i \in 1..Len(u) : i \in 1..Len(s) \/ i = Len(s) + 1
      BY <2>2
    <2>4. Within(u, s)
      BY <2>1, <2>2, <2>3 DEF Within
    <2>5. QED BY <2>4 DEF u, e
  <1>4. QED BY <1>1, <1>2, <1>3

\* What is left of a line has nothing the line did not have.
LEMMA WithinNone ==
    ASSUME NEW u, NEW s, Within(u, s), NEW type, type # "DISCONNECT", ~Among(s, type)
    PROVE  ~Among(u, type)
  BY DEF Within, Among

\* Questions stay what they were while lines only lose frames.
LEMMA QuestionsKept ==
    ASSUME Questions, \A d \in Conns : Within(toMgr'[d], toMgr[d]), mgr.ids <= mgr'.ids,
           mgr.ids \in Nat, mgr'.ids \in Nat, LineType, UNCHANGED <<conns, m_intfId>>,
           \A d \in Conns : conn'[d].working => conn[d].working
    PROVE  Questions'
  <1> SUFFICES ASSUME NEW c \in Conns, NEW i \in 1..Len(toMgr'[c]), toMgr'[c][i].t = "CONNECT"
               PROVE  /\ toMgr'[c][i].id <= mgr'.ids /\ NoData(c)'
                      /\ c = conns /\ conn'[c].working => toMgr'[c][i].id = m_intfId
    BY DEF Questions, Question
  <1>1. PICK j \in 1..Len(toMgr[c]) : toMgr'[c][i] = toMgr[c][j]
    BY DEF Within
  <1>2. /\ toMgr[c][j].id <= mgr.ids /\ NoData(c)
        /\ c = conns /\ conn[c].working => toMgr[c][j].id = m_intfId
    BY <1>1 DEF Questions, Question
  <1>3. toMgr[c][j].id \in Nat
    BY <1>1, FrameFields DEF LineType
  <1>4. NoData(c)'
    BY <1>2, WithinNone DEF NoData
  <1>5. QED BY <1>1, <1>2, <1>3, <1>4

\* Without a question on the newest connection.
LEMMA QuestionsSilent ==
    ASSUME Questions, \A d \in Conns : d # conns => toMgr'[d] = toMgr[d], UNCHANGED <<conns, mgr>>,
           \A d \in Conns : d = conns => ~Asking(d)'
    PROVE  Questions'
  <1> SUFFICES ASSUME NEW c \in Conns, NEW i \in 1..Len(toMgr'[c]), toMgr'[c][i].t = "CONNECT"
               PROVE  /\ toMgr'[c][i].id <= mgr.ids /\ NoData(c)'
                      /\ c = conns /\ conn'[c].working => toMgr'[c][i].id = m_intfId'
    BY DEF Questions, Question
  <1>1. c # conns
    BY DEF Asking, Among
  <1>2. toMgr'[c] = toMgr[c]
    BY <1>1
  <1>3. toMgr[c][i].id <= mgr.ids /\ NoData(c)
    BY <1>2 DEF Questions, Question
  <1>4. QED BY <1>1, <1>2, <1>3 DEF NoData

\* The question of a new connection.
LEMMA QuestionsOpen ==
    ASSUME ClientType, LineType, Questions, conns < MaxConns, NEW id \in Nat, Open(id), id = m_intfId', id <= mgr.ids, mgr' = mgr
    PROVE  Questions'
  <1> DEFINE e == [t |-> "CONNECT", id |-> id]
  <1>1. conns' = conns + 1 /\ conns + 1 \in Conns /\ toMgr' = [toMgr EXCEPT ![conns + 1] = <<e>>]
    BY Opening DEF Open
  <1>2. PICK k \in Conns : k = conns + 1 /\ conns' = k /\ toMgr' = [toMgr EXCEPT ![k] = <<e>>]
    BY <1>1
  <1>3. toMgr'[k] = <<e>> /\ \A d \in Conns : d # k => toMgr'[d] = toMgr[d]
    BY <1>2 DEF LineType
  <1>4. e.t = "CONNECT" /\ e.id = id
    OBVIOUS
  <1> HIDE DEF e
  <1>5. Len(<<e>>) = 1 /\ <<e>>[1] = e
    OBVIOUS
  <1>6. Question(k)'
    <2>1. \A i \in 1..Len(toMgr'[k]) : toMgr'[k][i] = e
      BY <1>3, <1>5
    <2>2. NoData(k)'
      BY <1>4, <2>1 DEF NoData, Among
    <2>3. QED BY <1>4, <2>1, <2>2 DEF Question
  <1>7. ASSUME NEW c \in Conns, c # k PROVE Question(c)'
    BY <1>2, <1>3, <1>7 DEF Question, Questions, NoData
  <1>8. QED BY <1>6, <1>7 DEF Questions

\* With nothing under way there is no answer, before a step and
LEMMA Unreplied ==
    ASSUME Silent, ~Among(m_apcNotifQ, "CONNECT") PROVE \A id, your : ~Reply(id, your)
  BY SaysAmong DEF Silent, Unanswered, Answered, Reply

\* after it.
LEMMA UnrepliedNext ==
    ASSUME Silent', ~Among(m_apcNotifQ', "CONNECT") PROVE \A id, your : ~Reply(id, your)'
  BY SaysAmong DEF Silent, Unanswered, Answered, Reply

\* A quiet step only takes frames from the lines, or adds a DISCONNECT.
LEMMA QuietWithin ==
    ASSUME LineType, QuietWires
    PROVE  \A d \in Conns : /\ Within(toMgr'[d], toMgr[d])
                            /\ d # conns /\ toMgr[d] = <<>> => toMgr'[d] = <<>>
  <1> TAKE d \in Conns
  <1>1. toMgr[d] \in Seq(ToMgr) /\ QuietWire(d)
    BY DEF LineType, QuietWires
  <1>2. QED BY <1>1, WithinMade DEF QuietWire

\* A quiet step keeps the agreement.
LEMMA AgreeQuiet ==
    ASSUME ClientType, LineType, LineType', Agree, Quiet
    PROVE  Agree'
  <1>1. UNCHANGED <<m_intfId, conns>> /\ (m_state' = m_state \/ m_state' # "ONLINE")
    BY DEF Quiet, QuietClient
  <1>2. /\ mgr'.ids = mgr.ids /\ mgr'.got = mgr.got
        /\ (mgr'.id = mgr.id /\ mgr'.cur = mgr.cur) \/ (mgr'.id = 0 /\ mgr'.cur = 0)
        /\ mgr.ids \in Nat /\ mgr.id \in Nat /\ mgr.cur \in 0..MaxConns /\ conns \in 0..MaxConns
    BY DEF Quiet, QuietMgr, LineType, ClientType
  <1>3. \A d \in Conns : /\ Within(toMgr'[d], toMgr[d])
                         /\ d # conns /\ toMgr[d] = <<>> => toMgr'[d] = <<>>
    BY QuietWithin DEF Quiet
  <1>4. Questions'
    BY <1>1, <1>2, <1>3, QuestionsKept DEF Quiet, QuietConn, Agree
  <1>5. Older => Older'
    BY <1>1, <1>2, <1>3, Bounds DEF Older, Conns
  <1>6. Empty => Empty'
    BY <1>1, <1>3, WithinNone DEF Empty, NoData
  <1>7. m_cache'.last = m_cache.last \/ m_cache'.last = 0
    BY DEF Quiet, QuietClient
  <1>8. Ids'
    BY <1>1, <1>2, <1>7, Bounds DEF Ids, Agree
  <1>9. Oldest'
    <2>1. CASE mgr'.cur = mgr.cur
      BY <1>1, <1>5, <2>1 DEF Oldest, Agree
    <2>2. CASE mgr'.cur = 0
      BY <1>1, <1>2, <2>2 DEF Oldest, Older, Conns
    <2>3. QED BY <1>2, <2>1, <2>2
  <1>10. OneId'
    BY <1>1, <1>2 DEF OneId, Agree
  <1>11. ASSUME NEW id, NEW your, Reply(id, your)' PROVE AnswerIs(id, your)'
    <2>1. AnswerIs(id, your)
      BY <1>11 DEF Quiet, QuietReply, Agree, Answers
    <2>2. QED BY <1>1, <1>2, <1>5, <1>6, <2>1 DEF AnswerIs
  <1>12. QED BY <1>4, <1>8, <1>9, <1>10, <1>11 DEF Agree, Answers

\* The Manager reads a question: for a new session, for the one it knows, or for another one.
AskNew(c)   == /\ Head(toMgr[c]).id = 0 /\ mgr'.id = mgr.ids + 1 /\ mgr'.ids = mgr.ids + 1
               /\ mgr'.cur = c /\ mgr'.got = <<>>
AskKnown(c) == /\ Head(toMgr[c]).id # 0 /\ Head(toMgr[c]).id = mgr.id /\ mgr'.id = mgr.id /\ mgr'.ids = mgr.ids
               /\ mgr'.cur = c /\ mgr'.got = mgr.got
AskWrong(c) == /\ Head(toMgr[c]).id # 0 /\ Head(toMgr[c]).id # mgr.id
               /\ mgr'.id = mgr.id /\ mgr'.ids = mgr.ids /\ mgr'.cur = mgr.cur /\ mgr'.got = mgr.got
AskReply(c) == \/ AskNew(c) \/ AskKnown(c)
               \/ AskWrong(c)

\* What the Manager does when it reads a question: the older connections are closed and their packets lost, and it
\* answers with the last number it got.
LEMMA AskEffect ==
    ASSUME ClientType, LineType, Lines, NEW c \in Conns, Asks(c)
    PROVE  /\ toMgr[c] # <<>> /\ Head(toMgr[c]).t = "CONNECT" /\ Head(toMgr[c]).id \in Nat
           /\ Asking(c) /\ ~conn[c].reading /\ toApc[c] = <<>> /\ mgr.cur # c /\ c <= conns
           /\ \A d \in Conns : toMgr'[d] = IF d < c THEN <<>> ELSE IF d = c THEN Tail(toMgr[c]) ELSE toMgr[d]
           /\ \A d \in Conns : up'[d] <=> up[d] /\ d >= c
           /\ UNCHANGED <<m_state, m_intfId, m_cache, conns, conn, m_apcNotifQ, app>>
           /\ AskReply(c)
           /\ \A d \in Conns : d # c => toApc'[d] = toApc[d]
           /\ \E id : /\ \A i, your : Says(toApc'[c], i, your) => i = id /\ your = LastOf(mgr'.got)
                      /\ id = IF AskWrong(c) THEN 0 ELSE mgr'.id
  <1> DEFINE f == Head(toMgr[c])
  <1>1. toMgr[c] # <<>> /\ f.t = "CONNECT" /\ ManagerReads(c) /\ toMgr[c] \in Seq(ToMgr) /\ toApc[c] \in Seq(ToApc)
    BY DEF Asks, ManagerReads, LineType
  <1>2. f \in ToMgr /\ f.id \in Nat /\ Asking(c)
    <2>1. f \in ToMgr /\ 1 \in 1..Len(toMgr[c]) /\ f = toMgr[c][1]
      BY <1>1, Tails
    <2>2. QED BY <1>1, <2>1, FrameFields DEF Asking, Among
  <1>3. ~conn[c].reading /\ toApc[c] = <<>> /\ mgr.cur # c /\ c <= conns
    <2>1. c > conns => toMgr[c] = <<>>
      BY DEF Lines, Line
    <2>2. c \in Nat /\ conns \in Nat
      BY Bounds DEF ClientType, Conns
    <2>3. QED BY <1>1, <1>2, <2>1, <2>2 DEF Lines, Line
  <1> DEFINE new == f.id = 0
             id  == IF new THEN mgr.ids + 1 ELSE IF f.id = mgr.id THEN f.id ELSE 0
             got == IF new THEN <<>> ELSE mgr.got
             last == IF got = <<>> THEN 0 ELSE got[Len(got)]
             e == [t |-> "CONNECT", id |-> id, your |-> last]
  <1>4. /\ mgr' = [id |-> IF id = 0 THEN mgr.id ELSE id, ids |-> IF new THEN id ELSE mgr.ids,
                   cur |-> IF id = 0 THEN mgr.cur ELSE c, got |-> got]
        /\ toApc' = IF up[c] THEN [toApc EXCEPT ![c] = Append(@, e)] ELSE toApc
        /\ up' = [d \in Conns |-> up[d] /\ d >= c]
        /\ toMgr' = [d \in Conns |-> IF d < c THEN <<>> ELSE IF d = c THEN Tail(toMgr[c]) ELSE toMgr[d]]
        /\ UNCHANGED <<clientVars, m_cache, connVars, app>>
    BY <1>1 DEF ManagerReads
  <1>5. \A d \in Conns : up'[d] <=> up[d] /\ d >= c
    BY <1>4 DEF LineType
  <1>6. last = LastOf(got) /\ mgr'.got = got
    BY <1>4 DEF LastOf
  <1>7. e.t = "CONNECT" /\ e.id = id /\ e.your = last
    OBVIOUS
  <1>8. /\ mgr'.id = IF id = 0 THEN mgr.id ELSE id
        /\ mgr'.ids = IF new THEN id ELSE mgr.ids
        /\ mgr'.cur = IF id = 0 THEN mgr.cur ELSE c
    BY <1>4
  <1>9. mgr.ids \in Nat /\ mgr.id \in Nat
    BY DEF LineType
  <1>10. AskReply(c) /\ id = IF AskWrong(c) THEN 0 ELSE mgr'.id
    <2>1. CASE new
      BY <1>6, <1>8, <1>9, <2>1 DEF AskReply, AskNew, AskWrong
    <2>2. CASE ~new /\ f.id = mgr.id
      BY <1>6, <1>8, <1>9, <2>2 DEF AskReply, AskKnown, AskWrong
    <2>3. CASE ~new /\ f.id # mgr.id
      BY <1>6, <1>8, <1>9, <2>3 DEF AskReply, AskWrong
    <2>4. QED BY <2>1, <2>2, <2>3
  <1> HIDE DEF e, id, last, got
  <1>11. \A i, your : Says(toApc'[c], i, your) => i = id /\ your = LastOf(mgr'.got)
    <2>1. toApc'[c] = <<>> \/ toApc'[c] = <<e>>
      BY <1>3, <1>4 DEF LineType
    <2>2. \A i, your : ~Says(<<>>, i, your)
      BY DEF Says
    <2>3. Len(<<e>>) = 1 /\ <<e>>[1] = e
      OBVIOUS
    <2>4. \A i, your : Says(<<e>>, i, your) => i = id /\ your = last
      BY <1>7, <2>3 DEF Says
    <2>5. QED BY <1>6, <2>1, <2>2, <2>4
  <1>12. \A d \in Conns : d # c => toApc'[d] = toApc[d]
    BY <1>4 DEF LineType
  <1>13. UNCHANGED <<m_state, m_intfId, m_cache, conns, conn, m_apcNotifQ, app>>
    BY <1>4 DEF clientVars, connVars
  <1>14. \A d \in Conns : toMgr'[d] = IF d < c THEN <<>> ELSE IF d = c THEN Tail(toMgr[c]) ELSE toMgr[d]
    BY <1>4
  <1>15. QED BY <1>1, <1>2, <1>3, <1>5, <1>10, <1>11, <1>12, <1>13, <1>14

\* While a question is on the line no answer is under way.
LEMMA AskAlone ==
    ASSUME ClientType, LineType, Lines, Tok, Agree, NEW c \in Conns, Asks(c), NEW id, NEW your
    PROVE  ~Reply(id, your)
  <1> SUFFICES ASSUME Reply(id, your) PROVE FALSE
    OBVIOUS
  <1>1. toMgr[c] # <<>> /\ Asking(c) /\ toApc[c] = <<>> /\ c <= conns
    BY AskEffect
  <1>2. Older
    BY DEF Agree, Answers, AnswerIs
  <1>3. c = conns
    BY <1>1, <1>2, Bounds DEF Older, Conns, ClientType
  <1>4. ~Among(m_apcNotifQ, "CONNECT")
    BY <1>1, <1>3 DEF Tok, Quest, Silent, Unanswered
  <1>5. ~Says(m_apcNotifQ, id, your) /\ ~Says(toApc[c], id, your)
    BY <1>1, <1>4, SaysAmong, NoneIn
  <1>6. QED BY <1>3, <1>5 DEF Reply

\* The Manager that answers a question agrees with the client.
LEMMA AgreeAsk ==
    ASSUME ClientType, LineType, LineType', Lines, Tok, Agree, NEW c \in Conns, Asks(c)
    PROVE  Agree'
  <1>1. /\ toMgr[c] # <<>> /\ Head(toMgr[c]).t = "CONNECT" /\ Head(toMgr[c]).id \in Nat
        /\ Asking(c) /\ ~conn[c].reading /\ mgr.cur # c /\ c <= conns
        /\ AskReply(c)
    BY AskEffect
  <1>2. \A d \in Conns : toMgr'[d] = IF d < c THEN <<>> ELSE IF d = c THEN Tail(toMgr[c]) ELSE toMgr[d]
    BY AskEffect
  <1>3. /\ UNCHANGED <<m_state, m_intfId, m_cache, conns, conn, m_apcNotifQ>>
        /\ \A d \in Conns : d # c => toApc'[d] = toApc[d]
    BY AskEffect
  <1>4. PICK a : /\ \A i, your : Says(toApc'[c], i, your) => i = a /\ your = LastOf(mgr'.got)
                 /\ a = IF AskWrong(c) THEN 0 ELSE mgr'.id
    BY AskEffect
  <1>5. /\ mgr.ids \in Nat /\ mgr'.ids \in Nat /\ mgr.ids <= mgr'.ids /\ m_intfId \in Nat
        /\ mgr.id \in Nat /\ mgr'.id \in Nat /\ c \in Nat \ {0} /\ conns \in Nat
    <2>1. mgr.ids \in Nat /\ mgr'.ids \in Nat /\ mgr.id \in Nat /\ mgr'.id \in Nat
      BY DEF LineType
    <2>2. m_intfId \in Nat /\ c \in Nat \ {0} /\ conns \in Nat
      BY Bounds DEF ClientType, Conns
    <2>3. mgr.ids <= mgr'.ids
      BY <1>1, <2>1 DEF AskReply, AskNew, AskKnown, AskWrong
    <2>4. QED BY <2>1, <2>2, <2>3
  <1>6. \A d \in Conns : Within(toMgr'[d], toMgr[d])
    BY <1>1, <1>2, WithinMade DEF LineType
  <1>7. Questions'
    BY <1>3, <1>5, <1>6, QuestionsKept DEF Agree
  <1>8. /\ NoData(c) /\ Head(toMgr[c]).id <= mgr.ids
        /\ c = conns /\ conn[c].working => Head(toMgr[c]).id = m_intfId
    <2>1. 1 \in 1..Len(toMgr[c]) /\ Head(toMgr[c]) = toMgr[c][1]
      BY <1>1, Tails DEF LineType
    <2>2. QED BY <1>1, <2>1 DEF Agree, Questions, Question
  <1>9. Ids'
    BY <1>1, <1>3, <1>5, <1>8 DEF Ids, Agree, AskReply, AskNew, AskKnown, AskWrong
  <1>10. \A d \in Conns : toMgr[d] = <<>> => toMgr'[d] = <<>>
    BY <1>1, <1>2
  <1>11. Oldest'
    <2>1. CASE mgr'.cur = c
      BY <1>2, <1>3, <2>1 DEF Oldest, Older
    <2>2. CASE mgr'.cur = mgr.cur
      BY <1>3, <1>10, <2>2 DEF Oldest, Older, Agree
    <2>3. QED BY <1>1, <2>1, <2>2 DEF AskReply, AskNew, AskKnown, AskWrong
  <1>12. OneId'
    <2>1. c = conns => m_state # "ONLINE"
      BY <1>1 DEF Tok, Quest, Silent, Unanswered
    <2>2. CASE mgr'.cur = c
      BY <1>3, <2>1, <2>2 DEF OneId
    <2>3. CASE AskWrong(c)
      BY <1>3, <2>3 DEF OneId, Agree, AskWrong
    <2>4. QED BY <1>1, <2>2, <2>3 DEF AskReply, AskNew, AskKnown
  <1>13. ASSUME NEW id, NEW your, Reply(id, your)' PROVE AnswerIs(id, your)'
    <2>1. c = conns /\ conn[c].working /\ Says(toApc'[c], id, your)
      BY <1>1, <1>3, <1>13, AskAlone DEF Reply
    <2>2. id = a /\ your = LastOf(mgr'.got)
      BY <1>4, <2>1
    <2>3. Older' /\ Empty'
      BY <1>2, <1>3, <1>6, <1>8, <2>1, WithinNone DEF Older, Empty, NoData
    <2>4. CASE AskWrong(c)
      BY <1>4, <1>5, <2>2, <2>3, <2>4 DEF AnswerIs
    <2>5. CASE AskNew(c) /\ ~AskWrong(c)
      BY <1>3, <1>4, <1>5, <2>1, <2>2, <2>3, <2>5 DEF AnswerIs, AskNew
    <2>6. CASE AskKnown(c) /\ ~AskWrong(c)
      BY <1>3, <1>4, <1>5, <1>8, <2>1, <2>2, <2>3, <2>6 DEF AnswerIs, AskKnown
    <2>7. QED BY <1>1, <2>4, <2>5, <2>6 DEF AskReply
  <1>14. QED BY <1>7, <1>9, <1>11, <1>12, <1>13 DEF Agree, Answers

\* What the Manager does when it takes a packet of its connection.
LEMMA TakeEffect ==
    ASSUME LineType, NEW c \in Conns, Takes(c)
    PROVE  /\ c = mgr.cur /\ toMgr[c] # <<>> /\ Head(toMgr[c]).t = "DATA" /\ Head(toMgr[c]).seq \in Nat
           /\ ~NoData(c) /\ mgr'.id = mgr.id /\ mgr'.ids = mgr.ids /\ mgr'.cur = mgr.cur
           /\ mgr'.got = Append(mgr.got, Head(toMgr[c]).seq)
           /\ UNCHANGED <<m_state, m_intfId, m_cache, conns, conn, m_apcNotifQ, app, toApc, up>>
           /\ \A d \in Conns : toMgr'[d] = IF d = c THEN Tail(toMgr[c]) ELSE toMgr[d]
  <1> DEFINE f == Head(toMgr[c])
  <1>1. /\ toMgr[c] # <<>> /\ f.t = "DATA" /\ c = mgr.cur /\ toMgr[c] \in Seq(ToMgr)
        /\ mgr' = [mgr EXCEPT !.got = Append(@, f.seq)] /\ toMgr' = [toMgr EXCEPT ![c] = Tail(@)]
        /\ UNCHANGED <<clientVars, m_cache, connVars, app, toApc, up>>
    BY DEF Takes, ManagerReads, LineType
  <1>2. f \in ToMgr /\ f = toMgr[c][1] /\ 1 \in 1..Len(toMgr[c])
    BY <1>1, Tails
  <1>3. f.seq \in Nat /\ ~NoData(c)
    BY <1>1, <1>2, FrameFields DEF NoData, Among
  <1> HIDE DEF f
  <1>4. mgr'.id = mgr.id /\ mgr'.ids = mgr.ids /\ mgr'.cur = mgr.cur /\ mgr'.got = Append(mgr.got, f.seq)
    BY <1>1 DEF LineType
  <1>5. \A d \in Conns : toMgr'[d] = IF d = c THEN Tail(toMgr[c]) ELSE toMgr[d]
    BY <1>1 DEF LineType
  <1>6. QED BY <1>1, <1>3, <1>4, <1>5 DEF clientVars, connVars, f

\* A packet taken keeps the agreement: with an answer under way there is none to take.
LEMMA AgreeTake ==
    ASSUME ClientType, LineType, LineType', Agree, NEW c \in Conns, Takes(c)
    PROVE  Agree'
  <1>1. /\ c = mgr.cur /\ toMgr[c] # <<>> /\ ~NoData(c)
        /\ mgr'.id = mgr.id /\ mgr'.ids = mgr.ids /\ mgr'.cur = mgr.cur
        /\ UNCHANGED <<m_state, m_intfId, m_cache, conns, conn, m_apcNotifQ, toApc>>
    BY TakeEffect
  <1>2. \A d \in Conns : toMgr'[d] = IF d = c THEN Tail(toMgr[c]) ELSE toMgr[d]
    BY TakeEffect
  <1>3. \A d \in Conns : Within(toMgr'[d], toMgr[d])
    BY <1>1, <1>2, WithinMade DEF LineType
  <1>4. mgr.ids \in Nat /\ c # 0
    BY Bounds DEF LineType, Conns
  <1>5. Questions'
    BY <1>1, <1>3, <1>4, QuestionsKept DEF Agree
  <1>6. Ids' /\ OneId'
    BY <1>1 DEF Ids, OneId, Agree
  <1>7. (Older => Older') /\ (Empty => Empty')
    BY <1>1, <1>2, <1>3, WithinNone DEF Older, Empty, NoData
  <1>8. Oldest'
    BY <1>1, <1>7 DEF Oldest, Agree
  <1>9. ASSUME NEW id, NEW your, Reply(id, your)' PROVE AnswerIs(id, your)'
    <2>1. AnswerIs(id, your)
      BY <1>1, <1>9 DEF Reply, Agree, Answers
    <2>2. id = 0
      BY <1>1, <1>4, <2>1 DEF AnswerIs, Empty
    <2>3. QED BY <1>1, <1>7, <2>1, <2>2 DEF AnswerIs
  <1>10. QED BY <1>5, <1>6, <1>8, <1>9 DEF Agree, Answers

\* What an answer means when the client handles it.
LEMMA AnswerHead ==
    ASSUME ClientType, Life, Tok, Agree, Notif("CONNECT")
    PROVE  /\ Silent /\ m_state # "ONLINE" /\ ~Among(Tail(m_apcNotifQ), "CONNECT")
           /\ Head(m_apcNotifQ).c = conns /\ conns \in Conns
           /\ Head(m_apcNotifQ).id \in Nat /\ Head(m_apcNotifQ).your \in Nat
           /\ AnswerIs(Head(m_apcNotifQ).id, Head(m_apcNotifQ).your)
           /\ Tail(m_apcNotifQ) \in Seq(Notifs)
  <1>1. m_apcNotifQ \in Seq(Notifs) /\ m_apcNotifQ # <<>> /\ Head(m_apcNotifQ).t = "CONNECT" /\ AnswerQ(m_apcNotifQ, conns)
    BY DEF ClientType, Notif, Tok, Quest
  <1>2. /\ Among(m_apcNotifQ, "CONNECT") /\ Head(m_apcNotifQ).c = conns /\ ~Among(Tail(m_apcNotifQ), "CONNECT")
    BY <1>1, QueuePop
  <1>3. Head(m_apcNotifQ) \in Notifs /\ Tail(m_apcNotifQ) \in Seq(Notifs)
    BY <1>1, Tails
  <1>4. /\ Head(m_apcNotifQ).c \in Conns /\ Head(m_apcNotifQ).id \in Nat /\ Head(m_apcNotifQ).your \in Nat
    BY <1>1, <1>3, NotifFields
  <1>5. Reply(Head(m_apcNotifQ).id, Head(m_apcNotifQ).your)
    BY <1>1, SaysOne DEF Reply
  <1>6. QED BY <1>2, <1>3, <1>4, <1>5 DEF Tok, Quest, Agree, Answers

\* What apcConnected does in a new session.
LEMMA NewEffect ==
    ASSUME apcConnected_new
    PROVE  /\ Notif("CONNECT") /\ m_intfId = 0 /\ m_intfId' = Head(m_apcNotifQ).id /\ m_intfId' # 0
           /\ m_apcNotifQ' = Tail(m_apcNotifQ) /\ m_state' = "ONLINE"
           /\ UNCHANGED <<m_cache, conn, conns, toMgr, toApc, up, app, mgr>>
  BY DEF apcConnected_new, WrongSession, lineVars

\* The client that takes the number of a new session agrees with the Manager.
LEMMA AgreeNew ==
    ASSUME ClientType, LineType, Life, Tok, Agree, apcConnected_new
    PROVE  Agree'
  <1> DEFINE n == Head(m_apcNotifQ)
  <1>1. /\ Notif("CONNECT") /\ m_intfId = 0 /\ m_intfId' = n.id /\ m_intfId' # 0
        /\ m_apcNotifQ' = Tail(m_apcNotifQ)
        /\ UNCHANGED <<conn, conns, toMgr, toApc, mgr>>
    BY NewEffect
  <1>2. /\ Silent /\ ~Among(Tail(m_apcNotifQ), "CONNECT") /\ AnswerIs(n.id, n.your)
    BY <1>1, AnswerHead
  <1> HIDE DEF n
  <1>3. Silent'
    BY <1>1, <1>2 DEF Silent, Unanswered, Asking, Answered
  <1>4. Answers'
    BY <1>1, <1>2, <1>3, UnrepliedNext DEF Answers
  <1>5. Questions'
    BY <1>1, <1>3, QuestionsSilent DEF Silent, Unanswered, Agree
  <1>6. Ids' /\ OneId'
    BY <1>1, <1>2 DEF Ids, OneId, AnswerIs, Agree
  <1>7. Oldest'
    BY <1>1 DEF Oldest, Older, Agree
  <1>8. QED BY <1>4, <1>5, <1>6, <1>7 DEF Agree

\* What the client writes goes to the newest connection.
LEMMA WrittenOnly ==
    ASSUME LineType, conns \in Conns, NEW fs \in Seq(ToMgr), toMgr' = Written(conns, fs)
    PROVE  /\ \A d \in Conns : d # conns => toMgr'[d] = toMgr[d]
           /\ toMgr'[conns] = IF up[conns] THEN toMgr[conns] \o fs ELSE toMgr[conns]
  BY DEF Written, LineType

\* The cache of a restored session: its oldest packet is the one behind the Manager's last one, if it still has it
\* (CAPCCache::confirmedSeqNum).
LEMMA Confirmed ==
    ASSUME LineType, NEW a \in Nat
    PROVE  /\ confirmedSeqNum(a, TRUE) \in Caches /\ confirmedSeqNum(a, TRUE).last = m_cache.last
           /\ a <= m_cache.last => confirmedSeqNum(a, TRUE).num = Least(m_cache.last - a, CacheSize)
  <1>1. m_cache \in Caches
    BY DEF LineType, Caches
  <1>2. confirmedSeqNum(a, TRUE) \in Caches
    BY <1>1, Confirming
  <1>3. m_cache.last \in Nat /\ m_cache \in [last : Nat, num : Nat]
    BY DEF LineType
  <1>4. QED BY <1>2, <1>3 DEF confirmedSeqNum

\* What apcConnected does in a restored session: it writes the oldest packets of the cache, all of them if it goes
\* online.
LEMMA ReplayEffect ==
    ASSUME ClientType, LineType, Life, Tok, Agree, apcConnected_restored
    PROVE  /\ Notif("CONNECT") /\ m_intfId # 0 /\ Head(m_apcNotifQ).id = m_intfId
           /\ UNCHANGED <<m_intfId, conns, app, mgr, up, toApc>>
           /\ m_cache' \in Caches /\ m_cache'.last = m_cache.last
           /\ Head(m_apcNotifQ).your <= m_cache.last => m_cache'.num = Least(m_cache.last - Head(m_apcNotifQ).your, CacheSize)
           /\ \A d \in Conns : (d # conns => toMgr'[d] = toMgr[d]) /\ (conn'[d].working => conn[d].working)
           /\ ~Among(m_apcNotifQ', "CONNECT")
           /\ \E k \in 0..m_cache'.num :
                 /\ k > 0 => conn[conns].working
                 /\ toMgr'[conns] = IF up[conns] THEN toMgr[conns] \o Replay(m_cache', k) ELSE toMgr[conns]
                 /\ k < m_cache'.num => m_state' = m_state
  <1> DEFINE n == Head(m_apcNotifQ)
  <1>1. /\ Notif("CONNECT") /\ ~WrongSession(n.id) /\ m_intfId # 0 /\ m_pConnector # 0
        /\ UNCHANGED <<m_intfId, conns, app, mgr, up, toApc>> /\ m_cache' = confirmedSeqNum(n.your, TRUE)
    BY DEF apcConnected_restored
  <1>2. n.c = conns /\ conns \in Conns /\ n.your \in Nat /\ ~Among(Tail(m_apcNotifQ), "CONNECT") /\ Tail(m_apcNotifQ) \in Seq(Notifs)
    BY <1>1, AnswerHead
  <1>3. m_pConnector = conns
    BY <1>1 DEF Life, Current
  <1>4. n.id = m_intfId
    BY <1>1 DEF WrongSession
  <1>5. m_cache' \in Caches /\ m_cache'.last = m_cache.last /\ (n.your <= m_cache.last => m_cache'.num = Least(m_cache.last - n.your, CacheSize))
    BY <1>1, <1>2, Confirmed
  <1>6. PICK k \in 0..m_cache'.num :
           /\ k > 0 => CanWrite(conns)
           /\ toMgr' = Written(conns, Replay(m_cache', k))
           /\ \/ k = m_cache'.num /\ m_apcNotifQ' = Tail(m_apcNotifQ) /\ UNCHANGED conn
              \/ k < m_cache'.num /\ (\E flag \in WriteErrors : PopAndStop(n.c, flag)) /\ UNCHANGED m_state
    BY <1>1, <1>3 DEF apcConnected_restored
  <1> HIDE DEF n
  <1>7. Replay(m_cache', k) \in Seq(ToMgr)
    BY <1>5, <1>6, Replaying
  <1>8. /\ \A d \in Conns : d # conns => toMgr'[d] = toMgr[d]
        /\ toMgr'[conns] = IF up[conns] THEN toMgr[conns] \o Replay(m_cache', k) ELSE toMgr[conns]
    BY <1>2, <1>6, <1>7, WrittenOnly
  <1>9. k > 0 => conn[conns].working
    BY <1>6 DEF CanWrite
  <1>10. Ends(conns, Tail(m_apcNotifQ)) \/ (UNCHANGED conn /\ m_apcNotifQ' = Tail(m_apcNotifQ))
    BY <1>2, <1>6, Stopping DEF ClientType
  <1>11. ~Among(m_apcNotifQ', "CONNECT")
    BY <1>2, <1>10, EndsAnswer, QueueNone
  <1>12. \A d \in Conns : conn'[d].working => conn[d].working
    BY <1>2, <1>10, EndsWorking DEF ClientType
  <1>13. k < m_cache'.num => m_state' = m_state
    <2>1. m_cache'.num \in Nat /\ k \in Nat
      BY <1>5, <1>6 DEF Caches
    <2>2. QED BY <1>6, <2>1
  <1>14. QED BY <1>1, <1>4, <1>5, <1>6, <1>8, <1>9, <1>11, <1>12, <1>13 DEF n

\* The replay keeps the agreement.
LEMMA AgreeReplay ==
    ASSUME ClientType, LineType, Life, Lines, Tok, Agree, apcConnected_restored
    PROVE  Agree'
  <1> DEFINE n == Head(m_apcNotifQ)
  <1>1. /\ Notif("CONNECT") /\ m_intfId # 0 /\ n.id = m_intfId /\ m_cache'.last = m_cache.last
        /\ UNCHANGED <<m_intfId, conns, mgr>>
        /\ \A d \in Conns : d # conns => toMgr'[d] = toMgr[d]
        /\ ~Among(m_apcNotifQ', "CONNECT")
    BY ReplayEffect
  <1>2. Silent /\ AnswerIs(n.id, n.your)
    BY <1>1, AnswerHead
  <1> HIDE DEF n
  <1>3. Silent'
    BY <1>1, <1>2, WrittenLess, LessUnanswered DEF Silent
  <1>4. Answers'
    BY <1>1, <1>3, UnrepliedNext DEF Answers
  <1>5. Questions'
    BY <1>1, <1>3, QuestionsSilent DEF Silent, Unanswered, Agree
  <1>6. Ids' /\ OneId'
    BY <1>1, <1>2 DEF Ids, OneId, AnswerIs, Agree
  <1>7. Oldest'
    BY <1>1, Bounds DEF Oldest, Older, Agree, ClientType, Conns
  <1>8. QED BY <1>4, <1>5, <1>6, <1>7 DEF Agree

\* What sendData does: the packet gets the next number, and is written to the newest connection, unless that is
\* broken or the connector ends.
LEMMA SendEffect ==
    ASSUME ClientType, LineType, Life, Tok, sendData
    PROVE  /\ m_state = "ONLINE" /\ m_state' = "ONLINE" /\ conns \in Conns
           /\ UNCHANGED <<m_intfId, conns, app, mgr, up, toApc>> /\ m_cache'.last = m_cache.last + 1
           /\ \A d \in Conns : (d # conns => toMgr'[d] = toMgr[d]) /\ (conn'[d].working => conn[d].working)
           /\ Silent /\ ~Among(m_apcNotifQ', "CONNECT")
           /\ \/ toMgr'[conns] = toMgr[conns] /\ (~up[conns] \/ ~conn'[conns].working)
              \/ /\ conn[conns].working /\ up[conns]
                 /\ toMgr'[conns] = Append(toMgr[conns], [t |-> "DATA", seq |-> m_cache.last + 1])
  <1> DEFINE s == m_cache.last + 1
             e == [t |-> "DATA", seq |-> s]
  <1>1. /\ m_state = "ONLINE" /\ m_pConnector # 0 /\ UNCHANGED <<m_state, m_intfId, conns, app, mgr, up, toApc>>
        /\ m_cache'.last = m_cache.last + 1
    BY DEF sendData, sendData_p, clientVars
  <1>2. m_pConnector = conns /\ conns \in Conns /\ m_apcNotifQ \in Seq(Notifs) /\ conn \in [Conns -> Links]
    BY <1>1, Bounds DEF Life, Current, ClientType, Conns
  <1>3. Silent /\ ~Among(m_apcNotifQ, "CONNECT")
    BY <1>1 DEF Tok, Quest
  <1>4. e \in ToMgr
    <2>1. s \in Nat
      BY DEF LineType
    <2>2. QED BY <2>1, MakeFrames
  <1>5. \/ CanWrite(conns) /\ toMgr' = Written(conns, <<e>>) /\ UNCHANGED <<conn, m_apcNotifQ>>
        \/ (\E flag \in WriteErrors : stopped(conns, flag)) /\ UNCHANGED toMgr
    BY <1>2 DEF sendData, sendData_p
  <1> HIDE DEF e, s
  <1>6. CASE CanWrite(conns) /\ toMgr' = Written(conns, <<e>>) /\ UNCHANGED <<conn, m_apcNotifQ>>
    <2>1. <<e>> \in Seq(ToMgr) /\ toMgr[conns] \in Seq(ToMgr)
      BY <1>2, <1>4, OneFrame DEF LineType
    <2>2. toMgr[conns] \o <<e>> = Append(toMgr[conns], e)
      BY <1>4, <2>1
    <2>3. /\ \A d \in Conns : d # conns => toMgr'[d] = toMgr[d]
          /\ toMgr'[conns] = IF up[conns] THEN toMgr[conns] \o <<e>> ELSE toMgr[conns]
      BY <1>2, <1>6, <2>1, WrittenOnly
    <2>4. QED BY <1>1, <1>2, <1>3, <1>6, <2>2, <2>3 DEF CanWrite, e, s
  <1>7. CASE (\E flag \in WriteErrors : stopped(conns, flag)) /\ UNCHANGED toMgr
    <2>1. Ends(conns, m_apcNotifQ)
      BY <1>2, <1>7, Stopping
    <2>2. ~conn'[conns].working
      BY <1>2, <1>7 DEF stopped, Links
    <2>3. ~Among(m_apcNotifQ', "CONNECT") /\ \A d \in Conns : conn'[d].working => conn[d].working
      BY <1>2, <1>3, <2>1, EndsAnswer, EndsWorking, QueueNone
    <2>4. QED BY <1>1, <1>2, <1>3, <1>7, <2>2, <2>3
  <1>8. QED BY <1>5, <1>6, <1>7

\* A packet that is sent keeps the agreement.
LEMMA AgreeSend ==
    ASSUME ClientType, LineType, Life, Lines, Tok, Agree, sendData
    PROVE  Agree'
  <1>1. /\ m_state = "ONLINE" /\ UNCHANGED <<m_intfId, conns, mgr>> /\ Silent /\ ~Among(m_apcNotifQ', "CONNECT")
        /\ m_state' = m_state
        /\ \A d \in Conns : d # conns => toMgr'[d] = toMgr[d]
    BY SendEffect
  <1>2. Silent'
    BY <1>1, WrittenLess, LessUnanswered DEF Silent
  <1>3. Answers'
    BY <1>1, <1>2, UnrepliedNext DEF Answers
  <1>4. Questions'
    BY <1>1, <1>2, QuestionsSilent DEF Silent, Unanswered, Agree
  <1>5. Ids' /\ OneId'
    BY <1>1 DEF Ids, OneId, Agree
  <1>6. Oldest'
    BY <1>1, Bounds DEF Oldest, Older, Agree, ClientType, Conns
  <1>7. QED BY <1>3, <1>4, <1>5, <1>6 DEF Agree

\* A new connection keeps the agreement: no answer of an earlier one is under way.
LEMMA AgreeOpen ==
    ASSUME ClientType, LineType, Lines, Agree, conns < MaxConns, NEW id \in Nat, Open(id), id = m_intfId',
           id <= mgr.ids, mgr' = mgr, ~Among(m_apcNotifQ, "CONNECT"), m_state' # "ONLINE", id = 0 => m_cache'.last = 0
    PROVE  Agree'
  <1>1. Questions'
    BY QuestionsOpen DEF Agree
  <1>2. PICK k \in Conns : conns' = k /\ k = conns + 1
    BY Opening
  <1>3. toApc' = toApc /\ toApc[k] = <<>> /\ mgr.cur <= conns
    BY <1>2, Bounds DEF Open, Lines, Line, ClientType
  <1>4. PICK n \in Notifs : n.t = "START" /\ m_apcNotifQ' = Append(m_apcNotifQ, n)
    BY Opening
  <1>5. ~Among(m_apcNotifQ', "CONNECT")
    BY <1>4, Added DEF ClientType
  <1>6. \A i, your : ~Reply(i, your)'
    BY <1>2, <1>3, <1>5, SaysAmong, NoneIn DEF Reply
  <1>7. mgr.cur # k
    BY <1>2, <1>3, Bounds DEF ClientType, LineType
  <1>8. Oldest' /\ OneId'
    BY <1>2, <1>7 DEF Oldest, OneId
  <1>9. Ids'
    BY DEF Ids, Agree
  <1>10. QED BY <1>1, <1>6, <1>8, <1>9 DEF Agree, Answers

\* What reconnect_p does when it opens a connection.
LEMMA ReopenEffect ==
    ASSUME ClientType, Life, Tok, Reopens
    PROVE  /\ conns < MaxConns /\ Open(m_intfId) /\ UNCHANGED <<m_state, m_intfId, m_cache, app, mgr>>
           /\ ~Among(m_apcNotifQ, "CONNECT") /\ m_state # "ONLINE" /\ m_intfId \in Nat
  <1>1. conns < MaxConns /\ Open(m_intfId) /\ UNCHANGED <<m_state, m_intfId, m_cache, app, mgr>>
        /\ m_reconnectTimer.due > 0 /\ m_disconnectTime = "SET"
    BY DEF Reopens, reconnect_p, ipConnect_p
  <1>2. TimerOn
    BY <1>1 DEF TimerOn
  <1>3. QED BY <1>1, <1>2 DEF Tok, Deadline, Quest, ClientType

\* What start() does at rest.
LEMMA StartEffect ==
    ASSUME ClientType, Life, Tok, start, start => AtRest
    PROVE  /\ m_intfId' = 0 /\ m_cache'.last = 0 /\ m_state' = "INIT" /\ mgr' = mgr
           /\ ~Among(m_apcNotifQ, "CONNECT") /\ m_apcNotifQ = <<>> /\ \A d \in Conns : ~conn[d].working /\ ~conn[d].reading
           /\ (conns < MaxConns /\ Open(0)) \/ UNCHANGED <<conn, conns, m_apcNotifQ, toMgr, toApc, up>>
  <1>1. AtRest /\ app = "idle"
    BY DEF start
  <1>2. /\ m_apcNotifQ = <<>> /\ ~Working /\ \A d \in Conns : ~conn[d].working /\ ~conn[d].reading
    BY <1>1 DEF Life, IdleRest, AtRest, Working
  <1>3. ~Among(m_apcNotifQ, "CONNECT") /\ m_pConnector = 0
    BY <1>2, Nothing DEF Tok, Known
  <1>4. /\ m_intfId' = 0 /\ m_cache' = [last |-> 0, num |-> 0] /\ m_state' = "INIT" /\ mgr' = mgr
        /\ (conns < MaxConns /\ Open(0)) \/ UNCHANGED <<conn, conns, m_apcNotifQ, toMgr, toApc, up>>
    BY <1>3 DEF start, ipConnect_p, connVars, lineVars
  <1>5. QED BY <1>2, <1>3, <1>4

\* A new session keeps the agreement.
LEMMA AgreeStart ==
    ASSUME ClientType, LineType, Life, Lines, Tok, Agree, start, start => AtRest
    PROVE  Agree'
  <1>1. /\ m_intfId' = 0 /\ m_cache'.last = 0 /\ m_state' = "INIT" /\ mgr' = mgr
        /\ ~Among(m_apcNotifQ, "CONNECT") /\ m_apcNotifQ = <<>> /\ \A d \in Conns : ~conn[d].working /\ ~conn[d].reading
        /\ (conns < MaxConns /\ Open(0)) \/ UNCHANGED <<conn, conns, m_apcNotifQ, toMgr, toApc, up>>
    BY StartEffect
  <1>2. mgr.ids \in Nat /\ 0 <= mgr.ids
    BY DEF LineType
  <1>3. CASE conns < MaxConns /\ Open(0)
    BY <1>1, <1>2, <1>3, AgreeOpen
  <1>4. CASE UNCHANGED <<conn, conns, m_apcNotifQ, toMgr, toApc, up>>
    <2>1. \A i, your : ~Reply(i, your)'
      BY <1>1, <1>4, SaysAmong DEF Reply
    <2>2. Questions'
      BY <1>1, <1>4 DEF Questions, Question, NoData, Agree
    <2>3. Ids' /\ Oldest' /\ OneId'
      BY <1>1, <1>2, <1>4 DEF Ids, Oldest, OneId, Older, Agree
    <2>4. QED BY <2>1, <2>2, <2>3 DEF Agree, Answers
  <1>5. QED BY <1>1, <1>3, <1>4

\* Every step keeps the agreement, if start() is called at rest.
LEMMA AgreeStep ==
    ASSUME ClientType, LineType, Life, Lines, Tok, Agree, [Next]_svars, start => AtRest
    PROVE  Agree'
  <1>1. LineType' /\ (Quiet \/ Loud)
    BY LineTypeStep, QuietStep
  <1>2. CASE Quiet
    BY <1>1, <1>2, AgreeQuiet
  <1>3. ASSUME NEW c \in Conns, Asks(c) PROVE Agree'
    BY <1>1, <1>3, AgreeAsk
  <1>4. ASSUME NEW c \in Conns, Takes(c) PROVE Agree'
    BY <1>1, <1>4, AgreeTake
  <1>5. CASE apcConnected_new
    BY <1>5, AgreeNew
  <1>6. CASE apcConnected_restored
    BY <1>6, AgreeReplay
  <1>7. CASE sendData
    BY <1>7, AgreeSend
  <1>8. CASE Reopens
    <2>1. /\ conns < MaxConns /\ Open(m_intfId) /\ UNCHANGED <<m_state, m_intfId, m_cache, mgr>>
          /\ ~Among(m_apcNotifQ, "CONNECT") /\ m_state # "ONLINE" /\ m_intfId \in Nat
      BY <1>8, ReopenEffect
    <2>2. QED BY <2>1, AgreeOpen DEF Agree, Ids
  <1>9. CASE start
    BY <1>9, AgreeStart
  <1>10. QED BY <1>1, <1>2, <1>3, <1>4, <1>5, <1>6, <1>7, <1>8, <1>9 DEF Loud

\* Packet y follows packet x; a gap between them ends at b or before.
Rel(x, y, b) == x < y /\ (y > x + 1 => y <= b)

\* The packets got follow each other from 0 on.
Got(g, b) == \A i \in 1..Len(g) : Rel(IF i = 1 THEN 0 ELSE g[i - 1], g[i], b)

\* The packets on line l follow each other, and the first one follows p.
Wire(l, p, b) == \A i \in 1..Len(l) : l[i].t = "DATA" =>
                    /\ i = 1 => Rel(p, l[i].seq, b)
                    /\ i > 1 /\ l[i - 1].t = "DATA" => Rel(l[i - 1].seq, l[i].seq, b)

\* Packets got and packets on the line, one behind the other.
Flow(g, l, b) == Got(g, b) /\ Wire(l, LastOf(g), b)

\* No packet on the line is above n.
Below(l, n) == \A i \in 1..Len(l) : l[i].t = "DATA" => l[i].seq <= n

\* Packet n is the last one of the line, or got if the line is empty: n + 1 may follow.
Ready(g, l, n) == /\ l = <<>> => LastOf(g) = n
                  /\ l # <<>> /\ l[Len(l)].t = "DATA" => l[Len(l)].seq = n

\* The line of the connection the Manager takes packets from.
CurLine == IF mgr.cur = 0 THEN <<>> ELSE toMgr[mgr.cur]

\* The invariant of the delivery.  Packets got and those on the Manager's line rise; in the client's own session a gap
\* among them is behind what the full cache held, none is above the last number given out, and the client that is
\* online may send the next one.
Sorted == \E b \in Int : Flow(mgr.got, CurLine, b)
Gapless == Owned => Flow(mgr.got, CurLine, m_cache.last - CacheSize + 1)
Bounded == Owned => LastOf(mgr.got) <= m_cache.last /\ Below(CurLine, m_cache.last)
Fresh == \A c \in Conns : c = conns /\ mgr.cur = c /\ up[c] /\ conn[c].working /\ m_state = "ONLINE" =>
                             Ready(mgr.got, toMgr[c], m_cache.last)
Delivery == Sorted /\ Gapless /\ Bounded /\ Fresh

\* A line without packets follows whatever was got.
LEMMA FlowClear ==
    ASSUME NEW g, NEW l, NEW b, Flow(g, l, b), NEW k, ~Among(k, "DATA")
    PROVE  Flow(g, k, b)
  BY DEF Flow, Wire, Among

\* A new session has got nothing.
LEMMA FlowNew == ASSUME NEW k, ~Among(k, "DATA"), NEW b PROVE Flow(<<>>, k, b)
  BY DEF Flow, Got, Wire, Among

\* A line without packets is below any number.
LEMMA BelowClear == ASSUME NEW k, ~Among(k, "DATA"), NEW n PROVE Below(k, n)
  BY DEF Below, Among

\* The last packet is a number.
LEMMA LastNat == ASSUME NEW g \in Seq(Nat) PROVE LastOf(g) \in Nat
  <1>1. CASE g = <<>>
    BY <1>1 DEF LastOf
  <1>2. CASE g # <<>>
    <2>1. Len(g) \in 1..Len(g)
      BY <1>2
    <2>2. g[Len(g)] \in Nat
      BY <2>1
    <2>3. QED BY <1>2, <2>2 DEF LastOf
  <1>3. QED BY <1>1, <1>2

\* A gap that was allowed stays allowed as the cache moves on.
LEMMA FlowGrows ==
    ASSUME NEW g \in Seq(Nat), NEW l \in Seq(ToMgr), NEW b \in Int, NEW a \in Int, b <= a, Flow(g, l, b)
    PROVE  Flow(g, l, a)
  <1>1. \A x \in Nat, y \in Nat : Rel(x, y, b) => Rel(x, y, a)
    BY DEF Rel
  <1>2. \A i \in 1..Len(g) : g[i] \in Nat /\ (IF i = 1 THEN 0 ELSE g[i - 1]) \in Nat
    OBVIOUS
  <1>3. Got(g, a)
    BY <1>1, <1>2 DEF Flow, Got
  <1>4. \A i \in 1..Len(l) : l[i].t = "DATA" => l[i].seq \in Nat
    BY FrameFields
  <1>5. \A i \in 1..Len(l) : i > 1 => i - 1 \in 1..Len(l)
    OBVIOUS
  <1>6. LastOf(g) \in Nat
    BY LastNat
  <1>7. Wire(l, LastOf(g), a)
    BY <1>1, <1>4, <1>5, <1>6 DEF Flow, Wire
  <1>8. QED BY <1>3, <1>7 DEF Flow

\* One more frame at the end of the line.
LEMMA FlowEnd ==
    ASSUME NEW g \in Seq(Nat), NEW l \in Seq(ToMgr), NEW b, Flow(g, l, b), NEW e \in ToMgr,
           e.t = "DATA" => /\ l = <<>> => Rel(LastOf(g), e.seq, b)
                           /\ l # <<>> /\ l[Len(l)].t = "DATA" => Rel(l[Len(l)].seq, e.seq, b)
    PROVE  Flow(g, Append(l, e), b)
  <1> DEFINE u == Append(l, e)
  <1>1. /\ Len(u) = Len(l) + 1 /\ Len(l) \in Nat /\ u[Len(l) + 1] = e
        /\ \A i \in 1..Len(l) : u[i] = l[i]
    BY Appends
  <1>2. (l = <<>>) <=> (Len(l) = 0)
    BY EmptyLen
  <1> HIDE DEF u
  <1>3. ASSUME NEW i \in 1..Len(u), u[i].t = "DATA"
        PROVE  /\ i = 1 => Rel(LastOf(g), u[i].seq, b)
               /\ i > 1 /\ u[i - 1].t = "DATA" => Rel(u[i - 1].seq, u[i].seq, b)
    <2>1. CASE i \in 1..Len(l)
      <3>1. u[i] = l[i] /\ (i > 1 => u[i - 1] = l[i - 1])
        BY <1>1, <2>1
      <3>2. QED BY <1>3, <2>1, <3>1 DEF Flow, Wire
    <2>2. CASE i = Len(l) + 1
      <3>1. u[i] = e /\ (i > 1 => Len(l) \in 1..Len(l) /\ u[i - 1] = l[Len(l)] /\ l # <<>>) /\ (i = 1 => l = <<>>)
        BY <1>1, <1>2, <2>2
      <3>2. QED BY <1>3, <3>1
    <2>3. QED BY <1>1, <2>1, <2>2
  <1>4. Wire(u, LastOf(g), b)
    BY <1>3 DEF Wire
  <1>5. QED BY <1>4 DEF Flow, u

\* The first packet of the line is got.
LEMMA FlowTake ==
    ASSUME NEW g \in Seq(Nat), NEW l \in Seq(ToMgr), NEW b, Flow(g, l, b), l # <<>>, Head(l).t = "DATA", Head(l).seq \in Nat
    PROVE  Flow(Append(g, Head(l).seq), Tail(l), b) /\ LastOf(Append(g, Head(l).seq)) = Head(l).seq
  <1> DEFINE h == Head(l).seq
             u == Append(g, h)
             v == Tail(l)
  <1>1. /\ Len(u) = Len(g) + 1 /\ Len(g) \in Nat /\ u[Len(g) + 1] = h
        /\ \A i \in 1..Len(g) : u[i] = g[i]
    BY Appends
  <1>2. /\ Len(u) = Len(g) + 1 /\ Len(g) \in Nat /\ u[Len(g) + 1] = h /\ u # <<>>
        /\ \A i \in 1..Len(g) : u[i] = g[i]
    <2>1. Len(<<>>) = 0
      OBVIOUS
    <2> HIDE DEF u
    <2>2. QED BY <1>1, <2>1
  <1>3. /\ Len(l) \in Nat \ {0} /\ l[1].t = "DATA" /\ h = l[1].seq
        /\ \A i \in 1..Len(v) : i + 1 \in 1..Len(l) /\ v[i] = l[i + 1]
    BY Tails
  <1>4. Rel(LastOf(g), h, b)
    BY <1>3 DEF Flow, Wire
  <1>5. (g = <<>>) <=> (Len(g) = 0)
    BY EmptyLen
  <1> HIDE DEF h, u, v
  <1>6. ASSUME NEW i \in 1..Len(u) PROVE Rel(IF i = 1 THEN 0 ELSE u[i - 1], u[i], b)
    <2>1. CASE i \in 1..Len(g)
      <3>1. u[i] = g[i] /\ (i # 1 => u[i - 1] = g[i - 1])
        BY <1>2, <2>1
      <3>2. QED BY <2>1, <3>1 DEF Flow, Got
    <2>2. CASE i = Len(g) + 1
      <3>1. u[i] = h /\ (i # 1 => u[i - 1] = g[Len(g)] /\ g # <<>>) /\ (i = 1 => g = <<>>)
        BY <1>2, <1>5, <2>2
      <3>2. QED BY <1>4, <3>1 DEF LastOf
    <2>3. QED BY <1>2, <2>1, <2>2
  <1>7. LastOf(u) = h
    BY <1>2 DEF LastOf
  <1>8. ASSUME NEW i \in 1..Len(v), v[i].t = "DATA"
        PROVE  /\ i = 1 => Rel(h, v[i].seq, b)
               /\ i > 1 /\ v[i - 1].t = "DATA" => Rel(v[i - 1].seq, v[i].seq, b)
    <2>1. /\ i + 1 \in 1..Len(l) /\ i + 1 > 1 /\ v[i] = l[i + 1] /\ (i + 1) - 1 = i
          /\ i > 1 => v[i - 1] = l[i]
      BY <1>3
    <2>2. l[i].t = "DATA" => Rel(l[i].seq, l[i + 1].seq, b)
      BY <1>8, <2>1 DEF Flow, Wire
    <2>3. QED BY <1>3, <2>1, <2>2
  <1>9. Flow(u, v, b)
    BY <1>6, <1>7, <1>8 DEF Flow, Got, Wire
  <1>10. QED BY <1>7, <1>9 DEF u, v, h

\* Taking a packet does not change which one comes next.
LEMMA ReadyTake ==
    ASSUME NEW g \in Seq(Nat), NEW l \in Seq(ToMgr), l # <<>>, Head(l).t = "DATA", Head(l).seq \in Nat, NEW n, Ready(g, l, n)
    PROVE  Ready(Append(g, Head(l).seq), Tail(l), n)
  <1> DEFINE v == Tail(l)
             h == Head(l).seq
  <1>1. /\ Len(l) \in Nat \ {0} /\ l[1].t = "DATA" /\ h = l[1].seq /\ Len(v) = Len(l) - 1 /\ v \in Seq(ToMgr)
        /\ \A i \in 1..Len(v) : i + 1 \in 1..Len(l) /\ v[i] = l[i + 1]
    BY Tails
  <1>2. h \in Nat
    BY DEF h
  <1> HIDE DEF v, h
  <1>3. LastOf(Append(g, h)) = h
    <2>1. /\ Len(Append(g, h)) = Len(g) + 1 /\ Append(g, h)[Len(g) + 1] = h
          /\ Append(g, h) \in Seq(Nat) /\ Len(g) \in Nat
      BY <1>2, Appends
    <2> DEFINE u == Append(g, h)
    <2>2. /\ Len(u) = Len(g) + 1 /\ u[Len(g) + 1] = h /\ u \in Seq(Nat) /\ Len(g) \in Nat
      BY <2>1
    <2> HIDE DEF u
    <2>3. u # <<>> /\ u[Len(u)] = h
      BY <2>2
    <2>4. LastOf(u) = h
      BY <2>3 DEF LastOf
    <2>5. QED BY <2>4 DEF u
  <1>4. (v = <<>>) <=> (Len(v) = 0)
    BY <1>1, EmptyLen
  <1>5. ASSUME v = <<>> PROVE Ready(Append(g, h), v, n)
    <2>1. Len(l) = 1 /\ h = n
      <3>1. Len(l) = 1
        BY <1>1, <1>4, <1>5
      <3>2. QED BY <1>1, <3>1 DEF Ready
    <2>2. QED BY <1>3, <1>5, <2>1 DEF Ready
  <1>6. ASSUME v # <<>> PROVE Ready(Append(g, h), v, n)
    <2>1. Len(v) \in 1..Len(v) /\ Len(v) + 1 = Len(l)
      BY <1>1, <1>4, <1>6
    <2>2. v[Len(v)] = l[Len(l)]
      BY <1>1, <2>1
    <2>3. QED BY <1>6, <2>2 DEF Ready
  <1>7. Ready(Append(g, h), v, n)
    BY <1>5, <1>6
  <1>8. QED BY <1>7 DEF v, h

\* The replay of a cache behind a line without packets.
LEMMA FlowReplay ==
    ASSUME NEW g \in Seq(Nat), NEW l \in Seq(ToMgr), NEW b \in Int, Flow(g, l, b), ~Among(l, "DATA"),
           NEW cache \in Caches, NEW k \in 0..cache.num,
           k > 0 /\ l = <<>> => Rel(LastOf(g), cache.last - cache.num + 1, b)
    PROVE  /\ Flow(g, l \o Replay(cache, k), b) /\ Below(l \o Replay(cache, k), cache.last)
           /\ k = 0 => ~Among(l \o Replay(cache, k), "DATA") /\ (l \o Replay(cache, k) = <<>> => l = <<>>)
           /\ k = cache.num /\ k > 0 => /\ l \o Replay(cache, k) # <<>>
                                        /\ (l \o Replay(cache, k))[Len(l \o Replay(cache, k))].seq = cache.last
  <1> DEFINE r == Replay(cache, k)
             u == l \o r
             o == cache.last - cache.num
  <1>1. /\ r \in Seq(ToMgr) /\ Len(r) = k /\ k \in Nat /\ o \in Nat /\ o + k <= cache.last /\ (k = cache.num => o + k = cache.last)
        /\ \A i \in 1..k : r[i] = [t |-> "DATA", seq |-> o + i]
    BY Replaying DEF Caches
  <1>2. \A i \in 1..k : r[i].t = "DATA" /\ r[i].seq = o + i
    BY <1>1
  <1> HIDE DEF r, o
  <1>3. /\ Len(u) = Len(l) + k /\ Len(l) \in Nat
        /\ \A i \in 1..Len(l) : u[i] = l[i]
        /\ \A i \in 1..k : u[Len(l) + i] = r[i]
    <2>1. r \in Seq(ToMgr) /\ Len(r) = k /\ k \in Nat
      BY <1>1
    <2>2. /\ Len(l) \in Nat /\ Len(u) = Len(l) + Len(r)
          /\ \A i \in 1..Len(u) : u[i] = IF i <= Len(l) THEN l[i] ELSE r[i - Len(l)]
      BY <2>1
    <2> HIDE DEF u
    <2>3. \A i \in 1..Len(l) : u[i] = l[i]
      BY <2>1, <2>2
    <2>4. ASSUME NEW i \in 1..k PROVE u[Len(l) + i] = r[i]
      <3>1. Len(l) + i \in 1..Len(u) /\ ~(Len(l) + i <= Len(l)) /\ (Len(l) + i) - Len(l) = i
        BY <2>1, <2>2
      <3>2. QED BY <2>2, <3>1
    <2>5. QED BY <2>1, <2>2, <2>3, <2>4
  <1>4. ((l = <<>>) <=> (Len(l) = 0)) /\ ((u = <<>>) <=> (Len(u) = 0))
    <2>1. u \in Seq(ToMgr)
      BY <1>1
    <2>2. QED BY <2>1, EmptyLen
  <1> HIDE DEF u
  <1>5. ASSUME NEW i \in 1..Len(u), u[i].t = "DATA"
        PROVE  /\ i - Len(l) \in 1..k /\ u[i].seq = o + (i - Len(l)) /\ u[i].seq <= cache.last
               /\ i > 1 /\ u[i - 1].t = "DATA" => i - Len(l) > 1 /\ u[i - 1].seq = o + (i - Len(l)) - 1
    <2>1. \A j \in 1..Len(u) : u[j].t = "DATA" => j - Len(l) \in 1..k /\ u[j] = r[j - Len(l)]
      <3>1. SUFFICES ASSUME NEW j \in 1..Len(u), u[j].t = "DATA" PROVE j - Len(l) \in 1..k /\ u[j] = r[j - Len(l)]
        OBVIOUS
      <3>2. j \notin 1..Len(l)
        BY <1>3, <3>1 DEF Among
      <3>3. j - Len(l) \in 1..k /\ Len(l) + (j - Len(l)) = j
        BY <1>3, <3>2
      <3>4. QED BY <1>3, <3>3
    <2>2. i - Len(l) \in 1..k /\ u[i].seq = o + (i - Len(l))
      BY <1>2, <1>5, <2>1
    <2>3. u[i].seq <= cache.last
      BY <1>1, <2>2 DEF Caches
    <2>4. ASSUME i > 1, u[i - 1].t = "DATA" PROVE i - Len(l) > 1 /\ u[i - 1].seq = o + (i - Len(l)) - 1
      <3>1. i - 1 \in 1..Len(u)
        BY <2>4, <1>3, <1>1
      <3>2. (i - 1) - Len(l) \in 1..k /\ u[i - 1].seq = o + ((i - 1) - Len(l))
        BY <1>2, <2>1, <2>4, <3>1
      <3>3. QED BY <1>1, <1>3, <3>2
    <2>5. QED BY <2>2, <2>3, <2>4
  <1>6. ASSUME NEW i \in 1..Len(u), u[i].t = "DATA"
        PROVE  /\ i = 1 => Rel(LastOf(g), u[i].seq, b)
               /\ i > 1 /\ u[i - 1].t = "DATA" => Rel(u[i - 1].seq, u[i].seq, b)
    <2>1. ASSUME i = 1 PROVE Rel(LastOf(g), u[i].seq, b)
      <3>1. Len(l) = 0 /\ k > 0 /\ u[i].seq = o + 1
        BY <1>1, <1>3, <1>5, <1>6, <2>1
      <3>2. QED BY <1>4, <3>1 DEF o
    <2>2. ASSUME i > 1, u[i - 1].t = "DATA" PROVE Rel(u[i - 1].seq, u[i].seq, b)
      <3>1. i - Len(l) \in 1..k /\ u[i].seq = o + (i - Len(l)) /\ u[i - 1].seq = o + (i - Len(l)) - 1
        BY <1>5, <1>6, <2>2
      <3>2. o \in Nat
        BY <1>1
      <3>3. PICK j \in 1..k : j = i - Len(l)
        BY <3>1
      <3>4. u[i].seq = o + j /\ u[i - 1].seq = o + j - 1 /\ j \in Nat
        BY <1>1, <3>1, <3>3
      <3>5. u[i].seq \in Nat /\ u[i].seq = u[i - 1].seq + 1 /\ u[i - 1].seq \in Int
        BY <3>2, <3>4
      <3>6. QED BY <3>5 DEF Rel
    <2>3. QED BY <2>1, <2>2
  <1>7. Flow(g, u, b) /\ Below(u, cache.last)
    BY <1>5, <1>6 DEF Flow, Wire, Below
  <1>8. k = 0 => ~Among(u, "DATA") /\ (u = <<>> => l = <<>>)
    <2>1. k = 0 => 1..k = {}
      BY <1>1
    <2>2. k = 0 => ~Among(u, "DATA")
      BY <1>5, <2>1 DEF Among
    <2>3. QED BY <1>3, <1>4, <2>2
  <1>9. ASSUME k = cache.num, k > 0 PROVE u # <<>> /\ u[Len(u)].seq = cache.last
    <2>1. Len(u) = Len(l) + k /\ k \in 1..k /\ Len(u) # 0
      BY <1>1, <1>3, <1>9
    <2>2. u[Len(u)] = r[k]
      BY <1>3, <2>1
    <2>3. QED BY <1>1, <1>2, <1>4, <1>9, <2>1, <2>2
  <1>10. QED BY <1>7, <1>8, <1>9 DEF u, r

\* The types of what the delivery is about.
LEMMA LineTyped ==
    ASSUME LineType
    PROVE  /\ CurLine \in Seq(ToMgr) /\ mgr.got \in Seq(Nat) /\ m_cache.last \in Nat /\ LastOf(mgr.got) \in Nat
           /\ mgr.cur # 0 => mgr.cur \in Conns /\ CurLine = toMgr[mgr.cur]
           /\ mgr.cur = 0 => CurLine = <<>>
           /\ m_cache.last - CacheSize + 1 \in Int
  <1>1. mgr.cur \in 0..MaxConns /\ mgr.got \in Seq(Nat) /\ m_cache.last \in Nat /\ toMgr \in [Conns -> Seq(ToMgr)]
    BY DEF LineType
  <1>2. mgr.cur # 0 => mgr.cur \in Conns
    BY <1>1, Bounds DEF Conns
  <1>3. CurLine \in Seq(ToMgr)
    BY <1>1, <1>2 DEF CurLine
  <1>4. QED BY <1>1, <1>2, <1>3, LastNat, Bounds DEF CurLine

\* What is left of a line is below what the line was below.
LEMMA BelowWithin ==
    ASSUME NEW u, NEW s, Within(u, s), NEW n, Below(s, n) PROVE Below(u, n)
  BY DEF Within, Below

\* A step on which the Manager gets no packet and none is written for it.
LEMMA DeliveryKept ==
    ASSUME Delivery, \A b \in Int : Flow(mgr.got, CurLine, b) => Flow(mgr.got, CurLine', b),
           mgr'.got = mgr.got, Owned' => Owned /\ m_cache'.last = m_cache.last,
           m_cache.last - CacheSize + 1 \in Int,
           Below(CurLine, m_cache.last) => Below(CurLine', m_cache.last), Fresh'
    PROVE  Delivery'
  <1>1. Sorted'
    BY DEF Delivery, Sorted
  <1>2. Gapless'
    BY DEF Delivery, Gapless
  <1>3. Bounded'
    BY DEF Delivery, Bounded
  <1>4. QED BY <1>1, <1>2, <1>3 DEF Delivery

\* A quiet step keeps the delivery.
LEMMA DeliveryQuiet ==
    ASSUME ClientType, LineType, LineType', Delivery, Quiet
    PROVE  Delivery'
  <1>1. /\ UNCHANGED <<m_intfId, conns>> /\ (m_state' = m_state \/ m_state' # "ONLINE")
        /\ app' # "idle" => app # "idle"
        /\ m_cache'.last = m_cache.last \/ (app' = "idle" /\ ~Working')
    BY DEF Quiet, QuietClient
  <1>2. /\ mgr'.got = mgr.got
        /\ (mgr'.id = mgr.id /\ mgr'.cur = mgr.cur) \/ (mgr'.id = 0 /\ mgr'.cur = 0)
    BY DEF Quiet, QuietMgr
  <1>3. /\ CurLine \in Seq(ToMgr) /\ mgr.got \in Seq(Nat) /\ m_cache.last - CacheSize + 1 \in Int
        /\ mgr.cur # 0 => mgr.cur \in Conns /\ CurLine = toMgr[mgr.cur]
    BY LineTyped
  <1> DEFINE e == [t |-> "DISCONNECT"]
  <1>4. e \in ToMgr /\ e.t # "DATA"
    BY MakeFrames
  <1>5. CurLine' = CurLine \/ CurLine' = <<>> \/ CurLine' = Append(CurLine, e)
    <2>1. CASE mgr'.cur = 0
      BY <2>1 DEF CurLine
    <2>2. CASE mgr'.cur # 0
      <3>1. mgr'.cur = mgr.cur /\ mgr.cur \in Conns /\ CurLine' = toMgr'[mgr.cur]
        BY <1>2, <1>3, <2>2 DEF CurLine
      <3>2. QuietWire(mgr.cur)
        BY <3>1 DEF Quiet, QuietWires
      <3>3. QED BY <1>3, <2>2, <3>1, <3>2 DEF QuietWire
    <2>3. QED BY <2>1, <2>2
  <1> HIDE DEF e
  <1>6. ~Among(<<>>, "DATA")
    BY DEF Among
  <1>7. \A b \in Int : Flow(mgr.got, CurLine, b) => Flow(mgr.got, CurLine', b)
    BY <1>3, <1>4, <1>5, <1>6, FlowClear, FlowEnd
  <1>8. Below(CurLine, m_cache.last) => Below(CurLine', m_cache.last)
    BY <1>3, <1>5, WithinMade, BelowWithin DEF e
  <1>9. Owned' => Owned /\ m_cache'.last = m_cache.last
    BY <1>1, <1>2 DEF Owned
  <1>10. Fresh'
    <2> SUFFICES ASSUME NEW c \in Conns, c = conns', mgr'.cur = c, up'[c], conn'[c].working, m_state' = "ONLINE"
                 PROVE  Ready(mgr'.got, toMgr'[c], m_cache'.last)
      BY DEF Fresh
    <2>1. up[c] /\ conn[c].working /\ m_state = "ONLINE" /\ c = conns /\ c # 0
      BY <1>1, Bounds DEF Quiet, QuietWires, QuietConn, Conns
    <2>2. mgr.cur = c /\ m_cache'.last = m_cache.last
      BY <1>1, <1>2, <2>1 DEF Working
    <2>3. toMgr'[c] = toMgr[c]
      BY <2>1 DEF Quiet, QuietWires, QuietWire
    <2>4. QED BY <1>2, <2>1, <2>2, <2>3 DEF Delivery, Fresh
  <1>11. QED BY <1>2, <1>3, <1>7, <1>8, <1>9, <1>10, DeliveryKept

\* The Manager that answers a question keeps the delivery: the packets it closes with the older connections are
\* the ones it will be replayed.
LEMMA DeliveryAsk ==
    ASSUME ClientType, LineType, LineType', Lines, Tok, Agree, Delivery, NEW c \in Conns, Asks(c)
    PROVE  Delivery'
  <1>1. /\ toMgr[c] # <<>> /\ Head(toMgr[c]).t = "CONNECT" /\ Asking(c) /\ mgr.cur # c
        /\ AskReply(c)
    BY AskEffect
  <1>2. \A d \in Conns : toMgr'[d] = IF d < c THEN <<>> ELSE IF d = c THEN Tail(toMgr[c]) ELSE toMgr[d]
    BY AskEffect
  <1>3. /\ UNCHANGED <<m_state, m_intfId, m_cache, conns, conn, app>>
        /\ \A d \in Conns : up'[d] <=> up[d] /\ d >= c
    BY AskEffect
  <1>4. NoData(c) /\ toMgr[c] \in Seq(ToMgr)
    <2>1. 1 \in 1..Len(toMgr[c]) /\ Head(toMgr[c]) = toMgr[c][1]
      BY <1>1, Tails DEF LineType
    <2>2. QED BY <1>1, <2>1 DEF Agree, Questions, Question, LineType
  <1>5. c # 0 /\ c \in Nat /\ m_intfId \in Nat /\ mgr.ids \in Nat
    BY Bounds DEF Conns, ClientType, LineType
  <1>6. /\ CurLine \in Seq(ToMgr) /\ mgr.got \in Seq(Nat) /\ m_cache.last - CacheSize + 1 \in Int
        /\ mgr.cur # 0 => mgr.cur \in Conns /\ CurLine = toMgr[mgr.cur]
        /\ mgr.cur = 0 => CurLine = <<>>
    BY LineTyped
  <1>7. ~Among(<<>>, "DATA")
    BY DEF Among
  <1>8. c = conns => m_state # "ONLINE"
    BY <1>1 DEF Tok, Quest, Silent, Unanswered
  <1>9. ASSUME mgr'.cur = c PROVE ~Among(CurLine', "DATA") /\ Fresh'
    <2>1. CurLine' = Tail(toMgr[c])
      BY <1>2, <1>5, <1>9 DEF CurLine
    <2>2. ~Among(CurLine', "DATA")
      BY <1>1, <1>4, <2>1, WithinMade, WithinNone DEF NoData
    <2>3. QED BY <1>3, <1>8, <1>9, <2>2 DEF Fresh
  <1>10. CASE AskNew(c)
    <2>1. mgr'.cur = c /\ mgr'.got = <<>> /\ mgr'.id = mgr.ids + 1
      BY <1>10 DEF AskNew
    <2>2. ~Owned'
      BY <1>3, <1>5, <2>1 DEF Owned, Agree, Ids
    <2>3. 0 \in Int /\ Flow(mgr'.got, CurLine', 0)
      BY <1>9, <2>1, FlowNew
    <2>4. Sorted'
      BY <2>3 DEF Sorted
    <2>5. QED BY <1>9, <2>1, <2>2, <2>4 DEF Delivery, Gapless, Bounded
  <1>11. CASE AskKnown(c)
    <2>1. mgr'.cur = c /\ mgr'.got = mgr.got /\ mgr'.id = mgr.id
      BY <1>11 DEF AskKnown
    <2>2. Owned' => Owned
      BY <1>3, <2>1 DEF Owned
    <2>3. QED BY <1>3, <1>6, <1>9, <2>1, <2>2, FlowClear, BelowClear, DeliveryKept
  <1>12. CASE AskWrong(c)
    <2>1. mgr'.cur = mgr.cur /\ mgr'.got = mgr.got /\ mgr'.id = mgr.id
      BY <1>12 DEF AskWrong
    <2>2. Owned' => Owned
      BY <1>3, <2>1 DEF Owned
    <2>3. CurLine' = CurLine \/ CurLine' = <<>>
      BY <1>1, <1>2, <1>6, <2>1 DEF CurLine
    <2>4. Fresh'
      <3> SUFFICES ASSUME NEW d \in Conns, d = conns, mgr'.cur = d, up'[d], conn[d].working, m_state = "ONLINE"
                   PROVE  Ready(mgr'.got, toMgr'[d], m_cache.last)
        BY <1>3 DEF Fresh
      <3>1. toMgr'[d] = toMgr[d]
        <4>1. d # c /\ ~(d < c)
          BY <1>1, <1>3, <1>5, <2>1, Bounds DEF Conns
        <4>2. QED BY <1>2, <4>1
      <3>2. QED BY <1>3, <2>1, <3>1 DEF Delivery, Fresh
    <2>5. QED BY <1>3, <1>6, <1>7, <2>1, <2>2, <2>3, <2>4, FlowClear, BelowClear, DeliveryKept
  <1>13. QED BY <1>1, <1>10, <1>11, <1>12 DEF AskReply

\* The Manager takes the next packet.
LEMMA DeliveryTake ==
    ASSUME ClientType, LineType, Delivery, NEW c \in Conns, Takes(c)
    PROVE  Delivery'
  <1> DEFINE h == Head(toMgr[c]).seq
             l == toMgr[c]
  <1>1. /\ c = mgr.cur /\ l # <<>> /\ Head(l).t = "DATA" /\ h \in Nat
        /\ mgr'.id = mgr.id /\ mgr'.cur = mgr.cur /\ mgr'.got = Append(mgr.got, h)
        /\ UNCHANGED <<m_state, m_intfId, m_cache, conns, conn, app, up>>
    BY TakeEffect
  <1>2. \A d \in Conns : toMgr'[d] = IF d = c THEN Tail(toMgr[c]) ELSE toMgr[d]
    BY TakeEffect
  <1>3. c # 0
    BY Bounds DEF Conns
  <1>4. l \in Seq(ToMgr) /\ mgr.got \in Seq(Nat) /\ CurLine = l /\ m_cache.last - CacheSize + 1 \in Int
    BY <1>1, <1>3, LineTyped
  <1>5. CurLine' = Tail(l)
    BY <1>1, <1>2, <1>3 DEF CurLine
  <1>6. Owned' => Owned
    BY <1>1 DEF Owned
  <1>7. \A b \in Int : Flow(mgr.got, l, b) => Flow(Append(mgr.got, h), Tail(l), b)
    BY <1>1, <1>4, FlowTake
  <1>8. LastOf(Append(mgr.got, h)) = h
    BY <1>1, <1>4, Appends DEF LastOf
  <1>9. Below(l, m_cache.last) => h <= m_cache.last /\ Below(Tail(l), m_cache.last)
    <2>1. 1 \in 1..Len(l) /\ Head(l) = l[1]
      BY <1>1, <1>4, Tails
    <2>2. Within(Tail(l), l)
      BY <1>1, <1>4, WithinMade
    <2>3. QED BY <1>1, <2>1, <2>2, BelowWithin DEF Below
  <1> HIDE DEF h, l
  <1>10. Sorted'
    BY <1>1, <1>4, <1>5, <1>7 DEF Sorted, Delivery
  <1>11. Gapless'
    BY <1>1, <1>4, <1>5, <1>6, <1>7 DEF Gapless, Delivery
  <1>12. Bounded'
    BY <1>1, <1>4, <1>5, <1>6, <1>8, <1>9 DEF Bounded, Delivery
  <1>13. Fresh'
    <2> SUFFICES ASSUME NEW d \in Conns, d = conns, mgr.cur = d, up[d], conn[d].working, m_state = "ONLINE"
                 PROVE  Ready(mgr'.got, toMgr'[d], m_cache.last)
      BY <1>1 DEF Fresh
    <2>1. d = c /\ toMgr'[d] = Tail(l)
      BY <1>1, <1>2 DEF l
    <2>2. Ready(mgr.got, l, m_cache.last)
      BY <2>1 DEF Delivery, Fresh, l
    <2>3. QED BY <1>1, <1>4, <2>1, <2>2, ReadyTake DEF h, l
  <1>14. QED BY <1>10, <1>11, <1>12, <1>13 DEF Delivery

\* The next packet of a line without packets.
LEMMA ReadyClear ==
    ASSUME NEW g, NEW l \in Seq(ToMgr), ~Among(l, "DATA"), NEW n, l = <<>> => LastOf(g) = n
    PROVE  Ready(g, l, n)
  <1>1. l # <<>> => Len(l) \in 1..Len(l)
    OBVIOUS
  <1>2. QED BY <1>1 DEF Ready, Among

\* A new session begins with packet 1.
LEMMA DeliveryNew ==
    ASSUME ClientType, LineType, Life, Tok, Agree, Delivery, apcConnected_new
    PROVE  Delivery'
  <1> DEFINE n == Head(m_apcNotifQ)
  <1>1. /\ Notif("CONNECT") /\ m_intfId = 0 /\ m_intfId' = n.id /\ m_intfId' # 0
        /\ UNCHANGED <<m_cache, conn, conns, toMgr, up, app, mgr>>
    BY NewEffect
  <1>2. AnswerIs(n.id, n.your) /\ conns \in Conns
    BY <1>1, AnswerHead
  <1> HIDE DEF n
  <1>3. m_cache.last = 0
    BY <1>1 DEF Agree, Ids
  <1>4. CurLine' = CurLine
    BY <1>1 DEF CurLine
  <1>5. Sorted'
    BY <1>1, <1>4 DEF Delivery, Sorted
  <1>6. /\ mgr.cur # 0 => mgr.cur \in Conns /\ CurLine = toMgr[mgr.cur]
    BY LineTyped
  <1>7. CASE mgr.cur = 0
    <2>1. mgr.id = 0
      BY <1>1, <1>2, <1>7 DEF AnswerIs
    <2>2. ~Owned'
      BY <1>1, <2>1 DEF Owned
    <2>3. Fresh'
      BY <1>1, <1>7, Bounds DEF Fresh, Conns
    <2>4. QED BY <1>5, <2>2, <2>3 DEF Delivery, Gapless, Bounded
  <1>8. CASE mgr.cur # 0
    <2>1. mgr.cur = conns /\ mgr.got = <<>> /\ Empty
      BY <1>1, <1>2, <1>8 DEF AnswerIs
    <2>2. ~Among(CurLine, "DATA")
      BY <1>2, <1>6, <1>8, <2>1 DEF Empty, NoData
    <2>3. LastOf(<<>>) = 0
      BY DEF LastOf
    <2>4. Gapless'
      BY <1>1, <1>4, <2>1, <2>2, FlowNew DEF Gapless
    <2>5. Bounded'
      BY <1>1, <1>3, <1>4, <2>1, <2>2, <2>3, BelowClear DEF Bounded
    <2>6. toMgr[conns] \in Seq(ToMgr) /\ CurLine = toMgr[conns]
      BY <1>2, <1>6, <1>8, <2>1 DEF LineType
    <2>7. Ready(mgr.got, toMgr[conns], m_cache.last)
      BY <1>3, <2>1, <2>2, <2>3, <2>6, ReadyClear
    <2>8. Fresh'
      BY <1>1, <2>7 DEF Fresh
    <2>9. QED BY <1>5, <2>4, <2>5, <2>8 DEF Delivery
  <1>9. QED BY <1>7, <1>8

\* The oldest packet of the cache follows the Manager's last one, or the cache overflowed in between.
LEMMA Behind ==
    ASSUME NEW y \in Nat, NEW last \in Nat, y <= last
    PROVE  /\ Rel(y, last - Least(last - y, CacheSize) + 1, last - CacheSize + 1) \/ Least(last - y, CacheSize) = 0
           /\ Least(last - y, CacheSize) = 0 => y = last
  BY SessionAssumption DEF Rel, Least

\* The replay continues where the Manager's packets end.
LEMMA DeliveryReplay ==
    ASSUME ClientType, LineType, Life, Tok, Agree, Delivery, apcConnected_restored
    PROVE  Delivery'
  <1> DEFINE n == Head(m_apcNotifQ)
  <1>1. /\ Notif("CONNECT") /\ m_intfId # 0 /\ n.id = m_intfId
        /\ UNCHANGED <<m_intfId, conns, app, mgr, up>>
        /\ m_cache' \in Caches /\ m_cache'.last = m_cache.last
        /\ n.your <= m_cache.last => m_cache'.num = Least(m_cache.last - n.your, CacheSize)
        /\ \A d \in Conns : (d # conns => toMgr'[d] = toMgr[d]) /\ (conn'[d].working => conn[d].working)
    BY ReplayEffect
  <1>2. PICK k \in 0..m_cache'.num :
           /\ k > 0 => conn[conns].working
           /\ toMgr'[conns] = IF up[conns] THEN toMgr[conns] \o Replay(m_cache', k) ELSE toMgr[conns]
           /\ k < m_cache'.num => m_state' = m_state
    BY ReplayEffect
  <1>3. AnswerIs(n.id, n.your) /\ conns \in Conns /\ m_state # "ONLINE" /\ n.your \in Nat
    BY <1>1, AnswerHead
  <1> HIDE DEF n
  <1>4. /\ CurLine \in Seq(ToMgr) /\ mgr.got \in Seq(Nat) /\ m_cache.last \in Nat
        /\ mgr.cur # 0 => mgr.cur \in Conns /\ CurLine = toMgr[mgr.cur]
        /\ m_cache.last - CacheSize + 1 \in Int
    BY LineTyped
  <1>5. m_cache'.num \in Nat /\ k \in Nat /\ k <= m_cache'.num
    BY <1>1, <1>2 DEF Caches
  <1>6. Owned' <=> Owned
    BY <1>1 DEF Owned
  <1>7. CASE mgr.cur = 0
    <2>1. mgr.id = 0 /\ CurLine' = CurLine
      BY <1>1, <1>3, <1>7 DEF AnswerIs, CurLine
    <2>2. ~Owned'
      BY <1>1, <2>1 DEF Owned
    <2>3. Fresh'
      BY <1>1, <1>7, Bounds DEF Fresh, Conns
    <2>4. Sorted'
      BY <1>1, <2>1 DEF Delivery, Sorted
    <2>5. QED BY <2>2, <2>3, <2>4 DEF Delivery, Gapless, Bounded
  <1>8. CASE mgr.cur # 0
    <2> DEFINE l == toMgr[conns]
               B == m_cache.last - CacheSize + 1
               u == l \o Replay(m_cache', k)
    <2>1. mgr.cur = conns /\ mgr.id = m_intfId /\ n.your = LastOf(mgr.got) /\ Empty
      BY <1>1, <1>3, <1>8 DEF AnswerIs
    <2>2. CurLine = l /\ ~Among(l, "DATA") /\ l \in Seq(ToMgr) /\ B \in Int
      BY <1>3, <1>4, <1>8, <2>1 DEF Empty, NoData
    <2>3. CurLine' = IF up[conns] THEN u ELSE l
      BY <1>1, <1>2, <1>8, <2>1 DEF CurLine
    <2>4. conn[conns].working => Owned
      BY <1>1, <1>3, <2>1 DEF Life, IdleRest, Owned
    <2>5. Owned => n.your <= m_cache.last /\ Flow(mgr.got, l, B)
      BY <2>1, <2>2 DEF Delivery, Bounded, Gapless
    <2>6. Owned => /\ m_cache'.num = 0 => n.your = m_cache.last
                   /\ k > 0 => Rel(LastOf(mgr.got), m_cache'.last - m_cache'.num + 1, B)
      <3>1. SUFFICES ASSUME Owned PROVE /\ m_cache'.num = 0 => n.your = m_cache.last
                                        /\ k > 0 => Rel(n.your, m_cache'.last - m_cache'.num + 1, B)
        BY <2>1
      <3>2. m_cache'.num = Least(m_cache.last - n.your, CacheSize)
        BY <1>1, <2>5, <3>1
      <3>3. QED BY <1>1, <1>3, <1>4, <1>5, <2>5, <3>1, <3>2, Behind
    <2> HIDE DEF l, B
    <2>7. Owned => Flow(mgr.got, u, B)
      BY <1>1, <1>2, <1>4, <2>2, <2>5, <2>6, FlowReplay
    <2>8. Owned => Below(u, m_cache.last)
      BY <1>1, <1>2, <1>4, <2>2, <2>5, <2>6, FlowReplay
    <2>9. PICK b \in Int : Flow(mgr.got, l, b)
      BY <2>2 DEF Delivery, Sorted
    <2>10. k = 0 => ~Among(u, "DATA") /\ (u = <<>> => l = <<>>)
      BY <1>1, <1>2, <1>4, <2>2, <2>9, FlowReplay
    <2>11. Owned /\ k = m_cache'.num /\ k > 0 => u # <<>> /\ u[Len(u)].seq = m_cache.last
      BY <1>1, <1>2, <1>4, <2>2, <2>5, <2>6, FlowReplay
    <2>12. u \in Seq(ToMgr)
      <3>1. Replay(m_cache', k) \in Seq(ToMgr)
        BY <1>1, <1>2, Replaying
      <3>2. QED BY <2>2, <3>1
    <2> HIDE DEF u
    <2>13. Sorted'
      <3>1. CASE k > 0
        BY <1>1, <1>2, <2>2, <2>3, <2>4, <2>5, <2>7, <3>1 DEF Sorted
      <3>2. CASE k = 0
        <4>1. Flow(mgr.got, u, b)
          BY <2>9, <2>10, <3>2, FlowClear
        <4>2. QED BY <1>1, <2>3, <2>9, <4>1 DEF Sorted
      <3>3. QED BY <1>5, <3>1, <3>2
    <2>14. Gapless'
      BY <1>1, <1>6, <2>3, <2>5, <2>7 DEF Gapless, B
    <2>15. Bounded'
      BY <1>1, <1>6, <2>2, <2>3, <2>8 DEF Bounded, Delivery
    <2>16. Fresh'
      <3> SUFFICES ASSUME up[conns], conn'[conns].working, m_state' = "ONLINE"
                   PROVE  Ready(mgr.got, u, m_cache.last)
        BY <1>1, <1>2 DEF Fresh, u, l
      <3>1. Owned
        BY <1>1, <1>3, <2>4
      <3>2. k = m_cache'.num
        BY <1>2, <1>3, <1>5
      <3>3. CASE k = 0
        BY <2>1, <2>6, <2>10, <2>12, <3>1, <3>2, <3>3, ReadyClear
      <3>4. CASE k > 0
        BY <2>11, <3>1, <3>2, <3>4 DEF Ready
      <3>5. QED BY <1>5, <3>3, <3>4
    <2>17. QED BY <2>13, <2>14, <2>15, <2>16 DEF Delivery
  <1>9. QED BY <1>7, <1>8

\* The next packet behind the line.
LEMMA FlowSend ==
    ASSUME NEW g \in Seq(Nat), NEW l \in Seq(ToMgr), NEW n \in Nat, Ready(g, l, n)
    PROVE  /\ \A b \in Int : Flow(g, l, b) => Flow(g, Append(l, [t |-> "DATA", seq |-> n + 1]), b)
           /\ Below(l, n) => Below(Append(l, [t |-> "DATA", seq |-> n + 1]), n + 1)
           /\ Ready(g, Append(l, [t |-> "DATA", seq |-> n + 1]), n + 1)
  <1> DEFINE e == [t |-> "DATA", seq |-> n + 1]
             u == Append(l, e)
  <1>1. e \in ToMgr /\ e.t = "DATA" /\ e.seq = n + 1
    BY MakeFrames
  <1> HIDE DEF e
  <1>2. \A b \in Int : Rel(n, n + 1, b)
    BY DEF Rel
  <1>3. \A b \in Int : Flow(g, l, b) => Flow(g, u, b)
    BY <1>1, <1>2, FlowEnd DEF Ready
  <1>4. /\ Len(u) = Len(l) + 1 /\ Len(l) \in Nat /\ u[Len(l) + 1] = e
        /\ \A i \in 1..Len(l) : u[i] = l[i]
    BY <1>1, Appends
  <1> HIDE DEF u
  <1>5. ASSUME Below(l, n), NEW i \in 1..Len(u), u[i].t = "DATA" PROVE u[i].seq <= n + 1
    <2>1. CASE i \in 1..Len(l)
      <3>1. l[i].seq <= n /\ l[i].seq \in Nat /\ u[i] = l[i]
        BY <1>4, <1>5, <2>1, FrameFields DEF Below
      <3>2. QED BY <3>1
    <2>2. CASE i = Len(l) + 1
      BY <1>1, <1>4, <2>2
    <2>3. QED BY <1>4, <2>1, <2>2
  <1>6. u[Len(u)] = e /\ u # <<>>
    <2>1. Len(<<>>) = 0
      OBVIOUS
    <2>2. QED BY <1>4, <2>1
  <1>7. Ready(g, u, n + 1)
    BY <1>1, <1>6 DEF Ready
  <1>8. Below(l, n) => Below(u, n + 1)
    BY <1>5 DEF Below
  <1>9. QED BY <1>3, <1>7, <1>8 DEF u, e

\* A packet that is sent follows the ones before it.
LEMMA DeliverySend ==
    ASSUME ClientType, LineType, LineType', Life, Tok, Agree, Delivery, sendData
    PROVE  Delivery'
  <1> DEFINE s == m_cache.last + 1
             e == [t |-> "DATA", seq |-> s]
             l == toMgr[conns]
  <1>1. /\ m_state = "ONLINE" /\ m_state' = "ONLINE" /\ conns \in Conns
        /\ UNCHANGED <<m_intfId, conns, app, mgr, up>> /\ m_cache'.last = s
        /\ \A d \in Conns : (d # conns => toMgr'[d] = toMgr[d]) /\ (conn'[d].working => conn[d].working)
    BY SendEffect
  <1>2. \/ toMgr'[conns] = l /\ (~up[conns] \/ ~conn'[conns].working)
        \/ conn[conns].working /\ up[conns] /\ toMgr'[conns] = Append(l, e)
    BY SendEffect
  <1>3. /\ CurLine \in Seq(ToMgr) /\ mgr.got \in Seq(Nat) /\ m_cache.last \in Nat /\ LastOf(mgr.got) \in Nat
        /\ mgr.cur # 0 => mgr.cur \in Conns /\ CurLine = toMgr[mgr.cur]
        /\ m_cache.last - CacheSize + 1 \in Int
    BY LineTyped
  <1>4. (Owned' <=> Owned) /\ conns # 0
    BY <1>1, Bounds DEF Owned, Conns
  <1>5. ASSUME CurLine' \in Seq(ToMgr), \A b \in Int : Flow(mgr.got, CurLine, b) => Flow(mgr.got, CurLine', b),
               Below(CurLine, m_cache.last) => Below(CurLine', s), Fresh'
        PROVE  Delivery'
    <2>1. Sorted'
      BY <1>1, <1>5 DEF Delivery, Sorted
    <2>2. Bounded'
      BY <1>1, <1>3, <1>4, <1>5 DEF Delivery, Bounded
    <2>3. Gapless'
      <3>1. s - CacheSize + 1 \in Int /\ m_cache.last - CacheSize + 1 <= s - CacheSize + 1
        BY <1>3, Bounds
      <3>2. Owned => Flow(mgr.got, CurLine', m_cache.last - CacheSize + 1)
        BY <1>3, <1>5 DEF Delivery, Gapless
      <3>3. Owned => Flow(mgr.got, CurLine', s - CacheSize + 1)
        BY <1>3, <1>5, <3>1, <3>2, FlowGrows
      <3>4. QED BY <1>1, <1>4, <3>3 DEF Gapless
    <2>4. QED BY <1>5, <2>1, <2>2, <2>3 DEF Delivery
  <1>6. \A k \in Seq(ToMgr) : Below(k, m_cache.last) => Below(k, s)
    <2>1. SUFFICES ASSUME NEW k \in Seq(ToMgr), Below(k, m_cache.last), NEW i \in 1..Len(k), k[i].t = "DATA" PROVE k[i].seq <= s
      BY DEF Below
    <2>2. k[i].seq \in Nat /\ k[i].seq <= m_cache.last
      BY <2>1, FrameFields DEF Below
    <2>3. QED BY <1>3, <2>2
  <1> HIDE DEF s
  <1>7. CASE toMgr'[conns] = l /\ (~up[conns] \/ ~conn'[conns].working)
    <2>1. CurLine' = CurLine
      BY <1>1, <1>3, <1>7 DEF CurLine
    <2>2. Fresh'
      BY <1>1, <1>7 DEF Fresh
    <2>3. QED BY <1>3, <1>5, <1>6, <2>1, <2>2
  <1>8. CASE conn[conns].working /\ up[conns] /\ toMgr'[conns] = Append(l, e)
    <2>1. CASE mgr.cur # conns
      <3>1. CurLine' = CurLine
        BY <1>1, <1>3, <2>1 DEF CurLine
      <3>2. Fresh'
        BY <1>1, <2>1 DEF Fresh
      <3>3. QED BY <1>3, <1>5, <1>6, <3>1, <3>2
    <2>2. CASE mgr.cur = conns
      <3>1. CurLine = l /\ CurLine' = Append(l, e)
        BY <1>1, <1>4, <1>8, <2>2 DEF CurLine
      <3>2. Ready(mgr.got, l, m_cache.last)
        BY <1>1, <1>8, <2>2 DEF Delivery, Fresh
      <3>3. CurLine' \in Seq(ToMgr)
        <4>1. e \in ToMgr
          BY <1>3, MakeFrames DEF s
        <4>2. QED BY <1>3, <3>1, <4>1
      <3>4. /\ \A b \in Int : Flow(mgr.got, l, b) => Flow(mgr.got, Append(l, e), b)
            /\ Below(l, m_cache.last) => Below(Append(l, e), s)
            /\ Ready(mgr.got, Append(l, e), s)
        BY <1>3, <3>1, <3>2, FlowSend DEF s
      <3> HIDE DEF l, e
      <3>5. Fresh'
        BY <1>1, <1>8, <3>4 DEF Fresh
      <3>6. QED BY <1>5, <3>1, <3>3, <3>4, <3>5
    <2>3. QED BY <2>1, <2>2
  <1>9. QED BY <1>2, <1>7, <1>8

\* A new connection changes nothing of the delivery.
LEMMA DeliveryOpen ==
    ASSUME ClientType, LineType, Lines, Delivery, conns < MaxConns, NEW id, Open(id), mgr' = mgr,
           Owned' => Owned /\ m_cache'.last = m_cache.last
    PROVE  Delivery'
  <1>1. PICK k \in Conns : conns' = k /\ k = conns + 1 /\ toMgr' = [toMgr EXCEPT ![k] = <<[t |-> "CONNECT", id |-> id]>>]
    <2>1. conns' = conns + 1 /\ conns' \in Conns
      BY Opening
    <2>2. QED BY <2>1 DEF Open
  <1>2. mgr.cur # k
    BY <1>1, Bounds DEF Lines, ClientType, LineType
  <1>3. /\ mgr.cur # 0 => mgr.cur \in Conns
        /\ m_cache.last - CacheSize + 1 \in Int
    BY LineTyped
  <1>4. CurLine' = CurLine
    BY <1>1, <1>2, <1>3 DEF CurLine, LineType
  <1>5. Fresh'
    BY <1>1, <1>2 DEF Fresh
  <1>6. QED BY <1>3, <1>4, <1>5, DeliveryKept

\* Every step keeps the delivery, if start() is called at rest.
LEMMA DeliveryStep ==
    ASSUME ClientType, LineType, Life, Lines, Tok, Agree, Delivery, [Next]_svars, start => AtRest
    PROVE  Delivery'
  <1>1. LineType' /\ (Quiet \/ Loud)
    BY LineTypeStep, QuietStep
  <1>2. CASE Quiet
    BY <1>1, <1>2, DeliveryQuiet
  <1>3. ASSUME NEW c \in Conns, Asks(c) PROVE Delivery'
    BY <1>1, <1>3, DeliveryAsk
  <1>4. ASSUME NEW c \in Conns, Takes(c) PROVE Delivery'
    BY <1>4, DeliveryTake
  <1>5. CASE apcConnected_new
    BY <1>5, DeliveryNew
  <1>6. CASE apcConnected_restored
    BY <1>6, DeliveryReplay
  <1>7. CASE sendData
    BY <1>1, <1>7, DeliverySend
  <1>8. CASE Reopens
    <2>1. /\ conns < MaxConns /\ Open(m_intfId) /\ UNCHANGED <<m_intfId, m_cache, app, mgr>>
      BY <1>8, ReopenEffect
    <2>2. Owned' <=> Owned
      BY <2>1 DEF Owned
    <2>3. QED BY <2>1, <2>2, DeliveryOpen
  <1>9. CASE start
    <2>1. /\ m_intfId' = 0 /\ m_state' = "INIT" /\ mgr' = mgr
          /\ (conns < MaxConns /\ Open(0)) \/ UNCHANGED <<conn, conns, m_apcNotifQ, toMgr, toApc, up>>
      BY <1>9, StartEffect
    <2>2. ~Owned'
      BY <2>1 DEF Owned
    <2>3. CASE conns < MaxConns /\ Open(0)
      BY <2>1, <2>2, <2>3, DeliveryOpen
    <2>4. CASE UNCHANGED <<conn, conns, m_apcNotifQ, toMgr, toApc, up>>
      <3>1. CurLine' = CurLine /\ Fresh'
        BY <2>1, <2>4 DEF CurLine, Fresh
      <3>2. m_cache.last - CacheSize + 1 \in Int
        BY LineTyped
      <3>3. QED BY <2>1, <2>2, <3>1, <3>2, DeliveryKept
    <2>5. QED BY <2>1, <2>3, <2>4
  <1>10. QED BY <1>1, <1>2, <1>3, <1>4, <1>5, <1>6, <1>7, <1>8, <1>9 DEF Loud

\* The invariant of the session and the delivery.
DeliveryInv == SessionInv /\ Tok /\ Agree /\ Delivery

\* The client begins in it.
LEMMA DeliveryInit == Init => DeliveryInv
  <1> SUFFICES ASSUME Init PROVE DeliveryInv
    OBVIOUS
  <1>1. /\ m_apcNotifQ = <<>> /\ m_pConnector = 0 /\ conns = 0 /\ m_disconnectTime = "EMPTY" /\ m_state = "INIT"
        /\ m_intfId = 0 /\ m_cache.last = 0 /\ mgr.id = 0 /\ mgr.ids = 0 /\ mgr.cur = 0 /\ mgr.got = <<>>
        /\ \A c \in Conns : ~conn[c].working /\ ~conn[c].reading /\ toMgr[c] = <<>> /\ toApc[c] = <<>>
    BY DEF Init, NewConn
  <1>2. SessionInv
    BY SessionInit
  <1>3. \A type : ~Among(<<>>, type)
    BY Nothing
  <1>4. Silent /\ ~Reader
    BY <1>1, <1>3 DEF Silent, Unanswered, Asking, Answered, Reader
  <1>5. Tok
    BY <1>1, <1>3, <1>4, QueueNone DEF Tok, Known, Deadline, Quest
  <1>6. Questions /\ Oldest
    BY <1>1, Bounds DEF Questions, Question, Oldest, Older, Conns
  <1>7. Answers
    BY <1>1, <1>3, <1>4, Unreplied DEF Answers
  <1>8. Agree
    BY <1>1, <1>6, <1>7 DEF Agree, Ids, OneId
  <1>9. CurLine = <<>>
    BY <1>1 DEF CurLine
  <1>10. Flow(mgr.got, CurLine, 0) /\ 0 \in Int
    BY <1>1, <1>3, <1>9, FlowNew
  <1>11. Delivery
    BY <1>1, <1>10, Bounds DEF Delivery, Sorted, Gapless, Bounded, Owned, Fresh, Conns
  <1>12. QED BY <1>2, <1>5, <1>8, <1>11 DEF DeliveryInv

\* It holds of every behaviour in which start() is called at rest.
LEMMA DeliveryHolds == Spec /\ [][start => AtRest]_svars => []DeliveryInv
  <1>1. Init => DeliveryInv
    BY DeliveryInit
  <1>2. DeliveryInv /\ [Next]_svars /\ [start => AtRest]_svars => DeliveryInv'
    <2> SUFFICES ASSUME DeliveryInv, [Next]_svars, [start => AtRest]_svars PROVE DeliveryInv'
      OBVIOUS
    <2>1. start => AtRest
      BY DEF start, svars
    <2>2. SessionInv' /\ Tok'
      BY <2>1, SessionStep, TokStep DEF DeliveryInv, SessionInv
    <2>3. Agree' /\ Delivery'
      BY <2>1, AgreeStep, DeliveryStep DEF DeliveryInv, SessionInv
    <2>4. QED BY <2>2, <2>3 DEF DeliveryInv
  <1>3. QED BY <1>1, <1>2, PTL DEF Spec

\* The Manager gets the packets of a session in the order they were sent and none of them twice, however many
\* connections break and are replaced, for every size of the cache (apcConnected's replay, sendData_p).
THEOREM PacketsInOrder == Spec /\ [][start => AtRest]_svars => []DeliveredInOrder
  <1>1. DeliveryInv => DeliveredInOrder
    <2> SUFFICES ASSUME DeliveryInv, NEW i \in 1..Len(mgr.got) - 1 PROVE mgr.got[i] < mgr.got[i + 1]
      BY DEF DeliveredInOrder
    <2>1. PICK b \in Int : Got(mgr.got, b)
      BY DEF DeliveryInv, Delivery, Sorted, Flow
    <2>2. mgr.got \in Seq(Nat)
      BY LineTyped DEF DeliveryInv, SessionInv
    <2>3. i + 1 \in 1..Len(mgr.got) /\ i + 1 # 1 /\ (i + 1) - 1 = i
      BY <2>2
    <2>4. Rel(mgr.got[(i + 1) - 1], mgr.got[i + 1], b)
      BY <2>1, <2>3 DEF Got
    <2>5. QED BY <2>3, <2>4 DEF Rel
  <1>2. QED BY <1>1, DeliveryHolds, PTL

\* A packet of the running session the Manager never gets was overwritten in the full cache before it was confirmed
\* (CAPCCache::addPacket, confirmedSeqNum with isInit).
THEOREM GapsFromOverflow == Spec /\ [][start => AtRest]_svars => []GapsOnlyFromOverflow
  <1>1. DeliveryInv => GapsOnlyFromOverflow
    <2> SUFFICES ASSUME DeliveryInv, app = "run", m_intfId = mgr.id, mgr.id # 0, NEW i \in 1..Len(mgr.got),
                        mgr.got[i] > (IF i = 1 THEN 0 ELSE mgr.got[i - 1]) + 1
                 PROVE  mgr.got[i] <= m_cache.last - CacheSize + 1
      BY DEF GapsOnlyFromOverflow
    <2>1. Got(mgr.got, m_cache.last - CacheSize + 1)
      BY DEF DeliveryInv, Delivery, Gapless, Owned, Flow
    <2>2. QED BY <2>1 DEF Got, Rel
  <1>2. QED BY <1>1, DeliveryHolds, PTL

-------------------------------------------------------------------------------
(*****************************************************************************)
(* The session implements APCChannel.  Most steps are quiet: they change     *)
(* nothing the channel sees, or end the session.  The others map to a step   *)
(* of the channel one by one.                                                *)
(*****************************************************************************)

\* Nothing is sent, got or entered at first.
LEMMA ChannelInit == Init => Channel!ChInit
  <1> SUFFICES ASSUME Init PROVE Channel!ChInit
    OBVIOUS
  <1>1. m_cache.last = 0 /\ mgr.got = <<>> /\ app = "idle"
    BY DEF Init
  <1>2. QED BY <1>1 DEF Channel!ChInit, Owned

\* What the channel sees of a step.
Unseen == m_cache'.last = m_cache.last /\ mgr'.got = mgr.got

\* The session goes on, or ends.
LEMMA ChannelUnseen ==
    ASSUME Unseen, Owned' => Owned
    PROVE  [Channel!ChNext]_(Channel!chvars)
  <1>1. CASE Owned'
    <2>1. Owned' = Owned
      BY <1>1
    <2>2. QED BY <2>1 DEF Unseen, Channel!chvars
  <1>2. CASE ~Owned'
    <2>1. Channel!ChLeave
      BY <1>2 DEF Unseen, Channel!ChLeave
    <2>2. QED BY <2>1 DEF Channel!ChNext
  <1>3. QED BY <1>1, <1>2

\* A quiet step: stop() may clear the cache at its end.
LEMMA ChannelQuiet ==
    ASSUME Quiet
    PROVE  [Channel!ChNext]_(Channel!chvars)
  <1>1. /\ m_intfId' = m_intfId /\ (app' # "idle" => app # "idle") /\ mgr'.got = mgr.got
        /\ m_cache'.last = m_cache.last \/ (app' = "idle" /\ m_cache'.last = 0)
        /\ mgr'.id = mgr.id \/ mgr'.id = 0
    BY DEF Quiet, QuietClient, QuietMgr
  <1>2. Owned' => Owned
    BY <1>1 DEF Owned
  <1>3. CASE m_cache'.last = m_cache.last
    BY <1>1, <1>2, <1>3, ChannelUnseen DEF Unseen
  <1>4. CASE app' = "idle" /\ m_cache'.last = 0
    <2>1. ~Owned'
      BY <1>4 DEF Owned
    <2>2. Channel!ChLeave
      BY <1>1, <1>4, <2>1 DEF Channel!ChLeave
    <2>3. QED BY <2>2 DEF Channel!ChNext
  <1>5. QED BY <1>1, <1>3, <1>4

\* The Manager reads a question: a session of its own is new to the client.
LEMMA ChannelAsk ==
    ASSUME ClientType, LineType, Lines, Agree, NEW c \in Conns, Asks(c)
    PROVE  [Channel!ChNext]_(Channel!chvars)
  <1>1. AskReply(c) /\ UNCHANGED <<m_intfId, m_cache, app>>
    BY AskEffect
  <1>2. m_intfId \in Nat /\ mgr.ids \in Nat /\ m_intfId <= mgr.ids
    BY DEF ClientType, LineType, Agree, Ids
  <1>3. CASE AskNew(c)
    <2>1. mgr'.got = <<>> /\ mgr'.id = mgr.ids + 1
      BY <1>3 DEF AskNew
    <2>2. ~Owned'
      BY <1>1, <1>2, <2>1 DEF Owned
    <2>3. Channel!ChOpen
      BY <1>1, <2>1, <2>2 DEF Channel!ChOpen
    <2>4. QED BY <2>3 DEF Channel!ChNext
  <1>4. CASE ~AskNew(c)
    <2>1. mgr'.got = mgr.got /\ mgr'.id = mgr.id
      BY <1>1, <1>4 DEF AskReply, AskKnown, AskWrong
    <2>2. Owned' => Owned
      BY <1>1, <2>1 DEF Owned
    <2>3. QED BY <1>1, <2>1, <2>2, ChannelUnseen DEF Unseen
  <1>5. QED BY <1>3, <1>4

\* The Manager takes a packet: it follows the last one.
LEMMA ChannelTake ==
    ASSUME LineType, Delivery, NEW c \in Conns, Takes(c)
    PROVE  [Channel!ChNext]_(Channel!chvars)
  <1> DEFINE h == Head(toMgr[c]).seq
             l == toMgr[c]
             g == mgr.got
  <1>1. /\ c = mgr.cur /\ l # <<>> /\ Head(l).t = "DATA" /\ h \in Nat
        /\ mgr'.id = mgr.id /\ mgr'.got = Append(g, h)
        /\ UNCHANGED <<m_intfId, m_cache, app>>
    BY TakeEffect
  <1>2. c # 0
    BY Bounds DEF Conns
  <1>3. l \in Seq(ToMgr) /\ g \in Seq(Nat) /\ CurLine = l
    BY <1>1, <1>2, LineTyped
  <1>4. 1 \in 1..Len(l) /\ Head(l) = l[1]
    BY <1>1, <1>3, Tails
  <1>5. \A b : Wire(l, LastOf(g), b) => Rel(LastOf(g), h, b)
    BY <1>1, <1>4 DEF Wire
  <1>6. LastOf(g) < h
    BY <1>3, <1>5 DEF Delivery, Sorted, Flow, Rel
  <1>7. Owned => Rel(LastOf(g), h, m_cache.last - CacheSize + 1)
    BY <1>3, <1>5 DEF Delivery, Gapless, Flow
  <1>8. Owned => h <= m_cache.last
    BY <1>1, <1>3, <1>4 DEF Delivery, Bounded, Below
  <1> DEFINE u == Append(g, h)
  <1>9. u # <<>> /\ u[Len(u)] = h
    <2>1. Len(u) = Len(g) + 1 /\ Len(g) \in Nat /\ u[Len(g) + 1] = h
      BY <1>1, <1>3, Appends
    <2>2. Len(<<>>) = 0
      OBVIOUS
    <2> HIDE DEF u
    <2>3. QED BY <2>1, <2>2
  <1>10. Owned' = Owned
    BY <1>1 DEF Owned
  <1>11. Channel!Latest = LastOf(g)
    BY DEF Channel!Latest, LastOf
  <1>12. Channel!MayFollow(h)
    <2>1. Owned => (h > LastOf(g) + 1 => h <= m_cache.last - CacheSize + 1)
      BY <1>7 DEF Rel
    <2>2. h > LastOf(g)
      BY <1>6
    <2> HIDE DEF h, g
    <2>3. QED BY <1>8, <1>11, <2>1, <2>2 DEF Channel!MayFollow
  <1>13. Channel!ChDeliver
    <2>1. mgr'.got = u
      BY <1>1
    <2> HIDE DEF h, u
    <2>2. mgr'.got # <<>> /\ mgr'.got[Len(mgr'.got)] = h
      BY <1>9, <2>1
    <2>3. u = Append(mgr.got, h)
      BY DEF u
    <2>4. QED BY <1>1, <1>10, <1>12, <2>1, <2>2, <2>3 DEF Channel!ChDeliver
  <1>14. QED BY <1>13 DEF Channel!ChNext

\* The client is told of its session: nothing was sent in it, unless the Manager has ended it meanwhile.
LEMMA ChannelNew ==
    ASSUME ClientType, LineType, Life, Tok, Agree, apcConnected_new
    PROVE  [Channel!ChNext]_(Channel!chvars)
  <1> DEFINE n == Head(m_apcNotifQ)
  <1>1. /\ Notif("CONNECT") /\ m_intfId = 0 /\ m_intfId' = n.id /\ m_intfId' # 0
        /\ UNCHANGED <<m_cache, app, mgr>>
    BY NewEffect
  <1>2. AnswerIs(n.id, n.your)
    BY <1>1, AnswerHead
  <1> HIDE DEF n
  <1>3. m_cache.last = 0
    BY <1>1 DEF Agree, Ids
  <1>4. CASE Owned'
    <2>1. mgr.id # 0
      BY <1>1, <1>4 DEF Owned
    <2>2. mgr.cur # 0
      BY <1>1, <1>2, <2>1 DEF AnswerIs
    <2>3. mgr.got = <<>>
      BY <1>1, <1>2, <2>2 DEF AnswerIs
    <2>4. Channel!ChJoin
      BY <1>1, <1>3, <1>4, <2>3 DEF Channel!ChJoin
    <2>5. QED BY <2>4 DEF Channel!ChNext
  <1>5. CASE ~Owned'
    BY <1>1, <1>5, ChannelUnseen DEF Unseen
  <1>6. QED BY <1>4, <1>5

\* Every step of the session is one of the channel, or none.
LEMMA ChannelStep ==
    ASSUME DeliveryInv, [Next]_svars, start => AtRest
    PROVE  [Channel!ChNext]_(Channel!chvars)
  <1>1. ClientType /\ LineType /\ Life /\ Lines /\ Tok /\ Agree /\ Delivery
    BY DEF DeliveryInv, SessionInv
  <1>2. Quiet \/ Loud
    BY <1>1, QuietStep
  <1>3. CASE Quiet
    BY <1>3, ChannelQuiet
  <1>4. ASSUME NEW c \in Conns, Asks(c) PROVE [Channel!ChNext]_(Channel!chvars)
    BY <1>1, <1>4, ChannelAsk
  <1>5. ASSUME NEW c \in Conns, Takes(c) PROVE [Channel!ChNext]_(Channel!chvars)
    BY <1>1, <1>5, ChannelTake
  <1>6. CASE apcConnected_new
    BY <1>1, <1>6, ChannelNew
  <1>7. CASE apcConnected_restored
    <2>1. UNCHANGED <<m_intfId, app, mgr>> /\ m_cache'.last = m_cache.last
      BY <1>1, <1>7, ReplayEffect
    <2>2. Owned' => Owned
      BY <2>1 DEF Owned
    <2>3. QED BY <2>1, <2>2, ChannelUnseen DEF Unseen
  <1>8. CASE sendData
    <2>1. UNCHANGED <<m_intfId, app, mgr>> /\ m_cache'.last = m_cache.last + 1
      BY <1>1, <1>8, SendEffect
    <2>2. Owned' = Owned
      BY <2>1 DEF Owned
    <2>3. Channel!ChSend
      BY <2>1, <2>2 DEF Channel!ChSend
    <2>4. QED BY <2>3 DEF Channel!ChNext
  <1>9. CASE Reopens
    <2>1. UNCHANGED <<m_intfId, m_cache, app, mgr>>
      BY <1>1, <1>9, ReopenEffect
    <2>2. Owned' => Owned
      BY <2>1 DEF Owned
    <2>3. QED BY <2>1, <2>2, ChannelUnseen DEF Unseen
  <1>10. CASE start
    <2>1. m_intfId' = 0 /\ m_cache'.last = 0 /\ mgr' = mgr
      BY <1>1, <1>10, StartEffect
    <2>2. ~Owned'
      BY <2>1 DEF Owned
    <2>3. Channel!ChLeave
      BY <2>1, <2>2 DEF Channel!ChLeave
    <2>4. QED BY <2>3 DEF Channel!ChNext
  <1>11. QED
    BY <1>2, <1>3, <1>4, <1>5, <1>6, <1>7, <1>8, <1>9, <1>10 DEF Loud

\* The session implements the channel: whatever connections break, are replaced and replayed, the Manager gets the
\* packets in order, none twice, none back, and misses only what fell out of the cache.
THEOREM SessionImplementsChannel == Spec /\ [][start => AtRest]_svars => SessionIsChannel
  <1>1. DeliveryInv /\ [Next]_svars /\ [start => AtRest]_svars => [Channel!ChNext]_(Channel!chvars)
    <2> SUFFICES ASSUME DeliveryInv, [Next]_svars, [start => AtRest]_svars PROVE [Channel!ChNext]_(Channel!chvars)
      OBVIOUS
    <2>1. start => AtRest
      BY DEF start, svars
    <2>2. QED BY <2>1, ChannelStep
  <1>2. QED
    BY <1>1, ChannelInit, DeliveryHolds, PTL DEF Spec, SessionIsChannel, Channel!ChannelSpec

\* Before the first start() nothing goes on.
Unstarted == /\ starts \in Nat
             /\ starts = 0 => /\ app = "idle" /\ m_apcNotifQ = <<>> /\ m_pConnector = 0
                              /\ m_reconnectTimer = NoTimer
                              /\ \A c \in Conns : ~conn[c].working /\ ~conn[c].reading

\* Every step keeps that.
LEMMA UnstartedStep ==
    ASSUME Unstarted, [Next]_svars
    PROVE  Unstarted'
  <1>1. CASE UNCHANGED svars
    BY <1>1 DEF svars, clientVars, connVars, Unstarted
  <1>2. CASE apcStarted
    <2>1. starts' = starts /\ m_apcNotifQ # <<>>
      BY <1>2 DEF apcStarted, Notif
    <2>2. QED BY <2>1 DEF Unstarted
  <1>3. CASE messageConfirms
    <2>1. starts' = starts /\ m_apcNotifQ # <<>>
      BY <1>3 DEF messageConfirms, Notif
    <2>2. QED BY <2>1 DEF Unstarted
  <1>4. CASE apcConnected_refused
    <2>1. starts' = starts /\ m_apcNotifQ # <<>>
      BY <1>4 DEF apcConnected_refused, Notif
    <2>2. QED BY <2>1 DEF Unstarted
  <1>5. CASE apcConnected_new
    <2>1. starts' = starts /\ m_apcNotifQ # <<>>
      BY <1>5 DEF apcConnected_new, Notif
    <2>2. QED BY <2>1 DEF Unstarted
  <1>6. CASE apcConnected_restored
    <2>1. starts' = starts /\ m_apcNotifQ # <<>>
      BY <1>6 DEF apcConnected_restored, Notif
    <2>2. QED BY <2>1 DEF Unstarted
  <1>7. CASE apcDisconnected
    <2>1. starts' = starts /\ m_apcNotifQ # <<>>
      BY <1>7 DEF apcDisconnected, Notif
    <2>2. QED BY <2>1 DEF Unstarted
  <1>8. CASE TimerExpires
    <2>1. starts' = starts /\ app # "idle"
      BY <1>8 DEF TimerExpires
    <2>2. QED BY <2>1 DEF Unstarted
  <1>9. CASE TimePasses
    BY <1>9 DEF TimePasses, Unstarted, clientVars, connVars
  <1>10. CASE reconnect_p
    <2>1. starts' = starts /\ app # "idle"
      BY <1>10 DEF reconnect_p
    <2>2. QED BY <2>1 DEF Unstarted
  <1>11. CASE disconnect_p
    <2>1. starts' = starts /\ app # "idle"
      BY <1>11 DEF disconnect_p
    <2>2. QED BY <2>1 DEF Unstarted
  <1>12. CASE timerIgnored
    <2>1. starts' = starts /\ app # "idle"
      BY <1>12 DEF timerIgnored
    <2>2. QED BY <2>1 DEF Unstarted
  <1>13. CASE start
    <2>1. starts' = starts + 1
      BY <1>13 DEF start
    <2>2. QED BY <2>1 DEF Unstarted
  <1>14. CASE stop
    <2>1. starts' = starts /\ app # "idle"
      BY <1>14 DEF stop
    <2>2. QED BY <2>1 DEF Unstarted
  <1>15. CASE stop_close
    <2>1. starts' = starts /\ app # "idle"
      BY <1>15 DEF stop_close
    <2>2. QED BY <2>1 DEF Unstarted
  <1>16. CASE stop_wait
    <2>1. starts' = starts /\ app # "idle"
      BY <1>16 DEF stop_wait
    <2>2. QED BY <2>1 DEF Unstarted
  <1>17. CASE stop_join
    <2>1. starts' = starts /\ app # "idle"
      BY <1>17 DEF stop_join
    <2>2. QED BY <2>1 DEF Unstarted
  <1>18. CASE sendData
    <2>1. starts' = starts /\ m_pConnector # 0
      BY <1>18 DEF sendData, sendData_p
    <2>2. QED BY <2>1 DEF Unstarted
  <1>19. CASE ManagerConfirms
    BY <1>19 DEF ManagerConfirms, Unstarted, clientVars, connVars
  <1>20. CASE ManagerRefuses
    BY <1>20 DEF ManagerRefuses, Unstarted, clientVars, connVars
  <1>21. ASSUME NEW c \in Conns, ManagerReads(c) PROVE Unstarted'
    BY <1>21 DEF ManagerReads, Unstarted, clientVars, connVars
  <1>22. ASSUME NEW c \in Conns, Break(c) PROVE Unstarted'
    BY <1>22 DEF Break, Unstarted, clientVars, connVars
  <1>23. ASSUME NEW c \in Conns, handle_read_p(c) PROVE Unstarted'
    <2>1. starts' = starts /\ conn[c].working
      BY <1>23 DEF handle_read_p
    <2>2. QED BY <2>1 DEF Unstarted
  <1>24. ASSUME NEW c \in Conns, messageReceived(c) PROVE Unstarted'
    <2>1. starts' = starts /\ conn[c].reading
      BY <1>24 DEF messageReceived
    <2>2. QED BY <2>1 DEF Unstarted
  <1>25. ASSUME NEW c \in Conns, handle_read_end(c) PROVE Unstarted'
    <2>1. starts' = starts /\ conn[c].reading
      BY <1>25 DEF handle_read_end
    <2>2. QED BY <2>1 DEF Unstarted
  <1>26. ASSUME NEW c \in Conns, connectionFails(c) PROVE Unstarted'
    <2>1. starts' = starts /\ conn[c].working
      BY <1>26 DEF connectionFails
    <2>2. QED BY <2>1 DEF Unstarted
  <1>27. QED
    BY <1>1, <1>2, <1>3, <1>4, <1>5, <1>6, <1>7, <1>8, <1>9, <1>10, <1>11, <1>12, <1>13, <1>14, <1>15, <1>16, <1>17,
       <1>18, <1>19, <1>20, <1>21, <1>22, <1>23, <1>24, <1>25, <1>26
    DEF Next, NotifNext, TimerNext, CallNext, MgrNext, ReadNext

\* In the first session of a client the four invariants hold, and it is a channel, without any hypothesis on the caller:
\* nothing is left of an earlier session.
THEOREM FirstSession ==
    ASSUME MaxStarts <= 1
    PROVE  Spec => /\ [](OneConnector /\ ReplayHasConnector /\ DeliveredInOrder /\ GapsOnlyFromOverflow)
                   /\ SessionIsChannel
  <1>1. Init => Unstarted
    BY DEF Init, Unstarted, NewConn
  <1>2. Unstarted /\ [Next]_svars => Unstarted'
    BY UnstartedStep
  <1>3. Unstarted => (start => AtRest)
    <2>1. Unstarted /\ start => starts = 0
      BY SessionAssumption DEF Unstarted, start
    <2>2. QED BY <2>1 DEF Unstarted, AtRest, NoTimer
  <1>4. Unstarted => [start => AtRest]_svars
    BY <1>3
  <1>5. QED
    BY <1>1, <1>2, <1>4, ConnectorOne, ConnectorAtReplay, PacketsInOrder, GapsFromOverflow, SessionImplementsChannel, PTL
    DEF Spec
===============================================================================
