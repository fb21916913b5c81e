----------------------------- MODULE APCSession -----------------------------
(***************************************************************************)
(* The session of the AP Bridge with the Manager: CAPCClient with its      *)
(* connectors (CAPCConnector), the notification thread between them        *)
(* (CAPCCtrlNotifThread) and the thread of its io_service (CIOSrvThread).  *)
(*                                                                         *)
(* Threads.  The coupler calls start and stop; the transport's thread calls*)
(* sendData; the client's io thread reads the socket and runs the timers;  *)
(* the notification thread hands the connector's notifications to the      *)
(* client, one at a time.  A step is a section under CAPCClient::m_lock or *)
(* CAPCConnector::m_lock.                                                  *)
(*                                                                         *)
(* Connectors have numbers, 0 is nullptr; a packet is its sequence number. *)
(* The cache is the window of the last `num' numbers up to `last', which   *)
(* is what APCOutputProofs proves of CAPCCache.  The Manager and TCP are   *)
(* external.  Packets from the Manager, keep-alive, output buffers and the *)
(* contents of messages are left out: a write that finds no buffer is a    *)
(* write that fails, a missing keep-alive is a connection that fails.      *)
(***************************************************************************)
EXTENDS Integers, Sequences

CONSTANTS CacheSize,    \* size of the cache
          Reconnects,   \* m_disconnectTimeoutMsec # 0
          StopTimeout,  \* may the notification thread be late by more than 1 s
          MaxConns,     \* bound on the connections
          MaxPackets,   \* bound on the packets of a session
          MaxStarts,    \* bound on the calls of start
          MaxRefusals,  \* bound on the sessions the Manager forgets or closes
          MaxQueue      \* bound on the notifications waiting, and frames in transit

ASSUME SessionAssumption ==
    /\ CacheSize \in Nat \ {0} /\ {Reconnects, StopTimeout} \subseteq BOOLEAN
    /\ {MaxConns, MaxPackets, MaxStarts, MaxRefusals, MaxQueue} \subseteq Nat

VARIABLES
    m_state, m_intfId, m_pConnector,
    m_disconnectTime,  \* "EMPTY" (TIME_EMPTY), "SET", or "OVER" when it has passed
    m_reconnectTimer,  \* [armed, due]: due counts expiries not handled yet
    m_cache,           \* [last, num]
    conn,              \* per connector: [working, connected, force, reading]
    conns,             \* connectors created so far
    m_apcNotifQ,       \* notifications, oldest first
    toMgr, toApc, up,  \* per connection: frames in transit, and is it intact
    app,               \* where the coupler is: "idle", "run", or in stop()
    starts, refusals,
    mgr                \* the Manager: [id, ids, cur, got]

clientVars == <<m_state, m_intfId, m_pConnector, m_disconnectTime, m_reconnectTimer>>
connVars   == <<conn, conns, m_apcNotifQ>>
lineVars   == <<toMgr, toApc, up>>
svars == <<clientVars, m_cache, connVars, lineVars, app, starts, refusals, mgr>>

Conns   == 1..MaxConns
NewConn == [working |-> FALSE, connected |-> FALSE, force |-> FALSE, reading |-> FALSE]
NoTimer == [armed |-> FALSE, due |-> 0]

Init ==
    /\ m_state = "INIT" /\ m_intfId = 0 /\ m_pConnector = 0
    /\ m_disconnectTime = "EMPTY" /\ m_reconnectTimer = NoTimer
    /\ m_cache = [last |-> 0, num |-> 0]
    /\ conn = [c \in Conns |-> NewConn] /\ conns = 0 /\ m_apcNotifQ = <<>>
    /\ toMgr = [c \in Conns |-> <<>>] /\ toApc = [c \in Conns |-> <<>>]
    /\ up = [c \in Conns |-> FALSE]
    /\ app = "idle" /\ starts = 0 /\ refusals = 0
    /\ mgr = [id |-> 0, ids |-> 0, cur |-> 0, got |-> <<>>]
-----------------------------------------------------------------------------
(* CAPCConnector and the notification queue *)

Least(a, b) == IF a < b THEN a ELSE b

startTimer_p == [m_reconnectTimer EXCEPT !.armed = TRUE]
stopTimer_p  == [m_reconnectTimer EXCEPT !.armed = FALSE]

\* Frames written to connection c; a broken one swallows them.
Written(c, frames) == IF up[c] THEN [toMgr EXCEPT ![c] = @ \o frames] ELSE toMgr

\* sendData refuses when the connector does not work or has no answer to CONNECT.
CanWrite(c) == conn[c].working /\ conn[c].connected

\* A connector that disconnect() closes goes offline no more.
StopFlag(c, flag) == IF conn[c].force THEN "DISCONNECT" ELSE flag

\* Mutant: the connector reports its end and works on.
stopped_works(c, flag) ==
    IF conn[c].working
    THEN /\ conn' = [conn EXCEPT ![c].connected = FALSE]
         /\ m_apcNotifQ' = Append(m_apcNotifQ,
                [t |-> "DISCONNECT", c |-> c, flag |-> StopFlag(c, flag)])
    ELSE UNCHANGED <<conn, m_apcNotifQ>>

\* stop: a working connector closes its socket and reports it, once.
stopped(c, flag) ==
    IF conn[c].working
    THEN /\ conn' = [conn EXCEPT ![c].working = FALSE, ![c].connected = FALSE]
         /\ m_apcNotifQ' = Append(m_apcNotifQ,
                [t |-> "DISCONNECT", c |-> c, flag |-> StopFlag(c, flag)])
    ELSE UNCHANGED <<conn, m_apcNotifQ>>

\* handle_read_p on an error of dataReceived.
readError(c, flag) ==
    /\ conn' = [conn EXCEPT ![c].working = FALSE, ![c].reading = FALSE,
                            ![c].connected = @ /\ ~conn[c].working]
    /\ m_apcNotifQ' = IF conn[c].working
                      THEN Append(m_apcNotifQ,
                             [t |-> "DISCONNECT", c |-> c, flag |-> StopFlag(c, flag)])
                      ELSE m_apcNotifQ

\* Mutant: the client is not told of the connector.
Open_noStart(id) ==
    LET c == conns + 1 IN
    /\ conns' = c
    /\ conn' = [conn EXCEPT ![c].working = TRUE]
    /\ up' = [up EXCEPT ![c] = TRUE]
    /\ toMgr' = [toMgr EXCEPT ![c] = <<[t |-> "CONNECT", id |-> id]>>]
    /\ UNCHANGED <<toApc, m_apcNotifQ>>

\* start and connect of a new connector, which begins to read.
Open(id) ==
    LET c == conns + 1 IN
    /\ conns' = c
    /\ conn' = [conn EXCEPT ![c].working = TRUE]
    /\ m_apcNotifQ' = Append(m_apcNotifQ, [t |-> "START", c |-> c])
    /\ up' = [up EXCEPT ![c] = TRUE]
    /\ toMgr' = [toMgr EXCEPT ![c] = <<[t |-> "CONNECT", id |-> id]>>]
    /\ UNCHANGED toApc

\* The io thread is not within a read; it runs one handler at a time.
IOFree == \A c \in Conns : ~conn[c].reading

\* The io thread sees that the read or the keep-alive of connection c fails.
connectionFails(c) ==
    /\ conn[c].working /\ IOFree
    /\ stopped(c, "OFFLINE")
    /\ UNCHANGED <<clientVars, m_cache, conns, lineVars, app, starts, refusals, mgr>>

\* handle_read_p: the io thread has read frames and hands them on one by one,
\* not under a lock; the connector may be stopped meanwhile.
handle_read_p(c) ==
    /\ conn[c].working /\ IOFree /\ toApc[c] # <<>>
    /\ conn' = [conn EXCEPT ![c].reading = TRUE]
    /\ UNCHANGED <<clientVars, m_cache, conns, m_apcNotifQ, lineVars, app, starts,
                   refusals, mgr>>

\* CONNECT and messages are handed on (keep-alive before CONNECT, too); an error
\* ends the read, and the frames behind it are dropped.
messageReceived(c) ==
    /\ conn[c].reading /\ toApc[c] # <<>>
    /\ Len(m_apcNotifQ) < MaxQueue
    /\ toApc' = [toApc EXCEPT ![c] = Tail(@)]
    /\ LET f == Head(toApc[c]) IN
       \/ /\ f.t = "CONNECT"
          /\ conn' = [conn EXCEPT ![c].connected = TRUE]
          /\ m_apcNotifQ' = Append(m_apcNotifQ,
                 [t |-> "CONNECT", c |-> c, id |-> f.id, your |-> f.your])
       \/ /\ f.t = "KA" \/ (f.t = "NET" /\ conn[c].connected)
          /\ m_apcNotifQ' = Append(m_apcNotifQ, [t |-> "MSGRCVD", your |-> f.your])
          /\ UNCHANGED conn
       \/ /\ f.t = "NET" /\ ~conn[c].connected
          /\ readError(c, "OFFLINE")
       \/ /\ f.t = "DISCONNECT"
          /\ readError(c, "DISCONNECT")
    /\ UNCHANGED <<clientVars, m_cache, conns, toMgr, up, app, starts, refusals, mgr>>

handle_read_end(c) ==
    /\ conn[c].reading /\ toApc[c] = <<>>
    /\ conn' = [conn EXCEPT ![c].reading = FALSE]
    /\ UNCHANGED <<clientVars, m_cache, conns, m_apcNotifQ, lineVars, app, starts,
                   refusals, mgr>>
-----------------------------------------------------------------------------
(* CAPCClient: calls *)

\* ipConnect_p may open a connection (within the bound), or fail.
ipConnect_p == conns < MaxConns

\* start: the client's fields are reset and a connection for a new session opened; a
\* connector that is still there makes it return.
start ==
    /\ app = "idle" /\ starts < MaxStarts
    /\ starts' = starts + 1 /\ app' = "run"
    /\ \/ /\ m_pConnector # 0
          /\ UNCHANGED <<clientVars, m_cache, connVars, lineVars>>
       \/ /\ m_pConnector = 0
          /\ m_state' = "INIT" /\ m_intfId' = 0 /\ m_cache' = [last |-> 0, num |-> 0]
          /\ UNCHANGED <<m_pConnector, m_disconnectTime, m_reconnectTimer>>
          /\ \/ ipConnect_p /\ Open(0)
             \/ UNCHANGED <<connVars, lineVars>>
    /\ UNCHANGED <<refusals, mgr>>

\* stop: the client's lock is held up to the wait for the disconnect notification,
\* the connector's only while DISCONNECT is written (stop) and while it is closed
\* (stop_close).
Unlocked == app # "closing"

stop ==
    /\ app = "run"
    /\ m_reconnectTimer' = stopTimer_p
    /\ m_disconnectTime' = "EMPTY"
    /\ m_state' = "DISCONNECT"
    /\ LET c == m_pConnector IN
       \/ /\ c = 0
          /\ app' = "join"
          /\ UNCHANGED <<conn, toMgr>>
       \/ /\ c # 0
          /\ app' = "closing"
          /\ conn' = [conn EXCEPT ![c].force = TRUE]
          /\ toMgr' = IF CanWrite(c) THEN Written(c, <<[t |-> "DISCONNECT"]>>) ELSE toMgr
    /\ UNCHANGED <<m_intfId, m_pConnector, m_cache, conns, m_apcNotifQ, toApc, up, starts,
                   refusals, mgr>>

stop_close ==
    /\ app = "closing"
    /\ app' = "wait"
    /\ stopped(m_pConnector, "DISCONNECT")
    /\ UNCHANGED <<clientVars, m_cache, conns, lineVars, starts, refusals, mgr>>

\* The wait is over, by the signal or after 1 s: a connector still there is dropped.
stop_wait ==
    /\ app = "woken" \/ (app = "wait" /\ StopTimeout)
    /\ m_pConnector' = 0
    /\ app' = "join"
    /\ UNCHANGED <<m_state, m_intfId, m_disconnectTime, m_reconnectTimer, m_cache,
                   connVars, lineVars, starts, refusals, mgr>>

\* stopIOSrvThread joins the io thread, which ends when it has nothing left to do.
NoIOWork == /\ ~m_reconnectTimer.armed /\ m_reconnectTimer.due = 0
            /\ \A c \in Conns : ~conn[c].working /\ ~conn[c].reading

stop_join ==
    /\ app = "join" /\ NoIOWork
    /\ m_cache' = [last |-> 0, num |-> 0]
    /\ app' = "idle"
    /\ UNCHANGED <<clientVars, connVars, lineVars, starts, refusals, mgr>>

\* What a write that fails stops the connector with: a packet that does not fit in a
\* message with its header (prepMsg) ends the session, any other error the connection.
WriteErrors == {"OFFLINE", "DISCONNECT"}

\* Mutant: addPacket hands the number out before it counts it up.
sendData_p_early ==
    LET c == m_pConnector
        s == m_cache.last + 1
    IN  /\ Unlocked /\ m_state = "ONLINE" /\ c # 0
        /\ s <= MaxPackets
        /\ m_cache' = [last |-> s, num |-> Least(m_cache.num + 1, CacheSize)]
        /\ CanWrite(c)
        /\ toMgr' = Written(c, <<[t |-> "DATA", seq |-> m_cache.last]>>)
        /\ UNCHANGED <<clientVars, conn, m_apcNotifQ, conns, toApc, up, app, starts,
                       refusals, mgr>>

\* sendData_p: the packet is cached, then written; a write that fails stops the
\* connector.
sendData_p ==
    LET c == m_pConnector
        s == m_cache.last + 1
    IN  /\ Unlocked /\ m_state = "ONLINE" /\ c # 0
        /\ s <= MaxPackets
        /\ m_cache' = [last |-> s, num |-> Least(m_cache.num + 1, CacheSize)]
        /\ \/ /\ CanWrite(c)
              /\ toMgr' = Written(c, <<[t |-> "DATA", seq |-> s]>>)
              /\ UNCHANGED <<conn, m_apcNotifQ>>
           \/ /\ \E flag \in WriteErrors : stopped(c, flag)
              /\ UNCHANGED toMgr
        /\ UNCHANGED <<clientVars, conns, toApc, up, app, starts, refusals, mgr>>

\* sendData, sendTxDone, sendTimeMap and the other calls: each is one packet.
sendData == sendData_p
-----------------------------------------------------------------------------
(* CAPCClient: notifications *)

Notif(type) == m_apcNotifQ # <<>> /\ Head(m_apcNotifQ).t = type

apcStarted ==
    /\ Unlocked /\ Notif("START")
    /\ m_pConnector' = Head(m_apcNotifQ).c
    /\ m_apcNotifQ' = Tail(m_apcNotifQ)
    /\ UNCHANGED <<m_state, m_intfId, m_disconnectTime, m_reconnectTimer, m_cache, conn,
                   conns, lineVars, app, starts, refusals, mgr>>

\* Mutant: the number of a restored session is not taken.
confirmedSeqNum_notAtInit(a, isInit) ==
    LET left == Least(m_cache.last - a, CacheSize)
    IN  IF a > m_cache.last \/ isInit THEN m_cache
        ELSE [m_cache EXCEPT !.num = Least(@, left)]

\* CAPCCache::confirmedSeqNum.  A number above the last one sent stands for one a
\* word below it, and is refused while that is negative.
confirmedSeqNum(a, isInit) ==
    LET left == Least(m_cache.last - a, CacheSize)
    IN  IF a > m_cache.last THEN m_cache
        ELSE [m_cache EXCEPT !.num = IF isInit THEN left ELSE Least(@, left)]

messageConfirms ==
    /\ Notif("MSGRCVD")
    /\ m_cache' = confirmedSeqNum(Head(m_apcNotifQ).your, FALSE)
    /\ m_apcNotifQ' = Tail(m_apcNotifQ)
    /\ UNCHANGED <<clientVars, conn, conns, lineVars, app, starts, refusals, mgr>>

\* The Manager's answer names no session or another one.
WrongSession(id) == id = 0 \/ (m_intfId # 0 /\ id # m_intfId)

\* stop, called while a notification is handled.
PopAndStop(c, flag) ==
    IF conn[c].working
    THEN /\ conn' = [conn EXCEPT ![c].working = FALSE, ![c].connected = FALSE]
         /\ m_apcNotifQ' = Append(Tail(m_apcNotifQ),
                [t |-> "DISCONNECT", c |-> c, flag |-> StopFlag(c, flag)])
    ELSE m_apcNotifQ' = Tail(m_apcNotifQ) /\ UNCHANGED conn

\* The same is done with an answer of another version of the protocol.
apcConnected_refused ==
    /\ Unlocked /\ Notif("CONNECT") /\ WrongSession(Head(m_apcNotifQ).id)
    /\ PopAndStop(Head(m_apcNotifQ).c, "DISCONNECT")
    /\ UNCHANGED <<clientVars, m_cache, conns, lineVars, app, starts, refusals, mgr>>

\* A first connection needs no replay.
apcConnected_new ==
    /\ Unlocked /\ Notif("CONNECT") /\ ~WrongSession(Head(m_apcNotifQ).id) /\ m_intfId = 0
    /\ m_intfId' = Head(m_apcNotifQ).id
    /\ m_reconnectTimer' = stopTimer_p /\ m_disconnectTime' = "EMPTY"
    /\ m_state' = "ONLINE"
    /\ m_apcNotifQ' = Tail(m_apcNotifQ)
    /\ UNCHANGED <<m_pConnector, m_cache, conn, conns, lineVars, app, starts, refusals,
                   mgr>>

\* Mutant: the replay begins behind the oldest packet.
Replay_late(cache, k) == [i \in 1..k - 1 |-> [t |-> "DATA", seq |-> cache.last - cache.num + i + 1]]

\* The first k packets of the cache, oldest first (prepForGet, getNextPacket).
Replay(cache, k) == [i \in 1..k |-> [t |-> "DATA", seq |-> cache.last - cache.num + i]]

\* A restored session: the cache is replayed from the Manager's last number on.  A
\* write that fails after k packets ends the replay and the connection.
apcConnected_restored ==
    /\ Unlocked /\ Notif("CONNECT") /\ ~WrongSession(Head(m_apcNotifQ).id) /\ m_intfId # 0
    /\ m_pConnector # 0
    /\ LET n     == Head(m_apcNotifQ)
           cache == confirmedSeqNum(n.your, TRUE)
       IN  /\ m_cache' = cache
           /\ \E k \in 0..cache.num :
                 /\ k > 0 => CanWrite(m_pConnector)
                 /\ toMgr' = Written(m_pConnector, Replay(cache, k))
                 /\ \/ /\ k = cache.num
                       /\ m_state' = "ONLINE"
                       /\ m_apcNotifQ' = Tail(m_apcNotifQ) /\ UNCHANGED conn
                    \/ /\ k < cache.num
                       /\ \E flag \in WriteErrors : PopAndStop(n.c, flag)
                       /\ UNCHANGED m_state
    /\ m_reconnectTimer' = stopTimer_p /\ m_disconnectTime' = "EMPTY"
    /\ UNCHANGED <<m_intfId, m_pConnector, conns, toApc, up, app, starts, refusals, mgr>>

apcDisconnected ==
    /\ Unlocked /\ Notif("DISCONNECT")
    /\ m_pConnector' = 0
    /\ m_apcNotifQ' = Tail(m_apcNotifQ)
    /\ LET now == \/ Head(m_apcNotifQ).flag = "DISCONNECT"
                  \/ m_intfId = 0 \/ ~Reconnects
       IN  /\ m_state' = IF now THEN "DISCONNECT" ELSE "OFFLINE"
           /\ m_disconnectTime' = IF now THEN "EMPTY"
                                ELSE IF m_disconnectTime = "EMPTY" THEN "SET" ELSE m_disconnectTime
           /\ m_reconnectTimer' = IF now THEN stopTimer_p ELSE startTimer_p
    /\ app' = IF app = "wait" THEN "woken" ELSE app
    /\ UNCHANGED <<m_intfId, m_cache, conn, conns, lineVars, starts, refusals, mgr>>
-----------------------------------------------------------------------------
(* CAPCClient: the reconnection timer, on the io thread *)

TimerExpires ==
    /\ m_reconnectTimer.armed /\ app # "idle"
    /\ m_reconnectTimer' = [armed |-> FALSE, due |-> m_reconnectTimer.due + 1]
    /\ UNCHANGED <<m_state, m_intfId, m_pConnector, m_disconnectTime, m_cache, connVars,
                   lineVars, app, starts, refusals, mgr>>

\* The deadline for a reconnection passes.
TimePasses ==
    /\ m_disconnectTime = "SET"
    /\ m_disconnectTime' = "OVER"
    /\ UNCHANGED <<m_state, m_intfId, m_pConnector, m_reconnectTimer, m_cache, connVars,
                   lineVars, app, starts, refusals, mgr>>

TimerHandled == [m_reconnectTimer EXCEPT !.due = @ - 1]

\* A connection was opened: the timer is not started again.
TimerUsed == TimerHandled

\* Mutant: a connection that cannot be opened leaves the timer as it is.
RestartTimer_not == TimerHandled
\* startTimer_p, after a connection that could not be opened.
RestartTimer == [TimerHandled EXCEPT !.armed = TRUE]

\* reconnectTimerFun_p with time left: reconnect_p.
reconnect_p ==
    /\ m_reconnectTimer.due > 0 /\ app # "idle" /\ Unlocked /\ IOFree
    /\ m_state # "DISCONNECT" /\ m_disconnectTime = "SET"
    /\ \/ /\ m_pConnector # 0
          /\ m_reconnectTimer' = TimerHandled
          /\ UNCHANGED <<connVars, lineVars>>
       \/ /\ m_pConnector = 0 /\ ipConnect_p
          /\ m_reconnectTimer' = TimerUsed
          /\ Open(m_intfId)
       \/ /\ m_pConnector = 0
          /\ m_reconnectTimer' = RestartTimer
          /\ UNCHANGED <<connVars, lineVars>>
    /\ UNCHANGED <<m_state, m_intfId, m_pConnector, m_disconnectTime, m_cache, app,
                   starts, refusals, mgr>>

\* reconnectTimerFun_p when the time is over (or no time is set): disconnect_p.
disconnect_p ==
    /\ m_reconnectTimer.due > 0 /\ app # "idle" /\ Unlocked /\ IOFree
    /\ m_state # "DISCONNECT" /\ m_disconnectTime # "SET"
    /\ \/ /\ m_pConnector # 0
          /\ stopped(m_pConnector, "DISCONNECT")
          /\ m_reconnectTimer' = TimerHandled
          /\ UNCHANGED <<m_state, m_disconnectTime, app>>
       \/ /\ m_pConnector = 0
          /\ m_state' = "DISCONNECT"
          /\ m_disconnectTime' = "EMPTY"
          /\ m_reconnectTimer' = [TimerHandled EXCEPT !.armed = FALSE]
          /\ app' = IF app = "wait" THEN "woken" ELSE app
          /\ UNCHANGED <<conn, m_apcNotifQ>>
    /\ UNCHANGED <<m_intfId, m_pConnector, m_cache, conns, lineVars, starts, refusals, mgr>>

\* reconnectTimerFun_p after a disconnect does nothing.
timerIgnored ==
    /\ m_reconnectTimer.due > 0 /\ app # "idle" /\ Unlocked /\ IOFree
    /\ m_state = "DISCONNECT"
    /\ m_reconnectTimer' = TimerHandled
    /\ UNCHANGED <<m_state, m_intfId, m_pConnector, m_disconnectTime, m_cache, connVars,
                   lineVars, app, starts, refusals, mgr>>
-----------------------------------------------------------------------------
(* The Manager and the network (external) *)

\* CONNECT: a new session, or the one the Manager knows, taken over by connection
\* c; older connections are closed.  DATA is taken from the current connection.
ManagerReads(c) ==
    /\ toMgr[c] # <<>>
    /\ LET f == Head(toMgr[c]) IN
       \/ /\ f.t = "CONNECT"
          /\ LET new == f.id = 0
                 id  == IF new THEN mgr.ids + 1 ELSE IF f.id = mgr.id THEN f.id ELSE 0
                 got == IF new THEN <<>> ELSE mgr.got
                 last == IF got = <<>> THEN 0 ELSE got[Len(got)]
             IN  /\ mgr' = [id |-> IF id = 0 THEN mgr.id ELSE id,
                            ids |-> IF new THEN id ELSE mgr.ids,
                            cur |-> IF id = 0 THEN mgr.cur ELSE c, got |-> got]
                 /\ toApc' = IF up[c] THEN [toApc EXCEPT ![c] = Append(@,
                                 [t |-> "CONNECT", id |-> id, your |-> last])]
                             ELSE toApc
                 /\ up' = [d \in Conns |-> up[d] /\ d >= c]
                 /\ toMgr' = [d \in Conns |-> IF d < c THEN <<>> ELSE
                                IF d = c THEN Tail(toMgr[c]) ELSE toMgr[d]]
       \/ /\ f.t = "DATA"
          /\ mgr' = IF c = mgr.cur THEN [mgr EXCEPT !.got = Append(@, f.seq)] ELSE mgr
          /\ toMgr' = [toMgr EXCEPT ![c] = Tail(@)]
          /\ UNCHANGED <<toApc, up>>
       \/ /\ f.t = "DISCONNECT"
          /\ mgr' = IF c = mgr.cur THEN [mgr EXCEPT !.id = 0, !.cur = 0] ELSE mgr
          /\ toMgr' = [toMgr EXCEPT ![c] = Tail(@)]
          /\ UNCHANGED <<toApc, up>>
    /\ UNCHANGED <<clientVars, m_cache, connVars, app, starts, refusals>>

\* The Manager confirms what it has, in a message of its own.
ManagerConfirms ==
    LET c == mgr.cur IN
    /\ c # 0 /\ mgr.got # <<>> /\ up[c] /\ toApc[c] = <<>>
    /\ \A i \in DOMAIN m_apcNotifQ : m_apcNotifQ[i].t # "MSGRCVD"
    /\ \E type \in {"KA", "NET"} :
          toApc' = [toApc EXCEPT ![c] = <<[t |-> type, your |-> mgr.got[Len(mgr.got)]]>>]
    /\ UNCHANGED <<clientVars, m_cache, connVars, toMgr, up, app, starts, refusals, mgr>>

\* The Manager ends the session, or forgets it.
ManagerRefuses ==
    /\ refusals < MaxRefusals /\ mgr.cur # 0
    /\ refusals' = refusals + 1
    /\ mgr' = [mgr EXCEPT !.id = 0, !.cur = 0]
    /\ \/ /\ up[mgr.cur]
          /\ toApc' = [toApc EXCEPT ![mgr.cur] = Append(@, [t |-> "DISCONNECT"])]
       \/ UNCHANGED toApc
    /\ UNCHANGED <<clientVars, m_cache, connVars, toMgr, up, app, starts>>

\* A connection breaks: what is in transit is lost, and so is what is written to
\* it before the connector notices.
Break(c) ==
    /\ up[c]
    /\ up' = [up EXCEPT ![c] = FALSE]
    /\ toMgr' = [toMgr EXCEPT ![c] = <<>>]
    /\ \/ toApc' = [toApc EXCEPT ![c] = <<>>]
       \/ UNCHANGED toApc
    /\ UNCHANGED <<clientVars, m_cache, connVars, app, starts, refusals, mgr>>

NotifNext == \/ apcStarted \/ messageConfirms \/ apcConnected_refused
             \/ apcConnected_new \/ apcConnected_restored \/ apcDisconnected
ReadNext(c) == handle_read_p(c) \/ messageReceived(c) \/ handle_read_end(c)
TimerNext == reconnect_p \/ disconnect_p \/ timerIgnored
CallNext == start \/ stop \/ stop_close \/ stop_wait \/ stop_join \/ sendData
MgrNext  == ManagerConfirms \/ ManagerRefuses \/ \E c \in Conns : ManagerReads(c) \/ Break(c)

Next == \/ NotifNext \/ TimerExpires \/ TimePasses \/ TimerNext \/ CallNext \/ MgrNext
        \/ \E c \in Conns : ReadNext(c) \/ connectionFails(c)

Spec == Init /\ [][Next]_svars

\* The threads run on: the notification thread, the io thread with its timers and
\* reads, and the Manager.  A dead connection is noticed (the keep-alive timer) and
\* the deadline passes.  A read is of a bounded buffer, so it ends however much
\* the Manager sends meanwhile.  Nobody has to call start, stop or sendData.
Fairness ==
    /\ WF_svars(NotifNext) /\ WF_svars(TimerExpires) /\ WF_svars(TimePasses)
    /\ WF_svars(TimerNext) /\ WF_svars(stop_close) /\ WF_svars(stop_wait) /\ WF_svars(stop_join)
    /\ \A c \in Conns : /\ WF_svars(ReadNext(c)) /\ SF_svars(handle_read_end(c))
                        /\ WF_svars(ManagerReads(c))
                        /\ WF_svars(~up[c] /\ connectionFails(c))

FairSpec == Spec /\ Fairness
-----------------------------------------------------------------------------
(* Properties *)

States == {"INIT", "ONLINE", "OFFLINE", "DISCONNECT"}

\* The Manager gets the packets of a session in the order they were sent and none
\* of them twice, whatever connections broke and were replaced meanwhile
\* (apcConnected's replay of the cache).
DeliveredInOrder ==
    \A i \in 1..Len(mgr.got) - 1 : mgr.got[i] < mgr.got[i + 1]

\* A packet the Manager never gets was overwritten in the cache: what it got after
\* a gap begins with the oldest packet the full cache held.
GapsOnlyFromOverflow ==
    app = "run" /\ m_intfId = mgr.id /\ mgr.id # 0 =>
        \A i \in 1..Len(mgr.got) :
            LET before == IF i = 1 THEN 0 ELSE mgr.got[i - 1]
            IN  mgr.got[i] > before + 1 => mgr.got[i] <= m_cache.last - CacheSize + 1

\* The Manager's session is the client's.
Owned == app # "idle" /\ m_intfId # 0 /\ m_intfId = mgr.id

Channel == INSTANCE APCChannel WITH last <- m_cache.last, got <- mgr.got, joined <- Owned

\* The session is a channel that keeps order, repeats nothing, forgets nothing it
\* handed over and loses only what the cache overwrote, whatever connections,
\* replays, confirmations and calls of stop are under way (APCChannel).
SessionIsChannel == Channel!ChannelSpec

\* Only one connector works at a time: a reconnection waits until the connector
\* before it has reported its end (reconnect_p, apcDisconnected).
OneConnector == \A c, d \in Conns : conn[c].working /\ conn[d].working => c = d

\* apcConnected replays the cache through m_pConnector, without a look at it: it is
\* there whenever the Manager's answer to a reconnection is handled while the client
\* runs.  (It need not be once stop is called: a CONNECT the io thread is reading then
\* is queued behind the notification of the disconnect, and m_pConnector is nullptr.)
ReplayHasConnector ==
    app = "run" /\ m_apcNotifQ # <<>> /\ Head(m_apcNotifQ).t = "CONNECT"
        /\ ~WrongSession(Head(m_apcNotifQ).id) /\ m_intfId # 0 => m_pConnector # 0

\* A running client that is offline gets online again or ends the session: a
\* reconnection is always under way or scheduled.
OfflineEnds ==
    m_state = "OFFLINE" /\ app = "run" ~> m_state \in {"ONLINE", "DISCONNECT"} \/ app # "run"

\* stop returns (IAPCClient::stop: "This method returns when the event loop thread
\* completes").
StopReturns == app \in {"closing", "wait", "woken", "join"} ~> app = "idle"
=============================================================================
