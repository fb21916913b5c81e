---------------------------- MODULE APMTransport ----------------------------
(***************************************************************************)
(* CAPMTransport (APInterface/APMTransport.cpp): the stop-and-wait         *)
(* transport between the AP Bridge and the AP mote on the serial line.     *)
(*                                                                         *)
(* Threads.  The io thread runs the handlers of received frames and of the *)
(* timers.  Application threads (the coupler's state machine, the client's *)
(* notification thread, GPS, RPC) call insertMsg, enableJoin and so on.    *)
(* m_lock is held for short sections only, so one call is several steps:   *)
(* `work' lists what a thread has still to do of the calls it is in, and   *)
(* `mid' says how far it is inside insertMsg.                              *)
(*                                                                         *)
(* The mote and the line are external; module APMote has their actions.    *)
(* Statistics, ages and logging are left out.  A command carries a number  *)
(* n of its own, so that the properties can tell commands apart; a query   *)
(* (GETPARAM), which changes nothing however often it is carried out, has  *)
(* number 0.                                                               *)
(***************************************************************************)
EXTENDS Integers, Sequences

CONSTANTS Apps,            \* application threads
          AppOps,          \* commands they insert: [cmdId, high, sync]
          BootOps,         \* sequence the coupler inserts when the AP booted
          MaxQueue,        \* maxQueueSize
          High, Low,       \* highQueueWatermark, lowQueueWatermark
          MaxRetries,      \* maxRetries
          MaxBootEvents,   \* APM_MAX_BOOT_EVENTS
          ReconnectSerial, \* m_reconnectSerial
          Pings,           \* may the line be idle for pingTimeout
          MayAge,          \* may a command wait for longer than maxPacketAge
          MaxInserts,      \* bound on the commands inserted by applications
          MaxJoins,        \* bound on calls of enableJoin
          MaxControl,      \* bound on the other calls of the coupler
          MaxLine,         \* bound on the frames in transit, each way
          MaxDue           \* bound on the expiries of the retry timer in a queue

ASSUME TransportAssumption ==
    /\ "io" \notin Apps
    /\ AppOps \subseteq [cmdId : STRING, high : BOOLEAN, sync : BOOLEAN]
    /\ BootOps \in Seq([cmdId : STRING, high : BOOLEAN, sync : BOOLEAN])
    /\ MaxQueue \in Nat \ {0} /\ High \in Nat /\ Low \in Nat /\ MaxRetries \in Nat
    /\ MaxBootEvents \in Nat /\ {ReconnectSerial, Pings, MayAge} \subseteq BOOLEAN
    /\ {MaxInserts, MaxJoins, MaxControl, MaxLine, MaxDue} \subseteq Nat

VARIABLES
    m_outputQueue, m_pending, m_respPacketId, m_notifPacketId, m_curRetryCount,
    m_outputTimer,     \* [armed, due]: due counts expiries not handled yet
    m_pingTimer, m_queueCheckTimer,          \* is the timer running
    m_apInputState, m_mngrInputState,        \* "NORMAL" or "PAUSE"
    m_isMngrConnected, m_isApConnected, m_isRunning, m_abortEnabled,
    joinTried,         \* a JOIN command was inserted since the transport restarted
    m_bootCounter,     \* CAPMSerializer's count of consecutive boot events
    isReady,           \* the serial port is open
    toAP, toAPC,       \* frames in transit
    work, mid, atHigh, \* per thread: steps to do, place in insertMsg, its local
    told,              \* what the coupler last told the Manager: flow to the AP
    delivered,         \* numbers of the notifications handed to the coupler
    lastTx,            \* [n, tries]: the command transmitted last, and how often it was
    answered,          \* numbers of the commands taken off the queue with RC_OK
    resetAP,           \* a reset pulse the AP has not acted on yet
    stopped,           \* the process was told to stop
    count              \* how often each bounded step was taken

queueVars == <<m_outputQueue, m_pending, m_respPacketId, m_curRetryCount, lastTx>>
timerVars == <<m_outputTimer, m_pingTimer, m_queueCheckTimer>>
flowVars  == <<m_apInputState, m_mngrInputState, told>>
joinVars  == <<m_isMngrConnected, m_isApConnected, m_isRunning, joinTried>>
threadVars == <<work, mid, atHigh>>
ctlVars   == <<m_abortEnabled, m_bootCounter, isReady, resetAP, stopped>>
logVars   == <<delivered, answered, count>>
vars == <<queueVars, m_notifPacketId, timerVars, flowVars, joinVars, threadVars,
          ctlVars, logVars, toAP, toAPC>>

Threads == Apps \cup {"io"}

Op(c, h, s) == [cmdId |-> c, high |-> h, sync |-> s]
GetParam == Op("GETPARAM", FALSE, FALSE)
JoinOps  == <<GetParam, Op("SETPARAM", FALSE, FALSE), Op("JOIN", FALSE, FALSE)>>
SetTime  == Op("SETPARAM", TRUE, FALSE)

\* A step of a thread's work that inserts a command.
Inserts(ops) == [i \in DOMAIN ops |-> [do |-> "insert", op |-> ops[i]]]

NoTimer == [armed |-> FALSE, due |-> 0]

Init ==
    /\ m_outputQueue = <<>> /\ m_pending = FALSE
    /\ m_respPacketId = 0 /\ m_notifPacketId = 0 /\ m_curRetryCount = 0
    /\ m_outputTimer = NoTimer /\ m_pingTimer = FALSE /\ m_queueCheckTimer = FALSE
    /\ m_apInputState = "NORMAL" /\ m_mngrInputState = "NORMAL" /\ told = "NORMAL"
    /\ m_isMngrConnected = FALSE /\ m_isApConnected = FALSE /\ m_isRunning = FALSE
    /\ joinTried = FALSE
    /\ m_abortEnabled = TRUE /\ m_bootCounter = 0 /\ isReady = TRUE
    /\ toAP = <<>> /\ toAPC = <<>>
    /\ work = [t \in Threads |-> <<>>]
    /\ mid = [t \in Threads |-> "none"]
    /\ atHigh = [t \in Threads |-> FALSE]
    /\ delivered = <<>> /\ lastTx = [n |-> 0, tries |-> 0] /\ answered = {}
    /\ resetAP = FALSE /\ stopped = FALSE
    /\ count = [insert |-> 0, join |-> 0, control |-> 0]
-----------------------------------------------------------------------------
(* Timers, and the line *)

\* expires_from_now and async_wait: a wait that has not expired is replaced; an
\* expiry that is already due can no longer be withdrawn.
Armed(timer)     == [timer EXCEPT !.armed = TRUE]
\* deadline_timer::cancel, with the same limit.
Cancelled(timer) == [timer EXCEPT !.armed = FALSE]

\* A frame written to the line; one too many is lost.
Put(line, f) == IF Len(line) < MaxLine THEN Append(line, f) ELSE line

\* Mutant: only the first command of an empty queue is sent.
CanSend_first(isNew) == isReady /\ Len(m_outputQueue) = 1 /\ m_pending = ~isNew

CanSend(isNew) == isReady /\ m_outputQueue # <<>> /\ m_pending = ~isNew

\* Mutant: a retry takes the other packet id.
RequestId_newForRetry(isNew) == IF isNew THEN m_respPacketId ELSE 1 - m_respPacketId

\* A retry goes out under the packet id of the first transmission.
RequestId(isNew) == m_respPacketId

\* send(isNew) with sendCommand: the front of the queue goes out under the
\* current packet id.  The retry timer is left to the caller.
send(isNew) ==
    IF CanSend(isNew)
    THEN LET cmd == Head(m_outputQueue) IN
         /\ toAP' = Put(toAP, [t |-> "req", op |-> cmd.op, n |-> cmd.n,
                               id |-> RequestId(isNew)])
         /\ m_pending' = TRUE
         /\ lastTx' = [n |-> cmd.n, tries |-> IF isNew THEN 1 ELSE lastTx.tries + 1]
         /\ m_pingTimer' = TRUE
    ELSE UNCHANGED <<toAP, m_pending, lastTx, m_pingTimer>>

\* sendAPLostNotif_p, as steps of the thread that calls it: the coupler's handler
\* disables the join and wakes its state machine (sendEvent_p); only after that the
\* transport forgets the AP, and then that it is running.
sendAPLostNotif_p == <<[do |-> "disable"], [do |-> "gone"], [do |-> "halted"]>>

Done(t) == work' = [work EXCEPT ![t] = Tail(@)]
Doing(t, step) == work[t] # <<>> /\ Head(work[t]).do = step /\ ~stopped
-----------------------------------------------------------------------------
(* insertMsg, by any thread *)

NewCommand(op) ==
    [op |-> op, n |-> IF op.cmdId = "GETPARAM" THEN 0 ELSE count.insert + 1]

\* A command of high priority goes before the others.
Queued(cmd) == IF cmd.op.high THEN <<cmd>> \o m_outputQueue
                              ELSE Append(m_outputQueue, cmd)

\* Mutant: the check for a full queue lets one command too many in.
Full_late == Len(m_outputQueue) > MaxQueue

Full == Len(m_outputQueue) >= MaxQueue

\* The port is checked and, under the lock, the command queued.
insertMsg(t) ==
    /\ Doing(t, "insert") /\ mid[t] = "none"
    /\ LET cmd == NewCommand(Head(work[t]).op)
           q   == Queued(cmd)
       IN  \/ /\ ~isReady
              /\ work' = [work EXCEPT ![t] = sendAPLostNotif_p \o Tail(@)]
              /\ UNCHANGED <<m_outputQueue, mid, atHigh, count>>
           \/ /\ isReady /\ Full
              /\ Done(t)
              /\ UNCHANGED <<m_outputQueue, mid, atHigh, count>>
           \/ /\ isReady /\ ~Full
              /\ m_outputQueue' = q
              /\ count' = [count EXCEPT !.insert = IF cmd.n = 0 THEN @ ELSE cmd.n]
              /\ atHigh' = [atHigh EXCEPT ![t] = Len(q) >= High]
              /\ mid' = [mid EXCEPT ![t] = "send"]
              /\ UNCHANGED work
    /\ joinTried' = (joinTried \/ Head(work[t]).op.cmdId = "JOIN")
    /\ UNCHANGED <<m_pending, m_respPacketId, m_curRetryCount, lastTx, m_notifPacketId,
                   timerVars, flowVars, m_isMngrConnected, m_isApConnected, m_isRunning,
                   ctlVars, delivered, answered, toAP, toAPC>>

\* send(true), under the lock again.
insertMsg_send(t) ==
    /\ mid[t] = "send" /\ ~stopped
    /\ send(TRUE)
    /\ m_outputTimer' = IF CanSend(TRUE) THEN Armed(m_outputTimer) ELSE m_outputTimer
    /\ mid' = [mid EXCEPT ![t] = "mark"]
    /\ UNCHANGED <<m_outputQueue, m_respPacketId, m_curRetryCount, m_notifPacketId,
                   m_queueCheckTimer, flowVars, joinVars, work, atHigh, ctlVars,
                   logVars, toAPC>>

\* End of insertMsg: the age check runs while the queue is not empty.
LeaveInsert(t) ==
    /\ m_queueCheckTimer' = (m_queueCheckTimer \/ m_outputQueue # <<>>)
    /\ mid' = [mid EXCEPT ![t] = "none"]
    /\ Done(t)

\* Outside the lock: was the high watermark reached while the Manager is not
\* paused?  Then it is told to pause (handleAPPause), and then the flag that says
\* so is written.
insertMsg_mark(t) ==
    /\ mid[t] = "mark" /\ ~stopped
    /\ \/ /\ m_mngrInputState = "NORMAL" /\ atHigh[t]
          /\ mid' = [mid EXCEPT ![t] = "tell"]
          /\ UNCHANGED <<m_queueCheckTimer, work>>
       \/ /\ ~(m_mngrInputState = "NORMAL" /\ atHigh[t])
          /\ LeaveInsert(t)
    /\ UNCHANGED <<queueVars, m_notifPacketId, m_outputTimer, m_pingTimer, flowVars,
                   joinVars, atHigh, ctlVars, logVars, toAP, toAPC>>

insertMsg_tell(t) ==
    /\ mid[t] = "tell" /\ ~stopped
    /\ told' = "PAUSE"
    /\ mid' = [mid EXCEPT ![t] = "set"]
    /\ UNCHANGED <<queueVars, m_notifPacketId, timerVars, m_apInputState,
                   m_mngrInputState, joinVars, work, atHigh, ctlVars, logVars, toAP, toAPC>>

insertMsg_set(t) ==
    /\ mid[t] = "set" /\ ~stopped
    /\ m_mngrInputState' = "PAUSE"
    /\ LeaveInsert(t)
    /\ UNCHANGED <<queueVars, m_notifPacketId, m_outputTimer, m_pingTimer,
                   m_apInputState, told, joinVars, atHigh, ctlVars, logVars, toAP, toAPC>>

\* Last assignment of startJoin_p, made whatever its insertMsg calls answered.
startJoin_p_end(t) ==
    /\ Doing(t, "running")
    /\ m_isRunning' = TRUE
    /\ Done(t)
    /\ UNCHANGED <<queueVars, m_notifPacketId, timerVars, flowVars, m_isMngrConnected,
                   m_isApConnected, joinTried, mid, atHigh, ctlVars, logVars, toAP, toAPC>>

\* The assignments of sendAPLostNotif_p, and of handleAPBoot for an AP that was
\* running, one step each: other threads run between them.
apGone(t) ==
    /\ \/ /\ Doing(t, "disable")
          /\ m_isMngrConnected' = FALSE /\ UNCHANGED <<m_isApConnected, m_isRunning>>
       \/ /\ Doing(t, "gone")
          /\ m_isApConnected' = FALSE /\ UNCHANGED <<m_isMngrConnected, m_isRunning>>
       \/ /\ Doing(t, "halted")
          /\ m_isRunning' = FALSE /\ UNCHANGED <<m_isMngrConnected, m_isApConnected>>
    /\ Done(t)
    /\ UNCHANGED <<queueVars, m_notifPacketId, timerVars, flowVars, joinTried, mid, atHigh,
                   ctlVars, logVars, toAP, toAPC>>

startJoin == Inserts(JoinOps) \o <<[do |-> "running"]>>
-----------------------------------------------------------------------------
(* Calls of the application threads *)

AppInsert(t, op) ==
    /\ t \in Apps /\ work[t] = <<>> /\ ~stopped
    /\ count.insert < MaxInserts
    /\ work' = [work EXCEPT ![t] = Inserts(<<op>>)]
    /\ UNCHANGED <<queueVars, m_notifPacketId, timerVars, flowVars, joinVars, mid,
                   atHigh, ctlVars, logVars, toAP, toAPC>>

enableJoin(t) ==
    /\ t \in Apps /\ work[t] = <<>> /\ ~stopped
    /\ count.join < MaxJoins
    /\ count' = [count EXCEPT !.join = @ + 1]
    /\ m_isMngrConnected' = TRUE
    /\ work' = [work EXCEPT ![t] = IF m_isApConnected THEN startJoin ELSE <<>>]
    /\ UNCHANGED <<queueVars, m_notifPacketId, timerVars, flowVars, m_isApConnected,
                   m_isRunning, joinTried, mid, atHigh, ctlVars, delivered, answered,
                   toAP, toAPC>>

\* disableJoin, setAPMState (the Manager pauses or resumes the AP), enableAbort,
\* disableAbort and hwResetAP, called by the coupler.
disableJoin == /\ m_isMngrConnected' = FALSE
               /\ UNCHANGED <<m_isRunning, m_apInputState, m_abortEnabled, resetAP>>
setAPMState == /\ m_apInputState' \in {"NORMAL", "PAUSE"}
               /\ UNCHANGED <<m_isMngrConnected, m_isRunning, m_abortEnabled, resetAP>>
setAbort    == /\ m_abortEnabled' = ~m_abortEnabled
               /\ UNCHANGED <<m_isMngrConnected, m_isRunning, m_apInputState, resetAP>>
hwResetAP   == /\ m_isRunning' = FALSE
               /\ resetAP' = TRUE
               /\ UNCHANGED <<m_isMngrConnected, m_apInputState, m_abortEnabled>>

Control(t) ==
    /\ t \in Apps /\ work[t] = <<>> /\ ~stopped
    /\ count.control < MaxControl
    /\ count' = [count EXCEPT !.control = @ + 1]
    /\ disableJoin \/ setAPMState \/ setAbort \/ hwResetAP
    /\ UNCHANGED <<queueVars, m_notifPacketId, timerVars, m_mngrInputState, told,
                   m_isApConnected, joinTried, threadVars, m_bootCounter, isReady, stopped,
                   delivered, answered, toAP, toAPC>>
-----------------------------------------------------------------------------
(* Frames received: responses *)

\* The io thread takes the next frame when it is in no handler.
Receive(kind) == /\ work["io"] = <<>> /\ ~stopped /\ isReady
                 /\ toAPC # <<>> /\ Head(toAPC).t = kind
                 /\ toAPC' = Tail(toAPC)
                 /\ m_pingTimer' = TRUE

\* Mutant: the packet id is not compared.
ResponseFits_anyId(f) == m_outputQueue # <<>> /\ f.cmdId = Head(m_outputQueue).op.cmdId

\* A response must carry the command at the front of the queue and the current
\* packet id; any other is dropped.
ResponseFits(f) == /\ m_outputQueue # <<>>
                   /\ f.cmdId = Head(m_outputQueue).op.cmdId
                   /\ f.id = m_respPacketId

handleMsg_response ==
    /\ Receive("rsp")
    /\ work' = [work EXCEPT !["io"] = IF ResponseFits(Head(toAPC))
                                      THEN <<[do |-> "response", rc |-> Head(toAPC).rc]>>
                                      ELSE <<>>]
    /\ UNCHANGED <<queueVars, m_notifPacketId, m_outputTimer, m_queueCheckTimer, flowVars,
                   joinVars, mid, atHigh, ctlVars, logVars, toAP>>

\* The id toggles; the queue, with one command less, is below the low watermark.
NextPacketId == 1 - m_respPacketId
Below        == Len(m_outputQueue) - 1 < Low

\* Mutant: a NACK only cancels the retry timer.
NackTimer_cancelled == Cancelled(m_outputTimer)
\* startNackTimer: the retry timer, with another delay.
NackTimer == Armed(m_outputTimer)

\* handleResponse up to the end of its locked section: the timer is cancelled and
\* the packet id toggled for ACK and NACK; an ACK takes the front off the queue, a
\* NACK leaves it pending and arms the timer with the NACK delay.
handleResponse ==
    /\ Doing("io", "response")
    /\ m_outputQueue # <<>>
    /\ LET rc  == Head(work["io"]).rc
           cmd == Head(m_outputQueue)
       IN  /\ m_respPacketId' = NextPacketId
           /\ m_curRetryCount' = 0
           /\ \/ /\ rc = "NACK"
                 /\ m_outputTimer' = NackTimer
                 /\ work' = [work EXCEPT !["io"] =
                       <<[do |-> "responded", rc |-> rc, op |-> cmd.op, below |-> FALSE]>>]
                 /\ UNCHANGED <<m_outputQueue, m_pending, answered>>
              \/ /\ rc # "NACK"
                 /\ m_outputTimer' = Cancelled(m_outputTimer)
                 /\ m_outputQueue' = Tail(m_outputQueue)
                 /\ m_pending' = FALSE
                 /\ answered' = IF rc = "OK" THEN answered \cup ({cmd.n} \ {0}) ELSE answered
                 /\ work' = [work EXCEPT !["io"] =
                       <<[do |-> "responded", rc |-> rc, op |-> cmd.op, below |-> Below]>>]
    /\ UNCHANGED <<lastTx, m_notifPacketId, m_pingTimer, m_queueCheckTimer, flowVars,
                   joinVars, mid, atHigh, ctlVars, delivered, count, toAP, toAPC>>

\* sendMgrResume: below the low watermark a paused Manager is told to resume; the
\* flag is written after that.
handleResponse_resume ==
    /\ Doing("io", "responded")
    /\ m_mngrInputState = "PAUSE" /\ Head(work["io"]).below
    /\ told' = "NORMAL"
    /\ work' = [work EXCEPT !["io"] = <<[Head(@) EXCEPT !.do = "resumed"]>>]
    /\ UNCHANGED <<queueVars, m_notifPacketId, timerVars, m_apInputState,
                   m_mngrInputState, joinVars, mid, atHigh, ctlVars, logVars, toAP, toAPC>>

\* The rest of handleResponse: the answer to a query goes through handleCmd, which
\* ends a series of boot events; the error callback of disconnectAP (a reset pulse,
\* also for a NACK); and the next command.
handleResponse_end ==
    /\ \/ /\ Doing("io", "responded")
          /\ ~(m_mngrInputState = "PAUSE" /\ Head(work["io"]).below)
          /\ UNCHANGED m_mngrInputState
       \/ /\ Doing("io", "resumed")
          /\ m_mngrInputState' = "NORMAL"
    /\ LET step == Head(work["io"]) IN
       /\ m_bootCounter' = IF step.rc = "OK" /\ step.op.cmdId = "GETPARAM"
                           THEN 0 ELSE m_bootCounter
       /\ resetAP' = (resetAP \/ (step.rc # "OK" /\ step.op.cmdId = "DISCONNECT"))
    /\ send(TRUE)
    /\ m_outputTimer' = IF CanSend(TRUE) THEN Armed(m_outputTimer) ELSE m_outputTimer
    /\ Done("io")
    /\ UNCHANGED <<m_outputQueue, m_respPacketId, m_curRetryCount, m_notifPacketId,
                   m_queueCheckTimer, m_apInputState, told, joinVars, mid, atHigh,
                   m_abortEnabled, isReady, stopped, logVars, toAPC>>
-----------------------------------------------------------------------------
(* Frames received: notifications *)

Ack(f, rc) == [t |-> "ack", id |-> f.id, rc |-> rc]

\* Mutant: repeated notifications are not recognised.
IsNew_always(f) == TRUE

IsNew(f) == f.id # m_notifPacketId \/ f.kind = "BOOT"

\* A notification already handled is acknowledged again, and nothing else.
handleNotification_retry ==
    /\ Receive("ntf")
    /\ ~IsNew(Head(toAPC))
    /\ toAP' = Put(toAP, Ack(Head(toAPC), "OK"))
    /\ UNCHANGED <<queueVars, m_notifPacketId, m_outputTimer, m_queueCheckTimer, flowVars,
                   joinVars, threadVars, ctlVars, logVars>>

\* Data for a Manager that paused the AP is refused and will come again.
handleNotification_nack ==
    /\ Receive("ntf")
    /\ IsNew(Head(toAPC)) /\ Head(toAPC).kind = "RECEIVE" /\ m_apInputState = "PAUSE"
    /\ toAP' = Put(toAP, Ack(Head(toAPC), "NACK"))
    /\ UNCHANGED <<queueVars, m_notifPacketId, m_outputTimer, m_queueCheckTimer, flowVars,
                   joinVars, threadVars, ctlVars, logVars>>

\* What the coupler sends to the AP on a notification: the time, before all other commands, or
\* the question for its status; data and the ends of transmissions go to the Manager.
CouplerOps(kind) == CASE kind = "READY_FOR_TIME" -> <<SetTime>>
                      [] kind = "EVENT"          -> <<GetParam>>
                      [] OTHER                   -> <<>>

\* Any other notification goes to the coupler.
handleNotification ==
    /\ Receive("ntf")
    /\ LET f == Head(toAPC) IN
       /\ IsNew(f) /\ f.kind # "BOOT"
       /\ ~(f.kind = "RECEIVE" /\ m_apInputState = "PAUSE")
       /\ delivered' = Append(delivered, f.n)
       /\ m_bootCounter' = 0
       /\ work' = [work EXCEPT !["io"] =
                     Inserts(CouplerOps(f.kind)) \o <<[do |-> "ack", f |-> f]>>]
    /\ UNCHANGED <<queueVars, m_notifPacketId, m_outputTimer, m_queueCheckTimer, flowVars,
                   joinVars, mid, atHigh, m_abortEnabled, isReady, resetAP, stopped,
                   answered, count, toAP>>

\* Mutant: the queue survives the boot, ids and flags restart.
clearOutputQueue_keepsQueue ==
    /\ m_pending' = FALSE /\ UNCHANGED m_outputQueue
    /\ m_respPacketId' = 0 /\ m_notifPacketId' = 0 /\ m_curRetryCount' = 0
    /\ m_outputTimer' = Cancelled(m_outputTimer) /\ m_pingTimer' = FALSE
    /\ m_apInputState' = "NORMAL" /\ m_mngrInputState' = "NORMAL"

\* A boot event restarts the transport (clearOutputQueue).
clearOutputQueue ==
    /\ m_outputQueue' = <<>> /\ m_pending' = FALSE
    /\ m_respPacketId' = 0 /\ m_notifPacketId' = 0 /\ m_curRetryCount' = 0
    /\ m_outputTimer' = Cancelled(m_outputTimer) /\ m_pingTimer' = FALSE
    /\ m_apInputState' = "NORMAL" /\ m_mngrInputState' = "NORMAL"

handleAPBoot ==
    /\ work["io"] = <<>> /\ ~stopped /\ isReady
    /\ toAPC # <<>> /\ Head(toAPC).t = "ntf" /\ Head(toAPC).kind = "BOOT"
    /\ m_bootCounter < MaxBootEvents
    /\ toAPC' = Tail(toAPC)
    /\ m_bootCounter' = m_bootCounter + 1
    /\ clearOutputQueue
    /\ joinTried' = FALSE
    /\ work' = [work EXCEPT !["io"] = <<[do |-> "boot"], [do |-> "ack", f |-> Head(toAPC)]>>]
    /\ UNCHANGED <<lastTx, m_queueCheckTimer, told, m_isMngrConnected, m_isApConnected,
                   m_isRunning, mid, atHigh, m_abortEnabled, isReady, resetAP, stopped,
                   logVars, toAP>>

\* Was the AP running?  Then the coupler is told of a reboot (handleAPReboot, which
\* disables the join) and the flag cleared.  If not it is told of a boot, and the
\* join starts if the Manager is connected.  Both make the coupler query the AP.
handleAPBoot_told ==
    /\ Doing("io", "boot")
    /\ work' = [work EXCEPT !["io"] =
                  Inserts(BootOps)
                    \o (IF m_isRunning THEN <<[do |-> "disable"], [do |-> "halted"]>>
                                       ELSE <<[do |-> "booted"]>>)
                    \o Tail(@)]
    /\ UNCHANGED <<queueVars, m_notifPacketId, timerVars, flowVars, joinVars, mid, atHigh,
                   ctlVars, logVars, toAP, toAPC>>

\* The boot events keep coming: the AP is given up.
handleAPBoot_lost ==
    /\ Receive("ntf")
    /\ Head(toAPC).kind = "BOOT" /\ m_bootCounter >= MaxBootEvents
    /\ m_bootCounter' = 0
    /\ work' = [work EXCEPT !["io"] =
                  sendAPLostNotif_p \o <<[do |-> "ack", f |-> Head(toAPC)]>>]
    /\ UNCHANGED <<queueVars, m_notifPacketId, m_outputTimer, m_queueCheckTimer, flowVars,
                   joinVars, mid, atHigh, m_abortEnabled, isReady, resetAP, stopped, logVars, toAP>>

\* Mutant: the join is left to a later enableJoin.
handleAPBoot_booted_noJoin ==
    /\ Doing("io", "booted")
    /\ m_isApConnected' = TRUE
    /\ Done("io")
    /\ UNCHANGED <<queueVars, m_notifPacketId, timerVars, flowVars, m_isMngrConnected,
                   m_isRunning, joinTried, mid, atHigh, ctlVars, logVars, toAP, toAPC>>

handleAPBoot_booted ==
    /\ Doing("io", "booted")
    /\ m_isApConnected' = TRUE
    /\ work' = [work EXCEPT !["io"] =
                  (IF m_isMngrConnected THEN startJoin ELSE <<>>) \o Tail(@)]
    /\ UNCHANGED <<queueVars, m_notifPacketId, timerVars, flowVars, m_isMngrConnected,
                   m_isRunning, joinTried, mid, atHigh, ctlVars, logVars, toAP, toAPC>>

\* End of handleNotification: the packet id is recorded and the AP answered.
handleNotification_ack ==
    /\ Doing("io", "ack")
    /\ LET f == Head(work["io"]).f IN
       /\ m_notifPacketId' = f.id
       /\ toAP' = IF isReady THEN Put(toAP, Ack(f, "OK")) ELSE toAP
    /\ Done("io")
    /\ UNCHANGED <<queueVars, timerVars, flowVars, joinVars, mid, atHigh, ctlVars,
                   logVars, toAPC>>
-----------------------------------------------------------------------------
(* Timers of the io thread *)

\* The timer expires: its handler is queued behind the handler in progress.
OutputTimerExpires ==
    /\ m_outputTimer.armed /\ ~stopped
    /\ m_outputTimer.due < MaxDue
    /\ m_outputTimer' = [armed |-> FALSE, due |-> m_outputTimer.due + 1]
    /\ UNCHANGED <<queueVars, m_notifPacketId, m_pingTimer, m_queueCheckTimer, flowVars,
                   joinVars, threadVars, ctlVars, logVars, toAP, toAPC>>

RetryDue == work["io"] = <<>> /\ ~stopped /\ m_outputTimer.due > 0

\* Retries left: the second retry in a row may first re-open the serial port; the
\* pending command, if there is one, goes out again; the timer is re-armed.
handleRetryTimeout ==
    /\ RetryDue
    /\ m_curRetryCount < MaxRetries
    /\ m_curRetryCount' = m_curRetryCount + 1
    /\ m_outputTimer' = [armed |-> TRUE, due |-> m_outputTimer.due - 1]
    /\ \/ /\ ~(ReconnectSerial /\ m_curRetryCount > 0)
          /\ send(FALSE)
          /\ UNCHANGED isReady
       \/ /\ ReconnectSerial /\ m_curRetryCount > 0
          /\ isReady' = TRUE
          /\ IF m_pending /\ m_outputQueue # <<>>
             THEN LET cmd == Head(m_outputQueue) IN
                  /\ toAP' = Put(toAP, [t |-> "req", op |-> cmd.op, n |-> cmd.n,
                                        id |-> RequestId(FALSE)])
                  /\ lastTx' = [n |-> cmd.n, tries |-> lastTx.tries + 1]
                  /\ m_pingTimer' = TRUE
             ELSE UNCHANGED <<toAP, lastTx, m_pingTimer>>
          /\ UNCHANGED m_pending
       \/ /\ ReconnectSerial /\ m_curRetryCount > 0
          /\ isReady' = FALSE
          /\ UNCHANGED <<toAP, m_pending, lastTx, m_pingTimer>>
    /\ UNCHANGED <<m_outputQueue, m_respPacketId, m_notifPacketId, m_queueCheckTimer,
                   flowVars, joinVars, threadVars, m_abortEnabled, m_bootCounter, resetAP,
                   stopped, logVars, toAPC>>

\* No retries left: the AP is lost and reset, unless aborting is disabled.
handleRetryTimeout_lost ==
    /\ RetryDue
    /\ m_curRetryCount >= MaxRetries
    /\ m_outputTimer' = [m_outputTimer EXCEPT !.due = @ - 1]
    /\ m_pingTimer' = FALSE
    /\ work' = IF m_abortEnabled
               THEN [work EXCEPT !["io"] = sendAPLostNotif_p \o <<[do |-> "reset"]>>]
               ELSE work
    /\ UNCHANGED <<queueVars, m_notifPacketId, m_queueCheckTimer, flowVars, joinVars, mid,
                   atHigh, ctlVars, logVars, toAP, toAPC>>

\* hwResetAP after that, and with ReconnectSerial the process is told to stop.
handleRetryTimeout_reset ==
    /\ Doing("io", "reset")
    /\ m_isRunning' = FALSE
    /\ resetAP' = TRUE
    /\ stopped' = ReconnectSerial
    /\ Done("io")
    /\ UNCHANGED <<queueVars, m_notifPacketId, timerVars, flowVars, m_isMngrConnected,
                   m_isApConnected, joinTried, mid, atHigh, m_abortEnabled, m_bootCounter,
                   isReady, logVars, toAP, toAPC>>

\* The age check, all of it under the lock: an empty queue resumes the Manager
\* and ends the checks; a front command older than maxPacketAge pauses it.
handleQueueCheckTimeout ==
    /\ work["io"] = <<>> /\ ~stopped /\ m_queueCheckTimer
    /\ \/ /\ m_outputQueue = <<>>
          /\ m_mngrInputState' = "NORMAL"
          /\ told' = IF m_mngrInputState = "PAUSE" THEN "NORMAL" ELSE told
          /\ m_queueCheckTimer' = FALSE
       \/ /\ m_outputQueue # <<>> /\ m_mngrInputState = "NORMAL" /\ MayAge
          /\ m_mngrInputState' = "PAUSE"
          /\ told' = "PAUSE"
          /\ UNCHANGED m_queueCheckTimer
    /\ UNCHANGED <<queueVars, m_notifPacketId, m_outputTimer, m_pingTimer, m_apInputState,
                   joinVars, threadVars, ctlVars, logVars, toAP, toAPC>>

\* An idle line is probed with a GETPARAM.
handlePingTimeout ==
    /\ work["io"] = <<>> /\ ~stopped /\ m_pingTimer
    /\ m_outputQueue = <<>> /\ Pings
    /\ work' = [work EXCEPT !["io"] = Inserts(<<GetParam>>)]
    /\ UNCHANGED <<queueVars, m_notifPacketId, timerVars, flowVars, joinVars, mid, atHigh,
                   ctlVars, logVars, toAP, toAPC>>

\* What the io thread and the timers do by themselves.
IoNext == \/ handleMsg_response \/ handleResponse \/ handleResponse_resume \/ handleResponse_end
          \/ handleNotification_retry \/ handleNotification_nack \/ handleNotification
          \/ handleAPBoot \/ handleAPBoot_lost \/ handleAPBoot_told
          \/ handleAPBoot_booted \/ handleNotification_ack
          \/ OutputTimerExpires \/ handleRetryTimeout \/ handleRetryTimeout_lost
          \/ handleRetryTimeout_reset
          \/ handleQueueCheckTimeout \/ handlePingTimeout

\* A thread inside insertMsg, startJoin_p or sendAPLostNotif_p goes on.
ThreadNext(t) == \/ insertMsg(t) \/ insertMsg_send(t) \/ insertMsg_mark(t)
                 \/ insertMsg_tell(t) \/ insertMsg_set(t) \/ startJoin_p_end(t)
                 \/ apGone(t)

\* The calls the applications make.
AppNext == \E t \in Apps : \/ \E op \in AppOps : AppInsert(t, op)
                           \/ enableJoin(t) \/ Control(t)

TransportNext == IoNext \/ AppNext \/ \E t \in Threads : ThreadNext(t)
=============================================================================
