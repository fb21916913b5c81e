------------------------------- MODULE APMote -------------------------------
(***************************************************************************)
(* The transport with the other end of the serial line: the AP mote and a  *)
(* line that loses frames.  The mote is not part of the repository; it is  *)
(* modelled from what CAPMTransport expects of it:                         *)
(*   - it handles a command once per packet id, answers a repeated id with *)
(*     the answer it gave, and counts a NACK as an answer (the transport   *)
(*     toggles the packet id for ACK and NACK);                            *)
(*   - it repeats a notification under the same id until it is accepted;   *)
(*   - after a boot it sends the boot event and takes commands once that   *)
(*     event was acknowledged, since the transport restarts its packet ids *)
(*     when it handles the event.                                          *)
(***************************************************************************)
EXTENDS APMTransport

CONSTANTS Rcs,        \* answers the mote may give: "OK", "NACK", "ERR"
          Kinds,      \* notifications it may send: "RECEIVE", "READY_FOR_TIME", "EVENT"
          MaxBoots,   \* bound on boots
          MaxNotifs,  \* bound on notifications other than boot events
          MaxNacks,   \* bound on answers other than OK
          MaxFaults   \* bound on frames lost and notifications repeated

ASSUME MoteAssumption ==
    /\ "OK" \in Rcs /\ Rcs \subseteq {"OK", "NACK", "ERR"}
    /\ Kinds \subseteq {"RECEIVE", "READY_FOR_TIME", "EVENT"}
    /\ {MaxBoots, MaxNotifs, MaxNacks, MaxFaults} \subseteq Nat

VARIABLES ap,         \* [acked, lastId, lastRc, lastNtf]: boot acknowledged, last answer
          out,        \* notification on its way (a sequence of at most one)
          handled,    \* numbers of the commands the mote carried out, in order
          moteCount   \* boots, notifications, refusals and faults so far

moteVars == <<ap, out, handled, moteCount>>
allVars  == <<vars, moteVars>>

BootEvent == [t |-> "ntf", kind |-> "BOOT", n |-> 0, id |-> 0]

MoteInit == /\ ap = [acked |-> TRUE, lastId |-> 2, lastRc |-> "OK", lastNtf |-> 0]
            /\ out = <<>>
            /\ handled = <<>>
            /\ moteCount = [boot |-> 0, ntf |-> 0, refuse |-> 0, fault |-> 0]

\* The other end of the line: every variable of the transport but toAP and toAPC.
Bridge == <<queueVars, m_notifPacketId, timerVars, flowVars, joinVars, threadVars,
            m_abortEnabled, m_bootCounter, isReady, stopped, logVars>>

Rsp(f, rc) == [t |-> "rsp", cmdId |-> f.op.cmdId, id |-> f.id, rc |-> rc]

\* A command: refused silently before the boot is acknowledged, answered again
\* when its id is the last one, otherwise carried out or refused.
MoteCommand ==
    /\ toAP # <<>> /\ Head(toAP).t = "req"
    /\ toAP' = Tail(toAP)
    /\ LET f == Head(toAP) IN
       \/ /\ ~ap.acked
          /\ UNCHANGED <<toAPC, ap, handled, moteCount>>
       \/ /\ ap.acked /\ f.id = ap.lastId /\ ~f.op.sync
          /\ toAPC' = Put(toAPC, Rsp(f, ap.lastRc))
          /\ UNCHANGED <<ap, handled, moteCount>>
       \/ /\ ap.acked /\ (f.id # ap.lastId \/ f.op.sync)
          /\ \E rc \in Rcs :
                /\ rc # "OK" => moteCount.refuse < MaxNacks
                /\ moteCount' = IF rc = "OK" THEN moteCount
                                ELSE [moteCount EXCEPT !.refuse = @ + 1]
                /\ handled' = IF rc = "OK" /\ f.n # 0 THEN Append(handled, f.n) ELSE handled
                /\ ap' = [ap EXCEPT !.lastId = f.id, !.lastRc = rc]
                /\ toAPC' = Put(toAPC, Rsp(f, rc))
    /\ UNCHANGED <<Bridge, resetAP, out>>

\* An acknowledgement of the notification on its way.
MoteAck ==
    /\ toAP # <<>> /\ Head(toAP).t = "ack"
    /\ toAP' = Tail(toAP)
    /\ LET f   == Head(toAP)
           fits == out # <<>> /\ f.id = Head(out).id /\ f.rc = "OK"
       IN  /\ out' = IF fits THEN <<>> ELSE out
           /\ ap' = IF fits /\ Head(out).kind = "BOOT"
                    THEN [ap EXCEPT !.acked = TRUE] ELSE ap
    /\ UNCHANGED <<Bridge, resetAP, toAPC, handled, moteCount>>

\* A new notification, with the id its predecessor did not have.
MoteNotify(kind) ==
    /\ ap.acked /\ out = <<>>
    /\ moteCount.ntf < MaxNotifs
    /\ LET n == moteCount.ntf + 1
           f == [t |-> "ntf", kind |-> kind, n |-> n, id |-> 1 - ap.lastNtf]
       IN  /\ out' = <<f>>
           /\ toAPC' = Put(toAPC, f)
           /\ moteCount' = [moteCount EXCEPT !.ntf = n]
           /\ ap' = [ap EXCEPT !.lastNtf = f.id]
    /\ UNCHANGED <<Bridge, resetAP, toAP, handled>>

\* The acknowledgement of a frame is still on its way.
AckUnderway == \/ \E i \in DOMAIN toAP : toAP[i].t = "ack"
               \/ \E i \in DOMAIN toAPC : toAPC[i].t = "ntf"
               \/ work["io"] # <<>> /\ work["io"][Len(work["io"])].do = "ack"

\* A notification without answer is repeated.  The mote's timeout is longer than
\* the bridge takes, so it does not repeat a notification whose answer is coming.
MoteRepeat ==
    /\ out # <<>> /\ ~AckUnderway
    /\ moteCount.fault < MaxFaults
    /\ moteCount' = [moteCount EXCEPT !.fault = @ + 1]
    /\ toAPC' = Put(toAPC, Head(out))
    /\ UNCHANGED <<Bridge, resetAP, toAP, ap, out, handled>>

\* The mote boots, by itself or by a reset pulse; what is on the line to it is lost.
\* A boot takes far longer than an acknowledgement: none from before it arrives after.
MoteBoot ==
    /\ moteCount.boot < MaxBoots /\ ~AckUnderway
    /\ moteCount' = [moteCount EXCEPT !.boot = @ + 1]
    /\ resetAP' = FALSE
    /\ ap' = [acked |-> FALSE, lastId |-> 2, lastRc |-> "OK", lastNtf |-> 0]
    /\ out' = <<BootEvent>>
    /\ toAP' = <<>>
    /\ toAPC' = Put(toAPC, BootEvent)
    /\ UNCHANGED <<Bridge, handled>>

\* A frame with a bad checksum is dropped.
LineLoses ==
    /\ moteCount.fault < MaxFaults
    /\ moteCount' = [moteCount EXCEPT !.fault = @ + 1]
    /\ \/ /\ toAP # <<>>
          /\ toAP' = Tail(toAP) /\ UNCHANGED toAPC
       \/ /\ toAPC # <<>>
          /\ toAPC' = Tail(toAPC) /\ UNCHANGED toAP
    /\ UNCHANGED <<Bridge, resetAP, ap, out, handled>>

MoteNext == \/ MoteCommand \/ MoteAck \/ MoteRepeat \/ MoteBoot \/ LineLoses
            \/ \E kind \in Kinds : MoteNotify(kind)

SysInit == Init /\ MoteInit
SysNext == \/ TransportNext /\ UNCHANGED moteVars
           \/ MoteNext
SysSpec == SysInit /\ [][SysNext]_allVars

(* Fairness.  A thread inside a call goes on; a running timer expires; io_service
   runs its handlers first come, first served, so that one that is ready again and
   again gets its turn; the mote reads its line.  No one has to call the transport. *)
Bridges(A) == A /\ UNCHANGED moteVars
Fairness ==
    /\ \A t \in Threads : WF_allVars(Bridges(ThreadNext(t)))
    /\ WF_allVars(Bridges(handleResponse \/ handleResponse_resume \/ handleResponse_end
                             \/ handleRetryTimeout_reset))
    /\ WF_allVars(Bridges(OutputTimerExpires))
    /\ SF_allVars(Bridges(handleMsg_response))
    /\ SF_allVars(Bridges(handleRetryTimeout \/ handleRetryTimeout_lost))
    /\ SF_allVars(Bridges(handleQueueCheckTimeout))
    /\ SF_allVars(Bridges(handlePingTimeout))
    /\ WF_allVars(MoteCommand)
FairSpec == SysSpec /\ Fairness
-----------------------------------------------------------------------------
(* Properties *)

\* The transport's variables have their types and stay in their limits: the queue
\* (insertMsg), the retries (handleRetryTimeout) and the boot events.
TransportTypeOK ==
    /\ m_pending \in BOOLEAN /\ m_respPacketId \in {0, 1} /\ m_notifPacketId \in {0, 1}
    /\ m_curRetryCount \in 0..MaxRetries
    /\ m_outputTimer \in [armed : BOOLEAN, due : Nat]
    /\ {m_mngrInputState, m_apInputState, told} \subseteq {"NORMAL", "PAUSE"}
    /\ Len(m_outputQueue) <= MaxQueue
    /\ m_bootCounter \in 0..MaxBootEvents
    /\ \A t \in Threads : mid[t] # "none" => work[t] # <<>> /\ Head(work[t]).do = "insert"

\* The mote carries out the commands in the order they were queued, each at most
\* once, whatever is lost, repeated, refused or interrupted by a boot: a retry
\* after a response, or a response taken for another command's, would break it.
InOrderAtMostOnce ==
    \A i, j \in DOMAIN handled : i < j => handled[i] < handled[j]

\* A command leaves the queue as done only if the mote carried it out.
AnsweredWasHandled == answered \subseteq {handled[i] : i \in DOMAIN handled}

\* A notification reaches the coupler at most once and in order, although the
\* mote repeats it whenever an acknowledgement is lost.
NotifiedOnce == \A i, j \in DOMAIN delivered : i < j => delivered[i] < delivered[j]

\* While a command is pending it is the front of the queue that was transmitted:
\* handleMsg compares a response with the front only, and retries send the front.
PendingIsFront == m_pending => m_outputQueue # <<>> /\ Head(m_outputQueue).n = lastTx.n

\* No thread is inside a call of the transport.
Idle == \A t \in Threads : work[t] = <<>>

\* No wakeup is lost: between calls, a queue that is not empty has its front
\* command on the line.  insertMsg and handleResponse both look at m_pending before
\* they send, each in a locked section of its own.
QueueIsServed == Idle /\ m_outputQueue # <<>> => m_pending

\* A command on the line has a retry timer, unless the AP was given up and reset.
PendingHasTimer ==
    m_pending /\ work["io"] = <<>> => \/ m_outputTimer.armed \/ m_outputTimer.due > 0
                                     \/ resetAP

\* The Manager is not paused forever, unless the AP is given up and reset: also not
\* when the queue drains between the decision to pause and the flag.  The comments
\* of handleQueueCheckTimeout promise it: "if queue is empty and manager is PAUSED,
\* then RESUME it".
PauseEnds == told = "PAUSE" ~> (told = "NORMAL" \/ resetAP)

\* What is queued is answered in the end, or the AP is given up and reset.
QueueDrains == m_outputQueue # <<>> ~> (m_outputQueue = <<>> \/ resetAP)

\* handleMsg's comment "ensure this response is for most recent command": the
\* command a response takes off the queue is the one transmitted last.
ResponseTakesLastSent ==
    [][handleResponse => Head(m_outputQueue).n = lastTx.n]_allVars

\* The AP has booted and the Manager is connected: since the boot a JOIN command was
\* handed to insertMsg, or the thread that saw both is about to, unless the mote is
\* booting.  enableJoin and handleAPBoot each set one flag and read the other, and
\* m_isRunning, by which handleAPBoot decides, is written by three threads after
\* the calls it speaks of, without a lock.
JoinStarted ==
    m_isMngrConnected /\ m_isApConnected =>
       \/ joinTried \/ (out # <<>> /\ Head(out).kind = "BOOT")
       \/ \E t \in Threads : \E i \in DOMAIN work[t] :
             work[t][i].do = "insert" /\ work[t][i].op.cmdId = "JOIN"

\* handleRetryTimeout's message "No response after ... retries": the AP is given up
\* only after the command on the line went out once and then MaxRetries times again.
GivesUpAfterAllRetries ==
    [][handleRetryTimeout_lost => lastTx.tries > MaxRetries]_allVars
=============================================================================
