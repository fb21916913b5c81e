----------------------------- MODULE APCoupler ------------------------------
(***************************************************************************)
(* CAPCoupler (APInterface/APCoupler.cpp): the state machine that couples  *)
(* the session with the Manager to the life of the AP.                     *)
(*                                                                         *)
(* Threads.  sm is the state machine's own thread; nt the client's         *)
(* notification thread, which calls connected, disconnected, resetAP and   *)
(* disconnectAP; io the transport's thread, which reports boots and losses *)
(* of the AP and runs the handlers of responses; the main thread calls     *)
(* stop.  They meet in m_events, in the transport's join flags and in      *)
(* m_apInfo.clksource, none of which is read and written as one.           *)
(*                                                                         *)
(* The transport is its queue of commands, each carried out and answered   *)
(* in one step (APMTransport has the protocol under it), its join flags    *)
(* and its abort flag.  The client is the state of its connection          *)
(* (APCSession has it in full).  AP and Manager are external.  Queries     *)
(* whose answers are only stored (network id, mote info, status) are left  *)
(* out, as is the time of day (APTime).                                    *)
(***************************************************************************)
EXTENDS Integers, Sequences

CONSTANTS ApClkSource,    \* setting ap-clksrc: "INTERNAL", "PPS" or "MNGRSET"
          Permanent,      \* clock sources an AP may have stored when it is found
          Versions,       \* application versions an AP may have
          MaxNumReset,    \* MAX_NUM_RESET
          Failures,       \* how an AP may stop working: "hung" until reset, "dead" for good
          BootsForever,   \* may the AP send more boot events than the transport accepts
          MaxFaults       \* bound on what AP, Manager and line do wrong, and on the
                          \* requests of the Manager

\* Oldest version the coupler works with.
MIN_VERSION == <<1, 4, 0, 81>>
\* Clock sources; INTERNAL and NETWORK are "OTHER".
Sources == {"AUTO", "OTHER", "PPS"}

ASSUME CouplerAssumption ==
    /\ ApClkSource \in {"INTERNAL", "PPS", "MNGRSET"}
    /\ Permanent # {} /\ Permanent \subseteq Sources
    /\ Versions # {} /\ Versions \subseteq (Nat \X Nat \X Nat \X Nat)
    /\ Failures \subseteq {"hung", "dead"} /\ BootsForever \in BOOLEAN /\ {MaxNumReset, MaxFaults} \subseteq Nat

VARIABLES
    m_events,            \* events the state machine has not taken yet
    sm, events, resets,  \* its place; what its last wait gave; resets it may still make
    again,               \* synchStop_p was called because start failed
    nt, io,              \* places of the two threads that report
    m_isMngrConnected, m_isApConnected, m_isRunning, m_abortEnabled,  \* of the transport
    queue,               \* commands for the AP
    clksource,           \* m_apInfo.clksource, "NONE" for CLOCKSOURCR_NONE
    ap,                  \* the AP: [st, stored, boot, pulse, ver]
    client,              \* the client: "stopped", "started", "online" or "closed"
    reachable,           \* does the Manager's host take connections
    notifs,              \* calls the notification thread has to make
    stopping,            \* IChangeNodeState::stop or stop() of the process
    stopped,             \* stop(): "no", "sent" (E_STOP) or "done" (transport, client, GPS gone)
    late,                \* (history) startJoin_p ended for an AP that had been lost meanwhile
    count                \* faults and requests so far

smVars   == <<sm, events, resets, again>>
joinVars == <<m_isMngrConnected, m_isApConnected, m_isRunning>>
ctlVars  == <<stopping, stopped, reachable, late>>
cvars == <<m_events, smVars, nt, io, joinVars, m_abortEnabled, queue, clksource, ap, client,
           notifs, ctlVars, count>>

Idle == [at |-> "idle"]

\* Something goes wrong, or the Manager has a request: within the bound.
Fault == count < MaxFaults /\ count' = count + 1

CouplerInit ==
    /\ m_events = {} /\ events = {} /\ resets = 0 /\ again = FALSE
    /\ sm = "begin"
    /\ nt = Idle /\ io = Idle
    /\ m_isMngrConnected = FALSE /\ m_isApConnected = FALSE /\ m_isRunning = FALSE
    /\ m_abortEnabled = TRUE /\ queue = <<>>
    /\ clksource = "OTHER"
    /\ \E src \in Permanent, v \in Versions :
          ap = [st |-> "up", stored |-> src, boot |-> FALSE, pulse |-> FALSE,
                ver |-> v]
    /\ client = "stopped" /\ notifs = <<>> /\ reachable \in BOOLEAN
    /\ stopping = FALSE /\ stopped = "no" /\ late = FALSE
    /\ count = 0
-----------------------------------------------------------------------------
(* Calls into the transport *)

Cmd(id)           == [id |-> id]
SetClk(src, kept) == [id |-> "SETCLK", src |-> src, kept |-> kept]

\* hwResetAP: a pulse on the reset line.
hwResetAP == ap' = [ap EXCEPT !.pulse = TRUE] /\ m_isRunning' = FALSE

\* disconnectAP: the command goes before all others.
Disconnected == <<Cmd("DISCONNECT")>> \o queue

\* startJoin_p
Joining == Append(queue, Cmd("JOIN"))

\* handleAPBoot, handleAPReboot: the queue restarts and the AP is asked for its clock
\* source and version (and more); the queries follow one another and are one here.
BootQueries == <<Cmd("GETPARAM")>>

\* Events whose report disables the join before it is noted.
Disables == {"DISCONNECT", "LOST", "REBOOT", "AP_DISCONNECT", "AP_RESET"}

\* sendEvent_p, its second half: the event is noted under m_eventLock.
Noted(e) == m_events' = m_events \cup {e}
-----------------------------------------------------------------------------
(* waitEvents_p *)

\* Mutant: a wait with a time limit does not look at E_STOP.
Throws_untimed(here) == "STOP" \in m_events /\ here \notin {"boot_wait", "disc_wait"}

Throws(here) == "STOP" \in m_events

\* All events are taken.  E_STOP leaves the state machine (exeption_stop); events of
\* which none is waited for are discarded, and the wait goes on; else the caller
\* gets all of them (and looks at them again where it stops the client).
waitEvents_p(here, mask, next) ==
    /\ sm = here /\ m_events # {}
    /\ m_events' = {}
    /\ \/ Throws(here) /\ sm' = (IF here = "stop_wait" THEN "ended" ELSE "stop_prepare")
                       /\ events' = {}
       \/ ~Throws(here) /\ m_events \cap mask = {} /\ UNCHANGED <<sm, events>>
       \/ ~Throws(here) /\ m_events \cap mask # {} /\ sm' = next
                        /\ events' = IF next = "stop_client" THEN m_events ELSE {}

\* A wait with a limit is over without an event: because what was waited for does
\* not come, or because it is late.
timedOut(here, never) ==
    sm = here /\ m_events = {} /\ ((never /\ UNCHANGED count) \/ Fault)

\* The AP does nothing more before it is reset ("hung"), or at all ("dead").
Silent == ap.st \in {"hung", "dead"}

\* Nothing is under way that makes the AP boot.
NoBoot == /\ ~ap.boot /\ ~ap.pulse /\ ap.st # "off" /\ io = Idle
          /\ \A i \in 1..Len(queue) : queue[i].id # "DISCONNECT"
-----------------------------------------------------------------------------
(* The state machine's thread *)

smThreadFun_p ==
    /\ sm = "begin"
    /\ m_isMngrConnected' = FALSE
    /\ sm' = "prepare" /\ events' = {"AP_RESET"}
    /\ UNCHANGED <<m_events, resets, again, nt, io, m_isApConnected, m_isRunning,
                   m_abortEnabled, queue, clksource, ap, client, notifs, ctlVars, count>>

\* prepareAP_p up to its wait: an AP that has just booted is left alone, a lost one is
\* reset, any other is told to disconnect, which makes it boot.
prepareAP_p ==
    /\ sm = "prepare"
    /\ \/ /\ events \cap {"BOOT", "REBOOT"} # {}
          /\ sm' = "start"
          /\ UNCHANGED <<m_abortEnabled, ap, m_isRunning, queue, resets>>
       \/ /\ events \cap {"BOOT", "REBOOT"} = {}
          /\ m_abortEnabled' = FALSE
          /\ IF "LOST" \in events
             THEN hwResetAP /\ UNCHANGED queue
             ELSE queue' = Disconnected /\ UNCHANGED <<ap, m_isRunning>>
          /\ sm' = "boot_wait" /\ resets' = MaxNumReset
    /\ events' = {}
    /\ UNCHANGED <<m_events, again, nt, io, m_isMngrConnected, m_isApConnected,
                   clksource, client, notifs, ctlVars, count>>

\* The wait for the boot: over, ...
bootWait ==
    /\ waitEvents_p("boot_wait", {"BOOT", "REBOOT"}, "start")
    /\ m_abortEnabled' = (sm' = "start")
    /\ resets' = IF sm' = "boot_wait" THEN resets ELSE 0
    /\ UNCHANGED <<again, nt, io, joinVars, queue, clksource, ap, client, notifs,
                   ctlVars, count>>

\* ... or in vain: the AP is reset, and in the end the process told to stop.
bootTimeout ==
    /\ timedOut("boot_wait", Silent \/ NoBoot)
    /\ \/ resets > 0 /\ hwResetAP /\ resets' = resets - 1 /\ UNCHANGED stopping
       \/ resets = 0 /\ stopping' = TRUE /\ UNCHANGED <<resets, ap, m_isRunning>>
    /\ UNCHANGED <<m_events, sm, events, again, nt, io, m_isMngrConnected, m_isApConnected,
                   m_abortEnabled, queue, clksource, client, notifs, stopped, reachable,
                   late>>

\* runStateMachine_p: the client is started.  A failure stops it and tries again, for as
\* long as the Manager cannot be reached; nothing in that loop looks at the events.
clientStart ==
    /\ sm = "start"
    /\ \/ /\ reachable /\ client \in {"stopped", "closed"}
          /\ client' = "started" /\ sm' = "connect_wait"
          /\ UNCHANGED <<again, count>>
       \/ /\ (~reachable /\ UNCHANGED count) \/ (reachable /\ Fault)
          /\ sm' = "stop_client" /\ again' = TRUE
          /\ UNCHANGED client
    /\ UNCHANGED <<m_events, events, resets, nt, io, joinVars, m_abortEnabled, queue, clksource,
                   ap, notifs, ctlVars>>

\* Mutant: the end of the connection is not waited for.
ConnectMask_noDisconnect == {"CONNECT", "BOOT", "LOST", "AP_RESET"}

ConnectMask == {"CONNECT", "DISCONNECT", "BOOT", "LOST", "AP_RESET"}

\* Only when nothing but the connection is reported does the AP join.
connectWait ==
    /\ waitEvents_p("connect_wait", ConnectMask,
                    IF m_events = {"CONNECT"} THEN "join" ELSE "stop_client")
    /\ UNCHANGED <<resets, again, nt, io, joinVars, m_abortEnabled, queue, clksource, ap,
                   client, notifs, ctlVars, count>>

\* enableJoin of the transport: the flags are set and read under m_stateLock, ...
enableJoin ==
    /\ sm = "join"
    /\ m_isMngrConnected' = TRUE
    /\ sm' = IF m_isApConnected THEN "join_send" ELSE "run_wait"
    /\ UNCHANGED <<m_events, events, resets, again, nt, io, m_isApConnected, m_isRunning,
                   m_abortEnabled, queue, clksource, ap, client, notifs, ctlVars, count>>

\* ... and startJoin_p follows without it: the commands, then m_isRunning.
smJoin ==
    /\ \/ /\ sm = "join_send" /\ sm' = "join_run"
          /\ queue' = Joining /\ UNCHANGED <<m_isRunning, late>>
       \/ /\ sm = "join_run" /\ sm' = "run_wait"
          /\ m_isRunning' = TRUE /\ UNCHANGED queue
          /\ late' = (late \/ ~m_isApConnected)
    /\ UNCHANGED <<m_events, events, resets, again, nt, io, m_isMngrConnected, m_isApConnected,
                   m_abortEnabled, clksource, ap, client, notifs, stopping, stopped, reachable,
                   count>>

\* Mutant: a reboot of the AP is not waited for.
RunMask_noReboot == {"DISCONNECT", "LOST", "BOOT", "AP_DISCONNECT", "AP_RESET"}

RunMask == {"DISCONNECT", "LOST", "REBOOT", "BOOT", "AP_DISCONNECT", "AP_RESET"}

runWait ==
    /\ waitEvents_p("run_wait", RunMask, "stop_client")
    /\ UNCHANGED <<resets, again, nt, io, joinVars, m_abortEnabled, queue, clksource, ap,
                   client, notifs, ctlVars, count>>

\* synchStop_p: the client is stopped; a client that had a connection is followed by
\* its disconnected(), which is waited for, and every other event that comes in that
\* time is forgotten.
synchStop_p ==
    /\ sm = "stop_client"
    /\ IF client \in {"started", "online"}
       THEN /\ notifs' = Append(notifs, "disconnected")
            /\ sm' = "disc_wait" /\ UNCHANGED again
       ELSE /\ sm' = IF again THEN "start" ELSE "prepare"
            /\ again' = FALSE /\ UNCHANGED notifs
    /\ client' = "stopped"
    /\ UNCHANGED <<m_events, events, resets, nt, io, joinVars, m_abortEnabled, queue, clksource,
                   ap, ctlVars, count>>

discWait ==
    LET next == IF again THEN "start" ELSE "prepare" IN
    /\ \/ /\ sm = "disc_wait" /\ m_events # {} /\ m_events' = {}
          /\ sm' = CASE Throws("disc_wait")        -> "stop_prepare"
                     [] "DISCONNECT" \in m_events  -> next
                     [] OTHER                      -> "disc_wait"
          /\ UNCHANGED count
       \/ timedOut("disc_wait", FALSE) /\ sm' = next /\ UNCHANGED m_events
    /\ again' = (again /\ sm' = "disc_wait")
    /\ UNCHANGED <<events, resets, nt, io, joinVars, m_abortEnabled, queue, clksource, ap,
                   client, notifs, ctlVars>>

\* prepareAP_p(E_STOP): the AP is told to disconnect, and gets the time to boot.
prepareStop ==
    /\ sm = "stop_prepare"
    /\ m_abortEnabled' = FALSE /\ m_isMngrConnected' = FALSE
    /\ queue' = Disconnected
    /\ sm' = "stop_wait"
    /\ UNCHANGED <<m_events, events, resets, again, nt, io, m_isApConnected, m_isRunning,
                   clksource, ap, client, notifs, ctlVars, count>>

stopWait ==
    /\ \/ waitEvents_p("stop_wait", {"BOOT", "REBOOT"}, "ended") /\ UNCHANGED count
       \/ timedOut("stop_wait", TRUE) /\ sm' = "ended" /\ UNCHANGED <<m_events, events>>
    /\ UNCHANGED <<resets, again, nt, io, joinVars, m_abortEnabled, queue, clksource, ap,
                   client, notifs, ctlVars>>

smNext == \/ smThreadFun_p \/ prepareAP_p \/ bootWait \/ bootTimeout
          \/ clientStart \/ connectWait \/ enableJoin \/ smJoin \/ runWait \/ synchStop_p
          \/ discWait \/ prepareStop \/ stopWait
-----------------------------------------------------------------------------
(* The notification thread *)

NotifIs(what) == nt = Idle /\ notifs # <<>> /\ Head(notifs) = what

connected ==
    /\ NotifIs("connected")
    /\ notifs' = Tail(notifs)
    /\ nt' = [at |-> "clock"]
    /\ UNCHANGED <<m_events, smVars, io, joinVars, m_abortEnabled, queue, clksource, ap, client, ctlVars, count>>

\* The source an AP must keep, which it boots for, when it has another.
PermanentSource == IF ApClkSource = "PPS" THEN "PPS" ELSE "AUTO"

\* setClockSource_p: an answer to the query of the boot is waited for; the source that is
\* missing is stored and sent (sendSetApClkSource), then the connection is noted.  With
\* the permanent source in place the current one, of the setting or of the Manager's
\* flags, is sent; a GPS needs no other.
setClockSource_p ==
    /\ nt.at = "clock" /\ clksource # "NONE"
    /\ LET kept == clksource # PermanentSource
           src  == IF kept THEN PermanentSource ELSE "OTHER"
       IN  IF clksource = "PPS" /\ ApClkSource = "PPS"
           THEN UNCHANGED <<clksource, queue>>
           ELSE /\ clksource' = src
                /\ queue' = IF stopped = "done" THEN queue ELSE Append(queue, SetClk(src, kept))
    /\ nt' = [at |-> "event", e |-> "CONNECT"]
    /\ UNCHANGED <<m_events, smVars, io, joinVars, m_abortEnabled, ap, client, notifs,
                   ctlVars, count>>

\* The answer does not come within 1 s.
setClockSource_timeout ==
    /\ nt.at = "clock" /\ clksource = "NONE" /\ stopped # "done"
    /\ ((Silent \/ ap.st = "off") /\ UNCHANGED count) \/ Fault
    /\ hwResetAP
    /\ nt' = [at |-> "event", e |-> "CONNECT"]
    /\ UNCHANGED <<m_events, smVars, io, m_isMngrConnected, m_isApConnected, m_abortEnabled,
                   queue, clksource, client, notifs, ctlVars>>

\* The call of the notification thread, the event it reports.
EventOf == [disconnected |-> "DISCONNECT", resetAP |-> "AP_RESET",
            disconnectAP |-> "AP_DISCONNECT"]

\* disconnected, resetAP and disconnectAP: sendEvent_p disables the join ...
report ==
    /\ nt = Idle /\ notifs # <<>> /\ Head(notifs) \in DOMAIN EventOf
    /\ LET e == EventOf[Head(notifs)] IN
       /\ m_isMngrConnected' = (m_isMngrConnected /\ e \notin Disables)
       /\ nt' = [at |-> "event", e |-> e]
    /\ notifs' = Tail(notifs)
    /\ UNCHANGED <<m_events, smVars, io, m_isApConnected, m_isRunning, m_abortEnabled, queue,
                   clksource, ap, client, ctlVars, count>>

\* ... and then notes the event.
report_event ==
    /\ nt.at = "event"
    /\ Noted(nt.e)
    /\ nt' = Idle
    /\ UNCHANGED <<smVars, io, joinVars, m_abortEnabled, queue, clksource, ap, client, notifs,
                   ctlVars, count>>

ntNext == \/ connected \/ setClockSource_p \/ setClockSource_timeout
          \/ report \/ report_event
-----------------------------------------------------------------------------
(* The transport's thread *)

\* A boot event restarts the transport; the coupler asks what the AP is.  A boot of a
\* running AP is a reboot and disables the join.
handleAPBoot ==
    /\ io = Idle /\ ap.boot /\ stopped # "done"
    /\ ap' = [ap EXCEPT !.boot = FALSE]
    /\ queue' = BootQueries /\ clksource' = "NONE"
    /\ LET e == IF m_isRunning THEN "REBOOT" ELSE "BOOT" IN
       /\ m_isMngrConnected' = (m_isMngrConnected /\ e \notin Disables)
       /\ io' = [at |-> "event", e |-> e]
    /\ UNCHANGED <<m_events, smVars, nt, m_isApConnected, m_isRunning, m_abortEnabled, client, notifs, ctlVars, count>>

\* handleAPLost: told of by the retries (the AP is then reset, too), or because of
\* boot events that do not end.
handleAPLost ==
    /\ io = Idle /\ stopped # "done"
    /\ \/ /\ m_abortEnabled /\ m_isApConnected
          /\ (Silent /\ UNCHANGED count) \/ (queue # <<>> /\ Fault)
          /\ io' = [at |-> "event", e |-> "LOST", pulse |-> TRUE]
          /\ UNCHANGED ap
       \/ /\ ap.boot /\ BootsForever /\ Fault
          /\ ap' = [ap EXCEPT !.boot = FALSE]
          /\ io' = [at |-> "event", e |-> "LOST", pulse |-> FALSE]
    /\ m_isMngrConnected' = FALSE
    /\ UNCHANGED <<m_events, smVars, nt, m_isApConnected, m_isRunning, m_abortEnabled, queue,
                   clksource, client, notifs, ctlVars>>

ioEvent ==
    /\ io.at = "event"
    /\ Noted(io.e)
    /\ io' = [io EXCEPT !.at = "after"]
    /\ UNCHANGED <<smVars, nt, joinVars, m_abortEnabled, queue, clksource, ap, client, notifs,
                   ctlVars, count>>

\* Back in the transport: a booted AP is connected, and joins (startJoin_p) if the
\* Manager is.
afterBoot ==
    /\ io.at = "after" /\ io.e = "BOOT"
    /\ m_isApConnected' = TRUE
    /\ io' = IF m_isMngrConnected THEN [at |-> "join_send"] ELSE Idle
    /\ UNCHANGED <<m_events, smVars, nt, m_isMngrConnected, m_isRunning, m_abortEnabled, queue,
                   clksource, ap, client, notifs, ctlVars, count>>

ioJoin ==
    /\ \/ /\ io.at = "join_send" /\ io' = [at |-> "join_run"]
          /\ queue' = Joining /\ UNCHANGED m_isRunning
       \/ /\ io.at = "join_run" /\ io' = Idle
          /\ m_isRunning' = TRUE /\ UNCHANGED queue
    /\ UNCHANGED <<m_events, smVars, nt, m_isMngrConnected, m_isApConnected, m_abortEnabled,
                   clksource, ap, client, notifs, ctlVars, count>>

afterReboot ==
    /\ io.at = "after" /\ io.e = "REBOOT"
    /\ m_isRunning' = FALSE
    /\ io' = Idle
    /\ UNCHANGED <<m_events, smVars, nt, m_isMngrConnected, m_isApConnected, m_abortEnabled,
                   queue, clksource, ap, client, notifs, ctlVars, count>>

\* A lost AP is no longer connected, ...
afterLost ==
    /\ io.at = "after" /\ io.e = "LOST"
    /\ m_isApConnected' = FALSE
    /\ io' = [io EXCEPT !.at = "lost"]
    /\ UNCHANGED <<m_events, smVars, nt, m_isMngrConnected, m_isRunning, m_abortEnabled, queue,
                   clksource, ap, client, notifs, ctlVars, count>>

\* ... then no longer running; after the last retry it is reset (hwResetAP).
afterLost_end ==
    /\ io.at = "lost"
    /\ m_isRunning' = FALSE
    /\ ap' = [ap EXCEPT !.pulse = @ \/ io.pulse]
    /\ io' = Idle
    /\ UNCHANGED <<m_events, smVars, nt, m_isMngrConnected, m_isApConnected, m_abortEnabled,
                   queue, clksource, client, notifs, ctlVars, count>>

\* handleParamAppInfo: is the version older, in lexicographic order?
TooOld(ver) == \E i \in 1..4 : /\ ver[i] < MIN_VERSION[i]
                               /\ \A j \in 1..i - 1 : ver[j] = MIN_VERSION[j]

\* The AP carries out the command at the front, and its response is handled.
Carries(id) == /\ io = Idle /\ ap.st \in {"up", "joined"} /\ ~ap.boot /\ stopped # "done"
               /\ queue # <<>> /\ Head(queue).id = id
               /\ queue' = Tail(queue)

\* handleParamClkSrc and handleParamAppInfo: the clock source is stored; an AP that is
\* too old ends the process, by way of the watchdog.
handleParams ==
    /\ Carries("GETPARAM")
    /\ clksource' = ap.stored
    /\ stopping' = (stopping \/ TooOld(ap.ver))
    /\ UNCHANGED <<m_events, smVars, nt, io, joinVars, m_abortEnabled, ap, client, notifs, stopped,
                   reachable, late, count>>

\* A source that is kept makes the coupler reset the AP.
handleSetClkSrcResponse_p ==
    /\ Carries("SETCLK")
    /\ LET c == Head(queue) IN
       IF c.kept
       THEN /\ ap' = [ap EXCEPT !.stored = c.src, !.pulse = TRUE]
            /\ m_isRunning' = FALSE
       ELSE UNCHANGED <<ap, m_isRunning>>
    /\ UNCHANGED <<m_events, smVars, nt, io, m_isMngrConnected, m_isApConnected,
                   m_abortEnabled, clksource, client, notifs, ctlVars, count>>

apJoins ==
    /\ Carries("JOIN")
    /\ ap' = [ap EXCEPT !.st = "joined"]
    /\ UNCHANGED <<m_events, smVars, nt, io, joinVars, m_abortEnabled, clksource, client,
                   notifs, ctlVars, count>>

\* DISCONNECT makes the AP boot; if it refuses, it is reset
\* (handleDisconnectErrorResponse_p).
apDisconnects ==
    /\ Carries("DISCONNECT")
    /\ \/ ap' = [ap EXCEPT !.st = "off"] /\ UNCHANGED count
       \/ ap' = [ap EXCEPT !.pulse = TRUE] /\ Fault
    /\ UNCHANGED <<m_events, smVars, nt, io, joinVars, m_abortEnabled, clksource, client,
                   notifs, ctlVars>>

ioNext == \/ handleAPBoot \/ handleAPLost \/ ioEvent \/ afterBoot \/ ioJoin \/ afterReboot
          \/ afterLost \/ afterLost_end
          \/ handleParams \/ handleSetClkSrcResponse_p
          \/ apJoins \/ apDisconnects
-----------------------------------------------------------------------------
(* stop(), and the environment *)

\* E_STOP; the process was told to stop, by the user or by itself.
stop ==
    /\ stopped = "no" /\ stopped' = "sent"
    /\ stopping' = TRUE
    /\ Noted("STOP")
    /\ UNCHANGED <<smVars, nt, io, joinVars, m_abortEnabled, queue, clksource, ap, client,
                   notifs, reachable, late, count>>

\* The thread is joined and client and transport are stopped; their pointers are cleared.
stop_end ==
    /\ sm = "ended" /\ stopped = "sent"
    /\ stopped' = "done"
    /\ notifs' = IF client \in {"started", "online"} THEN Append(notifs, "disconnected")
                                                    ELSE notifs
    /\ client' = "stopped"
    /\ UNCHANGED <<m_events, smVars, nt, io, joinVars, m_abortEnabled, queue, clksource, ap,
                   stopping, reachable, late, count>>

MustBoot == ap.st # "dead" /\ (ap.pulse \/ ap.st = "off")

\* The AP stops working.
APFails ==
    /\ ~Silent /\ Fault
    /\ ap' \in {[ap EXCEPT !.st = x, !.boot = FALSE] : x \in Failures}
    /\ UNCHANGED <<m_events, smVars, nt, io, joinVars, m_abortEnabled, queue, clksource, client,
                   notifs, ctlVars>>

\* The AP boots: reset, after a DISCONNECT, or by itself.  It forgets a clock source it
\* was not told to keep.
APBoots ==
    /\ ap.st # "dead"
    /\ \/ MustBoot /\ UNCHANGED count
       \/ ~MustBoot /\ Fault
    /\ ap' = [ap EXCEPT !.st = "up", !.boot = TRUE, !.pulse = FALSE]
    /\ UNCHANGED <<m_events, smVars, nt, io, joinVars, m_abortEnabled, queue, clksource, client,
                   notifs, ctlVars>>

\* The Manager accepts the connection, ends it (or is found not to answer any more), or
\* asks for a reset of the AP.
ManagerAccepts ==
    /\ client = "started" /\ reachable
    /\ client' = "online" /\ notifs' = Append(notifs, "connected")
    /\ UNCHANGED <<m_events, smVars, nt, io, joinVars, m_abortEnabled, queue, clksource, ap,
                   ctlVars, count>>

ManagerDrops ==
    /\ client \in {"started", "online"}
    /\ (~reachable /\ UNCHANGED count) \/ (reachable /\ Fault)
    /\ client' = "closed" /\ notifs' = Append(notifs, "disconnected")
    /\ UNCHANGED <<m_events, smVars, nt, io, joinVars, m_abortEnabled, queue, clksource, ap,
                   ctlVars>>

ManagerAsks ==
    /\ client = "online" /\ reachable /\ Fault
    /\ \E r \in {"resetAP", "disconnectAP"} : notifs' = Append(notifs, r)
    /\ UNCHANGED <<m_events, smVars, nt, io, joinVars, m_abortEnabled, queue, clksource, ap,
                   client, ctlVars>>

\* The Manager's host is gone, or back.
ManagerHost ==
    /\ \/ reachable /\ Fault
       \/ ~reachable /\ UNCHANGED count
    /\ reachable' = ~reachable
    /\ UNCHANGED <<m_events, smVars, nt, io, joinVars, m_abortEnabled, queue, clksource, ap,
                   client, notifs, stopping, stopped, late>>

CouplerNext == \/ smNext \/ ntNext \/ ioNext \/ stop \/ stop_end
               \/ APFails \/ APBoots \/ ManagerAccepts \/ ManagerDrops \/ ManagerAsks
               \/ ManagerHost

CouplerSpec == CouplerInit /\ [][CouplerNext]_cvars

\* Every thread goes on, also out of a wait with a time limit; the AP boots when it
\* must and answers; a Manager that can be reached accepts connections, one that cannot
\* is found out (keep-alive).  Neither AP nor Manager is obliged to fail, nor the
\* Manager to be back, nor the client's stop, which synchStop_p and stop() wait for,
\* to return (APCSession, StopReturns).
CouplerFair == /\ WF_cvars(sm # "stop_client" /\ smNext) /\ WF_cvars(ntNext) /\ WF_cvars(ioNext)
               /\ WF_cvars(ManagerAccepts) /\ WF_cvars(~reachable /\ ManagerDrops)
               /\ WF_cvars(MustBoot /\ APBoots)
               /\ WF_cvars(stopping /\ stop)

FairCouplerSpec == CouplerSpec /\ CouplerFair
-----------------------------------------------------------------------------
(* Properties *)

CouplerEvents == Disables \cup {"CONNECT", "BOOT", "STOP"}

\* Nothing is under way anywhere: no event, call, command or boot is outstanding.
Settled == /\ m_events = {} /\ nt = Idle /\ io = Idle /\ notifs = <<>> /\ queue = <<>>
           /\ ~ap.boot /\ ~ap.pulse /\ ap.st \in {"up", "joined"} /\ ~stopping

\* The state machine never waits in its running state for an AP that is not joined
\* when nothing is under way that would wake it: the events it discards in other
\* states, and the join flags it does not hold a lock on, cannot strand it.  Two cases are
\* known, both of an AP the transport does not take for connected.  An AP that booted
\* without end is declared lost and not reset by the transport, and the report is among the
\* events that synchStop_p forgets (LostIsReset).  And an AP that is lost between enableJoin's
\* look at the flags and the end of startJoin_p is taken for running, so that its next boot is a
\* reboot, which does not make it connected (RunningIsJoined).
SettledIsJoined ==
    Settled /\ sm = "run_wait" =>
        ap.st = "joined" \/ (~m_isApConnected /\ (BootsForever \/ late))

\* The same with no exception.
RunningIsJoined == Settled /\ sm = "run_wait" => ap.st = "joined"

\* Comment of prepareAP_p, "AP Lost - reset it": an AP that is reported as lost is reset
\* and waited for, unless it has booted by itself or the process stops.
LostIsReset == ("LOST" \in m_events) ~> (sm = "boot_wait" \/ "BOOT" \in m_events \/ stopping)

\* An AP declared lost whose report was forgotten: the state machine takes it for running, and
\* nothing is under way.
Forgotten == /\ sm = "run_wait" /\ ~m_isApConnected /\ m_events = {} /\ nt = Idle /\ io = Idle
             /\ notifs = <<>> /\ ~ap.boot /\ ~ap.pulse /\ ap.st # "off"

\* The state machine tries to start the client for a Manager that is not there.
Retrying == ~reachable /\ sm \in {"start", "stop_client"}

\* The state machine is held in a stop of the client that does not return.
ClientHangs == <>[](sm = "stop_client")

\* The bridge comes back to service after faults: again and again the AP is joined for a
\* Manager that is connected, or the process is told to stop, or the Manager is tried
\* and cannot be reached, unless the loss of the AP is forgotten or the client hangs.
ServiceReturns ==
    \/ []<>(stopping \/ Forgotten \/ Retrying
             \/ (sm = "run_wait" /\ client = "online" /\ ap.st = "joined"))
    \/ ClientHangs

\* The join of stop() returns: the state machine leaves every wait for E_STOP and ends.
\* Only two things hold it up: the loop that starts the client looks at no event, and goes on
\* for as long as the Manager cannot be reached; and the client's own stop.
StopReturns == (stopping ~> (sm = "ended" \/ Retrying)) \/ ClientHangs

\* That stop() returns whatever the Manager does.
StopAlwaysReturns == (stopping ~> sm = "ended") \/ ClientHangs
=============================================================================
