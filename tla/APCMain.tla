------------------------------ MODULE APCMain ------------------------------
(***************************************************************************)
(* The life of the bridge's process: main() (APInterface/apc_main.cpp) and *)
(* what it takes from its configuration (common/ProcessInputArguments.cpp),*)
(* the request to stop (common/ChangeNodeState.cpp, with the wait of       *)
(* watchdog/WdClntWrapper_APC.cpp), the publisher of the log               *)
(* (logging/RemoteLogPublisher.cpp) and the one RPC command that changes   *)
(* the configuration (SET_AP_CLKSRC, APInterface/rpc/APCRpcWorker.cpp).    *)
(*                                                                         *)
(* The parts main() starts are threads here that run until they are told   *)
(* to stop, and may end then; nothing here says that they do.  The modules *)
(* of the parts show when they end and when not: StopReturns of APCoupler, *)
(* APCSession and Rpc, GpsStopReturns of APTime.  The configuration file   *)
(* outlives the process, which a supervisor (external) starts again.       *)
(***************************************************************************)
EXTENDS Integers, SequencesExt

CONSTANTS Asked,         \* the clock sources a client may ask for
          Confs,         \* what the configuration file may say at first
          Cli,           \* the clock source on the command line, or NONE
          ClientIdArg,   \* is the client's id on the command line
          MaxSets, MaxLogs, MaxSignals, MaxCrashes, MaxStarts   \* bounds

NONE    == "none"
TORN    == "torn"                      \* a file cut off in the middle of a write
Threads == {"log", "io", "sm", "rpc"}
All     == Threads \cup {"main"}
NoSet   == [name |-> NONE, at |-> "idle"]

\* No write was cut off before the first process.
ASSUME MainAssumption == TORN \notin Confs

VARIABLES mpc, starts, crashes,
          conf,                        \* ap-clock-source in the file: NONE is no file
          torn,                        \* ghost: was a write ever cut off
          m_apClkSource, m_transport,  \* of the coupler; m_transport: is it set
          set,                         \* the SET_AP_CLKSRC the worker is at: [name, at]
          accepted,                    \* ghost: the source of the first file or answered with RPC_OK
                                       \* last, and the ones asked for since when the process died
          sets,
          th,                          \* the threads: "none", "run", "clean" or "end"
          handlerSet,                  \* the request to stop exists and has its signal handler
          m_mutex,                     \* who holds it
          m_isStop, scpc,              \* threads in CChangeNodeState::stop
          sig, signals,                \* threads a signal has interrupted
          m_queueRunning, m_logMsgQueue, appended, published

partVars == <<m_apClkSource, m_transport>>
setVars  == <<conf, torn, set, accepted, sets>>
stopVars == <<handlerSet, m_mutex, m_isStop, scpc, sig, signals>>
logVars  == <<m_queueRunning, m_logMsgQueue, appended, published>>
mvars    == <<mpc, starts, crashes, partVars, setVars, th, stopVars, logVars>>

Fresh ==
    /\ mpc' = "parse" /\ starts' = starts + 1
    /\ m_apClkSource' = NONE /\ m_transport' = FALSE /\ set' = NoSet
    /\ th' = [t \in Threads |-> "none"]
    /\ handlerSet' = FALSE /\ m_mutex' = NONE /\ m_isStop' = FALSE
    /\ scpc' = [t \in Threads |-> "run"] /\ sig' = [t \in All |-> FALSE]
    /\ m_queueRunning' = FALSE /\ m_logMsgQueue' = <<>> /\ appended' = <<>> /\ published' = <<>>

MainInit ==
    /\ mpc = "parse" /\ starts = 1 /\ crashes = 0
    /\ conf \in Confs /\ torn = FALSE /\ set = NoSet /\ accepted = {IF conf = NONE THEN "AUTO" ELSE conf} /\ sets = 0
    /\ m_apClkSource = NONE /\ m_transport = FALSE
    /\ th = [t \in Threads |-> "none"]
    /\ handlerSet = FALSE /\ m_mutex = NONE /\ m_isStop = FALSE
    /\ scpc = [t \in Threads |-> "run"] /\ sig = [t \in All |-> FALSE] /\ signals = 0
    /\ m_queueRunning = FALSE /\ m_logMsgQueue = <<>> /\ appended = <<>> /\ published = <<>>

\* The process ends at once; the file stays as it is.
Die ==
    /\ mpc' = "off" /\ th' = [t \in Threads |-> "none"] /\ set' = NoSet
    /\ m_mutex' = NONE /\ sig' = [t \in All |-> FALSE]
    /\ torn' = (torn \/ conf = TORN)
    /\ accepted' = IF set = NoSet THEN accepted ELSE accepted \cup {set.name}
    /\ UNCHANGED <<starts, conf, partVars, handlerSet, m_isStop, scpc, logVars>>

\* External: power is lost, or the process is killed.
Crash ==
    /\ mpc # "off" /\ crashes < MaxCrashes /\ crashes' = crashes + 1 /\ Die
    /\ UNCHANGED <<sets, signals>>

\* External: the supervisor starts the process again.
Restart ==
    /\ mpc = "off" /\ starts < MaxStarts /\ Fresh
    /\ UNCHANGED <<crashes, conf, torn, accepted, sets, signals>>
-----------------------------------------------------------------------------
(* Configuration *)

clkSrcStringToEnum(s) == CASE s = "GPS" -> "PPS" [] s = "AUTO" -> "MNGRSET" [] OTHER -> NONE

\* The command line wins over the file, and the file over the default.
Configured ==
    IF Cli # NONE THEN clkSrcStringToEnum(Cli)
    ELSE IF conf \in {NONE, TORN} THEN "MNGRSET" ELSE clkSrcStringToEnum(conf)

\* A file cut off lacks the client's id too.
ParseFails == (conf \in {NONE, TORN} /\ ~ClientIdArg) \/ Configured = NONE

\* RemoteLogger::create, which starts the thread of the publisher, and shutdown.
create   == m_queueRunning' = TRUE /\ th' = [th EXCEPT !["log"] = "run"]
shutdown == m_queueRunning' = FALSE

\* CProcessInputArguments::parse; then the publisher of the log is started.
parse ==
    /\ mpc = "parse"
    /\ \/ ParseFails /\ mpc' = "off" /\ UNCHANGED <<th, m_queueRunning>>
       \/ ~ParseFails /\ mpc' = "port" /\ create
    /\ UNCHANGED <<starts, crashes, partVars, setVars, stopVars, m_logMsgQueue, appended, published>>

\* SET_AP_CLKSRC: what is asked for is compared with the file. A file that cannot be read
\* throws what nobody catches.
handleSetAPClkSrc(name) ==
    LET old == IF conf = TORN THEN "AUTO" ELSE conf IN
    /\ th["rpc"] = "run" /\ ~sig["rpc"] /\ set = NoSet /\ sets < MaxSets /\ sets' = sets + 1
    /\ \/ conf = NONE /\ Die
       \/ /\ conf # NONE /\ (clkSrcStringToEnum(name) = NONE \/ old = name)
          /\ accepted' = IF clkSrcStringToEnum(name) = NONE THEN accepted ELSE {name}
          /\ UNCHANGED <<mpc, starts, conf, torn, set, th, partVars, logVars, handlerSet, m_mutex,
                         m_isStop, scpc, sig>>
       \/ /\ conf # NONE /\ clkSrcStringToEnum(name) # NONE /\ old # name
          /\ set' = [name |-> name, at |-> "write"]
          /\ UNCHANGED <<mpc, starts, conf, torn, accepted, th, partVars, logVars, handlerSet,
                         m_mutex, m_isStop, scpc, sig>>
    /\ UNCHANGED <<crashes, signals>>

\* Mutant: the file is not written.
write_ini_not ==
    /\ set.at = "write" /\ ~sig["rpc"]
    /\ set' = [set EXCEPT !.at = "apply"]
    /\ UNCHANGED <<mpc, starts, crashes, conf, torn, accepted, sets, th, partVars, stopVars, logVars>>

\* The file is written in place: it is empty first.
write_ini ==
    /\ set.at = "write" /\ ~sig["rpc"]
    /\ IF conf # TORN THEN conf' = TORN /\ UNCHANGED set
                      ELSE conf' = set.name /\ set' = [set EXCEPT !.at = "apply"]
    /\ UNCHANGED <<mpc, starts, crashes, torn, accepted, sets, th, partVars, stopVars, logVars>>

\* CAPCoupler::setClockSrource, and the answer RPC_OK. There is no transport any more when the
\* coupler is stopped.
setClockSrource ==
    LET new == clkSrcStringToEnum(set.name) IN
    /\ set.at = "apply" /\ ~sig["rpc"]
    /\ \/ new # m_apClkSource /\ ~m_transport /\ Die
       \/ /\ new = m_apClkSource \/ m_transport
          /\ m_apClkSource' = new /\ accepted' = {set.name} /\ set' = NoSet
          /\ UNCHANGED <<mpc, starts, conf, torn, m_transport, th, logVars, handlerSet, m_mutex,
                         m_isStop, scpc, sig>>
    /\ UNCHANGED <<crashes, sets, signals>>
-----------------------------------------------------------------------------
(* The request to stop: IChangeNodeState *)

\* What a thread does with the mutex: the flag is set and the one who waits is woken.
Notify == m_isStop' = TRUE /\ mpc' = IF mpc = "blocked" THEN "wait" ELSE mpc

\* The io thread finds the serial port dead, the state machine the AP silent: the call, the lock,
\* the end.
stopCall(t) ==
    /\ t \in {"io", "sm"} /\ th[t] = "run" /\ ~sig[t]
    /\ \/ /\ scpc[t] = "run" /\ scpc' = [scpc EXCEPT ![t] = "called"] /\ handlerSet' = TRUE
          /\ UNCHANGED <<m_mutex, m_isStop, mpc>>
       \/ /\ scpc[t] = "called" /\ m_mutex = NONE
          /\ m_mutex' = t /\ scpc' = [scpc EXCEPT ![t] = "locked"]
          /\ UNCHANGED <<handlerSet, m_isStop, mpc>>
       \/ /\ scpc[t] = "locked" /\ Notify
          /\ m_mutex' = NONE /\ scpc' = [scpc EXCEPT ![t] = "done"] /\ UNCHANGED handlerSet
    /\ UNCHANGED <<starts, crashes, partVars, setVars, th, sig, signals, logVars>>

\* External: SIGTERM, delivered to any thread, also to the one that holds m_mutex; without a
\* handler it ends the process.
Signal(t) ==
    /\ mpc # "off" /\ signals < MaxSignals /\ signals' = signals + 1
    /\ t # "main" => th[t] \in {"run", "clean"}
    /\ \/ ~handlerSet /\ Die
       \/ /\ handlerSet /\ sig' = [sig EXCEPT ![t] = TRUE]
          /\ UNCHANGED <<mpc, starts, conf, torn, set, accepted, th, partVars, logVars, handlerSet,
                         m_mutex, m_isStop, scpc>>
    /\ UNCHANGED <<crashes, sets>>

\* The handler runs on top of the thread it interrupted and takes the mutex.
handle_signal(t) ==
    /\ sig[t] /\ m_mutex = NONE
    /\ Notify /\ sig' = [sig EXCEPT ![t] = FALSE]
    /\ UNCHANGED <<starts, crashes, partVars, setVars, th, handlerSet, m_mutex, scpc, signals, logVars>>

\* Mutant: the flag is not looked at before the wait.
waitSignal_blind ==
    /\ ~sig["main"]
    /\ \/ mpc = "enter" /\ m_mutex = NONE /\ m_mutex' = "main" /\ handlerSet' = TRUE
          /\ mpc' = "first" /\ UNCHANGED m_isStop
       \/ mpc = "first" /\ m_mutex' = NONE /\ mpc' = "blocked" /\ UNCHANGED <<m_isStop, handlerSet>>
       \/ mpc = "wait" /\ m_mutex = NONE /\ m_isStop /\ m_isStop' = FALSE /\ mpc' = "smStop"
          /\ UNCHANGED <<m_mutex, handlerSet>>
    /\ UNCHANGED <<starts, crashes, partVars, setVars, th, scpc, sig, signals, logVars>>

\* The lock, the look at the flag, the wait with the mutex given back.
waitSignal ==
    /\ ~sig["main"]
    /\ \/ /\ mpc \in {"enter", "wait"} /\ m_mutex = NONE
          /\ m_mutex' = "main" /\ handlerSet' = TRUE /\ mpc' = "look" /\ UNCHANGED m_isStop
       \/ /\ mpc = "look" /\ m_mutex' = NONE /\ m_isStop' = FALSE
          /\ mpc' = IF m_isStop THEN "smStop" ELSE "blocked"
          /\ UNCHANGED handlerSet
    /\ UNCHANGED <<starts, crashes, partVars, setVars, th, scpc, sig, signals, logVars>>
-----------------------------------------------------------------------------
(* main *)

\* The parts are opened; the port is tried until it opens. The server throws when its address is
\* taken. The threads are started.
open ==
    /\ ~sig["main"]
    /\ \/ /\ mpc = "port" /\ mpc' = "server"
          /\ m_transport' = TRUE /\ m_apClkSource' = Configured /\ UNCHANGED th
       \/ /\ mpc = "server" /\ mpc' = "threads" /\ th' = [th EXCEPT !["rpc"] = "run"]
          /\ UNCHANGED partVars
       \/ /\ mpc = "server" /\ mpc' = "scope" /\ m_transport' = FALSE
          /\ UNCHANGED <<th, m_apClkSource>>
       \/ /\ mpc = "threads" /\ mpc' = "enter"
          /\ th' = [th EXCEPT !["io"] = "run", !["sm"] = "run"] /\ UNCHANGED partVars
    /\ UNCHANGED <<starts, crashes, setVars, stopVars, logVars>>

\* A thread that is told to stop may end when it is done with what it is at.
StoppedAt == [sm |-> "smStop", io |-> "ioStop", rpc |-> "rpcStop"]
MayEnd(t) ==
    /\ mpc = StoppedAt[t] /\ th[t] = "run" /\ ~sig[t] /\ scpc[t] \in {"run", "done"}
    /\ t = "rpc" => set = NoSet

threadEnds(t) ==
    /\ MayEnd(t)
    /\ th' = [th EXCEPT ![t] = "end"]
    /\ UNCHANGED <<mpc, starts, crashes, partVars, setVars, stopVars, logVars>>

\* coupler.stop() with the client and the transport, the io thread, the port and the RPC server,
\* then the scope's end with the publisher, and the ZeroMQ context, which waits for every socket.
stop ==
    /\ ~sig["main"]
    /\ \/ mpc = "smStop" /\ th["sm"] = "end" /\ mpc' = "ioStop" /\ m_transport' = FALSE
          /\ UNCHANGED m_queueRunning
       \/ mpc = "ioStop" /\ th["io"] = "end" /\ mpc' = "rpcStop" /\ UNCHANGED <<m_transport, m_queueRunning>>
       \/ mpc = "rpcStop" /\ th["rpc"] = "end" /\ mpc' = "scope" /\ UNCHANGED <<m_transport, m_queueRunning>>
       \/ mpc = "scope" /\ mpc' = "pubStop" /\ shutdown /\ UNCHANGED m_transport
       \/ /\ mpc = "pubStop" /\ th["log"] = "end" /\ th["rpc"] \in {"none", "end"}
          /\ mpc' = "off" /\ UNCHANGED <<m_transport, m_queueRunning>>
    /\ UNCHANGED <<starts, crashes, m_apClkSource, setVars, th, stopVars, m_logMsgQueue, appended,
                   published>>
-----------------------------------------------------------------------------
(* RemoteLogger *)

LogNext == UNCHANGED <<mpc, starts, crashes, partVars, setVars, stopVars>>
Logs    == th["log"] # "none" /\ mpc # "off" /\ Len(appended) < MaxLogs
Msg     == Len(appended) + 1

\* Mutant: the state of the publisher is not looked at.
append_always ==
    /\ Logs /\ m_logMsgQueue' = <<Msg>> \o m_logMsgQueue /\ appended' = Append(appended, Msg)
    /\ UNCHANGED <<m_queueRunning, published, th>> /\ LogNext

\* Any thread may log, to the end: a reader that CGPS lost is never joined.
append ==
    /\ Logs /\ m_queueRunning
    /\ m_logMsgQueue' = <<Msg>> \o m_logMsgQueue /\ appended' = Append(appended, Msg)
    /\ UNCHANGED <<m_queueRunning, published, th>> /\ LogNext

\* The message the thread takes.
Taken == Last(m_logMsgQueue)

\* The thread of the publisher: it sends, and when it is stopped deletes what is left.
queueThreadFun_p ==
    /\ ~sig["log"]
    /\ \/ /\ th["log"] = "run" /\ m_queueRunning /\ m_logMsgQueue # <<>>
          /\ published' = Append(published, Taken)
          /\ m_logMsgQueue' = Front(m_logMsgQueue)
          /\ UNCHANGED <<th, m_queueRunning, appended>>
       \/ /\ th["log"] = "run" /\ ~m_queueRunning
          /\ th' = [th EXCEPT !["log"] = "clean"] /\ UNCHANGED logVars
       \/ /\ th["log"] = "clean" /\ m_logMsgQueue' = <<>> /\ th' = [th EXCEPT !["log"] = "end"]
          /\ UNCHANGED <<m_queueRunning, appended, published>>
    /\ LogNext

MainNext ==
    \/ Crash \/ Restart \/ parse \/ open \/ waitSignal \/ stop
    \/ \E n \in Asked : handleSetAPClkSrc(n)
    \/ write_ini \/ setClockSrource
    \/ \E t \in {"io", "sm"} : stopCall(t)
    \/ \E t \in All : Signal(t) \/ handle_signal(t)
    \/ \E t \in DOMAIN StoppedAt : threadEnds(t)
    \/ append \/ queueThreadFun_p

MainSpec == MainInit /\ [][MainNext]_mvars

\* Every thread that can go on does, one that waits for the port aside.  That a part ends when it
\* is told to is not assumed.
ThreadStep(t) ==
    \/ handle_signal(t)
    \/ t = "main" /\ (waitSignal \/ stop \/ (mpc # "port" /\ open))
    \/ t = "log" /\ queueThreadFun_p
    \/ t = "rpc" /\ (write_ini \/ setClockSrource)
    \/ t \in {"io", "sm"} /\ scpc[t] # "run" /\ stopCall(t)
FairMainSpec == MainSpec /\ \A t \in All : WF_mvars(ThreadStep(t))
-----------------------------------------------------------------------------
(* Properties *)

\* A clock source that was answered with RPC_OK is the one the coupler uses from then on, also in
\* the processes to come, unless a write of the file was cut off or the command line names one; a
\* source a client had asked for when the process died may be used or not (handleSetAPClkSrc, write_ini before setClockSrource, parse).
AcceptedSurvives ==
    Cli = NONE /\ ~torn /\ set = NoSet /\ m_transport
        => \E n \in accepted : m_apClkSource = clkSrcStringToEnum(n)

\* Every message of the log is published or waits, in the order they were appended; when the
\* thread of the publisher has ended nothing is left in its queue, whoever logs meanwhile (append
\* looks at m_queueRunning under the lock, the thread cleans up after it was cleared).
LogAccounted ==
    mpc # "off" =>
       IF th["log"] = "end" THEN m_logMsgQueue = <<>> /\ IsPrefix(published, appended)
                            ELSE appended = published \o Reverse(m_logMsgQueue)

\* A request to stop, by a thread or by SIGTERM.
Request == m_isStop \/ \E t \in All : sig[t]

\* The signal interrupted the thread that holds m_mutex: its handler waits for that thread.
SelfLocked == \E t \in All : sig[t] /\ m_mutex = t

\* A part that was told to stop, and that nothing here keeps from it, never ends.
PartHangs == <>[](\E t \in DOMAIN StoppedAt : MayEnd(t))

\* A request to stop "declare[s] that the process should be stopped" (ChangeNodeState.cpp,
\* handle_signal).  It is not missed, whenever it comes: main leaves its wait and stops one part
\* after the other until the process ends.  Two things keep it from that: a part that does not
\* end, and a handler that interrupted the holder of the mutex.
StopEnds == (Request ~> (mpc = "off" \/ SelfLocked)) \/ PartHangs

\* The same for every thread the signal may reach ("is it safe to do condition variable ops in
\* signal handler?", ChangeNodeState.cpp).
SignalEnds == (Request ~> mpc = "off") \/ PartHangs
=============================================================================
