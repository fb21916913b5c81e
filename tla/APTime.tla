------------------------------- MODULE APTime -------------------------------
(***************************************************************************)
(* The time of the AP: when CAPCoupler sets it (handleReadyForTime and the *)
(* blackout around a leap second, APInterface/APCoupler.cpp) and the       *)
(* reader of the GPS daemon it relies on (CGPS, APInterface/GPS.cpp).      *)
(*                                                                         *)
(* Four threads: the coupler's (the wait at its start), the io thread      *)
(* (answers of the AP and the leap timer), the one that calls              *)
(* CAPCoupler::stop, and the readers of the GPS.  Time goes in ticks; a    *)
(* day has Day of them.  The timers are served within the tick they are    *)
(* due.                                                                    *)
(***************************************************************************)
EXTENDS Integers, FiniteSets

CONSTANTS ApClkSource,     \* the source configured: "PPS", "INTERNAL" or "MNGRSET"
          Reports,         \* the sources the AP may report
          IntSync,         \* whether a Manager may ask for its own clock (APC_FL_INTSYNCH_AP)
          GpsdConn,        \* gpsd-conn: the bridge listens to the GPS daemon
          MaxTimeToStable, \* ticks of enough satellites before the GPS is trusted
          Day, AP_BLACKOUT, AP_BLACKOUT_DURATION, LEAP_CHECK_TIME,
          LeapDay,         \* the day that ends with a leap second
          StartTimes,      \* when the bridge may be started
          MaxTime,         \* bound on time
          MaxBoots         \* bound on boots of the AP, and so on calls of CGPS::start

ASSUME TimeAssumption ==
    /\ 0 < LEAP_CHECK_TIME /\ LEAP_CHECK_TIME < AP_BLACKOUT /\ AP_BLACKOUT < Day
    /\ AP_BLACKOUT + AP_BLACKOUT_DURATION < Day + LEAP_CHECK_TIME
    /\ {Day, AP_BLACKOUT, AP_BLACKOUT_DURATION, LEAP_CHECK_TIME, LeapDay, MaxTimeToStable} \subseteq Nat
    /\ GpsdConn \in BOOLEAN /\ StartTimes \subseteq Nat

EMPTY   == -1
Readers == 1..MaxBoots
Callers == {"io", "main"}   \* the threads that call CGPS::stop
\* The start of the blackout, 30 seconds before the midnight of the leap second.
BlackoutStart == LeapDay * Day + AP_BLACKOUT

VARIABLES now, started,
          sm,              \* the coupler's thread: "off", "wait", "check", "run" or "end"
          wakeAt,          \* the end of its wait
          m_blackoutStart, m_leapCheckTimer,
          answer,          \* ghost: what ntp_gettime answered last
          unsynched,       \* ghost: it has been TIME_ERROR since the last good answer before the blackout
          boots, asked,    \* boots of the AP; is its clock source asked for
          clksource,       \* m_apInfo.clksource
          m_isIntClkSrc, m_cur_gps_status,
          starts,          \* ghost: calls of CGPS::start
          joining,         \* the reader each caller of CGPS::stop waits for, 0 for none; EMPTY outside
          m_readThreadRunning, m_gpsdReadThread,
          rpc,             \* the readers: "none", "new", "open", "read", "stable", "close", "end"
          m_lastRecord, m_current_gps_status, m_stable_start_time,
          goodSince,       \* ghost: since when every record had enough satellites
          last             \* ghost: the time this step set: [src, sm, trusted, blackout, unsynched, starts]

clockVars == <<now, started>>
leapVars  == <<sm, wakeAt, m_blackoutStart, m_leapCheckTimer, answer, unsynched>>
apVars    == <<boots, asked, clksource, m_isIntClkSrc>>
ctlVars   == <<starts, joining, m_readThreadRunning, m_gpsdReadThread>>
gpsVars   == <<m_lastRecord, m_current_gps_status, m_cur_gps_status, m_stable_start_time, goodSince>>
timeVars  == <<clockVars, leapVars, apVars, ctlVars, rpc, gpsVars, last>>

NoTime == [src |-> "NONE", sm |-> "off", trusted |-> FALSE, blackout |-> FALSE, unsynched |-> FALSE,
           starts |-> 0]
noTime == last' = NoTime

TimeInit ==
    /\ started \in StartTimes /\ now = started
    /\ sm = "off" /\ wakeAt = EMPTY /\ m_blackoutStart = EMPTY /\ m_leapCheckTimer = EMPTY
    /\ answer = "TIME_OK" /\ unsynched = FALSE
    /\ boots = 0 /\ asked = FALSE /\ clksource = "NONE" /\ m_isIntClkSrc = FALSE
    /\ joining = [t \in Callers |-> EMPTY] /\ m_readThreadRunning = FALSE /\ m_gpsdReadThread = 0
    /\ rpc = [i \in Readers |-> "none"]
    /\ m_lastRecord = FALSE /\ m_current_gps_status = "NO_DEVICE" /\ m_cur_gps_status = "NO_DEVICE"
    /\ m_stable_start_time = 0 /\ goodSince = EMPTY /\ starts = 0
    /\ last = NoTime
-----------------------------------------------------------------------------
(* The leap second *)

\* What ntp_gettime may answer (external): the leap second is announced on its day, the kernel keeps
\* TIME_WAIT after it until the daemon clears the announcement, and a clock that is not synchronised
\* answers TIME_ERROR.
ntp_gettime ==
    {"TIME_ERROR"} \cup IF now \div Day = LeapDay THEN {"TIME_INS", "TIME_DEL", "TIME_OOP"}
                        ELSE IF now \div Day > LeapDay THEN {"TIME_OK", "TIME_WAIT"} ELSE {"TIME_OK"}

ntpIsLeapDay(res) == res # "TIME_ERROR" /\ res # "TIME_OK"

noteAnswer(res) ==
    /\ answer' = res
    /\ unsynched' = (res = "TIME_ERROR" \/ (now > BlackoutStart /\ unsynched))

secSinceMidnight_p(utcSec, borrowDay) ==
    LET res == utcSec - (now % Day) IN IF res <= 0 /\ borrowDay THEN res + Day ELSE res

\* Mutant: the blackout is set on the day after.
leapCheck_late(res) ==
    /\ noteAnswer(res)
    /\ m_blackoutStart' = IF ntpIsLeapDay(res) THEN now + secSinceMidnight_p(AP_BLACKOUT, TRUE) + Day
                                               ELSE EMPTY
    /\ m_leapCheckTimer' = now + secSinceMidnight_p(LEAP_CHECK_TIME, TRUE)
\* Mutant: a blackout once set stays.
leapCheck_keeps(res) ==
    /\ noteAnswer(res)
    /\ m_blackoutStart' = IF ntpIsLeapDay(res) THEN now + secSinceMidnight_p(AP_BLACKOUT, TRUE)
                                               ELSE m_blackoutStart
    /\ m_leapCheckTimer' = now + secSinceMidnight_p(LEAP_CHECK_TIME, TRUE)

\* Sets or clears the blackout and schedules the next check.
leapCheck(res) ==
    /\ noteAnswer(res)
    /\ m_blackoutStart' = IF ntpIsLeapDay(res) THEN now + secSinceMidnight_p(AP_BLACKOUT, TRUE) ELSE EMPTY
    /\ m_leapCheckTimer' = now + secSinceMidnight_p(LEAP_CHECK_TIME, TRUE)

leapCheckingTimer_p ==
    /\ sm = "run" /\ m_leapCheckTimer = now /\ joining["io"] = EMPTY
    /\ \E res \in ntp_gettime : leapCheck(res)
    /\ noTime /\ UNCHANGED <<clockVars, sm, wakeAt, apVars, ctlVars, rpc, gpsVars>>

\* The start of the coupler's thread: after the time of the blackout it asks whether today is a leap
\* day and waits if so; then it makes the first check, with an answer of its own.
smThreadFun_p ==
    LET sec == secSinceMidnight_p(AP_BLACKOUT, FALSE) IN
    /\ \/ /\ sm = "off" /\ sec < 0
          /\ \E res \in ntp_gettime :
                /\ noteAnswer(res)
                /\ \/ /\ ntpIsLeapDay(res)
                      /\ sm' = "wait" /\ wakeAt' = now + AP_BLACKOUT_DURATION + sec
                   \/ ~ntpIsLeapDay(res) /\ sm' = "check" /\ UNCHANGED wakeAt
          /\ UNCHANGED <<m_blackoutStart, m_leapCheckTimer>>
       \/ /\ sm = "check" \/ (sm = "off" /\ sec >= 0) \/ (sm = "wait" /\ wakeAt = now)
          /\ sm' = "run" /\ UNCHANGED wakeAt
          /\ \E res \in ntp_gettime : leapCheck(res)
    /\ noTime /\ UNCHANGED <<clockVars, apVars, ctlVars, rpc, gpsVars>>

\* A tick of the clock; what is due in it is served before.
Tick ==
    /\ now < MaxTime /\ sm \in {"wait", "run"}
    /\ sm = "wait" => wakeAt > now
    /\ sm = "run" => m_leapCheckTimer > now
    /\ now' = now + 1
    /\ noTime /\ UNCHANGED <<started, leapVars, apVars, ctlVars, rpc, gpsVars>>
-----------------------------------------------------------------------------
(* CGPS *)

\* CGPS::stop, called by thread t, clears the flag of the readers and waits for the one it knows, which
\* may not have set the flag yet.
stopReaders(t) ==
    joining' = [joining EXCEPT ![t] = m_gpsdReadThread] /\ m_readThreadRunning' = FALSE

\* The end of CGPS::stop.
stop_end(t) ==
    /\ joining[t] # EMPTY
    /\ joining[t] # 0 => rpc[joining[t]] \in {"end", "none"}
    /\ joining' = [joining EXCEPT ![t] = EMPTY]
    /\ m_gpsdReadThread' = IF joining[t] # 0 THEN 0 ELSE m_gpsdReadThread
    /\ rpc' = [i \in Readers |-> IF i = joining[t] THEN "none" ELSE rpc[i]]
    /\ noTime /\ UNCHANGED <<clockVars, leapVars, apVars, starts, m_readThreadRunning, gpsVars>>

\* CGPS::start clears the flag and makes a reader, whether or not there is one.
startReader ==
    \E i \in Readers :
       /\ rpc[i] = "none"
       /\ m_readThreadRunning' = FALSE /\ m_gpsdReadThread' = i /\ starts' = starts + 1
       /\ rpc' = [rpc EXCEPT ![i] = "new"]
       /\ UNCHANGED joining

\* The coupler notes the status when it listens to the daemon.
handleGPSStatusChanged(s) == m_cur_gps_status' = IF GpsdConn THEN s ELSE m_cur_gps_status

\* Mutant: the time of the stable signal stays when the signal is lost.
setStatus_keepsTime(s) ==
    /\ UNCHANGED m_stable_start_time
    /\ IF m_current_gps_status # s THEN handleGPSStatusChanged(s) ELSE UNCHANGED m_cur_gps_status
    /\ m_current_gps_status' = s

\* A new status goes to the coupler; only SYNC keeps the time of the stable signal.
setStatus(s) ==
    /\ m_stable_start_time' = IF s = "SYNC" THEN m_stable_start_time ELSE 0
    /\ IF m_current_gps_status # s THEN handleGPSStatusChanged(s) ELSE UNCHANGED m_cur_gps_status
    /\ m_current_gps_status' = s

Goes(i, at, to) == rpc[i] = at /\ rpc' = [rpc EXCEPT ![i] = to]

\* Connection to the daemon; it is tried again when there is none.
openGps(i) ==
    \/ /\ Goes(i, "new", "open")
       /\ m_readThreadRunning' = TRUE
       /\ UNCHANGED <<gpsVars>>
    \/ /\ m_readThreadRunning /\ Goes(i, "open", "read")
       /\ UNCHANGED <<m_readThreadRunning, gpsVars>>
    \/ /\ m_readThreadRunning /\ Goes(i, "open", "open")
       /\ setStatus("NO_DEVICE") /\ goodSince' = EMPTY
       /\ UNCHANGED <<m_readThreadRunning, m_lastRecord>>
    \/ /\ ~m_readThreadRunning /\ Goes(i, "open", "close")
       /\ UNCHANGED <<m_readThreadRunning, gpsVars>>

\* A record with enough satellites: the time of the first one is noted, a later one is
\* judged in the next step.
goodRecord(i) ==
    /\ m_lastRecord' = TRUE
    /\ goodSince' = IF goodSince = EMPTY THEN now ELSE goodSince
    /\ \/ /\ m_stable_start_time = 0 /\ Goes(i, "read", "read")
          /\ m_stable_start_time' = now + 1      \* never 0: the steady clock is past it
       \/ /\ m_stable_start_time # 0 /\ Goes(i, "read", "stable")
          /\ UNCHANGED m_stable_start_time
    /\ UNCHANGED <<m_current_gps_status, m_cur_gps_status>>

\* The difference is unsigned: a start time of 0 is long ago.
stableSignal(i) ==
    /\ Goes(i, "stable", "read")
    /\ IF m_stable_start_time = 0 \/ now + 1 - m_stable_start_time >= MaxTimeToStable
       THEN setStatus("SYNC")
       ELSE UNCHANGED <<m_stable_start_time, m_cur_gps_status, m_current_gps_status>>
    /\ UNCHANGED <<m_lastRecord, goodSince>>

badRecord(i) ==
    /\ Goes(i, "read", "read")
    /\ m_lastRecord' = TRUE /\ setStatus("NO_SYNC") /\ goodSince' = EMPTY

\* No input: the connection counts as lost when there was a record.
noInput(i) ==
    /\ Goes(i, "read", "read")
    /\ IF m_lastRecord THEN setStatus("CONN_LOST")
                       ELSE UNCHANGED <<m_stable_start_time, m_cur_gps_status, m_current_gps_status>>
    /\ m_lastRecord' = FALSE /\ goodSince' = EMPTY

readError(i) ==
    /\ Goes(i, "read", "open")
    /\ m_lastRecord' = FALSE /\ setStatus("CONN_LOST") /\ goodSince' = EMPTY

\* Mutant: the loop that reads records does not look at the flag.
readGPSThreadFun_deaf(i) ==
    /\ \/ openGps(i)
       \/ /\ goodRecord(i) \/ badRecord(i) \/ noInput(i) \/ readError(i) \/ stableSignal(i)
          /\ UNCHANGED m_readThreadRunning
       \/ /\ Goes(i, "close", "end") /\ m_readThreadRunning' = FALSE
          /\ UNCHANGED gpsVars
    /\ noTime /\ UNCHANGED <<clockVars, leapVars, apVars, starts, joining, m_gpsdReadThread>>

\* The loop of the reader.
readGPSThreadFun(i) ==
    /\ \/ openGps(i)
       \/ /\ m_readThreadRunning
          /\ goodRecord(i) \/ badRecord(i) \/ noInput(i) \/ readError(i)
          /\ UNCHANGED m_readThreadRunning
       \/ stableSignal(i) /\ UNCHANGED m_readThreadRunning
       \/ /\ ~m_readThreadRunning /\ Goes(i, "read", "close")
          /\ m_stable_start_time' = 0
          /\ UNCHANGED <<m_readThreadRunning, m_lastRecord, m_current_gps_status, m_cur_gps_status,
                         goodSince>>
       \/ /\ Goes(i, "close", "end") /\ m_readThreadRunning' = FALSE
          /\ UNCHANGED gpsVars
    /\ noTime /\ UNCHANGED <<clockVars, leapVars, apVars, starts, joining, m_gpsdReadThread>>
-----------------------------------------------------------------------------
(* CAPCoupler on the io thread *)

\* The AP boots (external); the coupler asks for its clock source.
handleAPBoot ==
    /\ boots < MaxBoots /\ joining["io"] = EMPTY
    /\ boots' = boots + 1 /\ asked' = TRUE /\ clksource' = "NONE"
    /\ noTime /\ UNCHANGED <<clockVars, leapVars, m_isIntClkSrc, ctlVars, rpc, gpsVars>>

\* The answer: starts the GPS reader, or stops it.
handleParamClkSrc(c) ==
    /\ asked /\ joining["io"] = EMPTY /\ ~(sm = "end" /\ joining["main"] = EMPTY)   \* m_gps is there
    /\ asked' = FALSE /\ clksource' = c
    /\ IF ~GpsdConn THEN UNCHANGED <<ctlVars, rpc>>
       ELSE IF c = "PPS" /\ ApClkSource = "PPS" THEN startReader
       ELSE stopReaders("io") /\ UNCHANGED <<starts, m_gpsdReadThread, rpc>>
    /\ noTime /\ UNCHANGED <<clockVars, leapVars, boots, m_isIntClkSrc, gpsVars>>

\* CAPCoupler::stop ends the coupler's thread and stops the GPS on the thread that called it.
stop ==
    /\ sm \in {"wait", "run"} /\ sm' = "end"
    /\ stopReaders("main")
    /\ noTime /\ UNCHANGED <<clockVars, wakeAt, m_blackoutStart, m_leapCheckTimer, answer, unsynched, apVars,
                   starts, m_gpsdReadThread, rpc, gpsVars>>

\* The Manager connects, with the source it wants: what setClockSource_p leaves.
connected(isInt) ==
    /\ clksource # "NONE" /\ m_isIntClkSrc' = isInt
    /\ clksource' = IF ApClkSource = "PPS" THEN "PPS"
                    ELSE IF clksource # "AUTO" THEN "AUTO"
                    ELSE IF (ApClkSource = "MNGRSET" /\ isInt) \/ ApClkSource = "INTERNAL"
                    THEN "INTERNAL" ELSE "NETWORK"
    /\ noTime /\ UNCHANGED <<clockVars, leapVars, boots, asked, ctlVars, rpc, gpsVars>>

\* The minute around the midnight of the leap second.
Blackout(t) == t > BlackoutStart /\ t < BlackoutStart + AP_BLACKOUT_DURATION

sendSetSystime ==
    last' = [src |-> clksource, sm |-> sm, blackout |-> Blackout(now), unsynched |-> unsynched,
             starts |-> starts,
             trusted |-> goodSince # EMPTY /\ now - goodSince >= MaxTimeToStable]

InBlackoutPeriod ==
    m_blackoutStart # EMPTY /\ now > m_blackoutStart /\ now < m_blackoutStart + AP_BLACKOUT_DURATION

UsesSystemTime ==
    clksource = "INTERNAL"
        \/ (clksource = "AUTO" /\ ((ApClkSource = "MNGRSET" /\ m_isIntClkSrc) \/ ApClkSource = "INTERNAL"))

\* The AP is ready for its time; without gpsd the GPS counts as synchronised.
handleReadyForTime ==
    /\ boots > 0 /\ joining["io"] = EMPTY /\ ~InBlackoutPeriod
    /\ \/ UsesSystemTime /\ sendSetSystime /\ UNCHANGED gpsVars
       \/ /\ clksource = "PPS"
          /\ m_cur_gps_status' = IF GpsdConn THEN m_cur_gps_status ELSE "SYNC"
          /\ m_cur_gps_status' = "SYNC" /\ sendSetSystime
          /\ UNCHANGED <<m_lastRecord, m_current_gps_status, m_stable_start_time, goodSince>>
    /\ UNCHANGED <<clockVars, leapVars, apVars, ctlVars, rpc>>

TimeNext ==
    \/ smThreadFun_p \/ leapCheckingTimer_p \/ Tick
    \/ stop \/ \E t \in Callers : stop_end(t)
    \/ \E i \in Readers : readGPSThreadFun(i)
    \/ handleAPBoot \/ \E c \in Reports : handleParamClkSrc(c)
    \/ \E b \in IntSync : connected(b)
    \/ handleReadyForTime

TimeSpec == TimeInit /\ [][TimeNext]_timeVars
FairTimeSpec ==
    /\ TimeSpec
    /\ \A t \in Callers : WF_timeVars(stop_end(t))
    /\ \A i \in Readers : WF_timeVars(readGPSThreadFun(i))
-----------------------------------------------------------------------------
(* Properties *)

\* A bridge started before the midnight of the leap second sets no time of the AP in the blackout
\* once its state machine runs, whatever day it was started on and however often the check was
\* made since, when the clock was synchronised at the check that decides (leapCheckingTimer_p,
\* smThreadFun_p, handleReadyForTime).  The exception is the one second in which the blackout begins:
\* a bridge started in it computes 0 seconds, does not wait, and sets the blackout of the next day.
NoTimeInBlackout ==
    /\ started < (LeapDay + 1) * Day /\ started # BlackoutStart
    /\ last.sm = "run" /\ ~last.unsynched
    => ~last.blackout

\* On any other day the AP gets its time: it is refused in the blackout only, or in the same minute of a
\* later day when that day's check still found the announcement of the leap second (TIME_WAIT).
OnlyBlackoutRefuses == sm = "run" /\ InBlackoutPeriod => Blackout(now) \/ answer = "TIME_WAIT"

\* While there was one CGPS::start, an AP on GPS gets the time only when the satellites were enough
\* for MaxTimeToStable and in all records since (readGPSThreadFun, setStatus,
\* handleGPSStatusChanged, handleReadyForTime).
TimeNeedsLock == last.src = "PPS" /\ GpsdConn /\ last.starts <= 1 => last.trusted

\* A stop that has cleared the flag when all readers have begun returns: they see the flag in each of
\* their loops, also while there is no daemon, and no end of a reader undoes it (CGPS::stop joins the
\* one it knows, readGPSThreadFun).
GpsStopReturns ==
    /\ joining["io"] # EMPTY /\ ~m_readThreadRunning
    /\ \A i \in Readers : rpc[i] # "new"
    ~> joining["io"] = EMPTY

\* CGPS::stop "Stops the GPS thread." (public/IGPS.h), whenever and from whichever thread it is called.
GpsStops == \A t \in Callers : joining[t] # EMPTY ~> joining[t] = EMPTY

\* CGPS::start "starts reading the GPS sentences in a separate thread" (public/IGPS.h): the thread
\* that it made last reads until CGPS::stop.
StartedReads == m_gpsdReadThread # 0 /\ (\A t \in Callers : joining[t] = EMPTY) => rpc[m_gpsdReadThread] # "end"
=============================================================================
