---------------------------- MODULE APTimeProofs ----------------------------
(***************************************************************************)
(* Proofs about the time of the AP: whenever the bridge was started, the   *)
(* blackout around the leap second is kept when the clock is synchronised, *)
(* and a time is refused on its day, or on a day that a left-over          *)
(* announcement makes one; an AP on GPS gets the time of a trusted         *)
(* receiver.                                                               *)
(*                                                                         *)
(* The blackout's invariant is about the next check: it comes before the   *)
(* blackout it would have to set or to clear.  The GPS's is about the one  *)
(* reader: the time of the stable signal is never older than the signal.   *)
(***************************************************************************)
EXTENDS APTime, TLAPS

\* The midnight before the leap day and that day's check.
LeapStart == LeapDay * Day
LeapCheck == LeapStart + LEAP_CHECK_TIME

\* The constants are numbers, in their order in the day.
LEMMA Constants ==
    /\ Day \in Nat /\ AP_BLACKOUT \in Nat /\ AP_BLACKOUT_DURATION \in Nat /\ LEAP_CHECK_TIME \in Nat
    /\ LeapDay \in Nat /\ MaxTimeToStable \in Nat /\ GpsdConn \in BOOLEAN
    /\ 0 < LEAP_CHECK_TIME /\ LEAP_CHECK_TIME < AP_BLACKOUT /\ AP_BLACKOUT < Day
    /\ AP_BLACKOUT + AP_BLACKOUT_DURATION < Day + LEAP_CHECK_TIME
    /\ LeapStart \in Nat /\ BlackoutStart = LeapStart + AP_BLACKOUT
  <1>1. {Day, AP_BLACKOUT, AP_BLACKOUT_DURATION, LEAP_CHECK_TIME, LeapDay, MaxTimeToStable} \subseteq Nat
    BY TimeAssumption
  <1>2. LeapStart \in Nat /\ BlackoutStart = LeapStart + AP_BLACKOUT
    BY <1>1 DEF LeapStart, BlackoutStart
  <1>3. QED BY <1>1, <1>2, TimeAssumption

\* A time is its day and the time of the day.
LEMMA Days ==
    ASSUME NEW n \in Nat
    PROVE  /\ n \div Day \in Nat /\ n % Day \in 0..Day - 1
           /\ n = (n \div Day) * Day + (n % Day)
  BY Constants

\* Days before the leap day end before it, and later days begin after it.
LEMMA DayOrder ==
    ASSUME NEW q \in Nat, NEW d \in Int, d = q * Day
    PROVE  /\ q < LeapDay => d + Day <= LeapStart
           /\ q = LeapDay => d = LeapStart
           /\ q > LeapDay => d >= LeapStart + Day
  <1>1. CASE q < LeapDay
    <2>1. q + 1 <= LeapDay
      BY <1>1, Constants
    <2>2. (q + 1) * Day <= LeapDay * Day
      BY <2>1, Constants
    <2>3. (q + 1) * Day = q * Day + Day
      BY Constants
    <2>4. QED BY <1>1, <2>2, <2>3, Constants DEF LeapStart
  <1>2. CASE q = LeapDay
    BY <1>2, Constants DEF LeapStart
  <1>3. CASE q > LeapDay
    <2>1. LeapDay + 1 <= q
      BY <1>3, Constants
    <2>2. (LeapDay + 1) * Day <= q * Day
      BY <2>1, Constants
    <2>3. (LeapDay + 1) * Day = LeapDay * Day + Day
      BY Constants
    <2>4. QED BY <1>3, <2>2, <2>3, Constants DEF LeapStart
  <1>4. QED BY <1>1, <1>2, <1>3, Constants

\* Today is the leap day.
IsLeapDay == LeapStart <= now /\ now < LeapStart + Day

\* What the day and the time of the day say of the clock (ntp_gettime, secSinceMidnight_p).
LEMMA Clock ==
    ASSUME now \in Nat
    PROVE  /\ now \div Day = LeapDay <=> IsLeapDay
           /\ now \div Day > LeapDay => now >= LeapStart + Day
           /\ IsLeapDay => now % Day = now - LeapStart
           /\ now % Day \in 0..Day - 1
           /\ now < LeapStart => now - (now % Day) + Day <= LeapStart
           /\ now >= LeapStart + Day => now - (now % Day) >= LeapStart + Day
  <1>1. PICK q \in Nat, r \in 0..Day - 1, d \in Int :
            q = now \div Day /\ r = now % Day /\ d = q * Day /\ now = d + r
    BY Days, Constants
  <1>2. /\ q < LeapDay => d + Day <= LeapStart
        /\ q = LeapDay => d = LeapStart
        /\ q > LeapDay => d >= LeapStart + Day
    BY <1>1, DayOrder
  <1>3. q < LeapDay \/ q = LeapDay \/ q > LeapDay
    BY Constants
  <1>4. QED BY <1>1, <1>2, <1>3, Constants DEF IsLeapDay

\* What an answer says: the announcement is of its day, or left over, or the clock is not synchronised
\* (ntp_gettime, ntpIsLeapDay).
LEMMA Answers ==
    ASSUME now \in Nat, NEW res \in ntp_gettime
    PROVE  /\ ntpIsLeapDay(res) => IsLeapDay \/ (res = "TIME_WAIT" /\ now >= LeapStart + Day)
           /\ ~ntpIsLeapDay(res) /\ IsLeapDay => res = "TIME_ERROR"
  <1>1. /\ now \div Day = LeapDay <=> IsLeapDay
        /\ now \div Day > LeapDay => now >= LeapStart + Day
    BY Clock
  <1>2. CASE now \div Day = LeapDay
    BY <1>1, <1>2 DEF ntp_gettime, ntpIsLeapDay
  <1>3. CASE now \div Day # LeapDay
    BY <1>1, <1>3 DEF ntp_gettime, ntpIsLeapDay
  <1>4. QED BY <1>2, <1>3

\* Where a check of the day puts the next one and the blackout (leapCheck).
LEMMA Checked ==
    ASSUME now \in Nat, NEW res \in ntp_gettime, leapCheck(res)
    PROVE  /\ m_leapCheckTimer' \in Nat /\ m_leapCheckTimer' > now /\ m_blackoutStart' \in Int
           /\ m_leapCheckTimer' <= LeapCheck \/ m_leapCheckTimer' >= LeapCheck + Day
           /\ \/ m_blackoutStart' \in {EMPTY, BlackoutStart} \/ answer' = "TIME_WAIT"
              \/ m_leapCheckTimer' <= m_blackoutStart'
           /\ \/ m_blackoutStart' = BlackoutStart \/ m_leapCheckTimer' <= LeapCheck \/ now >= BlackoutStart
              \/ unsynched'
  <1> DEFINE r == now % Day
  <1>1. /\ m_leapCheckTimer' = IF r >= LEAP_CHECK_TIME THEN now + (LEAP_CHECK_TIME - r) + Day
                                                       ELSE now + (LEAP_CHECK_TIME - r)
        /\ ntpIsLeapDay(res) => m_blackoutStart' = IF r >= AP_BLACKOUT THEN now + (AP_BLACKOUT - r) + Day
                                                                       ELSE now + (AP_BLACKOUT - r)
        /\ ~ntpIsLeapDay(res) => m_blackoutStart' = EMPTY
        /\ answer' = res /\ (res = "TIME_ERROR" => unsynched')
    <2>1. r \in 0..Day - 1
      BY Clock
    <2> HIDE DEF r
    <2>2. answer' = res /\ (res = "TIME_ERROR" => unsynched')
      BY DEF leapCheck, noteAnswer
    <2>3. QED BY <2>1, <2>2, Constants DEF leapCheck, secSinceMidnight_p, r
  <1>2. /\ IsLeapDay <=> LeapStart <= now /\ now < LeapStart + Day
        /\ IsLeapDay => r = now - LeapStart
        /\ r \in 0..Day - 1
        /\ now < LeapStart => now - r + Day <= LeapStart
        /\ now >= LeapStart + Day => now - r >= LeapStart + Day
    BY Clock DEF IsLeapDay
  <1>3. /\ ntpIsLeapDay(res) => IsLeapDay \/ (answer' = "TIME_WAIT" /\ now >= LeapStart + Day)
        /\ ~ntpIsLeapDay(res) /\ IsLeapDay => unsynched'
    BY <1>1, Answers
  <1> HIDE DEF r
  <1>4. CASE IsLeapDay /\ ntpIsLeapDay(res)
    BY <1>1, <1>2, <1>4, Constants DEF LeapCheck, EMPTY
  <1>5. CASE IsLeapDay /\ ~ntpIsLeapDay(res)
    BY <1>1, <1>2, <1>3, <1>5, Constants DEF LeapCheck, EMPTY
  <1>6. CASE now < LeapStart
    BY <1>1, <1>2, <1>3, <1>6, Constants DEF LeapCheck, EMPTY
  <1>7. CASE now >= LeapStart + Day
    BY <1>1, <1>2, <1>3, <1>7, Constants DEF LeapCheck, EMPTY
  <1>8. QED BY <1>2, <1>4, <1>5, <1>6, <1>7, Constants
-----------------------------------------------------------------------------
(* The blackout *)

\* The coupler's thread has the time of its start until it runs or waits; it waits for the end of a
\* blackout, and skips the wait in the leap day's for want of a synchronised clock only.
Starting ==
    /\ now \in Nat /\ started \in StartTimes /\ unsynched \in BOOLEAN
    /\ sm \in {"off", "check"} => now = started
    /\ sm = "check" => now < BlackoutStart \/ now >= LeapStart + Day \/ (now > BlackoutStart /\ unsynched)
    /\ sm = "wait" => wakeAt \in Int /\ wakeAt >= BlackoutStart + AP_BLACKOUT_DURATION
\* While it runs the next check is not over, and is of a day after the last one.
NextCheck ==
    sm = "run" => /\ m_leapCheckTimer \in Nat /\ now <= m_leapCheckTimer
                  /\ m_leapCheckTimer <= LeapCheck \/ m_leapCheckTimer >= LeapCheck + Day
\* A blackout is the leap day's, or one of a left-over announcement, or is decided anew before it comes.
RightDay ==
    sm = "run" => /\ m_blackoutStart \in Int
                  /\ \/ m_blackoutStart \in {EMPTY, BlackoutStart} \/ answer = "TIME_WAIT"
                     \/ m_leapCheckTimer <= m_blackoutStart
\* The blackout is known, or the check that will find it is still to come, or it is over.
Announced ==
    sm = "run" /\ started # BlackoutStart /\ started < LeapStart + Day /\ ~unsynched =>
        \/ m_blackoutStart = BlackoutStart \/ m_leapCheckTimer <= LeapCheck
        \/ now >= BlackoutStart + AP_BLACKOUT_DURATION
BlackoutInv == Starting /\ NextCheck /\ RightDay /\ Announced

\* The start of the bridge satisfies it.
LEMMA BlackoutInit == TimeInit => BlackoutInv
  BY TimeAssumption DEF TimeInit, BlackoutInv, Starting, NextCheck, RightDay, Announced

\* The blackout's invariant after a check of the day.
LEMMA CheckKeeps ==
    ASSUME Starting, NEW res \in ntp_gettime, leapCheck(res), sm' = "run", UNCHANGED clockVars,
           \/ sm = "off" /\ (now <= BlackoutStart \/ now >= LeapStart + Day)
           \/ sm = "check"
           \/ now >= BlackoutStart + AP_BLACKOUT_DURATION
           \/ now <= LeapCheck \/ now >= LeapCheck + Day
    PROVE  BlackoutInv'
  <1>1. now \in Nat /\ now' = now /\ started' = started /\ started \in StartTimes /\ unsynched \in BOOLEAN
    BY DEF Starting, clockVars
  <1>2. /\ m_leapCheckTimer' \in Nat /\ m_leapCheckTimer' > now /\ m_blackoutStart' \in Int
        /\ m_leapCheckTimer' <= LeapCheck \/ m_leapCheckTimer' >= LeapCheck + Day
        /\ \/ m_blackoutStart' \in {EMPTY, BlackoutStart} \/ answer' = "TIME_WAIT"
           \/ m_leapCheckTimer' <= m_blackoutStart'
        /\ \/ m_blackoutStart' = BlackoutStart \/ m_leapCheckTimer' <= LeapCheck \/ now >= BlackoutStart
           \/ unsynched'
    BY <1>1, Checked
  <1>3. unsynched' \in BOOLEAN
    BY DEF leapCheck, noteAnswer
  <1>4. Starting' /\ NextCheck' /\ RightDay'
    BY <1>1, <1>2, <1>3 DEF Starting, NextCheck, RightDay
  <1>5. ASSUME started # BlackoutStart, started < LeapStart + Day, now >= BlackoutStart, ~unsynched'
        PROVE  now >= BlackoutStart + AP_BLACKOUT_DURATION
    <2>1. CASE sm = "off" /\ (now <= BlackoutStart \/ now >= LeapStart + Day)
      BY <1>1, <1>5, <2>1, Constants DEF Starting
    <2>2. CASE sm = "check"
      <3>1. now = started /\ now > BlackoutStart
        BY <1>1, <1>5, <2>2, Constants DEF Starting
      <3>2. unsynched
        BY <1>1, <1>5, <2>2, <3>1, Constants DEF Starting
      <3>3. unsynched'
        BY <3>1, <3>2 DEF leapCheck, noteAnswer
      <3>4. QED BY <1>5, <3>3
    <2>3. CASE now <= LeapCheck \/ now >= LeapCheck + Day
      BY <1>1, <1>5, <2>3, Constants DEF LeapCheck
    <2>4. QED BY <2>1, <2>2, <2>3
  <1>6. Announced'
    BY <1>1, <1>2, <1>5 DEF Announced
  <1>7. QED BY <1>4, <1>6 DEF BlackoutInv

\* The invariant at the start of the coupler's thread (smThreadFun_p).
LEMMA StartKeeps ==
    ASSUME BlackoutInv, smThreadFun_p
    PROVE  BlackoutInv'
  <1> DEFINE sec == AP_BLACKOUT - (now % Day)
  <1>1. /\ Starting /\ UNCHANGED clockVars /\ now \in Nat /\ unsynched \in BOOLEAN
        /\ secSinceMidnight_p(AP_BLACKOUT, FALSE) = sec
        /\ now' = now /\ started' = started
    <2>1. AP_BLACKOUT \in Nat /\ now \in Nat /\ now % Day \in 0..Day - 1 /\ Day \in Nat
      BY Clock, Constants DEF BlackoutInv, Starting
    <2>2. Starting /\ UNCHANGED clockVars /\ unsynched \in BOOLEAN
      BY DEF smThreadFun_p, BlackoutInv, Starting
    <2>3. QED BY <2>1, <2>2 DEF secSinceMidnight_p, clockVars
  <1>2. /\ sec \in Int
        /\ sec < 0 => now < LeapStart \/ now >= LeapStart + Day \/ now > BlackoutStart
        /\ sec >= 0 => now <= BlackoutStart \/ now >= LeapStart + Day
        /\ IsLeapDay => now + sec = BlackoutStart
        /\ now >= LeapStart + Day => now + sec >= BlackoutStart
    BY <1>1, Clock, Constants DEF IsLeapDay
  <1> HIDE DEF sec
  <1>3. CASE sm = "off" /\ sec < 0
    <2>0. ~(sec >= 0) /\ sm # "check" /\ sm # "wait"
      BY <1>2, <1>3
    <2>1. PICK res \in ntp_gettime :
             /\ noteAnswer(res)
             /\ \/ /\ ntpIsLeapDay(res) /\ sm' = "wait" /\ wakeAt' = now + AP_BLACKOUT_DURATION + sec
                \/ ~ntpIsLeapDay(res) /\ sm' = "check"
      BY <1>1, <1>3, <2>0, Zenon DEF smThreadFun_p
    <2>2. unsynched' \in BOOLEAN /\ (res = "TIME_ERROR" => unsynched') /\ now = started
      BY <1>1, <1>3, <2>1 DEF noteAnswer, Starting
    <2>3. /\ ntpIsLeapDay(res) => IsLeapDay \/ now >= LeapStart + Day
          /\ ~ntpIsLeapDay(res) /\ IsLeapDay => unsynched'
      BY <1>1, <2>2, Answers
    <2>4. ASSUME sm' = "wait" PROVE wakeAt' \in Int /\ wakeAt' >= BlackoutStart + AP_BLACKOUT_DURATION
      BY <1>1, <1>2, <2>1, <2>3, <2>4, Constants
    <2>5. ASSUME sm' = "check"
          PROVE  now < BlackoutStart \/ now >= LeapStart + Day \/ (now > BlackoutStart /\ unsynched')
      <3>1. ~ntpIsLeapDay(res)
        BY <2>1, <2>5
      <3>2. IsLeapDay \/ now < LeapStart \/ now >= LeapStart + Day
        BY <1>1, Constants DEF IsLeapDay
      <3>3. QED BY <1>1, <1>2, <1>3, <2>3, <3>1, <3>2, Constants DEF IsLeapDay
    <2>6. sm' \in {"wait", "check"}
      BY <2>1
    <2>7. QED BY <1>1, <2>2, <2>4, <2>5, <2>6
          DEF BlackoutInv, Starting, NextCheck, RightDay, Announced
  <1>4. CASE /\ sm = "check" \/ (sm = "off" /\ sec >= 0) \/ (sm = "wait" /\ wakeAt = now)
             /\ sm' = "run" /\ \E res \in ntp_gettime : leapCheck(res)
    <2>1. PICK res \in ntp_gettime : leapCheck(res)
      BY <1>4
    <2>2. \/ sm = "off" /\ (now <= BlackoutStart \/ now >= LeapStart + Day)
          \/ sm = "check"
          \/ now >= BlackoutStart + AP_BLACKOUT_DURATION
      BY <1>1, <1>2, <1>4 DEF Starting
    <2>3. QED BY <1>1, <1>4, <2>1, <2>2, CheckKeeps
  <1>5. QED BY <1>1, <1>3, <1>4 DEF smThreadFun_p

\* Every step keeps the blackout's invariant.
LEMMA BlackoutStep ==
    ASSUME BlackoutInv, [TimeNext]_timeVars
    PROVE  BlackoutInv'
  <1>1. ASSUME UNCHANGED <<clockVars, leapVars>> PROVE BlackoutInv'
    BY <1>1 DEF BlackoutInv, Starting, NextCheck, RightDay, Announced, clockVars, leapVars
  <1>2. CASE leapCheckingTimer_p
    <2>1. PICK res \in ntp_gettime : leapCheck(res)
      BY <1>2 DEF leapCheckingTimer_p
    <2>2. /\ Starting /\ sm' = "run" /\ UNCHANGED clockVars
          /\ now <= LeapCheck \/ now >= LeapCheck + Day
      BY <1>2 DEF leapCheckingTimer_p, BlackoutInv, NextCheck
    <2>3. QED BY <2>1, <2>2, CheckKeeps
  <1>3. CASE smThreadFun_p
    BY <1>3, StartKeeps
  <1>4. CASE Tick
    <2>1. now' = now + 1 /\ started' = started /\ UNCHANGED leapVars /\ now \in Nat /\ sm \in {"wait", "run"}
      BY <1>4 DEF Tick, BlackoutInv, Starting
    <2>2. sm = "run" => m_leapCheckTimer > now
      BY <1>4 DEF Tick
    <2>3. Starting' /\ NextCheck' /\ RightDay'
      BY <2>1, <2>2 DEF BlackoutInv, Starting, NextCheck, RightDay, leapVars
    <2>4. Announced'
      BY <2>1, Constants DEF BlackoutInv, Announced, leapVars
    <2>5. QED BY <2>3, <2>4 DEF BlackoutInv
  <1>5. CASE \E t \in Callers : stop_end(t)
    BY <1>1, <1>5 DEF stop_end
  <1>12. CASE stop
    BY <1>12 DEF stop, BlackoutInv, Starting, NextCheck, RightDay, Announced, clockVars
  <1>6. CASE \E i \in Readers : readGPSThreadFun(i)
    BY <1>1, <1>6 DEF readGPSThreadFun
  <1>7. CASE handleAPBoot \/ handleReadyForTime
    BY <1>1, <1>7 DEF handleAPBoot, handleReadyForTime
  <1>8. CASE \E c \in Reports : handleParamClkSrc(c)
    BY <1>1, <1>8 DEF handleParamClkSrc
  <1>9. CASE \E b \in IntSync : connected(b)
    BY <1>1, <1>9 DEF connected
  <1>10. CASE UNCHANGED timeVars
    BY <1>1, <1>10 DEF timeVars
  <1>11. QED BY <1>2, <1>3, <1>4, <1>5, <1>6, <1>7, <1>8, <1>9, <1>10, <1>12 DEF TimeNext

\* It holds of every behaviour.
LEMMA BlackoutHolds == TimeSpec => []BlackoutInv
  BY BlackoutInit, BlackoutStep, PTL DEF TimeSpec

\* On any other day the AP gets its time, for every length of the day and of the blackout: handleReadyForTime refuses
\* a time only in the blackout of the leap day, or in the same minute of a day whose check still found the announcement
\* of a past leap second, whenever the bridge was started and however often the day was checked.
THEOREM RefusedOnlyInBlackout == TimeSpec => []OnlyBlackoutRefuses
  <1>1. BlackoutInv => OnlyBlackoutRefuses
    <2>1. SUFFICES ASSUME BlackoutInv, sm = "run", InBlackoutPeriod, answer # "TIME_WAIT" PROVE Blackout(now)
      BY DEF OnlyBlackoutRefuses
    <2>2. /\ m_blackoutStart = BlackoutStart \/ m_leapCheckTimer <= m_blackoutStart
          /\ now \in Nat /\ m_blackoutStart \in Int
          /\ now > m_blackoutStart /\ now < m_blackoutStart + AP_BLACKOUT_DURATION
          /\ now <= m_leapCheckTimer /\ m_leapCheckTimer \in Nat
      BY <2>1 DEF BlackoutInv, Starting, NextCheck, RightDay, InBlackoutPeriod
    <2>3. m_blackoutStart = BlackoutStart
      BY <2>2
    <2>4. QED BY <2>2, <2>3 DEF Blackout
  <1>2. QED BY <1>1, BlackoutHolds, PTL

\* No time is set in the blackout, whatever day and time the bridge was started before the midnight of the leap second,
\* when the clock was synchronised at the check that decides: at the check of the leap day, or at the start of a bridge
\* started later that day.  NoTimeInBlackout names the one second of the start for which the code misses it.
THEOREM BlackoutKept == TimeSpec => []NoTimeInBlackout
  <1>1. TimeInit => NoTimeInBlackout
    BY DEF TimeInit, NoTimeInBlackout, NoTime
  <1>2. ASSUME BlackoutInv, NoTimeInBlackout, [TimeNext]_timeVars PROVE NoTimeInBlackout'
    <2>1. ASSUME noTime PROVE NoTimeInBlackout'
      BY <2>1 DEF NoTimeInBlackout, noTime, NoTime
    <2>2. CASE handleReadyForTime
      <3>1. /\ started' = started /\ last'.sm = sm /\ last'.blackout = Blackout(now) /\ last'.unsynched = unsynched
            /\ ~InBlackoutPeriod
        BY <2>2 DEF handleReadyForTime, sendSetSystime, clockVars
      <3>2. ASSUME started < (LeapDay + 1) * Day, started # BlackoutStart, sm = "run", ~unsynched, Blackout(now)
            PROVE  FALSE
        <4>1. started < LeapStart + Day
          <5>1. (LeapDay + 1) * Day = LeapStart + Day
            BY Constants DEF LeapStart
          <5>2. QED BY <3>2, <5>1
        <4>2. \/ m_blackoutStart = BlackoutStart \/ m_leapCheckTimer <= LeapCheck
              \/ now >= BlackoutStart + AP_BLACKOUT_DURATION
          BY <1>2, <3>2, <4>1 DEF BlackoutInv, Announced
        <4>3. now \in Nat /\ now > BlackoutStart /\ now < BlackoutStart + AP_BLACKOUT_DURATION
          BY <1>2, <3>2 DEF Blackout, BlackoutInv, Starting
        <4>4. m_leapCheckTimer \in Nat /\ now <= m_leapCheckTimer
          BY <1>2, <3>2 DEF BlackoutInv, NextCheck
        <4>5. m_blackoutStart = BlackoutStart /\ BlackoutStart # EMPTY
          BY <4>2, <4>3, <4>4, Constants DEF LeapCheck, EMPTY
        <4>6. QED BY <3>1, <4>3, <4>5 DEF InBlackoutPeriod
      <3>3. QED BY <3>1, <3>2 DEF NoTimeInBlackout
    <2>3. CASE leapCheckingTimer_p \/ smThreadFun_p \/ Tick \/ stop \/ handleAPBoot
      BY <2>1, <2>3 DEF leapCheckingTimer_p, smThreadFun_p, Tick, stop, handleAPBoot
    <2>4. CASE \E t \in Callers : stop_end(t)
      BY <2>1, <2>4 DEF stop_end
    <2>5. CASE \E i \in Readers : readGPSThreadFun(i)
      BY <2>1, <2>5 DEF readGPSThreadFun
    <2>6. CASE \E c \in Reports : handleParamClkSrc(c)
      BY <2>1, <2>6 DEF handleParamClkSrc
    <2>7. CASE \E b \in IntSync : connected(b)
      BY <2>1, <2>7 DEF connected
    <2>8. CASE UNCHANGED timeVars
      BY <1>2, <2>8 DEF NoTimeInBlackout, timeVars, clockVars
    <2>9. QED BY <1>2, <2>2, <2>3, <2>4, <2>5, <2>6, <2>7, <2>8 DEF TimeNext
  <1>3. QED BY <1>1, <1>2, BlackoutHolds, PTL DEF TimeSpec
-----------------------------------------------------------------------------
(* The GPS *)

\* At most one reader was made, and it is the only one.
Single ==
    /\ starts \in Nat /\ rpc \in [Readers -> {"none", "new", "open", "read", "stable", "close", "end"}]
    /\ starts = 0 => \A i \in Readers : rpc[i] = "none"
    /\ starts = 1 => \A i, j \in Readers : rpc[i] # "none" /\ rpc[j] # "none" => i = j
\* The time of the stable signal is not before the first of the records that were good since.
Signal ==
    /\ m_stable_start_time \in Nat /\ goodSince \in 0..now \cup {EMPTY}
    /\ m_stable_start_time # 0 => /\ goodSince \in Nat /\ goodSince + 1 <= m_stable_start_time
                                  /\ m_lastRecord
    /\ \A i \in Readers : rpc[i] = "stable" => m_stable_start_time # 0
\* The coupler knows the reader's status; SYNC stands for a signal that was good for long enough.
Trusted ==
    /\ m_cur_gps_status = m_current_gps_status
    /\ m_cur_gps_status = "SYNC" => /\ goodSince \in Nat /\ now - goodSince >= MaxTimeToStable
                                    /\ m_lastRecord
GpsInv == now \in Nat /\ Single /\ (GpsdConn /\ starts <= 1 => Signal /\ Trusted)

\* The start of the bridge satisfies it.
LEMMA GpsInit == TimeInit => GpsInv
  BY TimeAssumption DEF TimeInit, GpsInv, Single, Signal, Trusted, EMPTY

\* A bad status: the signal and its time are forgotten, and the coupler is told (setStatus).
LEMMA StatusLost ==
    ASSUME GpsdConn, Trusted, Signal, NEW s, s # "SYNC", setStatus(s)
    PROVE  /\ m_stable_start_time' = 0 /\ m_cur_gps_status' = s /\ m_current_gps_status' = s
  BY DEF setStatus, handleGPSStatusChanged, Trusted

\* Every step of the only reader keeps what the coupler trusts.
LEMMA ReaderStep ==
    ASSUME now \in Nat, Single, GpsdConn, starts <= 1, Signal, Trusted,
           NEW i \in Readers, readGPSThreadFun(i)
    PROVE  Signal' /\ Trusted'
  <1>1. /\ now' = now /\ starts' = starts
        /\ rpc \in [Readers -> {"none", "new", "open", "read", "stable", "close", "end"}]
    BY DEF readGPSThreadFun, clockVars, Single
  <1>2. ASSUME rpc[i] # "none" PROVE \A j \in Readers : j # i => rpc[j] = "none"
    BY <1>2 DEF Single
  <1>3. ASSUME NEW at, NEW to, at # "none", Goes(i, at, to)
        PROVE  /\ \A j \in Readers : j # i => rpc'[j] = "none"
               /\ rpc'[i] = to /\ rpc[i] = at
    BY <1>1, <1>2, <1>3 DEF Goes
  <1>4. ASSUME NEW at, NEW to, at # "none", Goes(i, at, to), to # "stable", UNCHANGED gpsVars
        PROVE  Signal' /\ Trusted'
    BY <1>1, <1>3, <1>4 DEF Signal, Trusted, gpsVars
  <1>5. ASSUME NEW at, NEW to, at # "none", Goes(i, at, to), to # "stable", NEW s, s # "SYNC", setStatus(s),
               goodSince' = EMPTY
        PROVE  Signal' /\ Trusted'
    <2>1. \A j \in Readers : rpc'[j] # "stable"
      BY <1>3, <1>5
    <2>2. m_stable_start_time' = 0 /\ m_cur_gps_status' = s /\ m_current_gps_status' = s
      BY <1>5, StatusLost
    <2>3. QED BY <1>5, <2>1, <2>2 DEF Signal, Trusted
  <1>6. CASE openGps(i)
    <2>1. CASE setStatus("NO_DEVICE") /\ goodSince' = EMPTY
      BY <1>5, <1>6, <2>1 DEF openGps, Goes
    <2>2. CASE UNCHANGED gpsVars
      BY <1>4, <1>6, <2>2 DEF openGps, Goes
    <2>3. QED BY <1>6, <2>1, <2>2 DEF openGps
  <1>7. CASE goodRecord(i)
    <2>1. m_lastRecord' /\ goodSince' = IF goodSince = EMPTY THEN now ELSE goodSince
      BY <1>7 DEF goodRecord
    <2>2. UNCHANGED <<m_current_gps_status, m_cur_gps_status>>
      BY <1>7 DEF goodRecord
    <2>3. Trusted'
      BY <1>1, <2>1, <2>2 DEF Trusted, EMPTY
    <2>4. CASE m_stable_start_time = 0 /\ Goes(i, "read", "read") /\ m_stable_start_time' = now + 1
      <3>1. \A j \in Readers : rpc'[j] # "stable"
        BY <1>3, <2>4
      <3>2. QED BY <1>1, <2>1, <2>3, <2>4, <3>1 DEF Signal, EMPTY
    <2>5. CASE m_stable_start_time # 0 /\ UNCHANGED m_stable_start_time
      BY <1>1, <2>1, <2>3, <2>5 DEF Signal, EMPTY
    <2>6. QED BY <1>7, <2>4, <2>5 DEF goodRecord
  <1>8. CASE badRecord(i)
    BY <1>5, <1>8 DEF badRecord, Goes
  <1>9. CASE noInput(i)
    <2>1. CASE m_lastRecord
      BY <1>5, <1>9, <2>1 DEF noInput, Goes
    <2>2. CASE ~m_lastRecord
      <3>1. /\ UNCHANGED <<m_stable_start_time, m_cur_gps_status, m_current_gps_status>>
            /\ m_stable_start_time = 0 /\ m_cur_gps_status # "SYNC"
        BY <1>9, <2>2 DEF noInput, Signal, Trusted
      <3>2. \A j \in Readers : rpc'[j] # "stable"
        BY <1>3, <1>9 DEF noInput
      <3>3. QED BY <1>1, <1>9, <3>1, <3>2 DEF Signal, Trusted, noInput
    <2>3. QED BY <2>1, <2>2
  <1>10. CASE readError(i)
    <2>1. Goes(i, "read", "open") /\ setStatus("CONN_LOST") /\ goodSince' = EMPTY
      BY <1>10 DEF readError
    <2>2. QED BY <1>5, <2>1
  <1>11. CASE stableSignal(i)
    <2>1. m_stable_start_time # 0 /\ UNCHANGED <<m_lastRecord, goodSince>>
      BY <1>11 DEF stableSignal, Goes, Signal
    <2>2. \A j \in Readers : rpc'[j] # "stable"
      BY <1>3, <1>11 DEF stableSignal
    <2>3. CASE UNCHANGED <<m_stable_start_time, m_cur_gps_status, m_current_gps_status>>
      BY <1>1, <2>1, <2>2, <2>3 DEF Signal, Trusted
    <2>4. CASE now + 1 - m_stable_start_time >= MaxTimeToStable /\ setStatus("SYNC")
      <3>1. m_stable_start_time' = m_stable_start_time /\ m_current_gps_status' = "SYNC" /\ m_cur_gps_status' = "SYNC"
        BY <2>4 DEF setStatus, handleGPSStatusChanged, Trusted
      <3>2. now - goodSince >= MaxTimeToStable
        BY <2>1, <2>4, Constants DEF Signal
      <3>3. QED BY <1>1, <2>1, <2>2, <3>1, <3>2 DEF Signal, Trusted
    <2>5. QED BY <1>11, <2>1, <2>3, <2>4 DEF stableSignal
  <1>12. CASE /\ Goes(i, "read", "close") /\ m_stable_start_time' = 0
              /\ UNCHANGED <<m_lastRecord, m_current_gps_status, m_cur_gps_status, goodSince>>
    <2>1. \A j \in Readers : rpc'[j] # "stable"
      BY <1>3, <1>12
    <2>2. QED BY <1>1, <1>12, <2>1 DEF Signal, Trusted
  <1>13. CASE Goes(i, "close", "end") /\ UNCHANGED gpsVars
    BY <1>4, <1>13
  <1>14. QED BY <1>6, <1>7, <1>8, <1>9, <1>10, <1>11, <1>12, <1>13 DEF readGPSThreadFun

\* Readers come one at a time while there is one start, and a reader keeps its place.
LEMMA SingleStep ==
    ASSUME GpsInv, [TimeNext]_timeVars
    PROVE  now' \in Nat /\ Single'
  <1>1. now \in Nat /\ Single
    BY DEF GpsInv
  <1>2. now' \in Nat
    <2>1. CASE Tick
      BY <1>1, <2>1 DEF Tick
    <2>2. CASE UNCHANGED clockVars
      BY <1>1, <2>2 DEF clockVars
    <2>3. QED BY <2>1, <2>2 DEF TimeNext, timeVars, leapCheckingTimer_p, smThreadFun_p, stop_end, stop,
              handleAPBoot, readGPSThreadFun, handleParamClkSrc, connected, handleReadyForTime
  <1>3. ASSUME UNCHANGED <<starts, rpc>> PROVE Single'
    BY <1>1, <1>3 DEF Single
  <1>4. ASSUME starts' = starts, rpc' \in [Readers -> {"none", "new", "open", "read", "stable", "close", "end"}],
               \A i \in Readers : rpc[i] = "none" => rpc'[i] = "none"
        PROVE  Single'
    BY <1>1, <1>4 DEF Single
  <1>5. ASSUME NEW t \in Callers, stop_end(t) PROVE Single'
    <2>1. starts' = starts /\ rpc' = [i \in Readers |-> IF i = joining[t] THEN "none" ELSE rpc[i]]
      BY <1>5 DEF stop_end
    <2>2. rpc \in [Readers -> {"none", "new", "open", "read", "stable", "close", "end"}]
      BY <1>1 DEF Single
    <2>3. rpc' \in [Readers -> {"none", "new", "open", "read", "stable", "close", "end"}]
      BY <2>1, <2>2
    <2>4. QED BY <1>2, <1>4, <2>1, <2>3
  <1>6. ASSUME NEW i \in Readers, readGPSThreadFun(i) PROVE Single'
    <2>1. starts' = starts
      BY <1>6 DEF readGPSThreadFun
    <2>2. \E at \in {"new", "open", "read", "stable", "close"}, to \in {"open", "read", "stable", "close", "end"} :
             Goes(i, at, to)
      BY <1>6 DEF readGPSThreadFun, openGps, goodRecord, badRecord, noInput, readError, stableSignal
    <2>3. QED BY <1>1, <1>4, <2>1, <2>2 DEF Goes, Single
  <1>7. ASSUME NEW c \in Reports, handleParamClkSrc(c) PROVE Single'
    <2>1. CASE UNCHANGED <<starts, rpc>>
      BY <1>3, <2>1
    <2>2. CASE startReader
      <3>1. PICK i \in Readers : rpc[i] = "none" /\ starts' = starts + 1 /\ rpc' = [rpc EXCEPT ![i] = "new"]
        BY <2>2 DEF startReader
      <3>2. rpc' \in [Readers -> {"none", "new", "open", "read", "stable", "close", "end"}]
        BY <1>1, <3>1 DEF Single
      <3>3. starts' = 1 => \A j \in Readers : j # i => rpc'[j] = "none"
        BY <1>1, <3>1 DEF Single
      <3>4. starts' \in Nat /\ starts' # 0
        BY <1>1, <3>1 DEF Single
      <3>5. QED BY <3>2, <3>3, <3>4 DEF Single
    <2>3. QED BY <1>7, <2>1, <2>2 DEF handleParamClkSrc, ctlVars
  <1>8. CASE UNCHANGED <<starts, rpc>>
    BY <1>2, <1>3, <1>8
  <1>9. CASE UNCHANGED <<ctlVars, rpc>>
    BY <1>2, <1>3, <1>9 DEF ctlVars
  <1>10. QED BY <1>2, <1>5, <1>6, <1>7, <1>8, <1>9
         DEF TimeNext, timeVars, leapCheckingTimer_p, smThreadFun_p, Tick, handleAPBoot, connected, handleReadyForTime,
             stop

\* What was long ago stays long ago.
LEMMA Later ==
    ASSUME NEW a \in Nat, NEW b \in Nat, b >= a, NEW g \in Nat, NEW m \in Nat, a - g >= m
    PROVE  b - g >= m
  OBVIOUS

\* Every step keeps the invariant of the GPS.
LEMMA GpsStep ==
    ASSUME GpsInv, [TimeNext]_timeVars
    PROVE  GpsInv'
  <1>1. now \in Nat /\ Single /\ now' \in Nat /\ Single'
    BY SingleStep DEF GpsInv
  <1>2. SUFFICES ASSUME GpsdConn, starts' <= 1 PROVE Signal' /\ Trusted'
    BY <1>1 DEF GpsInv
  <1>3. ASSUME starts' = starts PROVE Signal /\ Trusted /\ starts <= 1
    BY <1>2, <1>3 DEF GpsInv
  <1>4. ASSUME starts' = starts, now' >= now, UNCHANGED gpsVars,
               \A i \in Readers : rpc'[i] = "stable" => rpc[i] = "stable"
        PROVE  Signal' /\ Trusted'
    <2>1. Signal /\ Trusted
      BY <1>3, <1>4
    <2>2. Signal'
      BY <1>1, <1>4, <2>1 DEF Signal, gpsVars, EMPTY
    <2>3. ASSUME goodSince \in Nat, now - goodSince >= MaxTimeToStable PROVE now' - goodSince >= MaxTimeToStable
      <3>1. now \in Nat /\ now' \in Nat /\ now' >= now /\ MaxTimeToStable \in Nat
        BY <1>1, <1>4, Constants
      <3>2. QED BY <2>3, <3>1, Later
    <2>4. Trusted'
      BY <1>4, <2>1, <2>3 DEF Trusted, gpsVars
    <2>5. QED BY <2>2, <2>4
  <1>5. ASSUME starts' = starts, now' = now \/ now' = now + 1, UNCHANGED <<rpc, gpsVars>> PROVE Signal' /\ Trusted'
    BY <1>1, <1>4, <1>5
  <1>6. ASSUME NEW t \in Callers, stop_end(t) PROVE Signal' /\ Trusted'
    <2>1. /\ starts' = starts /\ now' = now /\ UNCHANGED gpsVars
          /\ rpc' = [i \in Readers |-> IF i = joining[t] THEN "none" ELSE rpc[i]]
      BY <1>6 DEF stop_end, clockVars
    <2>2. QED BY <1>1, <1>4, <2>1
  <1>7. ASSUME NEW i \in Readers, readGPSThreadFun(i) PROVE Signal' /\ Trusted'
    <2>1. starts' = starts
      BY <1>7 DEF readGPSThreadFun
    <2>2. QED BY <1>1, <1>2, <1>3, <1>7, <2>1, ReaderStep
  <1>8. ASSUME NEW c \in Reports, handleParamClkSrc(c) PROVE Signal' /\ Trusted'
    <2>1. now' = now /\ UNCHANGED gpsVars
      BY <1>8 DEF handleParamClkSrc, clockVars
    <2>2. CASE UNCHANGED <<starts, rpc>>
      BY <1>5, <2>1, <2>2
    <2>3. CASE startReader
      <3>1. PICK i \in Readers : starts' = starts + 1 /\ rpc' = [rpc EXCEPT ![i] = "new"]
        BY <2>3 DEF startReader
      <3>2. Signal /\ Trusted
        BY <1>1, <1>2, <3>1 DEF GpsInv, Single
      <3>3. \A j \in Readers : rpc'[j] = "stable" => rpc[j] = "stable"
        BY <1>1, <3>1 DEF Single
      <3>4. QED BY <1>1, <2>1, <3>2, <3>3 DEF Signal, Trusted, gpsVars, EMPTY
    <2>4. QED BY <1>8, <2>2, <2>3 DEF handleParamClkSrc, ctlVars
  <1>9. CASE handleReadyForTime
    <2>1. starts' = starts /\ now' = now /\ rpc' = rpc
      BY <1>9 DEF handleReadyForTime, ctlVars, clockVars
    <2>2. UNCHANGED gpsVars
      BY <1>2, <1>9 DEF handleReadyForTime, gpsVars
    <2>3. QED BY <1>5, <2>1, <2>2
  <1>10. CASE Tick
    BY <1>5, <1>10 DEF Tick, ctlVars
  <1>11. CASE leapCheckingTimer_p \/ smThreadFun_p \/ handleAPBoot \/ stop
    BY <1>5, <1>11 DEF leapCheckingTimer_p, smThreadFun_p, handleAPBoot, stop, ctlVars, clockVars
  <1>12. CASE \E b \in IntSync : connected(b)
    BY <1>5, <1>12 DEF connected, ctlVars, clockVars
  <1>13. CASE UNCHANGED timeVars
    BY <1>5, <1>13 DEF timeVars, ctlVars, clockVars
  <1>14. QED BY <1>6, <1>7, <1>8, <1>9, <1>10, <1>11, <1>12, <1>13 DEF TimeNext

\* An AP on GPS gets the time only from a receiver that had enough satellites for MaxTimeToStable and in every record
\* since, while there was one CGPS::start, for every value of that time (readGPSThreadFun, setStatus,
\* handleGPSStatusChanged, handleReadyForTime).  After a second start two readers share the fields and the proof, as
\* the property, ends.
THEOREM TimeTrusted == TimeSpec => []TimeNeedsLock
  <1>1. TimeInit => TimeNeedsLock
    BY DEF TimeInit, TimeNeedsLock, NoTime
  <1>2. ASSUME GpsInv, TimeNeedsLock, [TimeNext]_timeVars PROVE TimeNeedsLock'
    <2>1. ASSUME noTime PROVE TimeNeedsLock'
      BY <2>1 DEF TimeNeedsLock, noTime, NoTime
    <2>2. CASE handleReadyForTime
      <3>1. SUFFICES ASSUME last'.src = "PPS", GpsdConn, last'.starts <= 1 PROVE last'.trusted
        BY DEF TimeNeedsLock
      <3> DEFINE good == goodSince # EMPTY /\ now - goodSince >= MaxTimeToStable
      <3>2. last'.src = clksource /\ last'.starts = starts /\ last'.trusted = good
        BY <2>2 DEF handleReadyForTime, sendSetSystime
      <3>3. m_cur_gps_status = "SYNC"
        BY <2>2, <3>1, <3>2 DEF handleReadyForTime, UsesSystemTime
      <3>4. goodSince \in Nat /\ now - goodSince >= MaxTimeToStable
        BY <1>2, <3>1, <3>2, <3>3 DEF GpsInv, Trusted
      <3>5. good = TRUE
        BY <3>4 DEF EMPTY
      <3> HIDE DEF good
      <3>6. QED BY <3>2, <3>5
    <2>3. CASE leapCheckingTimer_p \/ smThreadFun_p \/ Tick \/ stop \/ handleAPBoot
      BY <2>1, <2>3 DEF leapCheckingTimer_p, smThreadFun_p, Tick, stop, handleAPBoot
    <2>9. CASE \E t \in Callers : stop_end(t)
      BY <2>1, <2>9 DEF stop_end
    <2>4. CASE \E i \in Readers : readGPSThreadFun(i)
      BY <2>1, <2>4 DEF readGPSThreadFun
    <2>5. CASE \E c \in Reports : handleParamClkSrc(c)
      BY <2>1, <2>5 DEF handleParamClkSrc
    <2>6. CASE \E b \in IntSync : connected(b)
      BY <2>1, <2>6 DEF connected
    <2>7. CASE UNCHANGED timeVars
      BY <1>2, <2>7 DEF TimeNeedsLock, timeVars
    <2>8. QED BY <1>2, <2>2, <2>3, <2>4, <2>5, <2>6, <2>7, <2>9 DEF TimeNext
  <1>3. TimeSpec => []GpsInv
    BY GpsInit, GpsStep, PTL DEF TimeSpec
  <1>4. QED BY <1>1, <1>2, <1>3, PTL DEF TimeSpec
=============================================================================
