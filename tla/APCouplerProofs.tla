-------------------------- MODULE APCouplerProofs ---------------------------
(***************************************************************************)
(* The state machine of the bridge is never stranded in its running state  *)
(* (SettledIsJoined), for every number of faults, every kind of failure    *)
(* and every setting.                                                      *)
(*                                                                         *)
(* The argument follows what keeps the running state from being the last   *)
(* one.  Either an event it waits for is noted or about to be (Wake), or   *)
(* the join is enabled and under way: the AP is joined, the command is in  *)
(* the queue, or a boot is still to come, whose report wakes the state     *)
(* machine.  The join itself needs an AP that is connected (Found), which  *)
(* the state machine cannot see: it holds because it leaves the search for *)
(* an AP only for a boot, and a lost AP is reset after its report.         *)
(***************************************************************************)
EXTENDS APCoupler, TLAPS

\* The notification thread is about to note an event of the running state,
Noting(n) == n.at = "event" /\ n.e \in RunMask
\* which is never a boot.
NoBootOf(n) == n.at = "event" => n.e \notin {"BOOT", "REBOOT"}

\* The transport's thread is about to note an event, all of which the running state waits for.
AtEvent(i) == i.at = "event"
\* The event it reports, from its call of the coupler until the transport goes on.
Reports(i, e) == i.at \in {"event", "after", "lost"} /\ i.e = e
\* It reports a loss after which the transport resets the AP.
Resets(i) == Reports(i, "LOST") /\ i.pulse = TRUE
\* It has a boot to join for.
Joins(i) == i.at = "join_send"
IoShape(i) == \/ i = Idle
              \/ \E at \in {"join_send", "join_run"} : i = [at |-> at]
              \/ \E at \in {"event", "after"}, e \in {"BOOT", "REBOOT"} : i = [at |-> at, e |-> e]
              \/ \E at \in {"event", "after", "lost"} : \E p : i = [at |-> at, e |-> "LOST", pulse |-> p]

\* The AP boots, has to, or is about to be found not to work.
Unsettled(a) == \/ a.boot = TRUE \/ a.pulse = TRUE
                \/ a.st \in {"off", "hung", "dead"}
ApShape(a) == \E s, k, b, p, v : a = [st |-> s, stored |-> k, boot |-> b, pulse |-> p, ver |-> v]

IsSeq(s) == \E S : s \in Seq(S)
HasJoin(q) == \E i \in 1..Len(q) : q[i].id = "JOIN"

Wake   == m_events \cap RunMask # {} \/ Noting(nt) \/ AtEvent(io)
Coming == Unsettled(ap) \/ Resets(io)

Shapes == NoBootOf(nt) /\ IoShape(io) /\ ApShape(ap) /\ IsSeq(queue)

\* While nothing wakes it the running state, and startJoin_p before it, have the join enabled, ...
JoinEnabled == sm \in {"join_send", "join_run", "run_wait"} /\ ~Wake => m_isMngrConnected

\* ... and the AP has joined, joins, boots, or its loss was forgotten.
JoinUnderWay ==
    sm \in {"join_run", "run_wait"} /\ ~Wake =>
       \/ ap.st = "joined" \/ HasJoin(queue) \/ Coming \/ Reports(io, "BOOT") \/ Joins(io)
       \/ ~m_isApConnected /\ (BootsForever \/ late)

\* The state machine looks for an AP, and no boot is known to it.
Looking == /\ sm \in {"begin", "prepare", "boot_wait", "stop_prepare", "stop_wait", "ended"}
           /\ {"BOOT", "REBOOT"} \cap (m_events \cup events) = {}

\* Beyond that an AP is connected, or will be when its boot is reported.
Found == m_isApConnected \/ Coming \/ Reports(io, "BOOT") \/ BootsForever \/ late \/ Looking

\* Only a connected AP is told to join, so that only its boots are reboots (unless it is lost while
\* the state machine tells it to); a loss without a reset is the one of an AP that boots without end.
Causes == /\ m_isRunning => m_isApConnected \/ late \/ io.at = "lost"
          /\ io.at \in {"join_send", "join_run"} => m_isApConnected
          /\ io.at = "lost" => ~m_isApConnected
          /\ Reports(io, "REBOOT") => m_isApConnected \/ late
          /\ Reports(io, "LOST") => Resets(io) \/ BootsForever

CInv == Shapes /\ JoinEnabled /\ JoinUnderWay /\ Found /\ Causes
-----------------------------------------------------------------------------
(* What the changes of the AP, of the queue and of a thread's place do *)

LEMMA ApInit ==
    ASSUME NEW k, NEW v
    PROVE  ApShape([st |-> "up", stored |-> k, boot |-> FALSE, pulse |-> FALSE, ver |-> v])
  BY DEF ApShape

LEMMA ApBootTaken ==
    ASSUME NEW a, ApShape(a), NEW y, y = [a EXCEPT !.boot = FALSE]
    PROVE  ApShape(y) /\ y.st = a.st
  BY DEF ApShape

LEMMA ApPulsed ==
    ASSUME NEW a, ApShape(a), NEW y, y = [a EXCEPT !.pulse = TRUE]
    PROVE  ApShape(y) /\ y.st = a.st /\ Unsettled(y)
  BY DEF ApShape, Unsettled

LEMMA ApKept ==
    ASSUME NEW a, ApShape(a), NEW k, NEW y, y = [a EXCEPT !.stored = k, !.pulse = TRUE]
    PROVE  ApShape(y) /\ y.st = a.st /\ Unsettled(y)
  BY DEF ApShape, Unsettled

LEMMA ApState ==
    ASSUME NEW a, ApShape(a), NEW s, NEW y, y = [a EXCEPT !.st = s]
    PROVE  /\ ApShape(y) /\ y.st = s
           /\ Unsettled(a) /\ a.st \notin {"off", "hung", "dead"} => Unsettled(y)
           /\ s = "off" => Unsettled(y)
  BY DEF ApShape, Unsettled

LEMMA ApFailed ==
    ASSUME NEW a, ApShape(a), NEW s \in {"hung", "dead"}, NEW y, y = [a EXCEPT !.st = s, !.boot = FALSE]
    PROVE  ApShape(y) /\ Unsettled(y)
  BY DEF ApShape, Unsettled

LEMMA ApBooted ==
    ASSUME NEW a, ApShape(a), NEW y, y = [a EXCEPT !.st = "up", !.boot = TRUE, !.pulse = FALSE]
    PROVE  ApShape(y) /\ Unsettled(y)
  BY DEF ApShape, Unsettled

LEMMA ApLost ==
    ASSUME NEW a, ApShape(a), NEW p, NEW y, y = [a EXCEPT !.pulse = @ \/ p]
    PROVE  /\ ApShape(y) /\ y.st = a.st
           /\ Unsettled(a) => Unsettled(y)
           /\ p = TRUE => Unsettled(y)
  <1>1. PICK s, k, b, u, v : a = [st |-> s, stored |-> k, boot |-> b, pulse |-> u, ver |-> v]
    BY DEF ApShape
  <1>2. PICK w : w = (u \/ p)
    OBVIOUS
  <1>3. y = [st |-> s, stored |-> k, boot |-> b, pulse |-> w, ver |-> v]
    BY <1>1, <1>2
  <1>4. (u = TRUE \/ p = TRUE) => w = TRUE
    BY <1>2, Zenon
  <1>5. QED BY <1>1, <1>3, <1>4 DEF ApShape, Unsettled

\* The transport's thread goes on from its report.
LEMMA IoNoted ==
    ASSUME NEW i, IoShape(i), AtEvent(i), NEW y, y = [i EXCEPT !.at = "after"]
    PROVE  /\ IoShape(y) /\ ~AtEvent(y) /\ y.at = "after"
           /\ \A e : Reports(y, e) <=> Reports(i, e)
           /\ Resets(y) <=> Resets(i)
           /\ i.e \in {"BOOT", "REBOOT", "LOST"} /\ Reports(i, i.e)
  <1>1. CASE \E at \in {"event", "after"}, e \in {"BOOT", "REBOOT"} : i = [at |-> at, e |-> e]
    BY <1>1 DEF IoShape, AtEvent, Reports, Resets
  <1>2. CASE \E at \in {"event", "after", "lost"} : \E p : i = [at |-> at, e |-> "LOST", pulse |-> p]
    <2>1. PICK at \in {"event", "after", "lost"} : \E p : i = [at |-> at, e |-> "LOST", pulse |-> p]
      BY <1>2
    <2>5. PICK p : i = [at |-> at, e |-> "LOST", pulse |-> p]
      BY <2>1
    <2>2. i = [at |-> "event", e |-> "LOST", pulse |-> p] /\ y = [at |-> "after", e |-> "LOST", pulse |-> p]
      BY <2>5 DEF AtEvent
    <2>3. IoShape(y)
      BY <2>2 DEF IoShape
    <2>4. QED BY <2>2, <2>3 DEF AtEvent, Reports, Resets
  <1>3. i # Idle /\ ~ \E at \in {"join_send", "join_run"} : i = [at |-> at]
    BY DEF AtEvent, Idle
  <1>4. QED BY <1>1, <1>2, <1>3 DEF IoShape

LEMMA IoLostOn ==
    ASSUME NEW i, IoShape(i), i.at = "after", i.e = "LOST", NEW y, y = [i EXCEPT !.at = "lost"]
    PROVE  /\ IoShape(y) /\ ~AtEvent(y) /\ y.at = "lost"
           /\ \A e : Reports(y, e) <=> Reports(i, e)
           /\ Resets(y) <=> Resets(i)
  <1>1. i # Idle /\ ~ \E at \in {"join_send", "join_run"} : i = [at |-> at]
    BY DEF Idle
  <1>2. ~ \E at \in {"event", "after"}, e \in {"BOOT", "REBOOT"} : i = [at |-> at, e |-> e]
    OBVIOUS
  <1>3. PICK at \in {"event", "after", "lost"} : \E p : i = [at |-> at, e |-> "LOST", pulse |-> p]
    BY <1>1, <1>2 DEF IoShape
  <1>4. QED BY <1>3 DEF IoShape, AtEvent, Reports, Resets

LEMMA IoIdle == /\ IoShape(Idle) /\ ~AtEvent(Idle) /\ ~Resets(Idle) /\ ~Joins(Idle)
                /\ Idle.at = "idle" /\ \A e : ~Reports(Idle, e)
  BY DEF IoShape, AtEvent, Resets, Reports, Joins, Idle

LEMMA IoJoins ==
    ASSUME NEW at \in {"join_send", "join_run"}, NEW y, y = [at |-> at]
    PROVE  IoShape(y) /\ ~AtEvent(y) /\ ~Resets(y) /\ y.at = at /\ \A e : ~Reports(y, e)
  BY DEF IoShape, AtEvent, Resets, Reports

LEMMA IoBoot ==
    ASSUME NEW e \in {"BOOT", "REBOOT"}, NEW y, y = [at |-> "event", e |-> e]
    PROVE  IoShape(y) /\ AtEvent(y) /\ ~Resets(y) /\ y.at = "event" /\ \A f : Reports(y, f) <=> f = e
  BY DEF IoShape, AtEvent, Resets, Reports

LEMMA IoLost ==
    ASSUME NEW p, NEW y, y = [at |-> "event", e |-> "LOST", pulse |-> p]
    PROVE  /\ IoShape(y) /\ AtEvent(y) /\ (p = TRUE => Resets(y)) /\ y.at = "event"
           /\ \A f : Reports(y, f) <=> f = "LOST"
  BY DEF IoShape, AtEvent, Resets, Reports

LEMMA NtIdle == NoBootOf(Idle) /\ ~Noting(Idle)
  BY DEF NoBootOf, Noting, Idle

LEMMA NtClock ==
    ASSUME NEW y, y = [at |-> "clock"]
    PROVE  NoBootOf(y) /\ ~Noting(y)
  BY DEF NoBootOf, Noting

LEMMA NtEvent ==
    ASSUME NEW e, e \notin {"BOOT", "REBOOT"}, NEW y, y = [at |-> "event", e |-> e]
    PROVE  NoBootOf(y) /\ (Noting(y) <=> e \in RunMask)
  BY DEF NoBootOf, Noting

\* The queue: a command is added, the first one carried out, DISCONNECT put before it, or it restarts.
LEMMA QueueAdd ==
    ASSUME NEW q, IsSeq(q), NEW c
    PROVE  IsSeq(Append(q, c)) /\ (HasJoin(q) => HasJoin(Append(q, c)))
                               /\ (c.id = "JOIN" => HasJoin(Append(q, c)))
  <1>1. PICK S : q \in Seq(S)
    BY DEF IsSeq
  <1>2. q \in Seq(S \cup {c})
    BY <1>1
  <1>3. PICK T : q \in Seq(T) /\ c \in T
    BY <1>2
  <1>4. /\ Append(q, c) \in Seq(T) /\ Len(Append(q, c)) = Len(q) + 1 /\ Len(q) \in Nat
        /\ \A i \in 1..Len(q) : Append(q, c)[i] = q[i]
        /\ Append(q, c)[Len(q) + 1] = c
    BY <1>3
  <1>5. \A i \in 1..Len(q) : i \in 1..(Len(q) + 1)
    BY <1>4
  <1>6. Len(q) + 1 \in 1..(Len(q) + 1)
    BY <1>4
  <1>7. QED BY <1>4, <1>5, <1>6 DEF IsSeq, HasJoin

LEMMA QueueTail ==
    ASSUME NEW q, IsSeq(q), q # <<>>
    PROVE  IsSeq(Tail(q)) /\ (HasJoin(q) => HasJoin(Tail(q)) \/ Head(q).id = "JOIN")
  <1>1. PICK S : q \in Seq(S)
    BY DEF IsSeq
  <1>2. /\ Tail(q) \in Seq(S) /\ Head(q) = q[1] /\ Len(q) \in Nat /\ Len(Tail(q)) = Len(q) - 1
        /\ \A i \in 1..Len(Tail(q)) : Tail(q)[i] = q[i + 1]
    BY <1>1
  <1>3. ASSUME NEW i \in 1..Len(q), i # 1
        PROVE  i - 1 \in 1..Len(Tail(q)) /\ Tail(q)[i - 1] = q[i]
    BY <1>2, <1>3
  <1>4. QED BY <1>2, <1>3 DEF IsSeq, HasJoin

LEMMA QueueFront ==
    ASSUME NEW q, IsSeq(q), NEW c
    PROVE  IsSeq(<<c>> \o q)
  <1>1. PICK S : q \in Seq(S)
    BY DEF IsSeq
  <1>2. q \in Seq(S \cup {c})
    BY <1>1
  <1>3. PICK T : q \in Seq(T) /\ c \in T
    BY <1>2
  <1>4. <<c>> \o q \in Seq(T)
    BY <1>3
  <1>5. QED BY <1>4 DEF IsSeq

LEMMA QueueNew == IsSeq(<<>>) /\ \A c : IsSeq(<<c>>)
  <1>1. ASSUME NEW c PROVE IsSeq(<<c>>)
    <2>1. <<c>> \in Seq({c})
      OBVIOUS
    <2>2. QED BY <2>1 DEF IsSeq
  <1>2. QED BY <1>1 DEF IsSeq
-----------------------------------------------------------------------------
LEMMA CouplerInv == CouplerSpec => []CInv
  <1>1. CouplerInit => CInv
    <2>1. SUFFICES ASSUME CouplerInit PROVE CInv
      OBVIOUS
    <2>2. IoShape(io) /\ NoBootOf(nt)
      BY <2>1, IoIdle, NtIdle DEF CouplerInit
    <2>3. ApShape(ap)
      BY <2>1, ApInit DEF CouplerInit
    <2>4. IsSeq(queue) /\ io.at = "idle" /\ \A e : ~Reports(io, e)
      BY <2>1, QueueNew, IoIdle DEF CouplerInit
    <2>5. QED BY <2>1, <2>2, <2>3, <2>4 DEF CouplerInit, CInv, Shapes, JoinEnabled, JoinUnderWay, Found, Causes, Looking, Wake, Coming, Joins
  <1>2. CInv /\ [CouplerNext]_cvars => CInv'
    <2>1. SUFFICES ASSUME CInv, [CouplerNext]_cvars PROVE CInv'
      OBVIOUS
    <2> USE <2>1 DEF CInv, Shapes, JoinEnabled, JoinUnderWay, Found, Causes, Looking, Wake, Coming, Joins
    <2>2. CASE smThreadFun_p
      BY <2>2 DEF smThreadFun_p, smVars, joinVars, ctlVars
    <2>3. CASE prepareAP_p
      BY <2>3, ApPulsed, QueueFront DEF prepareAP_p, hwResetAP, Disconnected, smVars, joinVars, ctlVars
    <2>4. CASE bootWait
      BY <2>4 DEF bootWait, waitEvents_p, Throws, smVars, joinVars, ctlVars
    <2>5. CASE bootTimeout
      BY <2>5, ApPulsed DEF bootTimeout, hwResetAP, smVars, joinVars, ctlVars
    <2>6. CASE clientStart
      BY <2>6 DEF clientStart, smVars, joinVars, ctlVars
    <2>7. CASE connectWait
      BY <2>7 DEF connectWait, waitEvents_p, Throws, smVars, joinVars, ctlVars
    <2>8. CASE enableJoin
      BY <2>8 DEF enableJoin, smVars, joinVars, ctlVars
    <2>38. CASE smJoin
      <3>1. CASE sm = "join_send"
        <4>1. queue' = Append(queue, Cmd("JOIN")) /\ Cmd("JOIN").id = "JOIN"
          BY <2>38, <3>1 DEF smJoin, Joining, Cmd
        <4>2. IsSeq(queue') /\ HasJoin(queue')
          BY <4>1, QueueAdd
        <4>3. QED BY <2>38, <3>1, <4>2 DEF smJoin, smVars, joinVars, ctlVars
      <3>2. CASE sm = "join_run"
        BY <2>38, <3>2 DEF smJoin, smVars, joinVars, ctlVars
      <3>3. QED BY <2>38, <3>1, <3>2 DEF smJoin
    <2>9. CASE runWait
      BY <2>9 DEF runWait, waitEvents_p, Throws, RunMask, smVars, joinVars, ctlVars
    <2>10. CASE synchStop_p
      BY <2>10 DEF synchStop_p, smVars, joinVars, ctlVars
    <2>11. CASE discWait
      BY <2>11 DEF discWait, timedOut, Throws, smVars, joinVars, ctlVars
    <2>12. CASE prepareStop
      BY <2>12, QueueFront DEF prepareStop, Disconnected, smVars, joinVars, ctlVars
    <2>13. CASE stopWait
      BY <2>13 DEF stopWait, waitEvents_p, Throws, timedOut, smVars, joinVars, ctlVars
    <2>14. CASE connected
      BY <2>14, NtClock, NtIdle DEF connected, NotifIs, smVars, joinVars, ctlVars
    <2>15. CASE setClockSource_p
      <3>1. ~Noting(nt) /\ nt' = [at |-> "event", e |-> "CONNECT"]
        BY <2>15 DEF setClockSource_p, Noting
      <3>2. NoBootOf(nt') /\ ~Noting(nt')
        BY <3>1, NtEvent DEF RunMask
      <3>3. IsSeq(queue') /\ (HasJoin(queue) => HasJoin(queue'))
        BY <2>15, QueueAdd DEF setClockSource_p
      <3>4. QED BY <2>15, <3>1, <3>2, <3>3 DEF setClockSource_p, smVars, joinVars, ctlVars
    <2>16. CASE setClockSource_timeout
      <3>1. ~Noting(nt) /\ nt' = [at |-> "event", e |-> "CONNECT"]
        BY <2>16 DEF setClockSource_timeout, Noting
      <3>2. NoBootOf(nt') /\ ~Noting(nt')
        BY <3>1, NtEvent DEF RunMask
      <3>3. ApShape(ap') /\ Unsettled(ap')
        BY <2>16, ApPulsed DEF setClockSource_timeout, hwResetAP
      <3>4. QED BY <2>16, <3>1, <3>2, <3>3 DEF setClockSource_timeout, hwResetAP, smVars, joinVars, ctlVars
    <2>17. CASE report
      <3>1. PICK e : e = EventOf[Head(notifs)]
        OBVIOUS
      <3>2. e \in RunMask /\ e \notin {"BOOT", "REBOOT"} /\ nt' = [at |-> "event", e |-> e]
        BY <2>17, <3>1 DEF report, EventOf, RunMask
      <3>3. NoBootOf(nt') /\ Noting(nt')
        BY <3>2, NtEvent
      <3>4. QED BY <2>17, <3>3 DEF report, smVars, joinVars, ctlVars
    <2>18. CASE report_event
      BY <2>18, NtIdle DEF report_event, Noted, Noting, NoBootOf, smVars, joinVars, ctlVars
    <2>19. CASE handleAPBoot
      <3>1. io.at = "idle" /\ ~Resets(io) /\ ~AtEvent(io)
        BY <2>19, IoIdle DEF handleAPBoot
      <3>2. PICK e \in {"BOOT", "REBOOT"} : /\ e = (IF m_isRunning THEN "REBOOT" ELSE "BOOT")
                                            /\ io' = [at |-> "event", e |-> e]
        BY <2>19 DEF handleAPBoot
      <3>3. IoShape(io') /\ AtEvent(io') /\ ~Resets(io') /\ io'.at = "event" /\ \A f : Reports(io', f) <=> f = e
        BY <3>2, IoBoot
      <3>4. ApShape(ap') /\ IsSeq(queue')
        BY <2>19, ApBootTaken, QueueNew DEF handleAPBoot, BootQueries
      <3>5. QED BY <2>19, <3>1, <3>2, <3>3, <3>4 DEF handleAPBoot, smVars, joinVars, ctlVars
    <2>20. CASE handleAPLost
      <3>1. io.at = "idle" /\ ~Resets(io) /\ ~AtEvent(io)
        BY <2>20, IoIdle DEF handleAPLost
      <3>2. PICK p : /\ io' = [at |-> "event", e |-> "LOST", pulse |-> p]
                     /\ (p = TRUE /\ ap' = ap) \/ (BootsForever /\ ap' = [ap EXCEPT !.boot = FALSE])
        BY <2>20 DEF handleAPLost
      <3>3. /\ IoShape(io') /\ AtEvent(io') /\ (p = TRUE => Resets(io')) /\ io'.at = "event"
            /\ \A f : Reports(io', f) <=> f = "LOST"
        BY <3>2, IoLost
      <3>4. ApShape(ap')
        BY <3>2, ApBootTaken
      <3>5. QED BY <2>20, <3>1, <3>2, <3>3, <3>4 DEF handleAPLost, smVars, joinVars, ctlVars
    <2>21. CASE ioEvent
      <3>1. AtEvent(io) /\ IoShape(io) /\ io' = [io EXCEPT !.at = "after"]
        BY <2>21 DEF ioEvent, AtEvent
      <3>2. /\ IoShape(io') /\ (Resets(io') <=> Resets(io)) /\ \A e : Reports(io', e) <=> Reports(io, e)
            /\ io.e \in {"BOOT", "REBOOT", "LOST"} /\ Reports(io, io.e)
        BY <3>1, IoNoted
      <3>3. m_events' \cap RunMask # {}
        BY <2>21, <3>2 DEF ioEvent, Noted, RunMask
      <3>4. QED BY <2>21, <3>2, <3>3 DEF ioEvent, Noted, smVars, joinVars, ctlVars
    <2>22. CASE afterBoot
      <3>1. ~AtEvent(io) /\ ~Resets(io)
        BY <2>22 DEF afterBoot, AtEvent, Resets, Reports
      <3>2. /\ IoShape(io') /\ ~AtEvent(io') /\ ~Resets(io') /\ io'.at # "lost"
            /\ (m_isMngrConnected => io'.at = "join_send") /\ \A e : ~Reports(io', e)
        BY <2>22, IoIdle, IoJoins DEF afterBoot
      <3>3. io.at = "after"
        BY <2>22 DEF afterBoot
      <3>4. QED BY <2>22, <3>1, <3>2, <3>3 DEF afterBoot, smVars, joinVars, ctlVars
    <2>39. CASE ioJoin
      <3>1. ~AtEvent(io) /\ ~Resets(io) /\ (\A e : ~Reports(io, e)) /\ m_isApConnected
        BY <2>39 DEF ioJoin, AtEvent, Resets, Reports
      <3>2. /\ IoShape(io') /\ ~AtEvent(io') /\ ~Resets(io') /\ io'.at # "lost"
            /\ \A e : ~Reports(io', e)
        BY <2>39, IoIdle, IoJoins DEF ioJoin
      <3>3. /\ IsSeq(queue') /\ (HasJoin(queue) => HasJoin(queue'))
            /\ (io.at = "join_send" => HasJoin(queue'))
        BY <2>39, QueueAdd DEF ioJoin, Joining, Cmd
      <3>4. QED BY <2>39, <3>1, <3>2, <3>3 DEF ioJoin, smVars, joinVars, ctlVars
    <2>23. CASE afterReboot
      <3>1. ~AtEvent(io) /\ ~Resets(io) /\ ~Reports(io, "BOOT") /\ Reports(io, "REBOOT")
        BY <2>23 DEF afterReboot, AtEvent, Resets, Reports
      <3>2. /\ IoShape(io') /\ ~AtEvent(io') /\ ~Resets(io') /\ io'.at = "idle"
            /\ \A e : ~Reports(io', e)
        BY <2>23, IoIdle DEF afterReboot
      <3>3. io.at = "after"
        BY <2>23 DEF afterReboot
      <3>4. QED BY <2>23, <3>1, <3>2, <3>3 DEF afterReboot, smVars, joinVars, ctlVars
    <2>24. CASE afterLost
      <3>1. ~AtEvent(io) /\ ~Reports(io, "BOOT") /\ Reports(io, "LOST") /\ io.at = "after"
        BY <2>24 DEF afterLost, AtEvent, Reports
      <3>2. /\ IoShape(io') /\ ~AtEvent(io') /\ io'.at = "lost" /\ (Resets(io') <=> Resets(io))
            /\ \A e : Reports(io', e) <=> Reports(io, e)
        BY <2>24, IoLostOn DEF afterLost
      <3>3. ~Reports(io, "REBOOT")
        BY <2>24 DEF afterLost, Reports
      <3>4. QED BY <2>24, <3>1, <3>2, <3>3 DEF afterLost, smVars, joinVars, ctlVars
    <2>40. CASE afterLost_end
      <3>1. ~AtEvent(io) /\ io.at = "lost"
        BY <2>40 DEF afterLost_end, AtEvent
      <3>2. Reports(io, "LOST") /\ ~Reports(io, "BOOT")
        BY <3>1 DEF IoShape, Reports, Idle
      <3>3. /\ IoShape(io') /\ ~AtEvent(io') /\ ~Resets(io') /\ io'.at = "idle"
            /\ \A e : ~Reports(io', e)
        BY <2>40, IoIdle DEF afterLost_end
      <3>4. ApShape(ap') /\ ap'.st = ap.st /\ (Unsettled(ap) \/ io.pulse = TRUE => Unsettled(ap'))
        BY <2>40, ApLost DEF afterLost_end
      <3>5. Coming' \/ BootsForever
        BY <3>2, <3>4 DEF Resets
      <3>6. QED BY <2>40, <3>1, <3>2, <3>3, <3>4, <3>5 DEF afterLost_end, smVars, joinVars, ctlVars
    <2>25. CASE handleParams
      BY <2>25, QueueTail DEF handleParams, Carries, smVars, joinVars, ctlVars
    <2>26. CASE handleSetClkSrcResponse_p
      BY <2>26, QueueTail, ApKept DEF handleSetClkSrcResponse_p, Carries, smVars, joinVars, ctlVars
    <2>27. CASE apJoins
      <3>1. io.at = "idle" /\ ap.st \in {"up", "joined"} /\ io' = io
        BY <2>27, IoIdle DEF apJoins, Carries
      <3>2. IsSeq(queue')
        BY <2>27, QueueTail DEF apJoins, Carries
      <3>3. ApShape(ap') /\ ap'.st = "joined" /\ (Unsettled(ap) => Unsettled(ap'))
        BY <2>27, <3>1, ApState DEF apJoins
      <3>4. QED BY <2>27, <3>1, <3>2, <3>3 DEF apJoins, smVars, joinVars, ctlVars
    <2>28. CASE apDisconnects
      BY <2>28, QueueTail, ApState, ApPulsed DEF apDisconnects, Carries, smVars, joinVars, ctlVars
    <2>29. CASE stop
      BY <2>29 DEF stop, Noted, RunMask, smVars, joinVars, ctlVars
    <2>30. CASE stop_end
      BY <2>30 DEF stop_end, smVars, joinVars, ctlVars
    <2>31. CASE APFails
      BY <2>31, ApFailed, CouplerAssumption DEF APFails, smVars, joinVars, ctlVars
    <2>32. CASE APBoots
      BY <2>32, ApBooted DEF APBoots, smVars, joinVars, ctlVars
    <2>33. CASE ManagerAccepts
      BY <2>33 DEF ManagerAccepts, smVars, joinVars, ctlVars
    <2>34. CASE ManagerDrops
      BY <2>34 DEF ManagerDrops, smVars, joinVars, ctlVars
    <2>35. CASE ManagerAsks
      BY <2>35 DEF ManagerAsks, smVars, joinVars, ctlVars
    <2>41. CASE ManagerHost
      BY <2>41 DEF ManagerHost, smVars, joinVars, ctlVars
    <2>36. CASE UNCHANGED cvars
      BY <2>36 DEF cvars, smVars, joinVars, ctlVars
    <2>37. QED
      BY <2>1, <2>2, <2>3, <2>4, <2>5, <2>6, <2>7, <2>8, <2>9, <2>10, <2>11, <2>12, <2>13, <2>14, <2>15, <2>16, <2>17, <2>18, <2>19, <2>20, <2>21, <2>22, <2>23, <2>24, <2>25, <2>26, <2>27, <2>28, <2>29, <2>30, <2>31, <2>32, <2>33, <2>34, <2>35, <2>36, <2>38, <2>39, <2>40, <2>41 DEF CouplerNext, smNext, ntNext, ioNext
  <1>3. QED BY <1>1, <1>2, PTL DEF CouplerSpec

\* At rest, in its running state, the bridge has an AP that has joined.
THEOREM SettledJoined == CouplerSpec => []SettledIsJoined
  <1>1. CInv => SettledIsJoined
    <2>1. SUFFICES ASSUME CInv, Settled, sm = "run_wait" PROVE ap.st = "joined" \/ (~m_isApConnected /\ (BootsForever \/ late))
      BY DEF SettledIsJoined
    <2>2. ~Wake
      BY <2>1, IoIdle, NtIdle DEF Wake, Settled
    <2>3. ~Coming /\ ~Reports(io, "BOOT") /\ ~HasJoin(queue) /\ ~Joins(io)
      BY <2>1, IoIdle DEF Coming, Settled, Unsettled, HasJoin
    <2>4. QED BY <2>1, <2>2, <2>3 DEF CInv, JoinUnderWay
  <1>2. QED BY <1>1, CouplerInv, PTL
=============================================================================
