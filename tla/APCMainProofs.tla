---------------------------- MODULE APCMainProofs ----------------------------
(***************************************************************************)
(* The clock source that was accepted outlives the process, and the log is *)
(* published in the order it was written.  Both are proved for every       *)
(* number of processes, crashes, signals, requests and messages.           *)
(***************************************************************************)
EXTENDS APCMain, SequenceTheorems, TLAPS

\* The source the file stands for.
Eff(c) == IF c \in {NONE, TORN} THEN "MNGRSET" ELSE clkSrcStringToEnum(c)

\* The request the worker is at.
Sources == {"GPS", "AUTO"}
SetType == set = NoSet \/ \E n \in Sources, a \in {"write", "apply"} : set = [name |-> n, at |-> a]

\* Before the RPC server is made, and when there is no process.
Early == {"off", "parse", "port", "server"}

\* Where the worker of the RPC server can be: it runs while it is at a request, and not before the server is made.
WorkerAt ==
    /\ DOMAIN th = Threads
    /\ set # NoSet => th["rpc"] = "run"
    /\ mpc \in Early => th["rpc"] # "run"

\* The file: it is cut off only in the middle of a write, is the source asked for when that is to be applied, and stands
\* for an accepted one before.
FileInv ==
    /\ conf = TORN => torn \/ set.at = "write"
    /\ ~torn /\ set.at = "apply" => conf = set.name
    /\ ~torn /\ set.at # "apply" /\ conf # TORN => \E n \in accepted : Eff(conf) = clkSrcStringToEnum(n)

\* The coupler: between two requests it uses what the file stands for, and at any time an accepted source.
CouplerInv ==
    Cli = NONE /\ ~torn =>
       /\ (mpc = "server" \/ th["rpc"] = "run") /\ set = NoSet => m_apClkSource = Eff(conf)
       /\ m_transport => \E n \in accepted : m_apClkSource = clkSrcStringToEnum(n)

ClockInv == SetType /\ WorkerAt /\ FileInv /\ CouplerInv

\* The log: the thread that is past its loop was told to stop, so that append drops what comes.
LogType == /\ DOMAIN th = Threads
           /\ m_logMsgQueue \in Seq(Nat) /\ appended \in Seq(Nat) /\ published \in Seq(Nat)
NoLog   == th["log"] = "none" /\ m_logMsgQueue = <<>> /\ appended = <<>> /\ published = <<>> /\ ~m_queueRunning
LogInv  ==
    /\ LogType
    /\ mpc = "parse" => NoLog
    /\ mpc # "off" => /\ th["log"] \in {"clean", "end"} => ~m_queueRunning
                      /\ LogAccounted
-----------------------------------------------------------------------------
(* The clock source *)

\* A step that leaves the file, the request, the coupler and the worker, and does not go back to the start.
LEMMA ClockKept ==
    ASSUME ClockInv, UNCHANGED <<setVars, partVars>>, DOMAIN th' = Threads, th'["rpc"] = th["rpc"],
           mpc' \in Early => mpc \in Early,
           mpc' = "server" => mpc = "server"
    PROVE  ClockInv'
  <1>1. UNCHANGED <<conf, torn, set, accepted, m_apClkSource, m_transport>>
    BY DEF setVars, partVars
  <1>2. SetType' /\ WorkerAt' /\ FileInv'
    BY <1>1 DEF ClockInv, SetType, WorkerAt, Early, FileInv, Eff
  <1>3. CouplerInv'
    BY <1>1 DEF ClockInv, CouplerInv, Eff
  <1>4. QED BY <1>2, <1>3 DEF ClockInv

\* What the worker's request looks like.
LEMMA SetAt ==
    ASSUME SetType
    PROVE  /\ set = NoSet <=> set.at = "idle"
           /\ set = NoSet \/ (set.name \in Sources /\ set.at \in {"write", "apply"})
  BY DEF SetType, NoSet

\* The process dies: a write it was at leaves its mark, and what was asked for may be in the file.
LEMMA ClockDies ==
    ASSUME ClockInv, Die
    PROVE  ClockInv'
  <1>1. /\ mpc' = "off" /\ th' = [t \in Threads |-> "none"] /\ set' = NoSet /\ conf' = conf
        /\ torn' = (torn \/ conf = TORN)
        /\ accepted' = IF set = NoSet THEN accepted ELSE accepted \cup {set.name}
        /\ UNCHANGED <<m_apClkSource, m_transport>>
    BY DEF Die, partVars
  <1>2. DOMAIN th' = Threads /\ th'["rpc"] = "none"
    BY <1>1 DEF Threads
  <1>3. SetType' /\ WorkerAt'
    BY <1>1, <1>2 DEF SetType, WorkerAt
  <1>4. accepted \subseteq accepted' /\ (set # NoSet => set.name \in accepted')
    BY <1>1
  <1>5. torn => torn'
    BY <1>1
  <1>6. conf = TORN => torn'
    BY <1>1
  <1>7. set'.at = "idle"
    BY <1>1 DEF NoSet
  <1>8. ASSUME ~torn', conf' # TORN PROVE \E n \in accepted' : Eff(conf') = clkSrcStringToEnum(n)
    <2>1. ~torn /\ conf # TORN
      BY <1>1, <1>5, <1>8
    <2>2. CASE set.at = "apply"
      <3>1. set # NoSet /\ conf = set.name /\ set.name \in Sources
        BY <2>1, <2>2, SetAt DEF ClockInv, FileInv
      <3>2. Eff(conf) = clkSrcStringToEnum(set.name)
        BY <3>1 DEF Eff, Sources, NONE, TORN
      <3>3. QED BY <1>1, <1>4, <3>1, <3>2
    <2>3. CASE set.at # "apply"
      <3>1. \E n \in accepted : Eff(conf) = clkSrcStringToEnum(n)
        BY <2>1, <2>3 DEF ClockInv, FileInv
      <3>2. QED BY <1>1, <1>4, <3>1
    <2>4. QED BY <2>2, <2>3
  <1>9. FileInv'
    BY <1>1, <1>6, <1>7, <1>8 DEF FileInv
  <1>10. CouplerInv'
    <2>1. ASSUME Cli = NONE, ~torn', m_transport PROVE \E n \in accepted' : m_apClkSource = clkSrcStringToEnum(n)
      <3>1. \E n \in accepted : m_apClkSource = clkSrcStringToEnum(n)
        BY <1>5, <2>1 DEF ClockInv, CouplerInv
      <3>2. QED BY <1>4, <3>1
    <2>2. QED BY <1>1, <1>2, <2>1 DEF CouplerInv
  <1>11. QED BY <1>3, <1>9, <1>10 DEF ClockInv

\* The names of the sources that can be set are the two that have a meaning.
LEMMA Meaning ==
    ASSUME NEW n
    PROVE  (clkSrcStringToEnum(n) # NONE => n \in Sources) /\ (n \in Sources => Eff(n) = clkSrcStringToEnum(n))
           /\ Eff(NONE) = clkSrcStringToEnum("AUTO")
  BY DEF clkSrcStringToEnum, Eff, Sources, NONE, TORN

\* A source is asked for.
LEMMA ClockAsked ==
    ASSUME ClockInv, NEW name, handleSetAPClkSrc(name)
    PROVE  ClockInv'
  <1>1. th["rpc"] = "run" /\ set = NoSet
    BY DEF handleSetAPClkSrc
  <1> DEFINE old == IF conf = TORN THEN "AUTO" ELSE conf
  <1>2. CASE conf = NONE /\ Die
    BY <1>2, ClockDies
  <1>3. CASE /\ conf # NONE /\ (clkSrcStringToEnum(name) = NONE \/ old = name)
             /\ accepted' = IF clkSrcStringToEnum(name) = NONE THEN accepted ELSE {name}
             /\ UNCHANGED <<mpc, starts, conf, torn, set, th, partVars, logVars, handlerSet, m_mutex, m_isStop, scpc, sig>>
    <2>1. UNCHANGED <<mpc, conf, torn, set, th, m_apClkSource, m_transport>>
      BY <1>3 DEF partVars
    <2>2. CASE clkSrcStringToEnum(name) = NONE
      <3>1. accepted' = accepted
        BY <1>3, <2>2
      <3>2. SetType' /\ WorkerAt' /\ FileInv'
        BY <2>1, <3>1 DEF ClockInv, SetType, WorkerAt, Early, FileInv, Eff
      <3>3. CouplerInv'
        BY <2>1, <3>1 DEF ClockInv, CouplerInv, Eff
      <3>4. QED BY <3>2, <3>3 DEF ClockInv
    <2>3. CASE clkSrcStringToEnum(name) # NONE
      <3>1. accepted' = {name} /\ old = name
        BY <1>3, <2>3
      <3>2. ~torn => conf # TORN
        BY <1>1, SetAt DEF ClockInv, FileInv
      <3>3. ~torn => Eff(conf) = clkSrcStringToEnum(name)
        BY <2>3, <3>1, <3>2, Meaning
      <3>4. Cli = NONE /\ ~torn => m_apClkSource = Eff(conf)
        BY <1>1 DEF ClockInv, CouplerInv
      <3>5. SetType' /\ WorkerAt'
        BY <2>1 DEF ClockInv, SetType, WorkerAt, Early
      <3>6. FileInv'
        BY <1>1, <2>1, <3>1, <3>2, <3>3, SetAt DEF ClockInv, FileInv
      <3>7. CouplerInv'
        BY <1>1, <2>1, <3>1, <3>3, <3>4 DEF CouplerInv
      <3>8. QED BY <3>5, <3>6, <3>7 DEF ClockInv
    <2>4. QED BY <2>2, <2>3
  <1>4. CASE /\ conf # NONE /\ clkSrcStringToEnum(name) # NONE /\ old # name
             /\ set' = [name |-> name, at |-> "write"]
             /\ UNCHANGED <<mpc, starts, conf, torn, accepted, th, partVars, logVars, handlerSet, m_mutex, m_isStop, scpc, sig>>
    <2>1. UNCHANGED <<mpc, conf, torn, accepted, th, m_apClkSource, m_transport>>
      BY <1>4 DEF partVars
    <2>2. name \in Sources
      BY <1>4, Meaning
    <2>3. set'.at = "write" /\ set' # NoSet
      BY <1>4 DEF NoSet
    <2>4. SetType' /\ WorkerAt'
      BY <1>1, <1>4, <2>1, <2>2 DEF ClockInv, SetType, WorkerAt, Early
    <2>5. FileInv'
      <3>1. set.at # "apply"
        BY <1>1 DEF NoSet
      <3>2. QED BY <2>1, <2>3, <3>1 DEF ClockInv, FileInv
    <2>6. CouplerInv'
      BY <2>1, <2>3 DEF ClockInv, CouplerInv
    <2>7. QED BY <2>4, <2>5, <2>6 DEF ClockInv
  <1>5. QED BY <1>2, <1>3, <1>4 DEF handleSetAPClkSrc

\* The file is written, in two steps.
LEMMA ClockWritten ==
    ASSUME ClockInv, write_ini
    PROVE  ClockInv'
  <1>1. set.at = "write" /\ UNCHANGED <<mpc, torn, accepted, th, m_apClkSource, m_transport>>
    BY DEF write_ini, partVars
  <1>2. PICK n \in Sources : set = [name |-> n, at |-> "write"]
    BY <1>1 DEF ClockInv, SetType, NoSet
  <1>3. set # NoSet
    BY <1>1 DEF NoSet
  <1>4. CASE conf # TORN
    <2>1. conf' = TORN /\ set' = set
      BY <1>4 DEF write_ini
    <2>2. SetType' /\ WorkerAt'
      BY <1>1, <2>1 DEF ClockInv, SetType, WorkerAt, Early
    <2>3. FileInv'
      BY <1>1, <2>1 DEF ClockInv, FileInv
    <2>4. CouplerInv'
      BY <1>1, <1>3, <2>1 DEF ClockInv, CouplerInv
    <2>5. QED BY <2>2, <2>3, <2>4 DEF ClockInv
  <1>5. CASE conf = TORN
    <2>1. conf' = n /\ set' = [name |-> n, at |-> "apply"]
      BY <1>2, <1>5 DEF write_ini
    <2>2. set'.at = "apply" /\ set'.name = n /\ set' # NoSet
      BY <2>1 DEF NoSet
    <2>3. SetType' /\ WorkerAt'
      BY <1>1, <1>3, <2>1 DEF ClockInv, SetType, WorkerAt, Early
    <2>4. n # TORN
      BY DEF Sources, TORN
    <2>5. FileInv'
      BY <2>1, <2>2, <2>4 DEF FileInv
    <2>6. CouplerInv'
      BY <1>1, <2>2 DEF ClockInv, CouplerInv
    <2>7. QED BY <2>3, <2>5, <2>6 DEF ClockInv
  <1>6. QED BY <1>4, <1>5

\* The source is applied and the answer is RPC_OK, or the process dies for want of a transport.
LEMMA ClockSet ==
    ASSUME ClockInv, setClockSrource
    PROVE  ClockInv'
  <1>1. set.at = "apply"
    BY DEF setClockSrource
  <1>2. CASE Die
    BY <1>2, ClockDies
  <1>3. CASE ~Die
    <2>1. /\ m_apClkSource' = clkSrcStringToEnum(set.name) /\ accepted' = {set.name} /\ set' = NoSet
          /\ UNCHANGED <<mpc, conf, torn, m_transport, th>>
      BY <1>3 DEF setClockSrource
    <2>2. set # NoSet /\ set.name \in Sources
      BY <1>1, SetAt DEF ClockInv, NoSet
    <2>3. set'.at = "idle"
      BY <2>1 DEF NoSet
    <2>4. ~torn => conf = set.name
      BY <1>1 DEF ClockInv, FileInv
    <2>5. Eff(set.name) = clkSrcStringToEnum(set.name)
      BY <2>2, Meaning
    <2>6. SetType' /\ WorkerAt'
      BY <2>1 DEF ClockInv, SetType, WorkerAt, Early
    <2>7. conf # TORN \/ torn
      BY <1>1 DEF ClockInv, FileInv
    <2>8. FileInv'
      BY <2>1, <2>3, <2>4, <2>5, <2>7 DEF FileInv
    <2>9. CouplerInv'
      BY <2>1, <2>4, <2>5 DEF CouplerInv
    <2>10. QED BY <2>6, <2>8, <2>9 DEF ClockInv
  <1>4. QED BY <1>2, <1>3

\* The coupler takes its source from the configuration.
LEMMA ClockOpened ==
    ASSUME ClockInv, open
    PROVE  ClockInv'
  <1>1. UNCHANGED <<setVars, conf, torn, set, accepted>>
    BY DEF open, setVars
  <1>2. DOMAIN th = Threads /\ "rpc" \in Threads
    BY DEF ClockInv, WorkerAt, Threads
  <1>3. CASE /\ mpc = "port" /\ mpc' = "server"
             /\ m_transport' = TRUE /\ m_apClkSource' = Configured /\ UNCHANGED th
    <2>1. th["rpc"] # "run" /\ set = NoSet
      BY <1>3 DEF ClockInv, WorkerAt, Early
    <2>2. Cli = NONE => Configured = Eff(conf)
      BY DEF Configured, Eff
    <2>3. set.at = "idle"
      BY <2>1 DEF NoSet
    <2>4. ~torn => \E n \in accepted : Eff(conf) = clkSrcStringToEnum(n)
      BY <2>3 DEF ClockInv, FileInv
    <2>5. SetType' /\ WorkerAt' /\ FileInv'
      BY <1>1, <1>3, <2>1 DEF ClockInv, SetType, WorkerAt, Early, FileInv
    <2>6. CouplerInv'
      BY <1>1, <1>3, <2>2, <2>4 DEF CouplerInv
    <2>7. QED BY <2>5, <2>6 DEF ClockInv
  <1>4. CASE mpc = "server" /\ mpc' = "threads" /\ th' = [th EXCEPT !["rpc"] = "run"] /\ UNCHANGED partVars
    <2>1. UNCHANGED <<m_apClkSource, m_transport>> /\ DOMAIN th' = Threads /\ th'["rpc"] = "run"
      BY <1>2, <1>4 DEF partVars
    <2>2. SetType' /\ WorkerAt' /\ FileInv'
      BY <1>1, <1>4, <2>1 DEF ClockInv, SetType, WorkerAt, Early, FileInv
    <2>3. CouplerInv'
      BY <1>1, <1>4, <2>1 DEF ClockInv, CouplerInv
    <2>4. QED BY <2>2, <2>3 DEF ClockInv
  <1>5. CASE mpc = "server" /\ mpc' = "scope" /\ m_transport' = FALSE /\ UNCHANGED <<th, m_apClkSource>>
    <2>1. SetType' /\ WorkerAt' /\ FileInv'
      BY <1>1, <1>5 DEF ClockInv, SetType, WorkerAt, Early, FileInv
    <2>2. CouplerInv'
      BY <1>1, <1>5 DEF ClockInv, CouplerInv
    <2>3. QED BY <2>1, <2>2 DEF ClockInv
  <1>6. CASE mpc = "threads" /\ mpc' = "enter" /\ th' = [th EXCEPT !["io"] = "run", !["sm"] = "run"] /\ UNCHANGED partVars
    <2>1. DOMAIN th' = Threads /\ th'["rpc"] = th["rpc"]
      BY <1>2, <1>6
    <2>2. QED BY <1>1, <1>6, <2>1, ClockKept DEF Early
  <1>7. QED BY <1>3, <1>4, <1>5, <1>6 DEF open

\* The parts are stopped.
LEMMA ClockStopped ==
    ASSUME ClockInv, stop
    PROVE  ClockInv'
  <1>1. UNCHANGED <<conf, torn, set, accepted, m_apClkSource, th>> /\ mpc' # "server"
    BY DEF stop, setVars
  <1>2. mpc' \in Early => mpc' = "off" /\ th["rpc"] # "run"
    BY DEF stop, Early
  <1>3. m_transport' = m_transport \/ m_transport' = FALSE
    BY DEF stop
  <1>4. SetType' /\ WorkerAt' /\ FileInv'
    BY <1>1, <1>2 DEF ClockInv, SetType, WorkerAt, Early, FileInv
  <1>5. CouplerInv'
    BY <1>1, <1>3 DEF ClockInv, CouplerInv
  <1>6. QED BY <1>4, <1>5 DEF ClockInv

\* The next process starts with the file the last one left.
LEMMA ClockRestarts ==
    ASSUME ClockInv, Restart
    PROVE  ClockInv'
  <1>1. /\ mpc' = "parse" /\ th' = [t \in Threads |-> "none"] /\ set' = NoSet /\ m_transport' = FALSE
        /\ mpc = "off" /\ UNCHANGED <<conf, torn, accepted>>
    BY DEF Restart, Fresh
  <1>2. DOMAIN th' = Threads /\ th'["rpc"] = "none" /\ set'.at = "idle"
    BY <1>1 DEF Threads, NoSet
  <1>3. set = NoSet
    BY <1>1 DEF ClockInv, WorkerAt, Early
  <1>4. QED
    BY <1>1, <1>2, <1>3 DEF ClockInv, SetType, WorkerAt, Early, FileInv, CouplerInv, NoSet

\* Every step keeps the accepted source.
LEMMA ClockStep ==
    ASSUME ClockInv, [MainNext]_mvars
    PROVE  ClockInv'
  <1>1. DOMAIN th = Threads
    BY DEF ClockInv, WorkerAt
  <1>2. CASE Crash
    BY <1>2, ClockDies DEF Crash
  <1>3. CASE Restart
    BY <1>3, ClockRestarts
  <1>4. CASE parse
    <2>1. UNCHANGED <<setVars, partVars>> /\ mpc \in Early /\ mpc' # "server"
      BY <1>4 DEF parse, Early
    <2>2. DOMAIN th' = Threads /\ th'["rpc"] = th["rpc"]
      BY <1>1, <1>4 DEF parse, create, Threads
    <2>3. QED BY <2>1, <2>2, ClockKept
  <1>5. CASE open
    BY <1>5, ClockOpened
  <1>6. CASE waitSignal
    <2>1. UNCHANGED <<setVars, partVars, th>> /\ mpc' \notin Early
      BY <1>6 DEF waitSignal, Early
    <2>2. QED BY <1>1, <2>1, ClockKept DEF Early
  <1>7. CASE stop
    BY <1>7, ClockStopped
  <1>8. CASE \E n \in Asked : handleSetAPClkSrc(n)
    BY <1>8, ClockAsked
  <1>9. CASE write_ini
    BY <1>9, ClockWritten
  <1>10. CASE setClockSrource
    BY <1>10, ClockSet
  <1>11. CASE \E t \in {"io", "sm"} : stopCall(t)
    <2>1. UNCHANGED <<setVars, partVars, th>> /\ (mpc' = mpc \/ mpc' = "wait")
      BY <1>11 DEF stopCall, Notify
    <2>2. QED BY <1>1, <2>1, ClockKept DEF Early
  <1>12. CASE \E t \in All : Signal(t)
    <2>1. PICK t \in All : Signal(t)
      BY <1>12
    <2>2. CASE Die
      BY <2>2, ClockDies
    <2>3. CASE ~Die
      <3>1. UNCHANGED <<setVars, partVars, th, mpc>>
        BY <2>1, <2>3 DEF Signal, setVars
      <3>2. QED BY <1>1, <3>1, ClockKept
    <2>4. QED BY <2>2, <2>3
  <1>13. CASE \E t \in All : handle_signal(t)
    <2>1. UNCHANGED <<setVars, partVars, th>> /\ (mpc' = mpc \/ mpc' = "wait")
      BY <1>13 DEF handle_signal, Notify
    <2>2. QED BY <1>1, <2>1, ClockKept DEF Early
  <1>14. CASE \E t \in DOMAIN StoppedAt : threadEnds(t)
    <2>1. PICK t \in DOMAIN StoppedAt : threadEnds(t)
      BY <1>14
    <2>2. CASE t # "rpc"
      <3>1. UNCHANGED <<setVars, partVars, mpc>> /\ DOMAIN th' = Threads /\ th'["rpc"] = th["rpc"]
        BY <1>1, <2>1, <2>2 DEF threadEnds, MayEnd
      <3>2. QED BY <3>1, ClockKept
    <2>3. CASE t = "rpc"
      <3>1. /\ UNCHANGED <<conf, torn, set, accepted, m_apClkSource, m_transport, mpc>> /\ set = NoSet
            /\ th' = [th EXCEPT !["rpc"] = "end"] /\ mpc = StoppedAt["rpc"]
        BY <2>1, <2>3 DEF threadEnds, MayEnd, setVars, partVars
      <3>2. DOMAIN th' = Threads /\ th'["rpc"] = "end" /\ mpc \notin Early
        BY <1>1, <3>1 DEF Threads, StoppedAt, Early
      <3>3. SetType' /\ WorkerAt' /\ FileInv'
        BY <3>1, <3>2 DEF ClockInv, SetType, WorkerAt, FileInv
      <3>4. CouplerInv'
        BY <3>1, <3>2 DEF ClockInv, CouplerInv, Early
      <3>5. QED BY <3>3, <3>4 DEF ClockInv
    <2>4. QED BY <2>2, <2>3
  <1>15. CASE append
    <2>1. UNCHANGED <<setVars, partVars, mpc, th>>
      BY <1>15 DEF append, LogNext
    <2>2. QED BY <1>1, <2>1, ClockKept
  <1>16. CASE queueThreadFun_p
    <2>1. UNCHANGED <<setVars, partVars, mpc>>
      BY <1>16 DEF queueThreadFun_p, LogNext
    <2>2. th' = th \/ th' = [th EXCEPT !["log"] = "clean"] \/ th' = [th EXCEPT !["log"] = "end"]
      BY <1>16 DEF queueThreadFun_p
    <2>3. DOMAIN th' = Threads /\ th'["rpc"] = th["rpc"]
      <3>1. CASE th' = th
        BY <1>1, <3>1
      <3>2. CASE th' = [th EXCEPT !["log"] = "clean"]
        BY <1>1, <3>2
      <3>3. CASE th' = [th EXCEPT !["log"] = "end"]
        BY <1>1, <3>3
      <3>4. QED BY <2>2, <3>1, <3>2, <3>3
    <2>4. QED BY <2>1, <2>3, ClockKept
  <1>17. CASE UNCHANGED mvars
    <2>1. UNCHANGED <<setVars, partVars, mpc, th>>
      BY <1>17 DEF mvars
    <2>2. QED BY <1>1, <2>1, ClockKept
  <1>18. QED
    BY <1>2, <1>3, <1>4, <1>5, <1>6, <1>7, <1>8, <1>9, <1>10, <1>11, <1>12, <1>13, <1>14, <1>15, <1>16, <1>17
    DEF MainNext

\* A clock source that was answered with RPC_OK is the one the coupler uses, also in the processes to come, for every
\* number of requests, crashes, signals and processes (handleSetAPClkSrc, write_ini before setClockSrource, parse).
THEOREM AcceptedKept == MainSpec => []AcceptedSurvives
  <1>1. MainInit => ClockInv
    <2>1. SUFFICES ASSUME MainInit PROVE ClockInv
      OBVIOUS
    <2>2. /\ conf \in Confs /\ torn = FALSE /\ set = NoSet /\ accepted = {IF conf = NONE THEN "AUTO" ELSE conf}
          /\ mpc = "parse" /\ m_transport = FALSE /\ th = [t \in Threads |-> "none"]
      BY <2>1 DEF MainInit
    <2>3. DOMAIN th = Threads /\ th["rpc"] = "none" /\ set.at = "idle" /\ conf # TORN
      BY <2>2, MainAssumption DEF Threads, NoSet
    <2>4. \E n \in accepted : Eff(conf) = clkSrcStringToEnum(n)
      <3>1. CASE conf = NONE
        BY <2>2, <3>1, Meaning
      <3>2. CASE conf # NONE
        BY <2>2, <2>3, <3>2 DEF Eff
      <3>3. QED BY <3>1, <3>2
    <2>5. SetType /\ WorkerAt
      BY <2>2, <2>3 DEF SetType, WorkerAt
    <2>6. FileInv
      BY <2>3, <2>4 DEF FileInv
    <2>7. CouplerInv
      BY <2>2, <2>3 DEF CouplerInv
    <2>8. QED BY <2>5, <2>6, <2>7 DEF ClockInv
  <1>2. ClockInv /\ [MainNext]_mvars => ClockInv'
    BY ClockStep
  <1>3. ClockInv => AcceptedSurvives
    BY DEF ClockInv, CouplerInv, AcceptedSurvives
  <1>4. QED BY <1>1, <1>2, <1>3, PTL DEF MainSpec
-----------------------------------------------------------------------------
(* The log *)

\* Concatenation of messages: it is associative, and what its elements are.
LEMMA LogAssoc == \A a, b, c \in Seq(Nat) : (a \o b) \o c = a \o (b \o c)
  BY ConcatAssociative
LEMMA LogConcat ==
    ASSUME NEW a \in Seq(Nat), NEW b \in Seq(Nat)
    PROVE  /\ a \o b \in Seq(Nat) /\ Len(a \o b) = Len(a) + Len(b)
           /\ \A i \in 1..Len(a) + Len(b) : (a \o b)[i] = IF i <= Len(a) THEN a[i] ELSE b[i - Len(a)]
  BY ConcatProperties

\* What is appended is behind what waits.
LEMMA LogAppended ==
    ASSUME NEW q \in Seq(Nat), NEW p \in Seq(Nat), NEW m \in Nat
    PROVE  Append(p \o Reverse(q), m) = p \o Reverse(<<m>> \o q)
  <1> DEFINE u == <<m>> \o q
  <1>1. u \in Seq(Nat) /\ Len(u) = Len(q) + 1 /\ u[1] = m /\ \A i \in 1..Len(q) : u[i + 1] = q[i]
    OBVIOUS
  <1> HIDE DEF u
  <1>2. /\ Reverse(q) \in Seq(Nat) /\ Len(Reverse(q)) = Len(q)
        /\ \A i \in 1..Len(q) : Reverse(q)[i] = q[(Len(q) - i) + 1]
    BY DEF Reverse
  <1>3. /\ Reverse(u) \in Seq(Nat) /\ Len(Reverse(u)) = Len(q) + 1
        /\ \A i \in 1..Len(q) + 1 : Reverse(u)[i] = u[(Len(q) + 1 - i) + 1]
    BY <1>1 DEF Reverse
  <1>4. \A i \in 1..Len(q) : Reverse(u)[i] = Reverse(q)[i]
    <2>1. ASSUME NEW i \in 1..Len(q) PROVE Reverse(u)[i] = Reverse(q)[i]
      <3>1. (Len(q) - i) + 1 \in 1..Len(q) /\ (Len(q) + 1 - i) + 1 = ((Len(q) - i) + 1) + 1 /\ i \in 1..Len(q) + 1
        OBVIOUS
      <3>2. QED BY <1>1, <1>2, <1>3, <3>1
    <2>2. QED BY <2>1
  <1>5. Reverse(u)[Len(q) + 1] = m
    <2>1. Len(q) + 1 \in 1..Len(q) + 1 /\ (Len(q) + 1 - (Len(q) + 1)) + 1 = 1
      OBVIOUS
    <2>2. QED BY <1>1, <1>3, <2>1
  <1>6. Reverse(u) = Append(Reverse(q), m)
    <2>1. /\ Append(Reverse(q), m) \in Seq(Nat) /\ Len(Append(Reverse(q), m)) = Len(q) + 1
          /\ \A i \in 1..Len(q) : Append(Reverse(q), m)[i] = Reverse(q)[i]
          /\ Append(Reverse(q), m)[Len(q) + 1] = m
      BY <1>2, AppendProperties
    <2>2. \A i \in 1..Len(q) + 1 : i \in 1..Len(q) \/ i = Len(q) + 1
      OBVIOUS
    <2>3. \A i \in 1..Len(q) + 1 : Reverse(u)[i] = Append(Reverse(q), m)[i]
      BY <1>4, <1>5, <2>1, <2>2
    <2>4. QED BY <1>3, <2>1, <2>3, SeqEqual
  <1>7. Append(p \o Reverse(q), m) = p \o Append(Reverse(q), m)
    <2>1. <<m>> \in Seq(Nat) /\ p \o Reverse(q) \in Seq(Nat)
      BY <1>2
    <2>2. /\ Append(p \o Reverse(q), m) = (p \o Reverse(q)) \o <<m>>
          /\ Append(Reverse(q), m) = Reverse(q) \o <<m>>
      BY <1>2, <2>1, AppendIsConcat
    <2>3. (p \o Reverse(q)) \o <<m>> = p \o (Reverse(q) \o <<m>>)
      BY <1>2, <2>1, LogAssoc
    <2>4. QED BY <2>2, <2>3
  <1>8. QED BY <1>6, <1>7 DEF u

\* What is taken from the back is what was appended first.
LEMMA LogTaken ==
    ASSUME NEW q \in Seq(Nat), NEW p \in Seq(Nat), q # <<>>
    PROVE  /\ p \o Reverse(q) = Append(p, Last(q)) \o Reverse(Front(q))
           /\ Front(q) \in Seq(Nat) /\ Last(q) \in Nat
  <1>1. Len(q) \in Nat \ {0} /\ Last(q) \in Nat /\ Last(q) = q[Len(q)]
    BY DEF Last
  <1>2. PICK u : u = Front(q)
    OBVIOUS
  <1>3. u \in Seq(Nat) /\ Len(u) = Len(q) - 1 /\ \A i \in 1..Len(q) - 1 : u[i] = q[i]
    <2>1. u = SubSeq(q, 1, Len(q) - 1) /\ Len(q) - 1 \in Int /\ 1 \in Int
      BY <1>1, <1>2 DEF Front
    <2>2. \A i \in 1..Len(q) - 1 : q[i] \in Nat
      BY <1>1
    <2>3. /\ u \in Seq(Nat) /\ Len(u) = IF 1 <= Len(q) - 1 THEN (Len(q) - 1) - 1 + 1 ELSE 0
          /\ \A i \in 1..(Len(q) - 1) - 1 + 1 : u[i] = q[1 + i - 1]
      BY <2>1, <2>2, SubSeqProperties
    <2>4. PICK k \in Nat \ {0} : k = Len(q)
      BY <1>1
    <2>5. (IF 1 <= k - 1 THEN (k - 1) - 1 + 1 ELSE 0) = k - 1 /\ (k - 1) - 1 + 1 = k - 1
      OBVIOUS
    <2>6. \A i \in 1..k - 1 : 1 + i - 1 = i
      OBVIOUS
    <2>7. QED BY <2>3, <2>4, <2>5, <2>6
  <1>4. /\ Reverse(q) \in Seq(Nat) /\ Len(Reverse(q)) = Len(q)
        /\ \A i \in 1..Len(q) : Reverse(q)[i] = q[(Len(q) - i) + 1]
    BY DEF Reverse
  <1>5. /\ Reverse(u) \in Seq(Nat) /\ Len(Reverse(u)) = Len(q) - 1
        /\ \A i \in 1..Len(q) - 1 : Reverse(u)[i] = u[(Len(q) - 1 - i) + 1]
    BY <1>1, <1>3 DEF Reverse
  <1>6. Reverse(q)[1] = Last(q)
    BY <1>1, <1>4
  <1>7. ASSUME NEW i \in 1..Len(q) - 1 PROVE Reverse(u)[i] = Reverse(q)[i + 1]
    <2>1. (Len(q) - 1 - i) + 1 = (Len(q) - (i + 1)) + 1 /\ (Len(q) - 1 - i) + 1 \in 1..Len(q) - 1 /\ i + 1 \in 1..Len(q)
      BY <1>1
    <2>2. QED BY <1>3, <1>4, <1>5, <2>1
  <1>8. Reverse(q) = <<Last(q)>> \o Reverse(u)
    <2>1. PICK v : v = <<Last(q)>>
      OBVIOUS
    <2>2. v \in Seq(Nat) /\ Len(v) = 1 /\ v[1] = Last(q)
      BY <1>1, <2>1
    <2>3. /\ v \o Reverse(u) \in Seq(Nat) /\ Len(v \o Reverse(u)) = 1 + (Len(q) - 1)
          /\ \A i \in 1..1 + (Len(q) - 1) : (v \o Reverse(u))[i] = IF i <= 1 THEN v[i] ELSE Reverse(u)[i - 1]
      <3>1. PICK w : w = Reverse(u)
        OBVIOUS
      <3>2. /\ v \o w \in Seq(Nat) /\ Len(v \o w) = Len(v) + Len(w)
            /\ \A i \in 1..Len(v) + Len(w) : (v \o w)[i] = IF i <= Len(v) THEN v[i] ELSE w[i - Len(v)]
        BY <1>5, <2>2, <3>1, LogConcat
      <3>3. Len(v) = 1 /\ Len(w) = Len(q) - 1
        BY <1>5, <2>2, <3>1
      <3>4. QED BY <3>1, <3>2, <3>3
    <2>4. 1 + (Len(q) - 1) = Len(q)
      BY <1>1
    <2>5. ASSUME NEW i \in 1..Len(q) PROVE Reverse(q)[i] = (v \o Reverse(u))[i]
      <3>1. CASE i = 1
        BY <1>6, <2>2, <2>3, <2>4, <3>1
      <3>2. CASE i # 1
        <4>1. i - 1 \in 1..Len(q) - 1 /\ (i - 1) + 1 = i /\ ~(i <= 1)
          BY <1>1, <3>2
        <4>2. Reverse(u)[i - 1] = Reverse(q)[i]
          BY <1>7, <4>1
        <4>3. QED BY <2>3, <2>4, <4>1, <4>2
      <3>3. QED BY <3>1, <3>2
    <2>6. Reverse(q) = v \o Reverse(u)
      BY <1>4, <2>3, <2>4, <2>5, SeqEqual
    <2>7. QED BY <2>1, <2>6
  <1>9. p \o (<<Last(q)>> \o Reverse(u)) = Append(p, Last(q)) \o Reverse(u)
    <2>1. <<Last(q)>> \in Seq(Nat)
      BY <1>1
    <2>2. Append(p, Last(q)) = p \o <<Last(q)>>
      BY <1>1, AppendIsConcat
    <2>3. (p \o <<Last(q)>>) \o Reverse(u) = p \o (<<Last(q)>> \o Reverse(u))
      BY <1>5, <2>1, LogAssoc
    <2>4. QED BY <2>2, <2>3
  <1>10. QED BY <1>1, <1>2, <1>3, <1>8, <1>9

\* What was published is the first part of what was appended.
LEMMA LogPrefix ==
    ASSUME NEW q \in Seq(Nat), NEW p \in Seq(Nat)
    PROVE  IsPrefix(p, p \o Reverse(q))
  <1>1. Reverse(q) \in Seq(Nat)
    BY DEF Reverse
  <1>2. QED BY <1>1 DEF IsPrefix

\* A step that leaves the log, and does not go back to the start.
LEMMA LogKept ==
    ASSUME LogInv, UNCHANGED logVars, DOMAIN th' = Threads, th'["log"] = th["log"],
           mpc' = "parse" => mpc = "parse", mpc' # "off" => mpc # "off"
    PROVE  LogInv'
  <1>1. UNCHANGED <<m_queueRunning, m_logMsgQueue, appended, published>>
    BY DEF logVars
  <1>2. LogType' /\ (mpc' = "parse" => NoLog')
    BY <1>1 DEF LogInv, LogType, NoLog
  <1>3. mpc' # "off" => (th'["log"] \in {"clean", "end"} => ~m_queueRunning') /\ LogAccounted'
    BY <1>1 DEF LogInv, LogAccounted
  <1>4. QED BY <1>2, <1>3 DEF LogInv

\* The process dies.
LEMMA LogDies ==
    ASSUME LogInv, Die
    PROVE  LogInv'
  BY DEF Die, logVars, LogInv, LogType

\* A message is appended, by whatever thread, while the publisher's has not been told to stop.
LEMMA LogAppends ==
    ASSUME LogInv, append
    PROVE  LogInv'
  <1>1. /\ th["log"] # "none" /\ mpc # "off" /\ m_queueRunning
        /\ m_logMsgQueue' = <<Msg>> \o m_logMsgQueue /\ appended' = Append(appended, Msg)
        /\ UNCHANGED <<m_queueRunning, published, th, mpc>>
    BY DEF append, Logs, LogNext
  <1>2. LogType /\ th["log"] # "end" /\ mpc # "parse"
    BY <1>1 DEF LogInv, NoLog
  <1>3. Msg \in Nat
    BY <1>2 DEF LogType, Msg
  <1>4. LogType'
    BY <1>1, <1>2, <1>3 DEF LogType
  <1>5. appended = published \o Reverse(m_logMsgQueue)
    BY <1>1, <1>2 DEF LogInv, LogAccounted
  <1>6. appended' = published' \o Reverse(m_logMsgQueue')
    BY <1>1, <1>2, <1>3, <1>5, LogAppended DEF LogType
  <1>7. LogAccounted'
    BY <1>1, <1>2, <1>6 DEF LogAccounted
  <1>8. QED BY <1>1, <1>2, <1>4, <1>7 DEF LogInv

\* The publisher's thread takes a message, leaves its loop or deletes what is left.
LEMMA LogPublishes ==
    ASSUME LogInv, queueThreadFun_p
    PROVE  LogInv'
  <1>1. mpc' = mpc /\ appended' = appended /\ m_queueRunning' = m_queueRunning
    BY DEF queueThreadFun_p, LogNext, logVars
  <1>2. LogType
    BY DEF LogInv
  <1>3. CASE /\ th["log"] = "run" /\ m_queueRunning /\ m_logMsgQueue # <<>>
             /\ published' = Append(published, Taken) /\ m_logMsgQueue' = Front(m_logMsgQueue) /\ th' = th
    <2>1. /\ published \o Reverse(m_logMsgQueue) = published' \o Reverse(m_logMsgQueue')
          /\ m_logMsgQueue' \in Seq(Nat) /\ Taken \in Nat
      BY <1>2, <1>3, LogTaken DEF LogType, Taken
    <2>2. LogType'
      BY <1>1, <1>2, <1>3, <2>1 DEF LogType
    <2>3. mpc # "parse"
      BY <1>3 DEF LogInv, NoLog
    <2>4. mpc # "off" => LogAccounted'
      BY <1>1, <1>3, <2>1 DEF LogInv, LogAccounted
    <2>5. QED BY <1>1, <1>3, <2>2, <2>3, <2>4 DEF LogInv
  <1>4. CASE th["log"] = "run" /\ ~m_queueRunning /\ th' = [th EXCEPT !["log"] = "clean"] /\ UNCHANGED logVars
    <2>1. /\ UNCHANGED <<m_logMsgQueue, published>> /\ DOMAIN th' = Threads /\ th'["log"] = "clean"
      BY <1>2, <1>4 DEF LogType, logVars, Threads
    <2>2. mpc # "parse"
      BY <1>4 DEF LogInv, NoLog
    <2>3. LogType' /\ (mpc # "off" => LogAccounted')
      BY <1>1, <1>2, <1>4, <2>1 DEF LogInv, LogType, LogAccounted
    <2>4. QED BY <1>1, <1>4, <2>2, <2>3 DEF LogInv
  <1>5. CASE th["log"] = "clean" /\ m_logMsgQueue' = <<>> /\ th' = [th EXCEPT !["log"] = "end"] /\ published' = published
    <2>1. DOMAIN th' = Threads /\ th'["log"] = "end"
      BY <1>2, <1>5 DEF LogType, Threads
    <2>2. mpc # "parse"
      BY <1>5 DEF LogInv, NoLog
    <2>3. mpc # "off" => appended = published \o Reverse(m_logMsgQueue) /\ ~m_queueRunning
      BY <1>5 DEF LogInv, LogAccounted
    <2>4. mpc # "off" => IsPrefix(published, appended)
      BY <1>2, <2>3, LogPrefix DEF LogType
    <2>5. LogType'
      BY <1>1, <1>2, <1>5, <2>1 DEF LogType
    <2>6. mpc # "off" => LogAccounted'
      BY <1>1, <1>5, <2>1, <2>4 DEF LogAccounted
    <2>7. QED BY <1>1, <2>1, <2>2, <2>3, <2>5, <2>6 DEF LogInv
  <1>6. QED BY <1>3, <1>4, <1>5 DEF queueThreadFun_p

\* A log with nothing in it is accounted for.
LEMMA LogEmpty == <<>> = <<>> \o Reverse(<<>>)
  BY DEF Reverse

\* Every step keeps the log accounted for.
LEMMA LogStep ==
    ASSUME LogInv, [MainNext]_mvars
    PROVE  LogInv'
  <1>1. DOMAIN th = Threads /\ "log" \in Threads
    BY DEF LogInv, LogType, Threads
  <1>2. CASE Crash
    BY <1>2, LogDies DEF Crash
  <1>3. CASE Restart
    <2>1. /\ mpc' = "parse" /\ th' = [t \in Threads |-> "none"] /\ m_queueRunning' = FALSE
          /\ m_logMsgQueue' = <<>> /\ appended' = <<>> /\ published' = <<>>
      BY <1>3 DEF Restart, Fresh
    <2>2. th'["log"] = "none" /\ LogType' /\ NoLog'
      BY <1>1, <2>1 DEF LogType, NoLog
    <2>3. LogAccounted'
      BY <2>1, <2>2, LogEmpty DEF LogAccounted
    <2>4. QED BY <2>1, <2>2, <2>3 DEF LogInv
  <1>4. CASE parse
    <2>1. mpc = "parse" /\ UNCHANGED <<m_logMsgQueue, appended, published>>
      BY <1>4 DEF parse
    <2>2. NoLog /\ LogType
      BY <2>1 DEF LogInv
    <2>3. CASE mpc' = "off" /\ UNCHANGED <<th, m_queueRunning>>
      BY <2>1, <2>2, <2>3 DEF LogInv, LogType
    <2>4. CASE mpc' = "port" /\ create
      <3>1. th' = [th EXCEPT !["log"] = "run"]
        BY <2>4 DEF create
      <3>2. DOMAIN th' = Threads /\ th'["log"] = "run"
        BY <1>1, <3>1
      <3>3. LogType' /\ LogAccounted'
        BY <2>1, <2>2, <3>2, LogEmpty DEF LogType, LogAccounted, NoLog
      <3>4. QED BY <2>4, <3>2, <3>3 DEF LogInv
    <2>5. QED BY <1>4, <2>3, <2>4 DEF parse
  <1>5. CASE open
    <2>1. UNCHANGED logVars /\ mpc # "off" /\ mpc' # "parse"
      BY <1>5 DEF open
    <2>2. DOMAIN th' = Threads /\ th'["log"] = th["log"]
      BY <1>1, <1>5 DEF open
    <2>3. QED BY <2>1, <2>2, LogKept
  <1>6. CASE waitSignal
    <2>1. UNCHANGED <<logVars, th>> /\ mpc # "off" /\ mpc' # "parse"
      BY <1>6 DEF waitSignal
    <2>2. QED BY <1>1, <2>1, LogKept
  <1>7. CASE stop
    <2>1. /\ UNCHANGED <<th, m_logMsgQueue, appended, published>> /\ mpc # "off" /\ mpc' # "parse"
          /\ m_queueRunning' = m_queueRunning \/ m_queueRunning' = FALSE
      BY <1>7 DEF stop, shutdown
    <2>2. LogType' /\ LogAccounted'
      BY <2>1 DEF LogInv, LogType, LogAccounted
    <2>3. th'["log"] \in {"clean", "end"} => ~m_queueRunning'
      BY <2>1 DEF LogInv
    <2>4. QED BY <2>1, <2>2, <2>3 DEF LogInv
  <1>8. CASE \E n \in Asked : handleSetAPClkSrc(n)
    <2>1. PICK n \in Asked : handleSetAPClkSrc(n)
      BY <1>8
    <2>2. CASE Die
      BY <2>2, LogDies
    <2>3. CASE ~Die
      <3>1. UNCHANGED <<logVars, th, mpc>>
        BY <2>1, <2>3 DEF handleSetAPClkSrc
      <3>2. QED BY <1>1, <3>1, LogKept
    <2>4. QED BY <2>2, <2>3
  <1>9. CASE write_ini
    <2>1. UNCHANGED <<logVars, th, mpc>>
      BY <1>9 DEF write_ini
    <2>2. QED BY <1>1, <2>1, LogKept
  <1>10. CASE setClockSrource
    <2>1. CASE Die
      BY <2>1, LogDies
    <2>2. CASE ~Die
      <3>1. UNCHANGED <<logVars, th, mpc>>
        BY <1>10, <2>2 DEF setClockSrource
      <3>2. QED BY <1>1, <3>1, LogKept
    <2>3. QED BY <2>1, <2>2
  <1>11. CASE \E t \in {"io", "sm"} : stopCall(t)
    <2>1. UNCHANGED <<logVars, th>> /\ (mpc' = mpc \/ (mpc = "blocked" /\ mpc' = "wait"))
      BY <1>11 DEF stopCall, Notify
    <2>2. QED BY <1>1, <2>1, LogKept
  <1>12. CASE \E t \in All : Signal(t)
    <2>1. PICK t \in All : Signal(t)
      BY <1>12
    <2>2. CASE Die
      BY <2>2, LogDies
    <2>3. CASE ~Die
      <3>1. UNCHANGED <<logVars, th, mpc>>
        BY <2>1, <2>3 DEF Signal
      <3>2. QED BY <1>1, <3>1, LogKept
    <2>4. QED BY <2>2, <2>3
  <1>13. CASE \E t \in All : handle_signal(t)
    <2>1. UNCHANGED <<logVars, th>> /\ (mpc' = mpc \/ (mpc = "blocked" /\ mpc' = "wait"))
      BY <1>13 DEF handle_signal, Notify
    <2>2. QED BY <1>1, <2>1, LogKept
  <1>14. CASE \E t \in DOMAIN StoppedAt : threadEnds(t)
    <2>1. PICK t \in DOMAIN StoppedAt : threadEnds(t)
      BY <1>14
    <2>2. t # "log"
      BY DEF StoppedAt
    <2>3. UNCHANGED <<logVars, mpc>> /\ DOMAIN th' = Threads /\ th'["log"] = th["log"]
      BY <1>1, <2>1, <2>2 DEF threadEnds, MayEnd
    <2>4. QED BY <2>3, LogKept
  <1>15. CASE append
    BY <1>15, LogAppends
  <1>16. CASE queueThreadFun_p
    BY <1>16, LogPublishes
  <1>17. CASE UNCHANGED mvars
    <2>1. UNCHANGED <<logVars, mpc, th>>
      BY <1>17 DEF mvars
    <2>2. QED BY <1>1, <2>1, LogKept
  <1>18. QED
    BY <1>2, <1>3, <1>4, <1>5, <1>6, <1>7, <1>8, <1>9, <1>10, <1>11, <1>12, <1>13, <1>14, <1>15, <1>16, <1>17
    DEF MainNext

\* Every message of the log is published or waits, in the order they were appended, and nothing is left in the queue of a
\* publisher that has ended, for every number of messages and processes (append, queueThreadFun_p, shutdown).
THEOREM LogInOrder == MainSpec => []LogAccounted
  <1>1. MainInit => LogInv
    <2>1. SUFFICES ASSUME MainInit PROVE LogInv
      OBVIOUS
    <2>2. /\ mpc = "parse" /\ th = [t \in Threads |-> "none"] /\ m_queueRunning = FALSE
          /\ m_logMsgQueue = <<>> /\ appended = <<>> /\ published = <<>>
      BY <2>1 DEF MainInit
    <2>3. th["log"] = "none" /\ LogType /\ NoLog
      BY <2>2 DEF LogType, NoLog, Threads
    <2>4. LogAccounted
      BY <2>2, <2>3, LogEmpty DEF LogAccounted
    <2>5. QED BY <2>2, <2>3, <2>4 DEF LogInv
  <1>2. LogInv /\ [MainNext]_mvars => LogInv'
    BY LogStep
  <1>3. LogInv => LogAccounted
    BY DEF LogInv, LogAccounted
  <1>4. QED BY <1>1, <1>2, <1>3, PTL DEF MainSpec
=============================================================================
