----------------------------- MODULE APMoteProofs -----------------------------
(*****************************************************************************)
(* Proofs about the transport and the mote, for every set of threads and     *)
(* commands and for every bound.                                             *)
(*                                                                           *)
(* The first part is their types: frames, commands, the steps of the         *)
(* threads, and the shape of the threads' work, what a handler still has to  *)
(* do after its calls.  In the second the invariant that carries the proofs  *)
(* is the one token: of a notification, the frame on the line, the           *)
(* notification in the io thread's hand and its acknowledgement on the line  *)
(* exclude each other.  From it follow the order of the notifications and    *)
(* the start of the join; the queue's service and the retry timer have       *)
(* invariants of their own.  The third part is the order of the commands.    *)
(*****************************************************************************)
EXTENDS APMote, TLAPS

(* Types *)

\* Every command the bridge can queue, and what frames and steps are made of.
Ops   == AppOps \cup {BootOps[i] : i \in DOMAIN BootOps}
           \cup {GetParam, Op("SETPARAM", FALSE, FALSE), Op("JOIN", FALSE, FALSE)}
           \cup {op \in {SetTime} : "READY_FOR_TIME" \in Kinds}
RcSet == {"OK", "NACK", "ERR"}
NtfKinds == {"BOOT"} \cup Kinds
Cmds  == [op : Ops, n : Nat]
Ntfs  == [t : {"ntf"}, kind : NtfKinds, n : Nat, id : {0, 1}]
Reqs  == [t : {"req"}, op : Ops, n : Nat, id : {0, 1}]
Acks  == [t : {"ack"}, id : {0, 1}, rc : RcSet]
Rsps  == [t : {"rsp"}, cmdId : {op.cmdId : op \in Ops}, id : {0, 1}, rc : RcSet]
Plain == {"running", "boot", "booted", "disable", "gone", "halted", "reset"}
Steps == [do : {"insert"}, op : Ops] \cup [do : Plain]
           \cup [do : {"response"}, rc : RcSet]
           \cup [do : {"responded", "resumed"}, rc : RcSet, op : Ops, below : BOOLEAN]
           \cup [do : {"ack"}, f : Ntfs]
ToAPC == Rsps \cup Ntfs
ToAP  == Reqs \cup Acks

\* A frame written to a line is at its end, or was not written: the line is full.
LEMMA PutType ==
    ASSUME NEW S, NEW line \in Seq(S), NEW f \in S
    PROVE  /\ Put(line, f) \in Seq(S)
           /\ Put(line, f) = line \/ Put(line, f) = Append(line, f)
  BY DEF Put

\* What is known of a sequence after its head is taken, as handleMsg and Done take it.
LEMMA Tails ==
    ASSUME NEW S, NEW s \in Seq(S), s # <<>>
    PROVE  /\ Len(s) \in Nat \ {0} /\ Head(s) = s[1] /\ Head(s) \in S
           /\ Tail(s) \in Seq(S) /\ Len(Tail(s)) = Len(s) - 1
           /\ \A i \in 1..Len(Tail(s)) : i + 1 \in 1..Len(s) /\ Tail(s)[i] = s[i + 1]
  OBVIOUS

\* What is known of a sequence after one more element.
LEMMA Appends ==
    ASSUME NEW S, NEW s \in Seq(S), NEW e \in S
    PROVE  /\ Append(s, e) \in Seq(S) /\ Len(Append(s, e)) = Len(s) + 1 /\ Len(s) \in Nat
           /\ Append(s, e)[Len(s) + 1] = e /\ s \o <<e>> = Append(s, e)
           /\ \A i \in 1..Len(s) : Append(s, e)[i] = s[i]
  OBVIOUS

\* What is known of two sequences one behind the other: the calls of a handler and what it does after them.
LEMMA Concats ==
    ASSUME NEW S, NEW s \in Seq(S), NEW r \in Seq(S)
    PROVE  /\ s \o r \in Seq(S) /\ Len(s \o r) = Len(s) + Len(r) /\ Len(s) \in Nat /\ Len(r) \in Nat
           /\ \A i \in 1..Len(s) : (s \o r)[i] = s[i]
           /\ \A i \in 1..(Len(s) + Len(r)) : i > Len(s) => (s \o r)[i] = r[i - Len(s)]
  OBVIOUS

\* A handler's calls of insertMsg, one step for each command.
LEMMA InsertsType ==
    ASSUME NEW ops \in Seq(Ops)
    PROVE  /\ Inserts(ops) \in Seq(Steps) /\ Len(Inserts(ops)) = Len(ops)
           /\ \A i \in 1..Len(ops) : Inserts(ops)[i].do = "insert"
  <1>1. \A i \in 1..Len(ops) : [do |-> "insert", op |-> ops[i]] \in Steps
    BY DEF Steps
  <1>2. DOMAIN ops = 1..Len(ops) /\ Len(ops) \in Nat
    OBVIOUS
  <1>3. QED BY <1>1, <1>2 DEF Inserts

\* The commands of the handlers are commands the bridge can queue.
LEMMA OpsType == /\ GetParam \in Ops /\ ("READY_FOR_TIME" \in Kinds => SetTime \in Ops) /\ AppOps \subseteq Ops
                 /\ JoinOps \in Seq(Ops) /\ Len(JoinOps) = 3 /\ BootOps \in Seq(Ops)
  <1>1. JoinOps \in Seq(Ops) /\ Len(JoinOps) = 3
    <2> DEFINE b == Op("SETPARAM", FALSE, FALSE)
               c == Op("JOIN", FALSE, FALSE)
    <2>1. GetParam \in Ops /\ b \in Ops /\ c \in Ops
      BY DEF Ops
    <2>2. JoinOps = <<GetParam, b, c>>
      BY DEF JoinOps
    <2> HIDE DEF b, c
    <2>3. QED BY <2>1, <2>2
  <1>2. BootOps \in Seq(Ops)
    <2>1. PICK S : BootOps \in Seq(S)
      BY TransportAssumption
    <2>2. \A i \in DOMAIN BootOps : BootOps[i] \in Ops
      BY Zenon DEF Ops
    <2>3. QED BY <2>1, <2>2
  <1>3. QED BY <1>1, <1>2 DEF Ops

\* One command is a sequence of commands: the ping.
LEMMA OpSeqs == ASSUME NEW op \in Ops PROVE <<op>> \in Seq(Ops) /\ Len(<<op>>) = 1
  OBVIOUS

\* startJoin_p queues three commands and then sets m_isRunning.
LEMMA StartJoinType ==
    /\ startJoin \in Seq(Steps) /\ Len(startJoin) = 4
    /\ \A i \in 1..3 : startJoin[i].do = "insert"
    /\ startJoin[3].op.cmdId = "JOIN" /\ startJoin[4].do = "running"
  <1>0. Inserts(JoinOps)[3].op.cmdId = "JOIN"
    BY DEF Inserts, JoinOps, Op
  <1>1. Inserts(JoinOps) \in Seq(Steps) /\ Len(Inserts(JoinOps)) = 3
        /\ \A i \in 1..3 : Inserts(JoinOps)[i].do = "insert"
    BY OpsType, InsertsType
  <1>2. [do |-> "running"] \in Steps
    BY DEF Steps, Plain
  <1>3. <<[do |-> "running"]>> \in Seq(Steps) /\ Len(<<[do |-> "running"]>>) = 1
        /\ <<[do |-> "running"]>>[1].do = "running"
    BY <1>2
  <1> DEFINE a == Inserts(JoinOps)
             b == <<[do |-> "running"]>>
  <1> HIDE DEF a, b
  <1>4. a \in Seq(Steps) /\ Len(a) = 3 /\ 1 \in 1..Len(b) /\ b \in Seq(Steps) /\ Len(b) = 1 /\ b[1].do = "running"
        /\ a[3].op.cmdId = "JOIN" /\ \A i \in 1..3 : a[i].do = "insert"
    BY <1>0, <1>1, <1>3 DEF a, b
  <1>5. /\ a \o b \in Seq(Steps) /\ Len(a \o b) = 4 /\ \A i \in 1..3 : (a \o b)[i] = a[i]
        /\ (a \o b)[4] = b[1]
    <2>1. a \in Seq(Steps) /\ b \in Seq(Steps)
      BY <1>4
    <2>2. /\ Len(a \o b) = Len(a) + Len(b) /\ a \o b \in Seq(Steps)
          /\ \A i \in 1..Len(a) : (a \o b)[i] = a[i]
          /\ \A i \in 1..(Len(a) + Len(b)) : i > Len(a) => (a \o b)[i] = b[i - Len(a)]
      BY <2>1, Concats
    <2>3. Len(a) = 3 /\ Len(b) = 1
      BY <1>4
    <2>4. QED BY <2>2, <2>3
  <1>6. startJoin = a \o b
    BY DEF startJoin, a, b
  <1>7. QED BY <1>4, <1>5, <1>6

\* The fields of a step of a handler, by the kind of the step.
LEMMA StepFields ==
    ASSUME NEW s \in Steps
    PROVE  /\ s.do = "insert" => s.op \in Ops
           /\ s.do = "response" => s.rc \in RcSet
           /\ s.do \in {"responded", "resumed"} => s.op \in Ops /\ s.rc \in RcSet
           /\ s.do = "ack" => s.f \in Ntfs
  <1>1. CASE s \in [do : {"insert"}, op : Ops]
    BY <1>1
  <1>2. CASE s \in [do : Plain]
    BY <1>2 DEF Plain
  <1>3. CASE s \in [do : {"response"}, rc : RcSet]
    BY <1>3
  <1>4. CASE s \in [do : {"responded", "resumed"}, rc : RcSet, op : Ops, below : BOOLEAN]
    BY <1>4
  <1>5. CASE s \in [do : {"ack"}, f : Ntfs]
    BY <1>5
  <1>6. QED BY <1>1, <1>2, <1>3, <1>4, <1>5 DEF Steps

\* The steps the handlers make are steps.
LEMMA MakeSteps ==
    /\ \A rc \in RcSet : [do |-> "response", rc |-> rc] \in Steps
    /\ \A rc \in RcSet, op \in Ops, b \in BOOLEAN :
          [do |-> "responded", rc |-> rc, op |-> op, below |-> b] \in Steps
    /\ \A s \in Steps : s.do = "responded" => [s EXCEPT !.do = "resumed"] \in Steps
    /\ \A f \in Ntfs : [do |-> "ack", f |-> f] \in Steps
    /\ \A a \in Plain : [do |-> a] \in Steps
  <1>1. \A rc \in RcSet : [do |-> "response", rc |-> rc] \in Steps
    BY DEF Steps
  <1>2. \A rc \in RcSet, op \in Ops, b \in BOOLEAN : [do |-> "responded", rc |-> rc, op |-> op, below |-> b] \in Steps
    BY DEF Steps
  <1>3. \A s \in Steps : s.do = "responded" => [s EXCEPT !.do = "resumed"] \in Steps
    BY DEF Steps, Plain
  <1>4. \A f \in Ntfs : [do |-> "ack", f |-> f] \in Steps
    BY DEF Steps
  <1>5. \A a \in Plain : [do |-> a] \in Steps
    BY DEF Steps
  <1>6. QED BY <1>1, <1>2, <1>3, <1>4, <1>5

\* Steps of which none applies a response or acknowledges.
PlainSeq(p) == p \in Seq(Steps) /\ \A i \in 1..Len(p) : p[i].do \in Plain \cup {"insert"}

\* Plain steps before plain steps are plain.
LEMMA PlainConcat == ASSUME NEW a, NEW b, PlainSeq(a), PlainSeq(b) PROVE PlainSeq(a \o b)
  <1> DEFINE x == a \o b
  <1>1. /\ x \in Seq(Steps) /\ Len(x) = Len(a) + Len(b) /\ Len(a) \in Nat /\ Len(b) \in Nat
        /\ \A i \in 1..Len(a) : x[i] = a[i]
        /\ \A i \in 1..(Len(a) + Len(b)) : i > Len(a) => x[i] = b[i - Len(a)]
    BY Concats DEF PlainSeq
  <1> HIDE DEF x
  <1>2. ASSUME NEW i \in 1..Len(x) PROVE x[i].do \in Plain \cup {"insert"}
    <2>1. i \in 1..Len(a) \/ (i > Len(a) /\ i - Len(a) \in 1..Len(b) /\ i \in 1..(Len(a) + Len(b)))
      BY <1>1
    <2>2. QED BY <1>1, <2>1 DEF PlainSeq
  <1>3. QED BY <1>1, <1>2 DEF PlainSeq, x

\* What the handlers do is plain but for responses and acknowledgements.
LEMMA PlainSeqs ==
    /\ \A ops \in Seq(Ops) : PlainSeq(Inserts(ops))
    /\ PlainSeq(<<>>) /\ PlainSeq(startJoin) /\ PlainSeq(<<[do |-> "boot"]>>)
    /\ PlainSeq(sendAPLostNotif_p) /\ PlainSeq(sendAPLostNotif_p \o <<[do |-> "reset"]>>)
    /\ PlainSeq(Inserts(BootOps) \o <<[do |-> "disable"], [do |-> "halted"]>>)
    /\ PlainSeq(Inserts(BootOps) \o <<[do |-> "booted"]>>)
  <1>1. \A ops \in Seq(Ops) : PlainSeq(Inserts(ops))
    BY InsertsType DEF PlainSeq
  <1>2. ASSUME NEW a \in Plain PROVE PlainSeq(<<[do |-> a]>>)
    <2> DEFINE e == [do |-> a]
    <2>1. e \in Steps /\ e.do \in Plain
      BY MakeSteps
    <2> HIDE DEF e
    <2>2. PlainSeq(<<e>>)
      BY <2>1 DEF PlainSeq
    <2>3. QED BY <2>2 DEF e
  <1>3. ASSUME NEW a \in Plain, NEW b \in Plain PROVE PlainSeq(<<[do |-> a], [do |-> b]>>)
    <2> DEFINE e == [do |-> a]
               g == [do |-> b]
    <2>1. e \in Steps /\ e.do \in Plain /\ g \in Steps /\ g.do \in Plain
      BY MakeSteps
    <2> HIDE DEF e, g
    <2>2. PlainSeq(<<e, g>>)
      BY <2>1 DEF PlainSeq
    <2>3. QED BY <2>2 DEF e, g
  <1>4. PlainSeq(sendAPLostNotif_p)
    <2> DEFINE e == [do |-> "disable"]
               g == [do |-> "gone"]
               h == [do |-> "halted"]
    <2>1. e \in Steps /\ e.do \in Plain /\ g \in Steps /\ g.do \in Plain /\ h \in Steps /\ h.do \in Plain
      BY MakeSteps DEF Plain
    <2>2. sendAPLostNotif_p = <<e, g, h>>
      BY DEF sendAPLostNotif_p
    <2> HIDE DEF e, g, h
    <2>3. PlainSeq(<<e, g, h>>)
      BY <2>1 DEF PlainSeq
    <2>4. QED BY <2>2, <2>3
  <1>5. PlainSeq(startJoin)
    <2>1. \A i \in 1..4 : i \in 1..3 \/ i = 4
      OBVIOUS
    <2>2. QED BY <2>1, StartJoinType DEF PlainSeq, Plain
  <1>6. PlainSeq(<<>>)
    BY DEF PlainSeq
  <1>7. {"boot", "reset", "disable", "halted", "booted"} \subseteq Plain
    BY DEF Plain
  <1>8. PlainSeq(<<[do |-> "boot"]>>) /\ PlainSeq(<<[do |-> "reset"]>>) /\ PlainSeq(<<[do |-> "booted"]>>)
        /\ PlainSeq(<<[do |-> "disable"], [do |-> "halted"]>>) /\ PlainSeq(Inserts(BootOps))
    BY <1>1, <1>2, <1>3, <1>7, OpsType
  <1>9. QED BY <1>1, <1>4, <1>5, <1>6, <1>8, PlainConcat

\* The frames the two sides make are frames, and the kind of a frame determines its fields.
LEMMA MakeFrames ==
    /\ \A cmd \in Cmds, id \in {0, 1} : [t |-> "req", op |-> cmd.op, n |-> cmd.n, id |-> id] \in ToAP
    /\ \A f \in Ntfs, rc \in RcSet : Ack(f, rc) \in ToAP /\ Ack(f, rc).t = "ack" /\ Ack(f, rc).id = f.id
    /\ \A f \in Reqs, rc \in RcSet : Rsp(f, rc) \in ToAPC /\ Rsp(f, rc).t = "rsp"
    /\ \A k \in NtfKinds, n \in Nat, id \in {0, 1} : [t |-> "ntf", kind |-> k, n |-> n, id |-> id] \in Ntfs
    /\ Ntfs \subseteq ToAPC
    /\ \A f \in ToAP : f.id \in {0, 1} /\ (f.t = "req" => f \in Reqs) /\ (f.t = "ack" => f \in Acks) /\ f.t \in {"req", "ack"}
    /\ \A f \in ToAPC : f.id \in {0, 1} /\ (f.t = "rsp" => f \in Rsps) /\ (f.t = "ntf" => f \in Ntfs) /\ f.t \in {"rsp", "ntf"}
  <1>1. \A cmd \in Cmds, id \in {0, 1} : [t |-> "req", op |-> cmd.op, n |-> cmd.n, id |-> id] \in ToAP
    BY DEF ToAP, Reqs, Cmds
  <1>2. \A f \in Ntfs, rc \in RcSet : Ack(f, rc) \in ToAP /\ Ack(f, rc).t = "ack" /\ Ack(f, rc).id = f.id
    BY DEF ToAP, Acks, Ntfs, Ack
  <1>3. \A f \in Reqs, rc \in RcSet : Rsp(f, rc) \in ToAPC /\ Rsp(f, rc).t = "rsp"
    BY DEF ToAPC, Reqs, Rsps, Rsp
  <1>4. \A f \in ToAP : f.id \in {0, 1} /\ (f.t = "req" => f \in Reqs) /\ (f.t = "ack" => f \in Acks) /\ f.t \in {"req", "ack"}
    BY DEF ToAP, Reqs, Acks
  <1>5. \A f \in ToAPC : f.id \in {0, 1} /\ (f.t = "rsp" => f \in Rsps) /\ (f.t = "ntf" => f \in Ntfs) /\ f.t \in {"rsp", "ntf"}
    BY DEF ToAPC, Rsps, Ntfs
  <1>6. /\ \A k \in NtfKinds, n \in Nat, id \in {0, 1} : [t |-> "ntf", kind |-> k, n |-> n, id |-> id] \in Ntfs
        /\ Ntfs \subseteq ToAPC
    BY DEF ToAPC, Ntfs
  <1>7. QED BY <1>1, <1>2, <1>3, <1>4, <1>5, <1>6

\* All commands have the same priority, and none of them synchronises the mote's packet ids anew.
EqualPriority == /\ \A op \in AppOps : ~op.high /\ ~op.sync
                 /\ \A i \in DOMAIN BootOps : ~BootOps[i].high /\ ~BootOps[i].sync
                 /\ "READY_FOR_TIME" \notin Kinds

\* With equal priorities no command overtakes another, and every request carries the current packet id.
LEMMA PlainOps == ASSUME EqualPriority PROVE \A op \in Ops : ~op.high /\ ~op.sync
  <1>1. \A op \in {GetParam, Op("SETPARAM", FALSE, FALSE), Op("JOIN", FALSE, FALSE)} : ~op.high /\ ~op.sync
    BY DEF GetParam, Op
  <1>2. QED BY <1>1, Zenon DEF EqualPriority, Ops

\* The type of the state: the queue, the lines with what each side remembers, and the threads.
Counts == [boot : Nat, ntf : Nat, refuse : Nat, fault : Nat]
QueueType ==
    /\ m_outputQueue \in Seq(Cmds) /\ Len(m_outputQueue) <= MaxQueue
    /\ count \in [insert : Nat, join : Nat, control : Nat]
LineType ==
    /\ toAP \in Seq(ToAP) /\ toAPC \in Seq(ToAPC) /\ out \in Seq(Ntfs)
    /\ m_respPacketId \in {0, 1} /\ m_notifPacketId \in {0, 1}
    /\ delivered \in Seq(Nat) /\ handled \in Seq(Nat)
    /\ moteCount \in Counts
    /\ ap \in [acked : BOOLEAN, lastId : {0, 1, 2}, lastRc : RcSet, lastNtf : {0, 1}]
WorkType ==
    /\ work \in [Threads -> Seq(Steps)]
    /\ mid \in [Threads -> {"none", "send", "mark", "tell", "set"}]
    /\ \A t \in Threads : mid[t] # "none" => work[t] # <<>> /\ Head(work[t]).do = "insert"
TypeInv == QueueType /\ LineType /\ WorkType

\* The io thread is a thread, and no thread of the applications.
LEMMA IoThread == "io" \in Threads /\ Apps \subseteq Threads /\ "io" \notin Apps
  BY TransportAssumption DEF Threads

\* A thread that is not inside insertMsg may begin anything.
LEMMA WorkSet ==
    ASSUME WorkType, NEW t \in Threads, NEW w \in Seq(Steps), mid[t] = "none",
           work' = [work EXCEPT ![t] = w], mid' = mid
    PROVE  WorkType'
  BY DEF WorkType

\* send writes a request, or nothing.
LEMMA SendType ==
    ASSUME QueueType, LineType, NEW b \in BOOLEAN, send(b)
    PROVE  toAP' \in Seq(ToAP)
  <1>1. CASE CanSend(b)
    <2>1. m_outputQueue # <<>> /\ RequestId(b) \in {0, 1}
      BY <1>1 DEF CanSend, RequestId, LineType
    <2>2. Head(m_outputQueue) \in Cmds
      BY <2>1, Tails DEF QueueType
    <2> DEFINE cmd == Head(m_outputQueue)
               f == [t |-> "req", op |-> cmd.op, n |-> cmd.n, id |-> RequestId(b)]
    <2>3. f \in ToAP
      BY <2>1, <2>2, MakeFrames
    <2>4. toAP' = Put(toAP, f)
      BY <1>1 DEF send
    <2> HIDE DEF f
    <2>5. QED BY <2>3, <2>4, PutType DEF LineType
  <1>2. CASE ~CanSend(b)
    BY <1>2 DEF send, LineType
  <1>3. QED BY <1>1, <1>2

\* What insertMsg does to the queue: nothing, or it puts the new command at its place.
LEMMA InsertEffect ==
    ASSUME NEW t, insertMsg(t)
    PROVE  \/ UNCHANGED <<m_outputQueue, count>>
           \/ LET cmd == NewCommand(Head(work[t]).op) IN
              /\ isReady /\ ~Full /\ m_outputQueue' = Queued(cmd)
              /\ \E k \in {count.insert, cmd.n} : count' = [count EXCEPT !.insert = k]
  BY DEF insertMsg

\* What the mote does with a request: it drops it, answers it as before, or carries it out and answers.
LEMMA CommandEffect ==
    ASSUME MoteCommand
    PROVE  \/ UNCHANGED <<toAPC, ap, handled, moteCount>>
           \/ toAPC' = Put(toAPC, Rsp(Head(toAP), ap.lastRc)) /\ UNCHANGED <<ap, handled, moteCount>>
           \/ \E rc \in Rcs :
                /\ moteCount' \in {moteCount, [moteCount EXCEPT !.refuse = @ + 1]}
                /\ handled' = IF rc = "OK" /\ Head(toAP).n # 0
                              THEN Append(handled, Head(toAP).n) ELSE handled
                /\ ap' = [ap EXCEPT !.lastId = Head(toAP).id, !.lastRc = rc]
                /\ toAPC' = Put(toAPC, Rsp(Head(toAP), rc))
  BY DEF MoteCommand

\* The counters of the mote stay counters.
LEMMA MoteCountType ==
    ASSUME NEW c \in Counts
    PROVE  /\ [c EXCEPT !.boot = @ + 1] \in Counts /\ [c EXCEPT !.refuse = @ + 1] \in Counts
           /\ [c EXCEPT !.fault = @ + 1] \in Counts /\ [c EXCEPT !.ntf = @ + 1] \in Counts
  <1>1. [c EXCEPT !.boot = @ + 1] \in Counts
    BY DEF Counts
  <1>2. [c EXCEPT !.refuse = @ + 1] \in Counts
    BY DEF Counts
  <1>3. [c EXCEPT !.fault = @ + 1] \in Counts
    BY DEF Counts
  <1>4. [c EXCEPT !.ntf = @ + 1] \in Counts
    BY DEF Counts
  <1>5. QED BY <1>1, <1>2, <1>3, <1>4

\* The commands the coupler sends when it is notified are commands.
LEMMA CouplerOpsType == ASSUME NEW f \in Ntfs PROVE CouplerOps(f.kind) \in Seq(Ops)
  BY OpsType DEF CouplerOps, NtfKinds, Ntfs

\* Every step of the bridge and of the mote keeps the queue within its bound: insertMsg looks at the bound in the
\* locked section in which it queues.
LEMMA QueueTypeStep == TypeInv /\ [SysNext]_allVars => QueueType'
  <1> SUFFICES ASSUME TypeInv, [SysNext]_allVars PROVE QueueType'
    OBVIOUS
  <1> USE DEF queueVars, timerVars, flowVars, joinVars, threadVars, ctlVars, logVars, vars, moteVars, allVars,
              Bridge, TypeInv, QueueType
  <1>1. CASE UNCHANGED allVars
    BY <1>1 DEF allVars, vars
  <1>2. CASE handleMsg_response /\ UNCHANGED moteVars
    BY <1>2 DEF handleMsg_response, Receive
  <1>3. CASE handleResponse /\ UNCHANGED moteVars
    <2>1. Tail(m_outputQueue) \in Seq(Cmds) /\ Len(Tail(m_outputQueue)) = Len(m_outputQueue) - 1
      BY <1>3, Tails DEF handleResponse
    <2>2. m_outputQueue' \in {m_outputQueue, Tail(m_outputQueue)} /\ count' = count
      BY <1>3 DEF handleResponse
    <2>3. Len(m_outputQueue) \in Nat /\ MaxQueue \in Nat
      BY TransportAssumption
    <2>4. QED BY <2>1, <2>2, <2>3
  <1>4. CASE handleResponse_resume /\ UNCHANGED moteVars
    BY <1>4 DEF handleResponse_resume, Doing
  <1>5. CASE handleResponse_end /\ UNCHANGED moteVars
    BY <1>5 DEF handleResponse_end, Doing, Done, send
  <1>6. CASE handleNotification_retry /\ UNCHANGED moteVars
    BY <1>6 DEF handleNotification_retry, Receive, IsNew
  <1>7. CASE handleNotification_nack /\ UNCHANGED moteVars
    BY <1>7 DEF handleNotification_nack, Receive, IsNew
  <1>8. CASE handleNotification /\ UNCHANGED moteVars
    BY <1>8 DEF handleNotification, Receive, IsNew
  <1>9. CASE handleAPBoot /\ UNCHANGED moteVars
    BY <1>9, TransportAssumption DEF handleAPBoot, clearOutputQueue
  <1>10. CASE handleAPBoot_lost /\ UNCHANGED moteVars
    BY <1>10 DEF handleAPBoot_lost, Receive
  <1>11. CASE handleAPBoot_booted /\ UNCHANGED moteVars
    BY <1>11 DEF handleAPBoot_booted, Doing
  <1>12. CASE handleAPBoot_told /\ UNCHANGED moteVars
    BY <1>12 DEF handleAPBoot_told, Doing
  <1>13. CASE handleNotification_ack /\ UNCHANGED moteVars
    BY <1>13 DEF handleNotification_ack, Doing, Done
  <1>14. CASE OutputTimerExpires /\ UNCHANGED moteVars
    BY <1>14 DEF OutputTimerExpires
  <1>15. CASE handleRetryTimeout /\ UNCHANGED moteVars
    BY <1>15 DEF handleRetryTimeout, RetryDue, send
  <1>16. CASE handleRetryTimeout_lost /\ UNCHANGED moteVars
    BY <1>16 DEF handleRetryTimeout_lost, RetryDue
  <1>16a. CASE handleRetryTimeout_reset /\ UNCHANGED moteVars
    BY <1>16a DEF handleRetryTimeout_reset
  <1>17. CASE handleQueueCheckTimeout /\ UNCHANGED moteVars
    BY <1>17 DEF handleQueueCheckTimeout
  <1>18. CASE handlePingTimeout /\ UNCHANGED moteVars
    BY <1>18 DEF handlePingTimeout
  <1>19. ASSUME NEW t \in Threads, insertMsg(t), UNCHANGED moteVars PROVE QueueType'
    <2> DEFINE cmd == NewCommand(Head(work[t]).op)
    <2>1. Head(work[t]).op \in Ops
      BY <1>19, Tails, StepFields DEF insertMsg, Doing, WorkType
    <2>2. cmd \in Cmds
      BY <2>1 DEF NewCommand, Cmds
    <2>3. CASE UNCHANGED <<m_outputQueue, count>>
      BY <2>3
    <2>4. CASE /\ isReady /\ ~Full /\ m_outputQueue' = Queued(cmd)
               /\ \E k \in {count.insert, cmd.n} : count' = [count EXCEPT !.insert = k]
      <3>1. cmd.n \in Nat
        BY <2>2 DEF Cmds
      <3> HIDE DEF cmd
      <3>2. /\ <<cmd>> \o m_outputQueue \in Seq(Cmds) /\ Len(<<cmd>> \o m_outputQueue) = Len(m_outputQueue) + 1
        BY <2>2
      <3>3. /\ Append(m_outputQueue, cmd) \in Seq(Cmds) /\ Len(Append(m_outputQueue, cmd)) = Len(m_outputQueue) + 1
        BY <2>2
      <3>4. Queued(cmd) \in {<<cmd>> \o m_outputQueue, Append(m_outputQueue, cmd)}
        BY DEF Queued
      <3>5. Len(m_outputQueue) \in Nat /\ MaxQueue \in Nat /\ ~(Len(m_outputQueue) >= MaxQueue)
        BY <2>4, TransportAssumption DEF Full
      <3>6. m_outputQueue' \in {<<cmd>> \o m_outputQueue, Append(m_outputQueue, cmd)}
        BY <2>4, <3>4
      <3>7. m_outputQueue' \in Seq(Cmds) /\ Len(m_outputQueue') <= MaxQueue
        <4>1. CASE m_outputQueue' = <<cmd>> \o m_outputQueue
          BY <3>2, <3>5, <4>1
        <4>2. CASE m_outputQueue' = Append(m_outputQueue, cmd)
          BY <3>3, <3>5, <4>2
        <4>3. QED BY <3>6, <4>1, <4>2
      <3>8. PICK k \in {count.insert, cmd.n} : count' = [count EXCEPT !.insert = k]
        BY <2>4
      <3>9. count' \in [insert : Nat, join : Nat, control : Nat]
        BY <3>8, <3>1
      <3>10. QED BY <3>7, <3>9
    <2> HIDE DEF QueueType, TypeInv, cmd
    <2>5. QED BY <1>19, <2>3, <2>4, InsertEffect DEF cmd
  <1>20. ASSUME NEW t \in Threads, insertMsg_send(t), UNCHANGED moteVars PROVE QueueType'
    BY <1>20 DEF insertMsg_send, send
  <1>21. ASSUME NEW t \in Threads, insertMsg_mark(t), UNCHANGED moteVars PROVE QueueType'
    BY <1>21 DEF insertMsg_mark, LeaveInsert, Done
  <1>22. ASSUME NEW t \in Threads, insertMsg_tell(t), UNCHANGED moteVars PROVE QueueType'
    BY <1>22 DEF insertMsg_tell
  <1>23. ASSUME NEW t \in Threads, insertMsg_set(t), UNCHANGED moteVars PROVE QueueType'
    BY <1>23 DEF insertMsg_set, LeaveInsert, Done
  <1>24. ASSUME NEW t \in Threads, startJoin_p_end(t), UNCHANGED moteVars PROVE QueueType'
    BY <1>24 DEF startJoin_p_end, Doing, Done
  <1>24a. ASSUME NEW t \in Threads, apGone(t), UNCHANGED moteVars PROVE QueueType'
    BY <1>24a DEF apGone
  <1>25. ASSUME NEW t \in Apps, NEW op \in AppOps, AppInsert(t, op), UNCHANGED moteVars PROVE QueueType'
    BY <1>25 DEF AppInsert
  <1>26. ASSUME NEW t \in Apps, enableJoin(t), UNCHANGED moteVars PROVE QueueType'
    BY <1>26 DEF enableJoin
  <1>27. ASSUME NEW t \in Apps, Control(t), UNCHANGED moteVars PROVE QueueType'
    BY <1>27 DEF Control, disableJoin, setAPMState, setAbort, hwResetAP
  <1>28. CASE MoteCommand
    BY <1>28 DEF MoteCommand
  <1>29. CASE MoteAck
    BY <1>29 DEF MoteAck
  <1>30. CASE MoteRepeat
    BY <1>30 DEF MoteRepeat
  <1>31. CASE MoteBoot
    BY <1>31 DEF MoteBoot
  <1>32. CASE LineLoses
    BY <1>32 DEF LineLoses
  <1>33. ASSUME NEW kind \in Kinds, MoteNotify(kind) PROVE QueueType'
    BY <1>33 DEF MoteNotify
  <1>34. QED
    BY <1>1, <1>2, <1>3, <1>4, <1>5, <1>6, <1>7, <1>8, <1>9, <1>10, <1>11, <1>12, <1>13, <1>14, <1>15, <1>16, <1>17,
       <1>18, <1>19, <1>20, <1>21, <1>22, <1>23, <1>24, <1>25, <1>26, <1>27, <1>28, <1>29, <1>30, <1>31, <1>32,
       <1>33, <1>16a, <1>24a
    DEF SysNext, TransportNext, IoNext, ThreadNext, AppNext, MoteNext

\* Every step keeps the threads' work, and a thread inside insertMsg has that call to finish.
LEMMA WorkTypeStep == TypeInv /\ [SysNext]_allVars => WorkType'
  <1> SUFFICES ASSUME TypeInv, [SysNext]_allVars PROVE WorkType'
    OBVIOUS
  <1> USE DEF queueVars, timerVars, flowVars, joinVars, threadVars, ctlVars, logVars, vars, moteVars, allVars,
              Bridge, TypeInv, WorkType
  <1>1. CASE UNCHANGED allVars
    BY <1>1 DEF allVars, vars
  <1>2. CASE handleMsg_response /\ UNCHANGED moteVars
    <2>1. Head(toAPC).rc \in RcSet
      BY <1>2, Tails, MakeFrames DEF handleMsg_response, Receive, LineType, Rsps
    <2>2. <<>> \in Seq(Steps) /\ <<[do |-> "response", rc |-> Head(toAPC).rc]>> \in Seq(Steps)
      BY <2>1, MakeSteps
    <2>3. mid["io"] = "none"
      BY <1>2, IoThread DEF handleMsg_response, Receive
    <2>4. QED BY <1>2, <2>2, <2>3, IoThread, WorkSet DEF handleMsg_response
  <1>3. CASE handleResponse /\ UNCHANGED moteVars
    <2> DEFINE step(b) == [do |-> "responded", rc |-> Head(work["io"]).rc, op |-> Head(m_outputQueue).op, below |-> b]
    <2>1. Head(work["io"]).rc \in RcSet
      BY <1>3, IoThread, Tails, StepFields DEF handleResponse, Doing
    <2>2. Head(m_outputQueue) \in Cmds
      BY <1>3, Tails DEF handleResponse, QueueType
    <2>3. Head(m_outputQueue).op \in Ops
      BY <2>2 DEF Cmds
    <2>4. step(FALSE) \in Steps /\ step(Below) \in Steps
      BY <2>3, <2>1 DEF Below, Steps
    <2>5. <<step(FALSE)>> \in Seq(Steps) /\ <<step(Below)>> \in Seq(Steps)
      BY <2>4
    <2>6. mid["io"] = "none"
      BY <1>3, IoThread DEF handleResponse, Doing
    <2>7. QED BY <1>3, <2>5, <2>6, IoThread, WorkSet DEF handleResponse
  <1>4. CASE handleResponse_resume /\ UNCHANGED moteVars
    BY <1>4, IoThread, StepFields, MakeSteps, Tails, InsertsType, StartJoinType, OpsType DEF handleResponse_resume,
       Doing
  <1>5. CASE handleResponse_end /\ UNCHANGED moteVars
    BY <1>5, IoThread, StepFields, MakeSteps, Tails, InsertsType, StartJoinType, OpsType DEF handleResponse_end,
       Doing, Done, send
  <1>6. CASE handleNotification_retry /\ UNCHANGED moteVars
    BY <1>6, IoThread, StepFields, MakeSteps, Tails, InsertsType, StartJoinType, OpsType DEF
       handleNotification_retry, Receive, IsNew
  <1>7. CASE handleNotification_nack /\ UNCHANGED moteVars
    BY <1>7, IoThread, StepFields, MakeSteps, Tails, InsertsType, StartJoinType, OpsType DEF
       handleNotification_nack, Receive, IsNew
  <1>8. CASE handleNotification /\ UNCHANGED moteVars
    <2> DEFINE f == Head(toAPC)
    <2>1. f \in Ntfs
      BY <1>8, Tails, MakeFrames DEF handleNotification, Receive, LineType
    <2>2. <<[do |-> "ack", f |-> f]>> \in Seq(Steps)
      BY <2>1, MakeSteps
    <2>3. Inserts(CouplerOps(f.kind)) \in Seq(Steps)
      BY <2>1, CouplerOpsType, InsertsType
    <2>4. Inserts(CouplerOps(f.kind)) \o <<[do |-> "ack", f |-> f]>> \in Seq(Steps)
      BY <2>2, <2>3, Concats
    <2>5. mid["io"] = "none"
      BY <1>8, IoThread DEF handleNotification, Receive
    <2>6. QED BY <1>8, <2>4, <2>5, IoThread, WorkSet DEF handleNotification
  <1>9. CASE handleAPBoot /\ UNCHANGED moteVars
    <2> DEFINE r == [do |-> "boot"]
    <2>1. Head(toAPC) \in Ntfs
      BY <1>9, Tails, MakeFrames DEF handleAPBoot, LineType
    <2>2. [do |-> "ack", f |-> Head(toAPC)] \in Steps /\ r \in Steps
      BY <2>1, MakeSteps DEF Plain
    <2>3. <<r, [do |-> "ack", f |-> Head(toAPC)]>> \in Seq(Steps)
      BY <2>2
    <2>4. mid["io"] = "none"
      BY <1>9, IoThread DEF handleAPBoot
    <2>5. QED BY <1>9, <2>3, <2>4, IoThread, WorkSet DEF handleAPBoot
  <1>10. CASE handleAPBoot_lost /\ UNCHANGED moteVars
    <2>1. Head(toAPC) \in Ntfs
      BY <1>10, Tails, MakeFrames DEF handleAPBoot_lost, Receive, LineType
    <2>2. <<[do |-> "ack", f |-> Head(toAPC)]>> \in Seq(Steps)
      BY <2>1, MakeSteps
    <2>3. mid["io"] = "none"
      BY <1>10, IoThread DEF handleAPBoot_lost, Receive
    <2>4. sendAPLostNotif_p \o <<[do |-> "ack", f |-> Head(toAPC)]>> \in Seq(Steps)
      BY <2>2, PlainSeqs, Concats DEF PlainSeq
    <2>5. QED BY <1>10, <2>3, <2>4, IoThread, WorkSet DEF handleAPBoot_lost
  <1>11. CASE handleAPBoot_booted /\ UNCHANGED moteVars
    BY <1>11, IoThread, StepFields, MakeSteps, Tails, InsertsType, StartJoinType, OpsType DEF handleAPBoot_booted,
       Doing
  <1>12. CASE handleAPBoot_told /\ UNCHANGED moteVars
    <2> DEFINE p == Inserts(BootOps) \o (IF m_isRunning THEN <<[do |-> "disable"], [do |-> "halted"]>>
                                                        ELSE <<[do |-> "booted"]>>)
    <2>1. p \in Seq(Steps)
      BY PlainSeqs DEF PlainSeq
    <2>2. mid["io"] = "none" /\ Tail(work["io"]) \in Seq(Steps)
      BY <1>12, IoThread, Tails DEF handleAPBoot_told, Doing
    <2>3. work' = [work EXCEPT !["io"] = p \o Tail(work["io"])] /\ mid' = mid
      BY <1>12 DEF handleAPBoot_told
    <2> HIDE DEF p
    <2>4. p \o Tail(work["io"]) \in Seq(Steps)
      BY <2>1, <2>2, Concats
    <2>5. QED BY <2>2, <2>3, <2>4, IoThread, WorkSet
  <1>13. CASE handleNotification_ack /\ UNCHANGED moteVars
    BY <1>13, IoThread, StepFields, MakeSteps, Tails, InsertsType, StartJoinType, OpsType DEF
       handleNotification_ack, Doing, Done
  <1>14. CASE OutputTimerExpires /\ UNCHANGED moteVars
    BY <1>14, IoThread, StepFields, MakeSteps, Tails, InsertsType, StartJoinType, OpsType DEF OutputTimerExpires
  <1>15. CASE handleRetryTimeout /\ UNCHANGED moteVars
    BY <1>15, IoThread, StepFields, MakeSteps, Tails, InsertsType, StartJoinType, OpsType DEF handleRetryTimeout,
       RetryDue, send
  <1>16. CASE handleRetryTimeout_lost /\ UNCHANGED moteVars
    <2>1. CASE m_abortEnabled
      <3>1. sendAPLostNotif_p \o <<[do |-> "reset"]>> \in Seq(Steps)
        BY PlainSeqs DEF PlainSeq
      <3>2. mid["io"] = "none"
        BY <1>16, IoThread DEF handleRetryTimeout_lost, RetryDue
      <3>3. QED BY <1>16, <2>1, <3>1, <3>2, IoThread, WorkSet DEF handleRetryTimeout_lost
    <2>2. CASE ~m_abortEnabled
      BY <1>16, <2>2 DEF handleRetryTimeout_lost
    <2>3. QED BY <2>1, <2>2
  <1>16a. CASE handleRetryTimeout_reset /\ UNCHANGED moteVars
    BY <1>16a, IoThread, Tails DEF handleRetryTimeout_reset, Doing, Done
  <1>17. CASE handleQueueCheckTimeout /\ UNCHANGED moteVars
    BY <1>17, IoThread, StepFields, MakeSteps, Tails, InsertsType, StartJoinType, OpsType DEF handleQueueCheckTimeout
  <1>18. CASE handlePingTimeout /\ UNCHANGED moteVars
    <2>1. Inserts(<<GetParam>>) \in Seq(Steps)
      BY OpsType, OpSeqs, InsertsType
    <2>2. mid["io"] = "none"
      BY <1>18, IoThread DEF handlePingTimeout
    <2>3. QED BY <1>18, <2>1, <2>2, IoThread, WorkSet DEF handlePingTimeout
  <1>19. ASSUME NEW t \in Threads, insertMsg(t), UNCHANGED moteVars PROVE WorkType'
    <2>1. CASE mid' = mid /\ Done(t)
      BY <1>19, <2>1, Tails, WorkSet DEF insertMsg, Doing, Done
    <2>2. CASE mid' = [mid EXCEPT ![t] = "send"] /\ work' = work
      BY <1>19, <2>2 DEF insertMsg, Doing
    <2>3. CASE mid' = mid /\ work' = [work EXCEPT ![t] = sendAPLostNotif_p \o Tail(@)]
      <3>1. mid[t] = "none" /\ Tail(work[t]) \in Seq(Steps)
        BY <1>19, Tails DEF insertMsg, Doing
      <3>2. sendAPLostNotif_p \o Tail(work[t]) \in Seq(Steps)
        BY <3>1, PlainSeqs, Concats DEF PlainSeq
      <3>3. QED BY <2>3, <3>1, <3>2, WorkSet
    <2>4. QED BY <1>19, <2>1, <2>2, <2>3 DEF insertMsg
  <1>20. ASSUME NEW t \in Threads, insertMsg_send(t), UNCHANGED moteVars PROVE WorkType'
    BY <1>20, IoThread, StepFields, MakeSteps, Tails, InsertsType, StartJoinType, OpsType DEF insertMsg_send, send
  <1>21. ASSUME NEW t \in Threads, insertMsg_mark(t), UNCHANGED moteVars PROVE WorkType'
    <2>1. work[t] # <<>> /\ Tail(work[t]) \in Seq(Steps) /\ Head(work[t]).do = "insert"
      BY <1>21, Tails DEF insertMsg_mark
    <2>2. CASE LeaveInsert(t)
      BY <2>1, <2>2 DEF LeaveInsert, Done
    <2>3. CASE mid' = [mid EXCEPT ![t] = "tell"] /\ work' = work
      BY <2>1, <2>3
    <2>4. QED BY <1>21, <2>2, <2>3 DEF insertMsg_mark
  <1>22. ASSUME NEW t \in Threads, insertMsg_tell(t), UNCHANGED moteVars PROVE WorkType'
    BY <1>22, IoThread, StepFields, MakeSteps, Tails, InsertsType, StartJoinType, OpsType DEF insertMsg_tell
  <1>23. ASSUME NEW t \in Threads, insertMsg_set(t), UNCHANGED moteVars PROVE WorkType'
    BY <1>23, IoThread, StepFields, MakeSteps, Tails, InsertsType, StartJoinType, OpsType DEF insertMsg_set,
       LeaveInsert, Done
  <1>24. ASSUME NEW t \in Threads, startJoin_p_end(t), UNCHANGED moteVars PROVE WorkType'
    BY <1>24, IoThread, StepFields, MakeSteps, Tails, InsertsType, StartJoinType, OpsType DEF startJoin_p_end,
       Doing, Done
  <1>24a. ASSUME NEW t \in Threads, apGone(t), UNCHANGED moteVars PROVE WorkType'
    <2>1. work[t] # <<>> /\ Head(work[t]).do # "insert" /\ Tail(work[t]) \in Seq(Steps)
      BY <1>24a, Tails DEF apGone, Doing
    <2>2. mid[t] = "none" /\ mid' = mid /\ work' = [work EXCEPT ![t] = Tail(work[t])]
      BY <1>24a, <2>1 DEF apGone, Done
    <2>3. QED BY <2>1, <2>2, WorkSet
  <1>25. ASSUME NEW t \in Apps, NEW op \in AppOps, AppInsert(t, op), UNCHANGED moteVars PROVE WorkType'
    <2>1. Inserts(<<op>>) \in Seq(Steps)
      BY OpsType, OpSeqs, InsertsType
    <2>2. mid[t] = "none"
      BY <1>25, IoThread DEF AppInsert
    <2>3. QED BY <1>25, <2>1, <2>2, IoThread, WorkSet DEF AppInsert
  <1>26. ASSUME NEW t \in Apps, enableJoin(t), UNCHANGED moteVars PROVE WorkType'
    BY <1>26, IoThread, StepFields, MakeSteps, Tails, InsertsType, StartJoinType, OpsType DEF enableJoin
  <1>27. ASSUME NEW t \in Apps, Control(t), UNCHANGED moteVars PROVE WorkType'
    BY <1>27, IoThread, StepFields, MakeSteps, Tails, InsertsType, StartJoinType, OpsType DEF Control, disableJoin,
       setAPMState, setAbort, hwResetAP
  <1>28. CASE MoteCommand
    BY <1>28, IoThread, StepFields, MakeSteps, Tails, InsertsType, StartJoinType, OpsType DEF MoteCommand
  <1>29. CASE MoteAck
    BY <1>29, IoThread, StepFields, MakeSteps, Tails, InsertsType, StartJoinType, OpsType DEF MoteAck
  <1>30. CASE MoteRepeat
    BY <1>30, IoThread, StepFields, MakeSteps, Tails, InsertsType, StartJoinType, OpsType DEF MoteRepeat
  <1>31. CASE MoteBoot
    BY <1>31, IoThread, StepFields, MakeSteps, Tails, InsertsType, StartJoinType, OpsType DEF MoteBoot
  <1>32. CASE LineLoses
    BY <1>32, IoThread, StepFields, MakeSteps, Tails, InsertsType, StartJoinType, OpsType DEF LineLoses
  <1>33. ASSUME NEW kind \in Kinds, MoteNotify(kind) PROVE WorkType'
    BY <1>33, IoThread, StepFields, MakeSteps, Tails, InsertsType, StartJoinType, OpsType DEF MoteNotify
  <1>34. QED
    BY <1>1, <1>2, <1>3, <1>4, <1>5, <1>6, <1>7, <1>8, <1>9, <1>10, <1>11, <1>12, <1>13, <1>14, <1>15, <1>16, <1>17,
       <1>18, <1>19, <1>20, <1>21, <1>22, <1>23, <1>24, <1>25, <1>26, <1>27, <1>28, <1>29, <1>30, <1>31, <1>32,
       <1>33, <1>16a, <1>24a
    DEF SysNext, TransportNext, IoNext, ThreadNext, AppNext, MoteNext

\* Every step keeps the lines and what each side remembers of them.
LEMMA LineTypeStep == TypeInv /\ [SysNext]_allVars => LineType'
  <1> SUFFICES ASSUME TypeInv, [SysNext]_allVars PROVE LineType'
    OBVIOUS
  <1> USE DEF queueVars, timerVars, flowVars, joinVars, threadVars, ctlVars, logVars, vars, moteVars, allVars,
              Bridge, TypeInv, LineType
  <1>1. CASE UNCHANGED allVars
    BY <1>1 DEF allVars, vars
  <1>2. CASE handleMsg_response /\ UNCHANGED moteVars
    BY <1>2, MakeFrames, Tails, PutType DEF handleMsg_response, Receive
  <1>3. CASE handleResponse /\ UNCHANGED moteVars
    <2>1. m_respPacketId' \in {0, 1}
      BY <1>3 DEF handleResponse, NextPacketId
    <2>2. QED BY <1>3, <2>1 DEF handleResponse
  <1>4. CASE handleResponse_resume /\ UNCHANGED moteVars
    BY <1>4, MakeFrames, Tails, PutType DEF handleResponse_resume, Doing
  <1>5. CASE handleResponse_end /\ UNCHANGED moteVars
    <2>1. toAP' \in Seq(ToAP)
      BY <1>5, SendType DEF handleResponse_end
    <2>2. QED BY <1>5, <2>1 DEF handleResponse_end
  <1>6. CASE handleNotification_retry /\ UNCHANGED moteVars
    <2>1. Head(toAPC) \in Ntfs /\ Tail(toAPC) \in Seq(ToAPC)
      BY <1>6, Tails, MakeFrames DEF handleNotification_retry, Receive
    <2>2. Ack(Head(toAPC), "OK") \in ToAP
      BY <2>1, MakeFrames DEF RcSet
    <2>3. QED BY <1>6, <2>1, <2>2, PutType DEF handleNotification_retry, Receive
  <1>7. CASE handleNotification_nack /\ UNCHANGED moteVars
    <2>1. Head(toAPC) \in Ntfs /\ Tail(toAPC) \in Seq(ToAPC)
      BY <1>7, Tails, MakeFrames DEF handleNotification_nack, Receive
    <2>2. Ack(Head(toAPC), "NACK") \in ToAP
      BY <2>1, MakeFrames DEF RcSet
    <2>3. QED BY <1>7, <2>1, <2>2, PutType DEF handleNotification_nack, Receive
  <1>8. CASE handleNotification /\ UNCHANGED moteVars
    <2>1. Head(toAPC) \in Ntfs /\ Tail(toAPC) \in Seq(ToAPC)
      BY <1>8, Tails, MakeFrames DEF handleNotification, Receive
    <2>2. Head(toAPC).n \in Nat
      BY <2>1 DEF Ntfs
    <2>3. QED BY <1>8, <2>1, <2>2 DEF handleNotification, Receive
  <1>9. CASE handleAPBoot /\ UNCHANGED moteVars
    BY <1>9, MakeFrames, Tails, PutType DEF handleAPBoot, clearOutputQueue
  <1>10. CASE handleAPBoot_lost /\ UNCHANGED moteVars
    BY <1>10, MakeFrames, Tails, PutType DEF handleAPBoot_lost, Receive
  <1>11. CASE handleAPBoot_booted /\ UNCHANGED moteVars
    BY <1>11, MakeFrames, Tails, PutType DEF handleAPBoot_booted, Doing
  <1>12. CASE handleAPBoot_told /\ UNCHANGED moteVars
    BY <1>12 DEF handleAPBoot_told
  <1>13. CASE handleNotification_ack /\ UNCHANGED moteVars
    <2> DEFINE f == Head(work["io"]).f
    <2>1. f \in Ntfs
      BY <1>13, IoThread, Tails, StepFields DEF handleNotification_ack, Doing, WorkType
    <2>2. Ack(f, "OK") \in ToAP /\ f.id \in {0, 1}
      BY <2>1, MakeFrames DEF RcSet, Ntfs
    <2>3. Put(toAP, Ack(f, "OK")) \in Seq(ToAP)
      BY <2>2, PutType
    <2>4. QED BY <1>13, <2>2, <2>3 DEF handleNotification_ack
  <1>14. CASE OutputTimerExpires /\ UNCHANGED moteVars
    BY <1>14, MakeFrames, Tails, PutType DEF OutputTimerExpires
  <1>15. CASE handleRetryTimeout /\ UNCHANGED moteVars
    <2>1. toAP' \in Seq(ToAP)
      <3>1. CASE send(FALSE)
        BY <3>1, SendType
      <3>2. CASE toAP' = toAP
        BY <3>2
      <3>3. CASE m_outputQueue # <<>> /\ toAP' = Put(toAP, [t |-> "req", op |-> Head(m_outputQueue).op,
                                              n |-> Head(m_outputQueue).n, id |-> RequestId(FALSE)])
        BY <3>3, Tails, MakeFrames, PutType DEF RequestId, QueueType
      <3>4. QED BY <1>15, <3>1, <3>2, <3>3 DEF handleRetryTimeout
    <2>2. QED BY <1>15, <2>1 DEF handleRetryTimeout
  <1>16. CASE handleRetryTimeout_lost /\ UNCHANGED moteVars
    BY <1>16, MakeFrames, Tails, PutType DEF handleRetryTimeout_lost, RetryDue
  <1>16a. CASE handleRetryTimeout_reset /\ UNCHANGED moteVars
    BY <1>16a DEF handleRetryTimeout_reset
  <1>17. CASE handleQueueCheckTimeout /\ UNCHANGED moteVars
    BY <1>17, MakeFrames, Tails, PutType DEF handleQueueCheckTimeout
  <1>18. CASE handlePingTimeout /\ UNCHANGED moteVars
    BY <1>18, MakeFrames, Tails, PutType DEF handlePingTimeout
  <1>19. ASSUME NEW t \in Threads, insertMsg(t), UNCHANGED moteVars PROVE LineType'
    BY <1>19, MakeFrames, Tails, PutType DEF insertMsg
  <1>20. ASSUME NEW t \in Threads, insertMsg_send(t), UNCHANGED moteVars PROVE LineType'
    <2>1. toAP' \in Seq(ToAP)
      BY <1>20, SendType DEF insertMsg_send
    <2>2. QED BY <1>20, <2>1 DEF insertMsg_send
  <1>21. ASSUME NEW t \in Threads, insertMsg_mark(t), UNCHANGED moteVars PROVE LineType'
    BY <1>21, MakeFrames, Tails, PutType DEF insertMsg_mark, LeaveInsert, Done
  <1>22. ASSUME NEW t \in Threads, insertMsg_tell(t), UNCHANGED moteVars PROVE LineType'
    BY <1>22, MakeFrames, Tails, PutType DEF insertMsg_tell
  <1>23. ASSUME NEW t \in Threads, insertMsg_set(t), UNCHANGED moteVars PROVE LineType'
    BY <1>23, MakeFrames, Tails, PutType DEF insertMsg_set, LeaveInsert, Done
  <1>24. ASSUME NEW t \in Threads, startJoin_p_end(t), UNCHANGED moteVars PROVE LineType'
    BY <1>24, MakeFrames, Tails, PutType DEF startJoin_p_end, Doing, Done
  <1>24a. ASSUME NEW t \in Threads, apGone(t), UNCHANGED moteVars PROVE LineType'
    BY <1>24a DEF apGone
  <1>25. ASSUME NEW t \in Apps, NEW op \in AppOps, AppInsert(t, op), UNCHANGED moteVars PROVE LineType'
    BY <1>25, MakeFrames, Tails, PutType DEF AppInsert
  <1>26. ASSUME NEW t \in Apps, enableJoin(t), UNCHANGED moteVars PROVE LineType'
    BY <1>26, MakeFrames, Tails, PutType DEF enableJoin
  <1>27. ASSUME NEW t \in Apps, Control(t), UNCHANGED moteVars PROVE LineType'
    BY <1>27, MakeFrames, Tails, PutType DEF Control, disableJoin, setAPMState, setAbort, hwResetAP
  <1>28. CASE MoteCommand
    <2> DEFINE f == Head(toAP)
    <2>1. f \in Reqs /\ Tail(toAP) \in Seq(ToAP)
      BY <1>28, Tails, MakeFrames DEF MoteCommand
    <2>2. f.id \in {0, 1} /\ f.n \in Nat
      BY <2>1 DEF Reqs
    <2>3. CASE UNCHANGED <<toAPC, ap, handled, moteCount>>
      BY <1>28, <2>1, <2>3 DEF MoteCommand
    <2>4. CASE toAPC' = Put(toAPC, Rsp(f, ap.lastRc)) /\ UNCHANGED <<ap, handled, moteCount>>
      <3>1. Rsp(f, ap.lastRc) \in ToAPC
        BY <2>1, MakeFrames
      <3>2. toAPC' \in Seq(ToAPC)
        BY <2>4, <3>1, PutType
      <3>3. QED BY <1>28, <2>1, <2>4, <3>2 DEF MoteCommand
    <2>5. CASE \E rc \in Rcs :
                 /\ moteCount' \in {moteCount, [moteCount EXCEPT !.refuse = @ + 1]}
                 /\ handled' = IF rc = "OK" /\ f.n # 0 THEN Append(handled, f.n) ELSE handled
                 /\ ap' = [ap EXCEPT !.lastId = f.id, !.lastRc = rc]
                 /\ toAPC' = Put(toAPC, Rsp(f, rc))
      <3>1. PICK rc \in Rcs :
                 /\ moteCount' \in {moteCount, [moteCount EXCEPT !.refuse = @ + 1]}
                 /\ handled' = IF rc = "OK" /\ f.n # 0 THEN Append(handled, f.n) ELSE handled
                 /\ ap' = [ap EXCEPT !.lastId = f.id, !.lastRc = rc]
                 /\ toAPC' = Put(toAPC, Rsp(f, rc))
        BY <2>5
      <3>2. rc \in RcSet
        BY MoteAssumption DEF RcSet
      <3>3. Rsp(f, rc) \in ToAPC
        BY <2>1, <3>2, MakeFrames
      <3>4. toAPC' \in Seq(ToAPC)
        BY <3>1, <3>3, PutType
      <3> HIDE DEF f
      <3>5. ap' \in [acked : BOOLEAN, lastId : {0, 1, 2}, lastRc : RcSet, lastNtf : {0, 1}]
        BY <2>2, <3>1, <3>2
      <3>6. handled' \in Seq(Nat)
        BY <2>2, <3>1
      <3>7. moteCount' \in Counts
        <4>1. moteCount \in Counts
          OBVIOUS
        <4>2. [moteCount EXCEPT !.refuse = @ + 1] \in Counts
          BY <4>1, MoteCountType
        <4>3. QED BY <3>1, <4>1, <4>2
      <3>8. QED BY <1>28, <2>1, <3>4, <3>5, <3>6, <3>7 DEF MoteCommand
    <2> HIDE DEF LineType, TypeInv, f
    <2>6. \/ UNCHANGED <<toAPC, ap, handled, moteCount>>
          \/ toAPC' = Put(toAPC, Rsp(Head(toAP), ap.lastRc)) /\ UNCHANGED <<ap, handled, moteCount>>
          \/ \E rc \in Rcs :
                /\ moteCount' \in {moteCount, [moteCount EXCEPT !.refuse = @ + 1]}
                /\ handled' = IF rc = "OK" /\ Head(toAP).n # 0
                              THEN Append(handled, Head(toAP).n) ELSE handled
                /\ ap' = [ap EXCEPT !.lastId = Head(toAP).id, !.lastRc = rc]
                /\ toAPC' = Put(toAPC, Rsp(Head(toAP), rc))
      BY <1>28, CommandEffect
    <2>7. QED BY <2>3, <2>4, <2>5, <2>6, Zenon DEF f
  <1>29. CASE MoteAck
    <2>1. out' \in Seq(Ntfs) /\ toAP' \in Seq(ToAP)
      BY <1>29, Tails DEF MoteAck
    <2>2. ap' = ap \/ ap' = [ap EXCEPT !.acked = TRUE]
      BY <1>29 DEF MoteAck
    <2>3. ap' \in [acked : BOOLEAN, lastId : {0, 1, 2}, lastRc : RcSet, lastNtf : {0, 1}]
      BY <2>2
    <2>4. QED BY <1>29, <2>1, <2>3 DEF MoteAck
  <1>30. CASE MoteRepeat
    <2>1. Head(out) \in ToAPC
      BY <1>30, Tails, MakeFrames DEF MoteRepeat
    <2>2. toAPC' \in Seq(ToAPC)
      BY <1>30, <2>1, PutType DEF MoteRepeat
    <2>3. QED BY <1>30, <2>2, MoteCountType DEF MoteRepeat
  <1>31. CASE MoteBoot
    <2>1. BootEvent \in Ntfs /\ BootEvent \in ToAPC
      BY MakeFrames DEF BootEvent, NtfKinds
    <2>2. toAPC' \in Seq(ToAPC) /\ out' \in Seq(Ntfs) /\ toAP' \in Seq(ToAP)
      BY <1>31, <2>1, PutType DEF MoteBoot
    <2>3. ap' \in [acked : BOOLEAN, lastId : {0, 1, 2}, lastRc : RcSet, lastNtf : {0, 1}]
      BY <1>31 DEF MoteBoot, RcSet
    <2>4. QED BY <1>31, <2>2, <2>3, MoteCountType DEF MoteBoot
  <1>32. CASE LineLoses
    <2>1. toAP # <<>> => Tail(toAP) \in Seq(ToAP)
      BY Tails
    <2>2. toAPC # <<>> => Tail(toAPC) \in Seq(ToAPC)
      BY Tails
    <2>3. toAP' \in Seq(ToAP) /\ toAPC' \in Seq(ToAPC)
      BY <1>32, <2>1, <2>2 DEF LineLoses
    <2>4. QED BY <1>32, <2>3, MoteCountType DEF LineLoses
  <1>33. ASSUME NEW kind \in Kinds, MoteNotify(kind) PROVE LineType'
    <2> DEFINE n == moteCount.ntf + 1
               f == [t |-> "ntf", kind |-> kind, n |-> n, id |-> 1 - ap.lastNtf]
    <2>1. kind \in NtfKinds /\ n \in Nat /\ 1 - ap.lastNtf \in {0, 1}
      <3>1. kind \in NtfKinds
        BY MoteAssumption DEF NtfKinds
      <3>2. n \in Nat
        BY DEF Counts
      <3>3. 1 - ap.lastNtf \in {0, 1}
        OBVIOUS
      <3>4. QED BY <3>1, <3>2, <3>3
    <2>2. f \in Ntfs /\ f \in ToAPC /\ f.id \in {0, 1}
      BY <2>1, MakeFrames DEF Ntfs
    <2>3. toAPC' = Put(toAPC, f) /\ out' = <<f>> /\ ap' = [ap EXCEPT !.lastNtf = f.id]
          /\ moteCount' = [moteCount EXCEPT !.ntf = n]
      BY <1>33 DEF MoteNotify
    <2> HIDE DEF f, n
    <2>4. toAPC' \in Seq(ToAPC) /\ out' \in Seq(Ntfs)
      BY <2>2, <2>3, PutType
    <2>5. ap' \in [acked : BOOLEAN, lastId : {0, 1, 2}, lastRc : RcSet, lastNtf : {0, 1}]
      BY <2>2, <2>3
    <2>6. moteCount' \in Counts
      BY <2>3, MoteCountType DEF n
    <2>7. QED BY <1>33, <2>4, <2>5, <2>6 DEF MoteNotify
  <1>34. QED
    BY <1>1, <1>2, <1>3, <1>4, <1>5, <1>6, <1>7, <1>8, <1>9, <1>10, <1>11, <1>12, <1>13, <1>14, <1>15, <1>16, <1>17,
       <1>18, <1>19, <1>20, <1>21, <1>22, <1>23, <1>24, <1>25, <1>26, <1>27, <1>28, <1>29, <1>30, <1>31, <1>32,
       <1>33, <1>16a, <1>24a
    DEF SysNext, TransportNext, IoNext, ThreadNext, AppNext, MoteNext

\* The work of the io thread: a response is handled alone, an acknowledgement is the last thing a notification's
\* handler does.
EndsInAck(w) == w # <<>> /\ w[Len(w)].do = "ack"
AppShape(w)  == \A i \in 1..Len(w) : w[i].do \in {"insert", "running", "disable", "gone", "halted"}
IoShape(w) ==
    \A i \in 1..Len(w) :
       /\ w[i].do \in {"response", "responded", "resumed"} => Len(w) = 1
       /\ w[i].do = "ack" => i = Len(w)
Shape == (\A t \in Apps : AppShape(work[t])) /\ IoShape(work["io"])

\* Work that is done leaves the rest of the same shape.
LEMMA AppShapeTail ==
    ASSUME NEW w \in Seq(Steps), w # <<>>, AppShape(w) PROVE AppShape(Tail(w))
  BY Tails DEF AppShape

\* A step of the io thread leaves work of the same shape.
LEMMA IoShapeTail ==
    ASSUME NEW w \in Seq(Steps), w # <<>>, IoShape(w)
    PROVE  /\ IoShape(Tail(w))
           /\ EndsInAck(Tail(w)) => EndsInAck(w) /\ Tail(w)[Len(Tail(w))] = w[Len(w)]
           /\ EndsInAck(w) /\ Len(w) > 1 => EndsInAck(Tail(w))
           /\ Head(w).do = "ack" => Len(w) = 1 /\ Tail(w) = <<>> /\ EndsInAck(w) /\ w[Len(w)] = Head(w)
           /\ Head(w).do \in {"response", "responded", "resumed"} => Len(w) = 1 /\ Tail(w) = <<>> /\ ~EndsInAck(w)
           /\ Head(w).do # "ack" /\ EndsInAck(w) => Len(w) > 1
  <1>1. /\ Len(w) \in Nat \ {0} /\ Head(w) = w[1] /\ Tail(w) \in Seq(Steps) /\ Len(Tail(w)) = Len(w) - 1
        /\ \A i \in 1..Len(Tail(w)) : i + 1 \in 1..Len(w) /\ Tail(w)[i] = w[i + 1]
    BY Tails
  <1> DEFINE v == Tail(w)
  <1> HIDE DEF v
  <1>2. /\ v \in Seq(Steps) /\ Len(v) = Len(w) - 1
        /\ \A i \in 1..Len(v) : i + 1 \in 1..Len(w) /\ v[i] = w[i + 1]
    BY <1>1 DEF v
  <1>3. /\ w[1].do \in {"response", "responded", "resumed"} => Len(w) = 1
        /\ w[1].do = "ack" => 1 = Len(w)
    <2>1. 1 \in 1..Len(w)
      BY <1>1
    <2>2. QED BY <2>1 DEF IoShape
  <1>4. IoShape(v)
    <2> SUFFICES ASSUME NEW i \in 1..Len(v)
                 PROVE  /\ v[i].do \in {"response", "responded", "resumed"} => Len(v) = 1
                        /\ v[i].do = "ack" => i = Len(v)
      BY DEF IoShape
    <2>1. i + 1 \in 1..Len(w) /\ v[i] = w[i + 1] /\ Len(v) \in 1..Len(v) /\ v[Len(v)] = w[Len(w)]
      BY <1>1, <1>2
    <2>2. /\ w[i + 1].do \in {"response", "responded", "resumed"} => Len(w) = 1
          /\ w[i + 1].do = "ack" => i + 1 = Len(w)
      BY <2>1 DEF IoShape
    <2>3. /\ v[i].do \in {"response", "responded", "resumed"} => Len(w) = 1
          /\ v[i].do = "ack" => i + 1 = Len(w)
      BY <2>1, <2>2
    <2>4. Len(w) \in Nat /\ Len(v) = Len(w) - 1 /\ Len(w) # 1
      BY <1>1, <1>2
    <2>5. QED BY <2>3, <2>4
  <1>5. Len(v) > 0 => v[Len(v)] = w[Len(w)] /\ v # <<>>
    BY <1>1, <1>2
  <1>6. Len(v) = 0 => v = <<>>
    BY <1>2
  <1>7. /\ EndsInAck(v) => EndsInAck(w) /\ v[Len(v)] = w[Len(w)]
        /\ EndsInAck(w) /\ Len(w) > 1 => EndsInAck(v)
    BY <1>1, <1>2, <1>5 DEF EndsInAck
  <1>8. w[1].do = "ack" => Len(w) = 1
    BY <1>3
  <1>9. w[1].do \in {"response", "responded", "resumed"} => Len(w) = 1
    BY <1>3
  <1>10. QED BY <1>1, <1>2, <1>4, <1>5, <1>6, <1>7, <1>8, <1>9 DEF EndsInAck, v

\* The notification in the io thread's hand: taken from the line, not answered yet.
Hand(w) == IF EndsInAck(w) THEN <<w[Len(w)].f>> ELSE <<>>
hand    == Hand(work["io"])

\* Plain steps hold no notification.
LEMMA PlainShape ==
    ASSUME NEW p, PlainSeq(p)
    PROVE  IoShape(p) /\ ~EndsInAck(p) /\ Hand(p) = <<>> /\ (p # <<>> => Head(p).do \notin {"response", "ack"})
  <1>1. p \in Seq(Steps) /\ Len(p) \in Nat
        /\ \A i \in 1..Len(p) : p[i].do \notin {"response", "responded", "resumed", "ack"}
    BY DEF PlainSeq, Plain
  <1>2. p # <<>> => Len(p) \in 1..Len(p) /\ 1 \in 1..Len(p) /\ Head(p) = p[1]
    BY <1>1, Tails
  <1>3. QED BY <1>1, <1>2 DEF IoShape, EndsInAck, Hand

\* A handler of a notification does plain steps and acknowledges.
LEMMA AckPrefix ==
    ASSUME NEW p, PlainSeq(p), NEW f \in Ntfs
    PROVE  LET a == p \o <<[do |-> "ack", f |-> f]>> IN
           /\ a \in Seq(Steps) /\ IoShape(a) /\ EndsInAck(a) /\ Hand(a) = <<f>> /\ a # <<>>
           /\ Head(a).do # "response" /\ Len(a) = Len(p) + 1 /\ \A i \in 1..Len(p) : a[i] = p[i]
  <1> DEFINE x == [do |-> "ack", f |-> f]
             a == p \o <<x>>
  <1>1. x \in Steps /\ x.do = "ack" /\ x.f = f
    BY MakeSteps
  <1>2. p \in Seq(Steps) /\ Len(p) \in Nat
        /\ \A i \in 1..Len(p) : p[i].do \notin {"response", "responded", "resumed", "ack"}
    BY DEF PlainSeq, Plain
  <1> HIDE DEF x
  <1>3. /\ a \in Seq(Steps) /\ Len(a) = Len(p) + 1 /\ a[Len(p) + 1] = x /\ a # <<>>
        /\ \A i \in 1..Len(p) : a[i] = p[i]
    BY <1>1, <1>2
  <1> HIDE DEF a
  <1>4. \A i \in 1..Len(a) : i \in 1..Len(p) \/ i = Len(p) + 1
    BY <1>2, <1>3
  <1>5. IoShape(a) /\ EndsInAck(a)
    BY <1>1, <1>2, <1>3, <1>4 DEF IoShape, EndsInAck
  <1>6. Hand(a) = <<f>>
    BY <1>1, <1>3, <1>5 DEF Hand
  <1>7. Head(a).do # "response"
    <2>1. Head(a) = a[1] /\ 1 \in 1..Len(a)
      BY <1>3, Tails
    <2>2. QED BY <1>1, <1>2, <1>3, <1>4, <2>1
  <1>8. QED BY <1>3, <1>5, <1>6, <1>7 DEF a, x

\* What a plain step puts before the rest of the io thread's work keeps the shape and the notification in the hand.
LEMMA IoPrefix ==
    ASSUME NEW w \in Seq(Steps), w # <<>>, IoShape(w), Head(w).do \in Plain \cup {"insert"}, NEW p, PlainSeq(p)
    PROVE  LET a == p \o Tail(w) IN
           /\ a \in Seq(Steps) /\ IoShape(a) /\ Hand(a) = Hand(w) /\ (EndsInAck(a) <=> EndsInAck(w))
           /\ a # <<>> => Head(a).do # "response"
  <1> DEFINE v == Tail(w)
             a == p \o v
  <1>1. /\ Len(w) \in Nat \ {0} /\ Head(w) = w[1] /\ v \in Seq(Steps) /\ Len(v) = Len(w) - 1
        /\ \A i \in 1..Len(v) : i + 1 \in 1..Len(w) /\ v[i] = w[i + 1]
    BY Tails
  <1>2. p \in Seq(Steps) /\ \A i \in 1..Len(p) : p[i].do \notin {"response", "responded", "resumed", "ack"}
    BY DEF PlainSeq, Plain
  <1>3. Head(w).do \notin {"response", "responded", "resumed", "ack"}
    BY DEF Plain
  <1>4. EndsInAck(v) <=> EndsInAck(w)
    BY <1>1, <1>3, IoShapeTail
  <1>5. EndsInAck(v) => v[Len(v)] = w[Len(w)]
    BY IoShapeTail
  <1>6. IoShape(v)
    BY IoShapeTail
  <1> HIDE DEF v
  <1>7. /\ a \in Seq(Steps) /\ Len(a) = Len(p) + Len(v) /\ Len(p) \in Nat /\ Len(v) \in Nat
        /\ \A i \in 1..Len(p) : a[i] = p[i]
        /\ \A i \in 1..(Len(p) + Len(v)) : i > Len(p) => a[i] = v[i - Len(p)]
    BY <1>1, <1>2, Concats
  <1> HIDE DEF a
  <1>8. \A i \in 1..Len(v) : v[i].do \notin {"response", "responded", "resumed"} /\ (v[i].do = "ack" => i = Len(v))
    <2> SUFFICES ASSUME NEW i \in 1..Len(v) PROVE v[i].do \notin {"response", "responded", "resumed"} /\ (v[i].do = "ack" => i = Len(v))
      OBVIOUS
    <2>1. i + 1 \in 1..Len(w) /\ v[i] = w[i + 1] /\ Len(w) # 1
      BY <1>1
    <2>2. QED BY <1>6, <2>1 DEF IoShape
  <1>9. ASSUME NEW i \in 1..Len(a)
        PROVE  a[i].do \notin {"response", "responded", "resumed"} /\ (a[i].do = "ack" => i = Len(a))
    <2>1. i \in 1..Len(p) \/ (i > Len(p) /\ i - Len(p) \in 1..Len(v) /\ i \in 1..(Len(p) + Len(v)))
      BY <1>7
    <2>2. CASE i \in 1..Len(p)
      BY <1>2, <1>7, <2>2
    <2>3. CASE i > Len(p) /\ i - Len(p) \in 1..Len(v) /\ i \in 1..(Len(p) + Len(v))
      <3>1. a[i] = v[i - Len(p)]
        BY <1>7, <2>3
      <3>2. a[i].do = "ack" => i - Len(p) = Len(v)
        BY <1>8, <2>3, <3>1
      <3>3. QED BY <1>7, <1>8, <2>3, <3>1, <3>2
    <2>4. QED BY <2>1, <2>2, <2>3
  <1>10. IoShape(a)
    BY <1>9 DEF IoShape
  <1>11. Len(v) > 0 => a # <<>> /\ a[Len(a)] = v[Len(v)] /\ v # <<>>
    BY <1>7, <1>1
  <1>12. Len(v) = 0 => ~EndsInAck(v) /\ ~EndsInAck(a)
    <2> SUFFICES ASSUME Len(v) = 0 PROVE ~EndsInAck(v) /\ ~EndsInAck(a)
      OBVIOUS
    <2>1. v = <<>>
      BY <1>1
    <2>2. a # <<>> => Len(a) \in 1..Len(p) /\ a[Len(a)] = p[Len(a)]
      BY <1>7
    <2>3. QED BY <1>2, <2>1, <2>2 DEF EndsInAck
  <1>13. EndsInAck(a) <=> EndsInAck(v)
    BY <1>7, <1>11, <1>12 DEF EndsInAck
  <1>14. EndsInAck(a) => a[Len(a)] = w[Len(w)]
    BY <1>5, <1>7, <1>11, <1>12, <1>13
  <1>15. Hand(a) = Hand(w)
    BY <1>4, <1>13, <1>14 DEF Hand
  <1>16. a # <<>> => Head(a).do # "response"
    <2> SUFFICES ASSUME a # <<>> PROVE Head(a).do # "response"
      OBVIOUS
    <2>1. Head(a) = a[1] /\ 1 \in 1..Len(a)
      BY <1>7, Tails
    <2>2. QED BY <1>9, <2>1
  <1>17. QED BY <1>4, <1>7, <1>10, <1>13, <1>15, <1>16 DEF a, v

\* The calls of a thread that lost the port have the shape of its work.
LEMMA AppPrefix ==
    ASSUME NEW w \in Seq(Steps), w # <<>>, AppShape(w) PROVE AppShape(sendAPLostNotif_p \o Tail(w))
  <1> DEFINE v == Tail(w)
             p == sendAPLostNotif_p
             a == p \o v
  <1>1. v \in Seq(Steps) /\ AppShape(v)
    BY Tails, AppShapeTail
  <1>2. p \in Seq(Steps) /\ \A i \in 1..Len(p) : p[i].do \in {"disable", "gone", "halted"}
    <2>1. p \in Seq(Steps)
      BY PlainSeqs DEF PlainSeq
    <2>2. \A i \in 1..3 : p[i].do \in {"disable", "gone", "halted"}
      BY DEF sendAPLostNotif_p
    <2>3. Len(p) = 3
      BY DEF sendAPLostNotif_p
    <2>4. QED BY <2>1, <2>2, <2>3
  <1> HIDE DEF v, p
  <1>3. /\ a \in Seq(Steps) /\ Len(a) = Len(p) + Len(v) /\ Len(p) \in Nat /\ Len(v) \in Nat
        /\ \A i \in 1..Len(p) : a[i] = p[i]
        /\ \A i \in 1..(Len(p) + Len(v)) : i > Len(p) => a[i] = v[i - Len(p)]
    BY <1>1, <1>2, Concats
  <1> HIDE DEF a
  <1>4. ASSUME NEW i \in 1..Len(a) PROVE a[i].do \in {"insert", "running", "disable", "gone", "halted"}
    <2>1. i \in 1..Len(p) \/ (i > Len(p) /\ i - Len(p) \in 1..Len(v) /\ i \in 1..(Len(p) + Len(v)))
      BY <1>3
    <2>2. CASE i \in 1..Len(p)
      BY <1>2, <1>3, <2>2
    <2>3. CASE i > Len(p) /\ i - Len(p) \in 1..Len(v) /\ i \in 1..(Len(p) + Len(v))
      <3>1. a[i] = v[i - Len(p)]
        BY <1>3, <2>3
      <3>2. QED BY <1>1, <2>3, <3>1 DEF AppShape
    <2>4. QED BY <2>1, <2>2, <2>3
  <1>5. QED BY <1>4 DEF AppShape, a, p, v

\* What handleAPBoot_told and handleAPBoot_booted put before the rest of the io thread's work.
told_p   == Inserts(BootOps) \o (IF m_isRunning THEN <<[do |-> "disable"], [do |-> "halted"]>>
                                                ELSE <<[do |-> "booted"]>>)
booted_p == IF m_isMngrConnected THEN startJoin ELSE <<>>

\* Both are plain.
LEMMA BootPlain == PlainSeq(told_p) /\ PlainSeq(booted_p)
  BY PlainSeqs DEF told_p, booted_p

\* The two steps, and the io thread's loss of its port in insertMsg, by what they put there.
LEMMA PrefixSteps ==
    ASSUME TypeInv, NEW p, \/ handleAPBoot_told /\ p = told_p
                           \/ handleAPBoot_booted /\ p = booted_p
                           \/ insertMsg("io") /\ ~isReady /\ p = sendAPLostNotif_p
    PROVE  /\ work["io"] # <<>> /\ Head(work["io"]).do \in Plain \cup {"insert"} /\ PlainSeq(p)
           /\ work' = [work EXCEPT !["io"] = p \o Tail(@)] /\ work'["io"] = p \o Tail(work["io"])
  <1>1. PlainSeq(p)
    BY BootPlain, PlainSeqs
  <1>2. work["io"] # <<>> /\ Head(work["io"]).do \in {"boot", "booted", "insert"}
    BY DEF handleAPBoot_told, handleAPBoot_booted, insertMsg, Doing
  <1>3. work' = [work EXCEPT !["io"] = p \o Tail(@)]
    BY DEF handleAPBoot_told, handleAPBoot_booted, insertMsg, told_p, booted_p
  <1>4. work'["io"] = p \o Tail(work["io"])
    BY <1>3, IoThread DEF TypeInv, WorkType
  <1>5. QED BY <1>1, <1>2, <1>3, <1>4 DEF Plain

\* They keep the shape of the threads' work.
LEMMA ShapePrefix ==
    ASSUME TypeInv, Shape, handleAPBoot_told \/ handleAPBoot_booted \/ (insertMsg("io") /\ ~isReady) PROVE Shape'
  <1>1. PICK p : \/ handleAPBoot_told /\ p = told_p
                 \/ handleAPBoot_booted /\ p = booted_p
                 \/ insertMsg("io") /\ ~isReady /\ p = sendAPLostNotif_p
    OBVIOUS
  <1>2. /\ work["io"] # <<>> /\ Head(work["io"]).do \in Plain \cup {"insert"} /\ PlainSeq(p)
        /\ work' = [work EXCEPT !["io"] = p \o Tail(@)] /\ work'["io"] = p \o Tail(work["io"])
    BY <1>1, PrefixSteps
  <1>3. IoShape(work'["io"])
    BY <1>2, IoPrefix, IoThread DEF TypeInv, WorkType, Shape
  <1>4. \A t \in Apps : work'[t] = work[t]
    BY <1>2, IoThread DEF TypeInv, WorkType
  <1>5. QED BY <1>3, <1>4 DEF Shape

\* The boot event's handler has it in its hand.
LEMMA BootWork ==
    ASSUME NEW f \in Ntfs
    PROVE  LET b == <<[do |-> "boot"], [do |-> "ack", f |-> f]>> IN
           /\ b \in Seq(Steps) /\ IoShape(b) /\ EndsInAck(b) /\ Hand(b) = <<f>> /\ Head(b).do # "response"
           /\ b[1].do = "boot" /\ Len(b) = 2
  <1> DEFINE x == [do |-> "boot"]
             y == [do |-> "ack", f |-> f]
             b == <<x, y>>
  <1>1. x \in Steps /\ y \in Steps /\ x.do = "boot" /\ y.do = "ack" /\ y.f = f
    BY MakeSteps DEF Plain
  <1> HIDE DEF x, y
  <1>2. b \in Seq(Steps) /\ Len(b) = 2 /\ b[1] = x /\ b[2] = y /\ b # <<>> /\ Head(b) = x
    BY <1>1
  <1> HIDE DEF b
  <1>3. \A i \in 1..2 : i = 1 \/ i = 2
    OBVIOUS
  <1>4. IoShape(b) /\ EndsInAck(b)
    BY <1>1, <1>2, <1>3 DEF IoShape, EndsInAck
  <1>5. QED BY <1>1, <1>2, <1>4 DEF Hand, b, x, y

\* Every step keeps the shape of the threads' work.
LEMMA ShapeStep == TypeInv /\ Shape /\ [SysNext]_allVars => Shape'
  <1> SUFFICES ASSUME TypeInv /\ Shape, [SysNext]_allVars PROVE Shape'
    OBVIOUS
  <1> USE DEF queueVars, timerVars, flowVars, joinVars, threadVars, ctlVars, logVars, vars, moteVars, allVars,
              Bridge, TypeInv, Shape, WorkType
  <1>1. CASE UNCHANGED allVars
    BY <1>1 DEF allVars, vars
  <1>2. CASE handleMsg_response /\ UNCHANGED moteVars
    <2>1. IoShape(work'["io"])
      BY <1>2, IoThread DEF handleMsg_response, Receive, IoShape
    <2>2. QED BY <1>2, <2>1, IoThread DEF handleMsg_response, Receive, IoShape
  <1>3. CASE handleResponse /\ UNCHANGED moteVars
    <2>1. IoShape(work'["io"])
      BY <1>3, IoThread DEF handleResponse, IoShape
    <2>2. QED BY <1>3, <2>1, IoThread DEF handleResponse, IoShape
  <1>4. CASE handleResponse_resume /\ UNCHANGED moteVars
    <2>1. IoShape(<<[Head(work["io"]) EXCEPT !.do = "resumed"]>>)
      <3>1. Head(work["io"]) \in Steps /\ Head(work["io"]).do = "responded"
        BY <1>4, IoThread, Tails DEF handleResponse_resume, Doing
      <3>2. [Head(work["io"]) EXCEPT !.do = "resumed"].do = "resumed"
        BY <3>1 DEF Steps
      <3> DEFINE e == [Head(work["io"]) EXCEPT !.do = "resumed"]
      <3>3. e.do = "resumed"
        BY <3>2
      <3> HIDE DEF e
      <3>4. IoShape(<<e>>)
        BY <3>3 DEF IoShape
      <3>5. QED BY <3>4 DEF e
    <2>2. QED BY <1>4, <2>1, IoThread DEF handleResponse_resume
  <1>5. CASE handleResponse_end /\ UNCHANGED moteVars
    BY <1>5, IoThread, Tails, IoShapeTail, AppShapeTail DEF handleResponse_end, Doing, Done, send
  <1>6. CASE handleNotification_retry /\ UNCHANGED moteVars
    BY <1>6 DEF handleNotification_retry, Receive, IsNew
  <1>7. CASE handleNotification_nack /\ UNCHANGED moteVars
    BY <1>7 DEF handleNotification_nack, Receive, IsNew
  <1>8. CASE handleNotification /\ UNCHANGED moteVars
    <2>1. Head(toAPC) \in Ntfs
      BY <1>8, Tails, MakeFrames DEF handleNotification, Receive, LineType
    <2>2. IoShape(work'["io"])
      BY <1>8, <2>1, IoThread, CouplerOpsType, PlainSeqs, AckPrefix DEF handleNotification, Receive
    <2>3. QED BY <1>8, <2>2, IoThread DEF handleNotification, Receive
  <1>9. CASE handleAPBoot /\ UNCHANGED moteVars
    <2>1. Head(toAPC) \in Ntfs
      BY <1>9, Tails, MakeFrames DEF handleAPBoot, Receive, LineType
    <2>2. IoShape(work'["io"])
      BY <1>9, <2>1, IoThread, BootWork DEF handleAPBoot
    <2>3. QED BY <1>9, <2>2, IoThread DEF handleAPBoot
  <1>10. CASE handleAPBoot_lost /\ UNCHANGED moteVars
    <2>1. Head(toAPC) \in Ntfs
      BY <1>10, Tails, MakeFrames DEF handleAPBoot_lost, Receive, LineType
    <2>2. IoShape(work'["io"])
      BY <1>10, <2>1, IoThread, PlainSeqs, AckPrefix DEF handleAPBoot_lost
    <2>3. QED BY <1>10, <2>2, IoThread DEF handleAPBoot_lost
  <1>11. CASE handleAPBoot_booted /\ UNCHANGED moteVars
    BY <1>11, ShapePrefix
  <1>12. CASE handleAPBoot_told /\ UNCHANGED moteVars
    BY <1>12, ShapePrefix
  <1>13. CASE handleNotification_ack /\ UNCHANGED moteVars
    BY <1>13, IoThread, Tails, IoShapeTail, AppShapeTail DEF handleNotification_ack, Doing, Done
  <1>14. CASE OutputTimerExpires /\ UNCHANGED moteVars
    BY <1>14 DEF OutputTimerExpires
  <1>15. CASE handleRetryTimeout /\ UNCHANGED moteVars
    BY <1>15 DEF handleRetryTimeout, RetryDue, send
  <1>16. CASE handleRetryTimeout_lost /\ UNCHANGED moteVars
    <2>1. IoShape(sendAPLostNotif_p \o <<[do |-> "reset"]>>)
      BY PlainSeqs, PlainShape
    <2>2. QED BY <1>16, <2>1, IoThread DEF handleRetryTimeout_lost
  <1>16a. CASE handleRetryTimeout_reset /\ UNCHANGED moteVars
    BY <1>16a, IoThread, Tails, IoShapeTail, AppShapeTail DEF handleRetryTimeout_reset, Doing, Done
  <1>17. CASE handleQueueCheckTimeout /\ UNCHANGED moteVars
    BY <1>17 DEF handleQueueCheckTimeout
  <1>18. CASE handlePingTimeout /\ UNCHANGED moteVars
    <2>1. IoShape(Inserts(<<GetParam>>))
      <3>1. <<GetParam>> \in Seq(Ops)
        BY OpsType
      <3>2. QED BY <3>1, PlainSeqs, PlainShape
    <2>2. QED BY <1>18, <2>1, IoThread DEF handlePingTimeout
  <1>19. ASSUME NEW t \in Threads, insertMsg(t), UNCHANGED moteVars PROVE Shape'
    <2>1. IoShape(Tail(work["io"])) \/ t # "io"
      BY <1>19, IoShapeTail DEF insertMsg, Doing
    <2>2. AppShape(Tail(work[t])) \/ t \notin Apps
      BY <1>19, AppShapeTail DEF insertMsg, Doing
    <2>3. CASE work' = work \/ work' = [work EXCEPT ![t] = Tail(@)]
      BY <2>1, <2>2, <2>3, IoThread
    <2>4. CASE ~isReady /\ t = "io"
      BY <1>19, <2>4, ShapePrefix
    <2>5. CASE ~isReady /\ t # "io"
      <3>1. work[t] # <<>> /\ work' = [work EXCEPT ![t] = sendAPLostNotif_p \o Tail(@)]
        BY <1>19, <2>5 DEF insertMsg, Doing
      <3>2. t \in Apps
        BY <2>5 DEF Threads
      <3>3. AppShape(sendAPLostNotif_p \o Tail(work[t]))
        BY <3>1, <3>2, AppPrefix
      <3>4. QED BY <2>5, <3>1, <3>2, <3>3, IoThread
    <2>6. QED BY <1>19, <2>3, <2>4, <2>5 DEF insertMsg, Done
  <1>20. ASSUME NEW t \in Threads, insertMsg_send(t), UNCHANGED moteVars PROVE Shape'
    BY <1>20 DEF insertMsg_send, send
  <1>21. ASSUME NEW t \in Threads, insertMsg_mark(t), UNCHANGED moteVars PROVE Shape'
    <2>1. IoShape(Tail(work["io"])) \/ t # "io"
      BY <1>21, IoShapeTail DEF insertMsg_mark
    <2>2. AppShape(Tail(work[t])) \/ t \notin Apps
      BY <1>21, AppShapeTail DEF insertMsg_mark
    <2>3. work' = work \/ work' = [work EXCEPT ![t] = Tail(@)]
      BY <1>21 DEF insertMsg_mark, LeaveInsert, Done
    <2>4. QED BY <2>1, <2>2, <2>3, IoThread
  <1>22. ASSUME NEW t \in Threads, insertMsg_tell(t), UNCHANGED moteVars PROVE Shape'
    BY <1>22 DEF insertMsg_tell
  <1>23. ASSUME NEW t \in Threads, insertMsg_set(t), UNCHANGED moteVars PROVE Shape'
    BY <1>23, IoThread, Tails, IoShapeTail, AppShapeTail DEF insertMsg_set, LeaveInsert, Done
  <1>24. ASSUME NEW t \in Threads, startJoin_p_end(t), UNCHANGED moteVars PROVE Shape'
    BY <1>24, IoThread, Tails, IoShapeTail, AppShapeTail DEF startJoin_p_end, Doing, Done
  <1>24a. ASSUME NEW t \in Threads, apGone(t), UNCHANGED moteVars PROVE Shape'
    <2>1. work[t] # <<>> /\ work' = [work EXCEPT ![t] = Tail(@)]
      BY <1>24a DEF apGone, Doing, Done
    <2>2. QED BY <2>1, IoThread, Tails, IoShapeTail, AppShapeTail
  <1>25. ASSUME NEW t \in Apps, NEW op \in AppOps, AppInsert(t, op), UNCHANGED moteVars PROVE Shape'
    <2>1. AppShape(Inserts(<<op>>))
      <3>1. <<op>> \in Seq(Ops)
        BY OpsType
      <3>2. QED BY <3>1, InsertsType DEF AppShape
    <2>2. QED BY <1>25, <2>1, IoThread DEF AppInsert
  <1>26. ASSUME NEW t \in Apps, enableJoin(t), UNCHANGED moteVars PROVE Shape'
    <2>1. AppShape(startJoin) /\ AppShape(<<>>)
      BY StartJoinType DEF AppShape
    <2>2. QED BY <1>26, <2>1, IoThread DEF enableJoin
  <1>27. ASSUME NEW t \in Apps, Control(t), UNCHANGED moteVars PROVE Shape'
    BY <1>27 DEF Control, disableJoin, setAPMState, setAbort, hwResetAP
  <1>28. CASE MoteCommand
    BY <1>28 DEF MoteCommand
  <1>29. CASE MoteAck
    BY <1>29 DEF MoteAck
  <1>30. CASE MoteRepeat
    BY <1>30 DEF MoteRepeat
  <1>31. CASE MoteBoot
    BY <1>31 DEF MoteBoot
  <1>32. CASE LineLoses
    BY <1>32 DEF LineLoses
  <1>33. ASSUME NEW kind \in Kinds, MoteNotify(kind) PROVE Shape'
    BY <1>33 DEF MoteNotify
  <1>34. QED
    BY <1>1, <1>2, <1>3, <1>4, <1>5, <1>6, <1>7, <1>8, <1>9, <1>10, <1>11, <1>12, <1>13, <1>14, <1>15, <1>16, <1>17,
       <1>18, <1>19, <1>20, <1>21, <1>22, <1>23, <1>24, <1>25, <1>26, <1>27, <1>28, <1>29, <1>30, <1>31, <1>32,
       <1>33, <1>16a, <1>24a
    DEF SysNext, TransportNext, IoNext, ThreadNext, AppNext, MoteNext

-----------------------------------------------------------------------------
(* The one token *)

\* Only the acknowledgement takes the notification out of the hand.
LEMMA HandTail ==
    ASSUME NEW w \in Seq(Steps), w # <<>>, IoShape(w)
    PROVE  /\ Head(w).do # "ack" => Hand(Tail(w)) = Hand(w)
           /\ Head(w).do = "ack" => Hand(w) = <<Head(w).f>> /\ Hand(Tail(w)) = <<>>
  <1>1. CASE Head(w).do = "ack"
    BY <1>1, IoShapeTail DEF Hand, EndsInAck
  <1>2. CASE Head(w).do # "ack"
    <2>1. EndsInAck(Tail(w)) => EndsInAck(w) /\ Tail(w)[Len(Tail(w))] = w[Len(w)]
      BY IoShapeTail
    <2>2. EndsInAck(w) => EndsInAck(Tail(w))
      BY <1>2, IoShapeTail
    <2>3. QED BY <1>2, <2>1, <2>2 DEF Hand
  <1>3. QED BY <1>1, <1>2

\* There is one token: the notification the mote waits for an answer to.  A notification on the line, in the io
\* thread's hand, or an acknowledgement on the line is the token's, and a hand that holds it excludes an acknowledgement.
NoAck   == \A i \in 1..Len(toAP) : toAP[i].t # "ack"
NoNtf   == \A i \in 1..Len(toAPC) : toAPC[i].t # "ntf"
OneNtf  == \A i \in 1..Len(toAPC) : toAPC[i].t = "ntf" =>
              /\ out = <<toAPC[i]>> /\ hand = <<>> /\ NoAck
              /\ \A j \in 1..Len(toAPC) : toAPC[j].t = "ntf" => j = i
OneWork == hand # <<>> => out = hand /\ NoAck
OneAck  == \A i \in 1..Len(toAP) : toAP[i].t = "ack" =>
              /\ out # <<>> /\ toAP[i].id = Head(out).id
              /\ \A j \in 1..Len(toAP) : toAP[j].t = "ack" => j = i
OneToken == (out = <<>> \/ out = <<Head(out)>>) /\ OneNtf /\ OneWork /\ OneAck

\* A notification leaves the hand only when its packet id was recorded.
HandKept == hand # <<>> => hand' # <<>> \/ m_notifPacketId' = Head(hand).id

\* The mote sends a new notification only when nothing of the last one is under way.
LEMMA NoUnderway == TypeInv => (~AckUnderway => NoAck /\ NoNtf /\ hand = <<>>)
  BY DEF TypeInv, LineType, AckUnderway, NoAck, NoNtf, hand, Hand, EndsInAck

\* The lines carry frames.
Line == toAP \in Seq(ToAP) /\ toAPC \in Seq(ToAPC)

\* The token stays where it is when nothing of it changes.
LEMMA TokSame ==
    ASSUME OneToken, UNCHANGED <<toAP, toAPC, out>>, hand' = hand PROVE OneToken'
  BY DEF OneToken, OneNtf, OneWork, OneAck, NoAck

\* A request is no part of the token.
LEMMA TokReq ==
    ASSUME OneToken, Line, UNCHANGED <<toAPC, out>>, hand' = hand, NEW f \in ToAP, f.t = "req",
           toAP' = Append(toAP, f)
    PROVE  OneToken'
  BY DEF OneToken, OneNtf, OneWork, OneAck, NoAck, Line

\* A frame lost on the way to the AP can only take an acknowledgement away.
LEMMA TokLoseAP ==
    ASSUME OneToken, Line, UNCHANGED <<toAPC, out>>, hand' = hand, toAP # <<>>, toAP' = Tail(toAP)
    PROVE  OneToken'
  <1>1. NoAck => NoAck'
    BY DEF NoAck, Line
  <1>2. OneAck'
    BY DEF OneToken, OneAck, Line
  <1>3. QED BY <1>1, <1>2 DEF OneToken, OneNtf, OneWork

\* A frame lost on the way to the bridge can only take a notification away.
LEMMA TokLoseAPC ==
    ASSUME OneToken, Line, UNCHANGED <<toAP, out>>, hand' = hand, toAPC # <<>>, toAPC' = Tail(toAPC)
    PROVE  OneToken'
  <1>1. NoAck => NoAck'
    BY DEF NoAck
  <1>2. OneNtf'
    BY <1>1 DEF OneToken, OneNtf, Line
  <1>3. QED BY <1>1, <1>2 DEF OneToken, OneAck, OneWork

\* A response is no part of the token.
LEMMA TokRsp ==
    ASSUME OneToken, Line, UNCHANGED out, hand' = hand, toAP # <<>>, toAP' = Tail(toAP),
           NEW f \in ToAPC, f.t = "rsp", toAPC' = Append(toAPC, f)
    PROVE  OneToken'
  <1>1. NoAck => NoAck'
    BY DEF NoAck, Line
  <1>2. OneAck'
    BY DEF OneToken, OneAck, Line
  <1>3. OneNtf'
    BY <1>1 DEF OneToken, OneNtf, Line
  <1>4. QED BY <1>1, <1>2, <1>3 DEF OneToken, OneWork

\* The io thread takes the notification into its hand.
LEMMA TokTake ==
    ASSUME OneToken, Line, UNCHANGED <<toAP, out>>, toAPC # <<>>, Head(toAPC).t = "ntf",
           toAPC' = Tail(toAPC), hand' = <<Head(toAPC)>>
    PROVE  OneToken' /\ out = <<Head(toAPC)>> /\ NoAck /\ NoNtf'
  <1>1. out = <<Head(toAPC)>> /\ NoAck /\ \A j \in 1..Len(toAPC) : toAPC[j].t = "ntf" => j = 1
    BY DEF OneToken, OneNtf, Line
  <1>2. NoNtf'
    BY <1>1 DEF NoNtf, Line
  <1>3. NoAck'
    BY <1>1 DEF NoAck
  <1>4. QED BY <1>1, <1>2, <1>3 DEF OneToken, OneNtf, NoNtf, OneWork, OneAck, NoAck

\* A repeated or refused notification is answered at once.
LEMMA TokAnswer ==
    ASSUME OneToken, Line, UNCHANGED out, hand' = hand, toAPC # <<>>, Head(toAPC).t = "ntf",
           toAPC' = Tail(toAPC), NEW f \in ToAP, f.t = "ack", f.id = Head(toAPC).id,
           toAP' = toAP \/ toAP' = Append(toAP, f)
    PROVE  OneToken' /\ out = <<Head(toAPC)>>
  <1>1. out = <<Head(toAPC)>> /\ NoAck /\ hand = <<>> /\ \A j \in 1..Len(toAPC) : toAPC[j].t = "ntf" => j = 1
    BY DEF OneToken, OneNtf, Line
  <1>2. NoNtf'
    <2>1. \A i \in 1..Len(Tail(toAPC)) : i + 1 \in 1..Len(toAPC) /\ Tail(toAPC)[i] = toAPC[i + 1] /\ i + 1 # 1
      BY Tails DEF Line
    <2>2. QED BY <1>1, <2>1 DEF NoNtf
  <1>3. OneAck'
    <2>1. \A i \in 1..Len(toAP') : toAP'[i].t = "ack" => i = Len(toAP) + 1 /\ toAP'[i] = f
      <3>1. CASE toAP' = toAP
        BY <1>1, <3>1 DEF NoAck
      <3>2. CASE toAP' = Append(toAP, f)
        BY <1>1, <3>2 DEF NoAck, Line
      <3>3. QED BY <3>1, <3>2
    <2>2. QED BY <1>1, <2>1 DEF OneAck
  <1>4. QED BY <1>1, <1>2, <1>3 DEF OneToken, OneNtf, NoNtf, OneWork

\* The io thread acknowledges the notification in its hand.
LEMMA TokAck ==
    ASSUME OneToken, Line, UNCHANGED <<toAPC, out>>, NEW g, hand = <<g>>, hand' = <<>>,
           NEW f \in ToAP, f.t = "ack", f.id = g.id,
           toAP' = toAP \/ toAP' = Append(toAP, f)
    PROVE  OneToken' /\ out = <<g>>
  <1>1. out = <<g>> /\ NoAck /\ NoNtf
    BY DEF OneToken, OneNtf, OneWork, NoNtf
  <1>2. NoNtf'
    BY <1>1 DEF NoNtf
  <1>3. OneAck'
    <2>1. \A i \in 1..Len(toAP') : toAP'[i].t = "ack" => i = Len(toAP) + 1 /\ toAP'[i] = f
      <3>1. CASE toAP' = toAP
        BY <1>1, <3>1 DEF NoAck
      <3>2. CASE toAP' = Append(toAP, f)
        BY <1>1, <3>2 DEF NoAck, Line
      <3>3. QED BY <3>1, <3>2
    <2>2. QED BY <1>1, <2>1 DEF OneAck
  <1>4. QED BY <1>1, <1>2, <1>3 DEF OneToken, OneNtf, NoNtf, OneWork

\* The mote takes an acknowledgement: the token is gone.
LEMMA TokMoteAck ==
    ASSUME OneToken, Line, UNCHANGED toAPC, hand' = hand, toAP # <<>>, Head(toAP).t = "ack",
           toAP' = Tail(toAP), out' = out \/ out' = <<>>
    PROVE  OneToken' /\ NoAck' /\ NoNtf /\ hand = <<>>
  <1>1. NoNtf /\ hand = <<>> /\ \A j \in 1..Len(toAP) : toAP[j].t = "ack" => j = 1
    BY DEF OneToken, OneNtf, OneWork, OneAck, NoAck, NoNtf, Line
  <1>2. NoAck' /\ NoNtf'
    BY <1>1 DEF NoAck, NoNtf, Line
  <1>3. QED BY <1>1, <1>2 DEF OneToken, OneNtf, OneWork, OneAck, NoAck, NoNtf

\* The mote sends a notification, or the boot event, with nothing of an earlier one under way.
LEMMA TokNew ==
    ASSUME Line, NoAck, NoNtf, hand = <<>>, hand' = hand, NEW f \in ToAPC, out' = <<f>>,
           toAPC' = toAPC \/ toAPC' = Append(toAPC, f), toAP' = toAP \/ toAP' = <<>>
    PROVE  OneToken'
  <1>1. NoAck'
    BY DEF NoAck
  <1>2. OneNtf'
    <2>1. \A i \in 1..Len(toAPC') : toAPC'[i].t = "ntf" => i = Len(toAPC) + 1 /\ toAPC'[i] = f
      BY DEF NoNtf, Line
    <2>2. QED BY <1>1, <2>1 DEF OneNtf
  <1>3. QED BY <1>1, <1>2 DEF OneToken, OneWork, OneAck, NoAck

\* Without a token there is no notification and no acknowledgement anywhere.
LEMMA TokIdle == ASSUME OneToken, out = <<>> PROVE NoAck /\ NoNtf /\ hand = <<>>
  BY DEF OneToken, OneNtf, OneWork, OneAck, NoAck, NoNtf

\* Insertions put nothing into the hand.
LEMMA HandInserts == ASSUME NEW ops \in Seq(Ops) PROVE Hand(Inserts(ops)) = <<>> /\ ~EndsInAck(Inserts(ops))
  <1> DEFINE w == Inserts(ops)
  <1>1. w \in Seq(Steps) /\ \A i \in 1..Len(w) : w[i].do = "insert"
    BY InsertsType
  <1> HIDE DEF w
  <1>2. ~EndsInAck(w)
    BY <1>1 DEF EndsInAck
  <1>3. QED BY <1>2 DEF Hand, w

\* What send does to the line: nothing, or a request.
LEMMA SendEffect ==
    ASSUME TypeInv, NEW b \in BOOLEAN, send(b)
    PROVE  toAP' = toAP \/ \E f \in ToAP : f.t = "req" /\ toAP' = Append(toAP, f)
  <1>1. CASE CanSend(b)
    <2> DEFINE cmd == Head(m_outputQueue)
               f == [t |-> "req", op |-> cmd.op, n |-> cmd.n, id |-> RequestId(b)]
    <2>1. cmd \in Cmds /\ RequestId(b) \in {0, 1}
      BY <1>1, Tails DEF CanSend, RequestId, LineType, QueueType, TypeInv
    <2>2. f \in ToAP /\ f.t = "req"
      BY <2>1, MakeFrames
    <2>3. toAP' = Put(toAP, f)
      BY <1>1 DEF send
    <2> HIDE DEF f
    <2>4. QED BY <2>2, <2>3 DEF Put
  <1>2. CASE ~CanSend(b)
    BY <1>2 DEF send
  <1>3. QED BY <1>1, <1>2

\* What a retry does to the line: nothing, or a request.
LEMMA RetryEffect ==
    ASSUME TypeInv, handleRetryTimeout
    PROVE  toAP' = toAP \/ \E f \in ToAP : f.t = "req" /\ toAP' = Append(toAP, f)
  <1> DEFINE cmd == Head(m_outputQueue)
             f == [t |-> "req", op |-> cmd.op, n |-> cmd.n, id |-> RequestId(FALSE)]
  <1>1. send(FALSE) \/ toAP' = toAP \/ (m_outputQueue # <<>> /\ toAP' = Put(toAP, f))
    BY DEF handleRetryTimeout
  <1>2. CASE m_outputQueue # <<>> /\ toAP' = Put(toAP, f)
    <2>1. cmd \in Cmds /\ RequestId(FALSE) \in {0, 1}
      BY <1>2, Tails DEF RequestId, LineType, QueueType, TypeInv
    <2>2. f \in ToAP /\ f.t = "req"
      BY <2>1, MakeFrames
    <2> HIDE DEF f
    <2>3. QED BY <1>2, <2>2 DEF Put
  <1>3. QED BY <1>1, <1>2, SendEffect

\* The mote's next notification is a notification.
LEMMA NotifyType ==
    ASSUME LineType, NEW kind \in Kinds
    PROVE  [t |-> "ntf", kind |-> kind, n |-> moteCount.ntf + 1, id |-> 1 - ap.lastNtf] \in ToAPC
  <1>1. kind \in NtfKinds
    BY MoteAssumption DEF NtfKinds
  <1>2. moteCount.ntf + 1 \in Nat
    BY DEF LineType, Counts
  <1>3. 1 - ap.lastNtf \in {0, 1}
    BY DEF LineType
  <1>4. QED BY <1>1, <1>2, <1>3, MakeFrames

\* The io thread is about to apply a response.  A step is quiet when it neither brings the io thread there nor moves
\* the notification in its hand.
AtResponse == work["io"] # <<>> /\ Head(work["io"]).do = "response"
\* The io thread gave the AP up and is about to reset it.
Resetting == \E i \in 1..Len(work["io"]) : work["io"][i].do = "reset"
Quiet == /\ hand' = hand /\ (Resetting => Resetting' \/ resetAP')
         /\ (AtResponse' => AtResponse /\ Head(work'["io"]) = Head(work["io"]))

\* The head of a sequence of one.
LEMMA HeadOne == ASSUME NEW e PROVE Head(<<e>>) = e
  OBVIOUS

\* A step of another thread is quiet.
LEMMA QuietSame == ASSUME work'["io"] = work["io"] PROVE Quiet
  BY DEF Quiet, hand, AtResponse, Resetting

\* A step that is not the reset leaves the reset to be done.
LEMMA ResetTail ==
    ASSUME NEW w \in Seq(Steps), w # <<>>, Head(w).do # "reset", NEW p \in Seq(Steps),
           \E i \in 1..Len(w) : w[i].do = "reset"
    PROVE  /\ \E i \in 1..Len(Tail(w)) : Tail(w)[i].do = "reset"
           /\ \E i \in 1..Len(p \o Tail(w)) : (p \o Tail(w))[i].do = "reset"
  <1>1. PICK i \in 1..Len(w) : w[i].do = "reset"
    OBVIOUS
  <1> DEFINE v == Tail(w)
             a == p \o v
  <1>2. i # 1 /\ i - 1 \in 1..Len(v) /\ v[i - 1] = w[i] /\ v \in Seq(Steps)
    BY <1>1, Tails
  <1> HIDE DEF v
  <1>3. /\ a \in Seq(Steps) /\ Len(a) = Len(p) + Len(v) /\ Len(p) \in Nat /\ Len(v) \in Nat
        /\ \A k \in 1..(Len(p) + Len(v)) : k > Len(p) => a[k] = v[k - Len(p)]
    BY <1>2, Concats
  <1> HIDE DEF a
  <1> DEFINE j == i - 1
  <1>4. j \in 1..Len(v) /\ v[j].do = "reset"
    BY <1>1, <1>2
  <1> HIDE DEF j
  <1>5. Len(p) + j \in 1..(Len(p) + Len(v)) /\ Len(p) + j > Len(p) /\ (Len(p) + j) - Len(p) = j
    BY <1>3, <1>4
  <1>6. a[Len(p) + j] = v[j] /\ Len(p) + j \in 1..Len(a)
    BY <1>3, <1>5
  <1>7. QED BY <1>4, <1>6 DEF a, v

\* An insertion or a join that ends in the io thread is quiet.
LEMMA QuietTail ==
    ASSUME TypeInv, Shape, NEW t \in Threads, work[t] # <<>>, Head(work[t]).do # "ack",
           Head(work[t]).do = "reset" => resetAP', work' = [work EXCEPT ![t] = Tail(@)]
    PROVE  Quiet
  <1>1. CASE t = "io"
    <2> DEFINE w == work["io"]
    <2>1. w \in Seq(Steps) /\ w # <<>> /\ IoShape(w) /\ Head(w).do # "ack" /\ work'["io"] = Tail(w)
      BY <1>1, IoThread DEF TypeInv, WorkType, Shape
    <2>1a. Resetting => Resetting' \/ resetAP'
      <3>1. CASE Head(w).do = "reset"
        BY <1>1, <3>1 DEF w
      <3>2. CASE Head(w).do # "reset"
        BY <2>1, <3>2, ResetTail DEF Resetting, w
      <3>3. QED BY <3>1, <3>2
    <2> HIDE DEF w
    <2>2. Hand(Tail(w)) = Hand(w)
      BY <2>1, HandTail
    <2>3. Tail(w) # <<>> => Head(Tail(w)).do # "response"
      <3> SUFFICES ASSUME Tail(w) # <<>> PROVE Head(Tail(w)).do # "response"
        OBVIOUS
      <3>1. Tail(w) \in Seq(Steps) /\ 2 \in 1..Len(w) /\ Head(Tail(w)) = w[2] /\ Len(w) # 1
        BY <2>1
      <3>2. w[2].do \in {"response", "responded", "resumed"} => Len(w) = 1
        BY <2>1, <3>1 DEF IoShape
      <3>3. QED BY <3>1, <3>2
    <2>4. QED BY <2>1, <2>1a, <2>2, <2>3 DEF Quiet, hand, AtResponse, w
  <1>2. CASE t # "io"
    BY <1>2, IoThread, QuietSame DEF TypeInv, WorkType
  <1>3. QED BY <1>1, <1>2

\* So is a step that puts plain steps before the rest of the io thread's work.
LEMMA QuietPrefix ==
    ASSUME TypeInv, Shape, handleAPBoot_told \/ handleAPBoot_booted \/ (insertMsg("io") /\ ~isReady) PROVE Quiet
  <1>1. PICK p : \/ handleAPBoot_told /\ p = told_p
                 \/ handleAPBoot_booted /\ p = booted_p
                 \/ insertMsg("io") /\ ~isReady /\ p = sendAPLostNotif_p
    OBVIOUS
  <1>2. /\ work["io"] # <<>> /\ Head(work["io"]).do \in Plain \cup {"insert"} /\ PlainSeq(p)
        /\ work' = [work EXCEPT !["io"] = p \o Tail(@)] /\ work'["io"] = p \o Tail(work["io"])
    BY <1>1, PrefixSteps
  <1>3. work["io"] \in Seq(Steps) /\ IoShape(work["io"])
    BY IoThread DEF TypeInv, WorkType, Shape
  <1>4. Hand(work'["io"]) = Hand(work["io"]) /\ (work'["io"] # <<>> => Head(work'["io"]).do # "response")
    BY <1>2, <1>3, IoPrefix
  <1>5. Head(work["io"]).do # "reset"
    BY <1>1 DEF handleAPBoot_told, handleAPBoot_booted, insertMsg, Doing
  <1>6. Resetting => Resetting'
    <2> SUFFICES ASSUME \E i \in 1..Len(work["io"]) : work["io"][i].do = "reset" PROVE Resetting'
      BY DEF Resetting
    <2>1. p \in Seq(Steps)
      BY <1>2 DEF PlainSeq
    <2>2. \E i \in 1..Len(p \o Tail(work["io"])) : (p \o Tail(work["io"]))[i].do = "reset"
      BY <1>2, <1>3, <1>5, <2>1, ResetTail
    <2>3. QED BY <1>2, <2>2 DEF Resetting
  <1>7. QED BY <1>4, <1>6 DEF Quiet, hand, AtResponse

\* The steps of insertMsg, of startJoin_p and of sendAPLostNotif_p are quiet.
LEMMA QuietThread ==
    ASSUME TypeInv, Shape, NEW t \in Threads,
           insertMsg(t) \/ insertMsg_mark(t) \/ insertMsg_set(t) \/ startJoin_p_end(t) \/ apGone(t)
    PROVE  Quiet
  <1>1. CASE insertMsg(t)
    <2>1. work[t] # <<>> /\ Head(work[t]).do = "insert"
      BY <1>1 DEF insertMsg, Doing
    <2>2. CASE isReady
      <3>1. work' = work \/ Done(t)
        BY <1>1, <2>2 DEF insertMsg
      <3>2. QED BY <2>1, <3>1, QuietSame, QuietTail DEF Done
    <2>3. CASE ~isReady /\ t = "io"
      BY <1>1, <2>3, QuietPrefix
    <2>4. CASE ~isReady /\ t # "io"
      <3>1. work' = [work EXCEPT ![t] = sendAPLostNotif_p \o Tail(@)]
        BY <1>1, <2>4 DEF insertMsg
      <3>2. QED BY <2>4, <3>1, IoThread, QuietSame DEF TypeInv, WorkType
    <2>5. QED BY <2>2, <2>3, <2>4
  <1>2. CASE insertMsg_mark(t) \/ insertMsg_set(t)
    <2>1. work' = work \/ Done(t)
      BY <1>2 DEF insertMsg_mark, insertMsg_set, LeaveInsert
    <2>2. work[t] # <<>> /\ Head(work[t]).do = "insert"
      BY <1>2 DEF insertMsg_mark, insertMsg_set, TypeInv, WorkType
    <2>3. QED BY <2>1, <2>2, QuietSame, QuietTail DEF Done
  <1>3. CASE startJoin_p_end(t)
    BY <1>3, QuietTail DEF startJoin_p_end, Doing, Done
  <1>4. CASE apGone(t)
    BY <1>4, QuietTail DEF apGone, Doing, Done
  <1>5. QED BY <1>1, <1>2, <1>3, <1>4

\* What an application begins is quiet.
LEMMA QuietApp ==
    ASSUME TypeInv, NEW t \in Apps, (\E op \in AppOps : AppInsert(t, op)) \/ enableJoin(t) PROVE Quiet
  <1>1. t # "io" /\ \E w : work' = [work EXCEPT ![t] = w]
    BY IoThread DEF AppInsert, enableJoin
  <1>2. QED BY <1>1, QuietSame DEF TypeInv, WorkType

\* The io thread's steps that neither apply a response nor acknowledge are quiet.
LEMMA QuietIo ==
    ASSUME TypeInv, Shape, handlePingTimeout \/ handleResponse_resume \/ handleResponse_end
                             \/ handleAPBoot_booted \/ handleAPBoot_told
                             \/ handleRetryTimeout_lost \/ handleRetryTimeout_reset
    PROVE  Quiet
  <1> USE IoThread DEF TypeInv, WorkType, Shape
  <1>1. CASE handlePingTimeout
    <2> DEFINE w == Inserts(<<GetParam>>)
    <2>1. <<GetParam>> \in Seq(Ops)
      BY OpsType
    <2>2. Hand(w) = <<>> /\ w \in Seq(Steps) /\ \A i \in 1..Len(w) : w[i].do = "insert"
      BY <2>1, HandInserts, InsertsType
    <2>3. Hand(work["io"]) = <<>> /\ ~Resetting /\ work'["io"] = w
      BY <1>1 DEF handlePingTimeout, Hand, EndsInAck, Resetting
    <2> HIDE DEF w
    <2>4. w # <<>> => Head(w).do # "response"
      BY <2>2
    <2>5. QED BY <2>2, <2>3, <2>4 DEF Quiet, hand, AtResponse
  <1>2. CASE handleResponse_resume
    <2> DEFINE e == [Head(work["io"]) EXCEPT !.do = "resumed"]
    <2>1. Head(work["io"]) \in Steps /\ Head(work["io"]).do = "responded"
      BY <1>2, Tails DEF handleResponse_resume, Doing
    <2>2. e.do = "resumed" /\ work'["io"] = <<e>>
      BY <1>2, <2>1 DEF Steps, handleResponse_resume
    <2>3. Hand(work["io"]) = <<>> /\ ~Resetting
      <3>1. Hand(work["io"]) = <<>> /\ Len(work["io"]) = 1 /\ Head(work["io"]) = work["io"][1]
        BY <1>2, Tails, IoShapeTail DEF handleResponse_resume, Doing, Hand
      <3>2. QED BY <2>1, <3>1 DEF Resetting
    <2> HIDE DEF e
    <2>4. QED BY <2>2, <2>3 DEF Quiet, hand, Hand, EndsInAck, AtResponse
  <1>3. CASE handleResponse_end
    BY <1>3, QuietTail DEF handleResponse_end, Doing, Done
  <1>4. CASE handleAPBoot_booted \/ handleAPBoot_told
    BY <1>4, QuietPrefix
  <1>5. CASE handleRetryTimeout_lost
    <2> DEFINE p == sendAPLostNotif_p \o <<[do |-> "reset"]>>
    <2>1. Hand(p) = <<>> /\ (p # <<>> => Head(p).do # "response")
      BY PlainSeqs, PlainShape
    <2>2. Hand(work["io"]) = <<>> /\ ~Resetting
      BY <1>5 DEF handleRetryTimeout_lost, RetryDue, Hand, EndsInAck, Resetting
    <2>3. work'["io"] = p \/ work' = work
      BY <1>5 DEF handleRetryTimeout_lost
    <2> HIDE DEF p
    <2>4. QED BY <2>1, <2>2, <2>3, QuietSame DEF Quiet, hand, AtResponse
  <1>6. CASE handleRetryTimeout_reset
    BY <1>6, QuietTail DEF handleRetryTimeout_reset, Doing, Done
  <1>7. QED BY <1>1, <1>2, <1>3, <1>4, <1>5, <1>6

\* Every step keeps the token one, and keeps it in the hand until its packet id is recorded.
LEMMA OneTokenStep == TypeInv /\ Shape /\ OneToken /\ [SysNext]_allVars => OneToken' /\ HandKept
  <1> SUFFICES ASSUME TypeInv /\ Shape /\ OneToken, [SysNext]_allVars PROVE OneToken' /\ HandKept
    OBVIOUS
  <1> USE DEF queueVars, timerVars, flowVars, joinVars, threadVars, ctlVars, logVars, vars, moteVars, allVars,
              Bridge, TypeInv, WorkType, LineType, Line, Shape, HandKept
  <1>1. CASE UNCHANGED allVars
    BY <1>1, TokSame DEF allVars, vars, hand
  <1>2. CASE handleMsg_response /\ UNCHANGED moteVars
    <2>1. hand' = hand
      BY <1>2, IoThread DEF hand, handleMsg_response, Receive, Hand, EndsInAck
    <2>2. QED BY <1>2, <2>1, TokLoseAPC DEF handleMsg_response, Receive
  <1>3. CASE handleResponse /\ UNCHANGED moteVars
    <2>1. Hand(work["io"]) = <<>>
      BY <1>3, IoThread, IoShapeTail DEF handleResponse, Doing, Hand
    <2>2. Hand(work'["io"]) = <<>>
      BY <1>3, IoThread DEF handleResponse, Hand, EndsInAck
    <2>3. QED BY <1>3, <2>1, <2>2, TokSame DEF handleResponse, hand
  <1>4. CASE handleResponse_resume /\ UNCHANGED moteVars
    BY <1>4, QuietIo, TokSame DEF handleResponse_resume, Quiet
  <1>5. CASE handleResponse_end /\ UNCHANGED moteVars
    <2>1. hand' = hand
      BY <1>5, QuietIo DEF Quiet
    <2>2. toAP' = toAP \/ \E f \in ToAP : f.t = "req" /\ toAP' = Append(toAP, f)
      BY <1>5, SendEffect DEF handleResponse_end
    <2>3. CASE toAP' = toAP
      BY <1>5, <2>1, <2>3, TokSame DEF handleResponse_end
    <2>4. CASE \E f \in ToAP : f.t = "req" /\ toAP' = Append(toAP, f)
      BY <1>5, <2>1, <2>4, TokReq DEF handleResponse_end
    <2>5. QED BY <2>2, <2>3, <2>4
  <1>6. CASE handleNotification_retry /\ UNCHANGED moteVars
    <2>1. hand' = hand
      BY <1>6 DEF hand, handleNotification_retry
    <2>2. Head(toAPC) \in Ntfs
      BY <1>6, Tails, MakeFrames DEF handleNotification_retry, Receive
    <2> DEFINE f == Ack(Head(toAPC), "OK")
    <2>3. f \in ToAP /\ f.t = "ack" /\ f.id = Head(toAPC).id
      BY <2>2, MakeFrames DEF RcSet
    <2>4. toAP' = toAP \/ toAP' = Append(toAP, f)
      BY <1>6 DEF handleNotification_retry, Put
    <2> HIDE DEF f
    <2>5. QED BY <1>6, <2>1, <2>3, <2>4, TokAnswer DEF handleNotification_retry, Receive
  <1>7. CASE handleNotification_nack /\ UNCHANGED moteVars
    <2>1. hand' = hand
      BY <1>7 DEF hand, handleNotification_nack
    <2>2. Head(toAPC) \in Ntfs
      BY <1>7, Tails, MakeFrames DEF handleNotification_nack, Receive
    <2> DEFINE f == Ack(Head(toAPC), "NACK")
    <2>3. f \in ToAP /\ f.t = "ack" /\ f.id = Head(toAPC).id
      BY <2>2, MakeFrames DEF RcSet
    <2>4. toAP' = toAP \/ toAP' = Append(toAP, f)
      BY <1>7 DEF handleNotification_nack, Put
    <2> HIDE DEF f
    <2>5. QED BY <1>7, <2>1, <2>3, <2>4, TokAnswer DEF handleNotification_nack, Receive
  <1>8. CASE handleNotification /\ UNCHANGED moteVars
    <2>1. Head(toAPC) \in Ntfs
      BY <1>8, Tails, MakeFrames DEF handleNotification, Receive
    <2>2. hand' = <<Head(toAPC)>>
      BY <1>8, <2>1, IoThread, PlainSeqs, AckPrefix, CouplerOpsType DEF hand, handleNotification
    <2>3. QED BY <1>8, <2>2, TokTake DEF handleNotification, Receive
  <1>9. CASE handleAPBoot /\ UNCHANGED moteVars
    <2>1. Head(toAPC) \in Ntfs
      BY <1>9, Tails, MakeFrames DEF handleAPBoot, Receive
    <2>2. hand' = <<Head(toAPC)>>
      BY <1>9, <2>1, IoThread, BootWork DEF hand, handleAPBoot
    <2>3. QED BY <1>9, <2>2, TokTake DEF handleAPBoot, Receive
  <1>10. CASE handleAPBoot_lost /\ UNCHANGED moteVars
    <2>1. Head(toAPC) \in Ntfs
      BY <1>10, Tails, MakeFrames DEF handleAPBoot_lost, Receive
    <2>2. hand' = <<Head(toAPC)>>
      BY <1>10, <2>1, IoThread, PlainSeqs, AckPrefix DEF hand, handleAPBoot_lost
    <2>3. QED BY <1>10, <2>2, TokTake DEF handleAPBoot_lost, Receive
  <1>11. CASE handleAPBoot_booted /\ UNCHANGED moteVars
    BY <1>11, QuietIo, TokSame DEF handleAPBoot_booted, Quiet
  <1>12. CASE handleAPBoot_told /\ UNCHANGED moteVars
    BY <1>12, QuietIo, TokSame DEF handleAPBoot_told, Quiet
  <1>13. CASE handleNotification_ack /\ UNCHANGED moteVars
    <2> DEFINE g == Head(work["io"]).f
               f == Ack(g, "OK")
    <2>1. hand = <<g>> /\ hand' = <<>>
      BY <1>13, IoThread, HandTail DEF hand, handleNotification_ack, Doing, Done
    <2>2. g \in Ntfs
      BY <1>13, IoThread, Tails, StepFields DEF handleNotification_ack, Doing
    <2>3. f \in ToAP /\ f.t = "ack" /\ f.id = g.id
      BY <2>2, MakeFrames DEF RcSet
    <2>4. toAP' = toAP \/ toAP' = Append(toAP, f)
      BY <1>13 DEF handleNotification_ack, Put
    <2>5. HandKept
      BY <1>13, <2>1 DEF handleNotification_ack
    <2> HIDE DEF f, g, HandKept
    <2>6. QED BY <1>13, <2>1, <2>3, <2>4, <2>5, TokAck DEF handleNotification_ack
  <1>14. CASE OutputTimerExpires /\ UNCHANGED moteVars
    BY <1>14, QuietSame, TokSame DEF OutputTimerExpires, Quiet
  <1>15. CASE handleRetryTimeout /\ UNCHANGED moteVars
    <2>1. hand' = hand
      BY <1>15 DEF hand, handleRetryTimeout
    <2>2. toAP' = toAP \/ \E f \in ToAP : f.t = "req" /\ toAP' = Append(toAP, f)
      BY <1>15, SendEffect, RetryEffect DEF handleRetryTimeout
    <2>3. CASE toAP' = toAP
      BY <1>15, <2>1, <2>3, TokSame DEF handleRetryTimeout
    <2>4. CASE \E f \in ToAP : f.t = "req" /\ toAP' = Append(toAP, f)
      BY <1>15, <2>1, <2>4, TokReq DEF handleRetryTimeout
    <2>5. QED BY <2>2, <2>3, <2>4
  <1>16. CASE handleRetryTimeout_lost /\ UNCHANGED moteVars
    BY <1>16, QuietIo, TokSame DEF handleRetryTimeout_lost, Quiet
  <1>16a. CASE handleRetryTimeout_reset /\ UNCHANGED moteVars
    BY <1>16a, QuietIo, TokSame DEF handleRetryTimeout_reset, Quiet
  <1>17. CASE handleQueueCheckTimeout /\ UNCHANGED moteVars
    BY <1>17, QuietSame, TokSame DEF handleQueueCheckTimeout, Quiet
  <1>18. CASE handlePingTimeout /\ UNCHANGED moteVars
    BY <1>18, QuietIo, TokSame DEF handlePingTimeout, Quiet
  <1>19. ASSUME NEW t \in Threads, insertMsg(t), UNCHANGED moteVars PROVE OneToken' /\ HandKept
    BY <1>19, QuietThread, TokSame DEF insertMsg, Quiet
  <1>20. ASSUME NEW t \in Threads, insertMsg_send(t), UNCHANGED moteVars PROVE OneToken' /\ HandKept
    <2>1. hand' = hand
      BY <1>20 DEF hand, insertMsg_send
    <2>2. toAP' = toAP \/ \E f \in ToAP : f.t = "req" /\ toAP' = Append(toAP, f)
      BY <1>20, SendEffect DEF insertMsg_send
    <2>3. CASE toAP' = toAP
      BY <1>20, <2>1, <2>3, TokSame DEF insertMsg_send
    <2>4. CASE \E f \in ToAP : f.t = "req" /\ toAP' = Append(toAP, f)
      BY <1>20, <2>1, <2>4, TokReq DEF insertMsg_send
    <2>5. QED BY <2>2, <2>3, <2>4
  <1>21. ASSUME NEW t \in Threads, insertMsg_mark(t), UNCHANGED moteVars PROVE OneToken' /\ HandKept
    BY <1>21, QuietThread, TokSame DEF insertMsg_mark, Quiet
  <1>22. ASSUME NEW t \in Threads, insertMsg_tell(t), UNCHANGED moteVars PROVE OneToken' /\ HandKept
    BY <1>22, QuietSame, TokSame DEF insertMsg_tell, Quiet
  <1>23. ASSUME NEW t \in Threads, insertMsg_set(t), UNCHANGED moteVars PROVE OneToken' /\ HandKept
    BY <1>23, QuietThread, TokSame DEF insertMsg_set, Quiet
  <1>24. ASSUME NEW t \in Threads, startJoin_p_end(t), UNCHANGED moteVars PROVE OneToken' /\ HandKept
    BY <1>24, QuietThread, TokSame DEF startJoin_p_end, Quiet
  <1>24a. ASSUME NEW t \in Threads, apGone(t), UNCHANGED moteVars PROVE OneToken' /\ HandKept
    BY <1>24a, QuietThread, TokSame DEF apGone, Quiet
  <1>25. ASSUME NEW t \in Apps, NEW op \in AppOps, AppInsert(t, op), UNCHANGED moteVars PROVE OneToken' /\ HandKept
    BY <1>25, QuietApp, TokSame DEF AppInsert, Quiet
  <1>26. ASSUME NEW t \in Apps, enableJoin(t), UNCHANGED moteVars PROVE OneToken' /\ HandKept
    BY <1>26, QuietApp, TokSame DEF enableJoin, Quiet
  <1>27. ASSUME NEW t \in Apps, Control(t), UNCHANGED moteVars PROVE OneToken' /\ HandKept
    BY <1>27, QuietSame, TokSame DEF Control, Quiet
  <1>28. CASE MoteCommand
    <2>1. hand' = hand /\ out' = out /\ toAP # <<>> /\ toAP' = Tail(toAP)
      BY <1>28 DEF hand, MoteCommand
    <2>2. toAPC' = toAPC \/ \E f \in ToAPC : f.t = "rsp" /\ toAPC' = Append(toAPC, f)
      <3>1. toAPC' = toAPC \/ \E rc \in Rcs \cup {ap.lastRc} : toAPC' = Append(toAPC, Rsp(Head(toAP), rc))
        BY <1>28, CommandEffect DEF Put
      <3>2. Head(toAP) \in Reqs
        BY <1>28, Tails, MakeFrames DEF MoteCommand
      <3>3. \A rc \in Rcs \cup {ap.lastRc} : rc \in RcSet
        BY MoteAssumption DEF RcSet
      <3>4. QED BY <3>1, <3>2, <3>3, MakeFrames
    <2>3. QED BY <2>1, <2>2, TokLoseAP, TokRsp
  <1>29. CASE MoteAck
    <2>1. hand' = hand /\ (out' = out \/ out' = <<>>)
      BY <1>29 DEF hand, MoteAck
    <2>2. QED BY <1>29, <2>1, TokMoteAck DEF MoteAck
  <1>30. CASE MoteRepeat
    <2>1. hand' = hand /\ NoAck /\ NoNtf /\ hand = <<>>
      BY <1>30, NoUnderway DEF hand, MoteRepeat
    <2>2. out' = <<Head(out)>> /\ (toAPC' = toAPC \/ toAPC' = Append(toAPC, Head(out)))
      BY <1>30 DEF MoteRepeat, Put, OneToken
    <2>3. Head(out) \in ToAPC
      BY <1>30, Tails, MakeFrames DEF MoteRepeat
    <2>4. QED BY <1>30, <2>1, <2>2, <2>3, TokNew DEF MoteRepeat
  <1>31. CASE MoteBoot
    <2>1. hand' = hand /\ NoAck /\ NoNtf /\ hand = <<>>
      BY <1>31, NoUnderway DEF hand, MoteBoot
    <2>2. out' = <<BootEvent>> /\ toAP' = <<>> /\ (toAPC' = toAPC \/ toAPC' = Append(toAPC, BootEvent))
      BY <1>31 DEF MoteBoot, Put
    <2>3. BootEvent \in ToAPC
      BY MakeFrames DEF BootEvent, NtfKinds
    <2>4. QED BY <2>1, <2>2, <2>3, TokNew
  <1>32. CASE LineLoses
    <2>1. hand' = hand
      BY <1>32 DEF hand, LineLoses
    <2>2. CASE toAP # <<>> /\ toAP' = Tail(toAP) /\ UNCHANGED toAPC
      BY <1>32, <2>1, <2>2, TokLoseAP DEF LineLoses
    <2>3. CASE toAPC # <<>> /\ toAPC' = Tail(toAPC) /\ UNCHANGED toAP
      BY <1>32, <2>1, <2>3, TokLoseAPC DEF LineLoses
    <2>4. QED BY <1>32, <2>2, <2>3 DEF LineLoses
  <1>33. ASSUME NEW kind \in Kinds, MoteNotify(kind) PROVE OneToken' /\ HandKept
    <2> DEFINE f == [t |-> "ntf", kind |-> kind, n |-> moteCount.ntf + 1, id |-> 1 - ap.lastNtf]
    <2>1. hand' = hand /\ NoAck /\ NoNtf /\ hand = <<>>
      BY <1>33, TokIdle DEF hand, MoteNotify
    <2>2. out' = <<f>> /\ toAP' = toAP /\ (toAPC' = toAPC \/ toAPC' = Append(toAPC, f))
      BY <1>33 DEF MoteNotify, Put
    <2>3. f \in ToAPC
      BY NotifyType
    <2> HIDE DEF f
    <2>4. QED BY <2>1, <2>2, <2>3, TokNew
  <1>34. QED
    BY <1>1, <1>2, <1>3, <1>4, <1>5, <1>6, <1>7, <1>8, <1>9, <1>10, <1>11, <1>12, <1>13, <1>14, <1>15, <1>16, <1>17,
       <1>18, <1>19, <1>20, <1>21, <1>22, <1>23, <1>24, <1>25, <1>26, <1>27, <1>28, <1>29, <1>30, <1>31, <1>32,
       <1>33, <1>16a, <1>24a
    DEF SysNext, TransportNext, IoNext, ThreadNext, AppNext, MoteNext

\* The numbers of the notifications delivered: in order, and the one that is out is newer unless its packet id was
\* recorded or the io thread has it in its hand.
Fresh    == \A i \in 1..Len(delivered) : delivered[i] < Head(out).n
BootOut  == out # <<>> /\ Head(out).kind = "BOOT"
Counted  == \A i \in 1..Len(delivered) : delivered[i] <= moteCount.ntf
Recorded == out # <<>> /\ ~BootOut =>
              /\ Head(out).n = moteCount.ntf
              /\ m_notifPacketId = Head(out).id \/ hand # <<>> \/ Fresh
Ordered  == \A i, j \in 1..Len(delivered) : i < j => delivered[i] < delivered[j]
Notified == Counted /\ Recorded /\ Ordered

\* A step that delivers nothing and keeps what is out keeps the order of the notifications.
LEMMA NotSame ==
    ASSUME Notified, OneToken, HandKept, UNCHANGED <<delivered, out, m_notifPacketId>>,
           moteCount'.ntf = moteCount.ntf
    PROVE  Notified'
  <1>1. Counted' /\ Ordered'
    BY DEF Notified, Counted, Ordered
  <1>2. hand # <<>> => out = hand
    BY DEF OneToken, OneWork
  <1>3. Recorded'
    BY <1>2 DEF Notified, Recorded, BootOut, Fresh, HandKept
  <1>4. QED BY <1>1, <1>3 DEF Notified

\* handleNotification takes the notification into its hand.
LEMMA HandTaken == ASSUME TypeInv, handleNotification PROVE hand' # <<>>
  <1>1. Head(toAPC) \in Ntfs
    BY Tails, MakeFrames DEF handleNotification, Receive, TypeInv, LineType
  <1>2. hand' = <<Head(toAPC)>>
    BY <1>1, IoThread, PlainSeqs, AckPrefix, CouplerOpsType DEF hand, handleNotification, TypeInv, WorkType
  <1>3. QED BY <1>2

\* Every step keeps the notifications in order: a repeated one is delivered only if its packet id is new.
LEMMA NotifiedStep == TypeInv /\ Shape /\ OneToken /\ HandKept /\ Notified /\ [SysNext]_allVars => Notified'
  <1> SUFFICES ASSUME TypeInv /\ Shape /\ OneToken /\ HandKept /\ Notified, [SysNext]_allVars PROVE Notified'
    OBVIOUS
  <1> USE DEF queueVars, timerVars, flowVars, joinVars, threadVars, ctlVars, logVars, vars, moteVars, allVars,
              Bridge, TypeInv, WorkType, LineType, Shape
  <1>1. CASE UNCHANGED allVars
    BY <1>1, NotSame DEF allVars, vars
  <1>2. CASE handleMsg_response /\ UNCHANGED moteVars
    BY <1>2, NotSame DEF handleMsg_response, Receive
  <1>3. CASE handleResponse /\ UNCHANGED moteVars
    BY <1>3, NotSame DEF handleResponse
  <1>4. CASE handleResponse_resume /\ UNCHANGED moteVars
    BY <1>4, NotSame DEF handleResponse_resume
  <1>5. CASE handleResponse_end /\ UNCHANGED moteVars
    BY <1>5, NotSame DEF handleResponse_end
  <1>6. CASE handleNotification_retry /\ UNCHANGED moteVars
    BY <1>6, NotSame DEF handleNotification_retry, Receive
  <1>7. CASE handleNotification_nack /\ UNCHANGED moteVars
    BY <1>7, NotSame DEF handleNotification_nack, Receive
  <1>8. CASE handleNotification /\ UNCHANGED moteVars
    <2> DEFINE f == Head(toAPC)
    <2>1. out = <<f>> /\ hand = <<>> /\ f \in Ntfs
      BY <1>8, Tails, MakeFrames DEF handleNotification, Receive, OneToken, OneNtf
    <2>2. hand' # <<>>
      BY <1>8, HandTaken
    <2>3. f.n = moteCount.ntf /\ Fresh /\ f.n \in Nat
      BY <1>8, <2>1 DEF handleNotification, IsNew, Notified, Recorded, BootOut, Ntfs
    <2>4. delivered' = Append(delivered, f.n) /\ UNCHANGED <<out, moteCount>>
      BY <1>8 DEF handleNotification
    <2> HIDE DEF f
    <2>5. Counted'
      BY <2>3, <2>4 DEF Notified, Counted
    <2>6. Ordered'
      <3>1. \A i \in 1..Len(delivered) : delivered[i] < f.n
        BY <2>1, <2>3 DEF Fresh
      <3>2. Len(delivered) \in Nat /\ Len(delivered') = Len(delivered) + 1 /\ delivered'[Len(delivered) + 1] = f.n
        BY <2>3, <2>4
      <3>3. \A i \in 1..Len(delivered) : delivered'[i] = delivered[i]
        BY <2>3, <2>4
      <3> SUFFICES ASSUME NEW i \in 1..Len(delivered'), NEW k \in 1..Len(delivered'), i < k
                   PROVE  delivered'[i] < delivered'[k]
        BY DEF Ordered
      <3>4. i \in 1..Len(delivered) /\ (k \in 1..Len(delivered) \/ k = Len(delivered) + 1)
        <4>1. Len(delivered) \in Nat /\ Len(delivered') = Len(delivered) + 1
          BY <3>2
        <4> DEFINE m == Len(delivered)
        <4>2. m \in Nat /\ i \in 1..(m + 1) /\ k \in 1..(m + 1) /\ i < k
          BY <4>1
        <4> HIDE DEF m
        <4>3. i \in 1..m /\ (k \in 1..m \/ k = m + 1)
          BY <4>2
        <4>4. QED BY <4>3 DEF m
      <3>5. QED BY <3>1, <3>2, <3>3, <3>4 DEF Notified, Ordered
    <2>7. Recorded'
      BY <2>1, <2>2, <2>3, <2>4 DEF Recorded
    <2>8. QED BY <2>5, <2>6, <2>7 DEF Notified
  <1>9. CASE handleAPBoot /\ UNCHANGED moteVars
    <2>1. BootOut
      <3>1. toAPC[1] = Head(toAPC) /\ 1 \in 1..Len(toAPC) /\ Head(toAPC).t = "ntf" /\ Head(toAPC).kind = "BOOT"
        BY <1>9, Tails DEF handleAPBoot
      <3>2. out = <<Head(toAPC)>>
        BY <3>1 DEF OneToken, OneNtf
      <3>3. QED BY <3>1, <3>2 DEF BootOut
    <2>2. QED BY <1>9, <2>1 DEF handleAPBoot, Notified, Counted, Ordered, Recorded, BootOut
  <1>10. CASE handleAPBoot_lost /\ UNCHANGED moteVars
    BY <1>10, NotSame DEF handleAPBoot_lost, Receive
  <1>11. CASE handleAPBoot_booted /\ UNCHANGED moteVars
    BY <1>11, NotSame DEF handleAPBoot_booted
  <1>12. CASE handleAPBoot_told /\ UNCHANGED moteVars
    BY <1>12, NotSame DEF handleAPBoot_told
  <1>13. CASE handleNotification_ack /\ UNCHANGED moteVars
    <2> DEFINE g == Head(work["io"]).f
    <2>1. hand = <<g>>
      BY <1>13, IoThread, HandTail DEF hand, handleNotification_ack, Doing
    <2>2. out = <<g>>
      BY <2>1 DEF OneToken, OneWork
    <2>3. m_notifPacketId' = g.id /\ UNCHANGED <<out, delivered, moteCount>>
      BY <1>13 DEF handleNotification_ack
    <2> HIDE DEF g
    <2>4. QED BY <2>2, <2>3 DEF Notified, Counted, Ordered, Recorded, BootOut
  <1>14. CASE OutputTimerExpires /\ UNCHANGED moteVars
    BY <1>14, NotSame DEF OutputTimerExpires
  <1>15. CASE handleRetryTimeout /\ UNCHANGED moteVars
    BY <1>15, NotSame DEF handleRetryTimeout
  <1>16. CASE handleRetryTimeout_lost /\ UNCHANGED moteVars
    BY <1>16, NotSame DEF handleRetryTimeout_lost, Receive
  <1>16a. CASE handleRetryTimeout_reset /\ UNCHANGED moteVars
    BY <1>16a, NotSame DEF handleRetryTimeout_reset
  <1>17. CASE handleQueueCheckTimeout /\ UNCHANGED moteVars
    BY <1>17, NotSame DEF handleQueueCheckTimeout
  <1>18. CASE handlePingTimeout /\ UNCHANGED moteVars
    BY <1>18, NotSame DEF handlePingTimeout
  <1>19. ASSUME NEW t \in Threads, insertMsg(t), UNCHANGED moteVars PROVE Notified'
    BY <1>19, NotSame DEF insertMsg
  <1>20. ASSUME NEW t \in Threads, insertMsg_send(t), UNCHANGED moteVars PROVE Notified'
    BY <1>20, NotSame DEF insertMsg_send
  <1>21. ASSUME NEW t \in Threads, insertMsg_mark(t), UNCHANGED moteVars PROVE Notified'
    BY <1>21, NotSame DEF insertMsg_mark
  <1>22. ASSUME NEW t \in Threads, insertMsg_tell(t), UNCHANGED moteVars PROVE Notified'
    BY <1>22, NotSame DEF insertMsg_tell
  <1>23. ASSUME NEW t \in Threads, insertMsg_set(t), UNCHANGED moteVars PROVE Notified'
    BY <1>23, NotSame DEF insertMsg_set
  <1>24. ASSUME NEW t \in Threads, startJoin_p_end(t), UNCHANGED moteVars PROVE Notified'
    BY <1>24, NotSame DEF startJoin_p_end
  <1>24a. ASSUME NEW t \in Threads, apGone(t), UNCHANGED moteVars PROVE Notified'
    BY <1>24a, NotSame DEF apGone
  <1>25. ASSUME NEW t \in Apps, NEW op \in AppOps, AppInsert(t, op), UNCHANGED moteVars PROVE Notified'
    BY <1>25, NotSame DEF AppInsert
  <1>26. ASSUME NEW t \in Apps, enableJoin(t), UNCHANGED moteVars PROVE Notified'
    BY <1>26, NotSame DEF enableJoin
  <1>27. ASSUME NEW t \in Apps, Control(t), UNCHANGED moteVars PROVE Notified'
    BY <1>27, NotSame DEF Control
  <1>28. CASE MoteCommand
    <2>1. moteCount'.ntf = moteCount.ntf
      BY <1>28, CommandEffect DEF Counts
    <2>2. QED BY <1>28, <2>1, NotSame DEF MoteCommand
  <1>29. CASE MoteAck
    <2>1. CASE out' = out
      BY <1>29, <2>1, NotSame DEF MoteAck
    <2>2. CASE out' = <<>>
      BY <1>29, <2>2 DEF MoteAck, Notified, Counted, Ordered, Recorded
    <2>3. QED BY <1>29, <2>1, <2>2 DEF MoteAck
  <1>30. CASE MoteRepeat
    <2>1. moteCount'.ntf = moteCount.ntf
      BY <1>30 DEF MoteRepeat, Counts
    <2>2. QED BY <1>30, <2>1, NotSame DEF MoteRepeat
  <1>31. CASE MoteBoot
    <2>1. moteCount'.ntf = moteCount.ntf
      BY <1>31 DEF MoteBoot, Counts
    <2>2. out' = <<BootEvent>> /\ delivered' = delivered
      BY <1>31 DEF MoteBoot
    <2>3. QED BY <2>1, <2>2 DEF Notified, Counted, Ordered, Recorded, BootOut, BootEvent
  <1>32. CASE LineLoses
    <2>1. moteCount'.ntf = moteCount.ntf
      BY <1>32 DEF LineLoses, Counts
    <2>2. QED BY <1>32, <2>1, NotSame DEF LineLoses
  <1>33. ASSUME NEW kind \in Kinds, MoteNotify(kind) PROVE Notified'
    <2> DEFINE f == [t |-> "ntf", kind |-> kind, n |-> moteCount.ntf + 1, id |-> 1 - ap.lastNtf]
    <2>1. moteCount.ntf \in Nat /\ moteCount'.ntf = moteCount.ntf + 1 /\ f.n = moteCount.ntf + 1
      BY <1>33 DEF MoteNotify, Counts
    <2>2. out' = <<f>> /\ delivered' = delivered
      BY <1>33 DEF MoteNotify
    <2> HIDE DEF f
    <2>3. \A i \in 1..Len(delivered) : delivered[i] \in Nat
      OBVIOUS
    <2>4. Counted' /\ Fresh'
      <3>1. \A i \in 1..Len(delivered) : delivered[i] < moteCount.ntf + 1
        BY <2>1, <2>3 DEF Notified, Counted
      <3>2. Counted'
        BY <2>1, <2>2, <2>3, <3>1 DEF Counted
      <3>3. Head(out') = f
        BY <2>2
      <3>4. QED BY <2>1, <2>2, <3>1, <3>2, <3>3 DEF Fresh
    <2>5. QED BY <2>1, <2>2, <2>4 DEF Notified, Ordered, Recorded
  <1>34. QED
    BY <1>1, <1>2, <1>3, <1>4, <1>5, <1>6, <1>7, <1>8, <1>9, <1>10, <1>11, <1>12, <1>13, <1>14, <1>15, <1>16, <1>17,
       <1>18, <1>19, <1>20, <1>21, <1>22, <1>23, <1>24, <1>25, <1>26, <1>27, <1>28, <1>29, <1>30, <1>31, <1>32,
       <1>33, <1>16a, <1>24a
    DEF SysNext, TransportNext, IoNext, ThreadNext, AppNext, MoteNext

\* The join: both sides are connected and since the boot a JOIN was inserted, a thread is about to insert one, or the
\* boot event is out whose handler will start the join or disable it.
JoinStep(s)  == s.do = "insert" /\ s.op.cmdId = "JOIN"
JoinIn(w, m) == \E i \in 1..Len(w) : JoinStep(w[i]) /\ (i = 1 => m = "none")
Booting(w)   == \E i \in 1..Len(w) : w[i].do \in {"boot", "booted", "disable"}
Starting     == \E t \in Threads : JoinIn(work[t], mid[t])
Joined       == m_isMngrConnected /\ m_isApConnected => joinTried \/ Starting
AwaitBoot(w) == EndsInAck(w) => Booting(w)
BootSeen     == BootOut /\ NoAck /\ AwaitBoot(work["io"])
JoinInv      == Joined \/ BootSeen

\* A join that is being started by one thread goes on while another thread works.
LEMMA StartKept ==
    ASSUME NEW t \in Threads, \A s \in Threads \ {t} : work'[s] = work[s] /\ mid'[s] = mid[s],
           JoinIn(work[t], mid[t]) => JoinIn(work'[t], mid'[t])
    PROVE  Starting => Starting'
  BY DEF Starting

\* A step that inserts no JOIN leaves the JOIN to be inserted, whatever is put before the rest of the work.
LEMMA JoinRest ==
    ASSUME NEW w \in Seq(Steps), w # <<>>, NEW m, JoinIn(w, m), m # "none" \/ ~JoinStep(Head(w)), NEW p \in Seq(Steps)
    PROVE  JoinIn(Tail(w), "none") /\ JoinIn(p \o Tail(w), "none")
  <1>1. PICK i \in 1..Len(w) : JoinStep(w[i]) /\ (i = 1 => m = "none")
    BY DEF JoinIn
  <1> DEFINE v == Tail(w)
             a == p \o v
             j == i - 1
  <1>2. i # 1
    BY <1>1, Tails
  <1>3. v \in Seq(Steps) /\ j \in 1..Len(v) /\ v[j] = w[i]
    BY <1>2, Tails
  <1> HIDE DEF v, j
  <1>4. /\ a \in Seq(Steps) /\ Len(a) = Len(p) + Len(v) /\ Len(p) \in Nat /\ Len(v) \in Nat
        /\ \A k \in 1..(Len(p) + Len(v)) : k > Len(p) => a[k] = v[k - Len(p)]
    BY <1>3, Concats
  <1> HIDE DEF a
  <1>5. Len(p) + j \in 1..(Len(p) + Len(v)) /\ Len(p) + j > Len(p) /\ (Len(p) + j) - Len(p) = j
    BY <1>3, <1>4
  <1>6. a[Len(p) + j] = v[j] /\ Len(p) + j \in 1..Len(a)
    BY <1>4, <1>5
  <1>7. JoinStep(v[j])
    BY <1>1, <1>3
  <1>8. JoinIn(v, "none") /\ JoinIn(a, "none")
    BY <1>3, <1>6, <1>7 DEF JoinIn
  <1>9. QED BY <1>8 DEF a, v

\* What startJoin_p leaves to be done inserts a JOIN.
LEMMA JoinQueued == ASSUME NEW w \in Seq(Steps), NEW m PROVE JoinIn(startJoin, m) /\ JoinIn(startJoin \o w, m)
  <1> DEFINE s == startJoin
             a == s \o w
  <1>1. s \in Seq(Steps) /\ Len(s) = 4 /\ JoinStep(s[3])
    BY StartJoinType DEF JoinStep
  <1> HIDE DEF s
  <1>2. a \in Seq(Steps) /\ Len(a) = Len(s) + Len(w) /\ Len(w) \in Nat /\ \A i \in 1..Len(s) : a[i] = s[i]
    <2>1. s \in Seq(Steps)
      BY <1>1
    <2>2. QED BY <2>1, Concats
  <1> HIDE DEF a
  <1>3. 3 \in 1..Len(s) /\ 3 \in 1..Len(a) /\ a[3] = s[3]
    BY <1>1, <1>2
  <1>4. JoinIn(s, m) /\ JoinIn(a, m)
    BY <1>1, <1>3 DEF JoinIn
  <1>5. QED BY <1>4 DEF a, s

\* The handler of a boot event disables the join or starts it, and so does a handler that gives the AP up.
LEMMA BootPrefix ==
    ASSUME NEW w \in Seq(Steps) PROVE Booting(told_p \o w) /\ Booting(sendAPLostNotif_p \o w)
  <1>1. PlainSeq(told_p) /\ PlainSeq(sendAPLostNotif_p)
    BY BootPlain, PlainSeqs
  <1>2. ASSUME NEW p \in Seq(Steps), Booting(p) PROVE Booting(p \o w)
    <2>1. PICK i \in 1..Len(p) : p[i].do \in {"boot", "booted", "disable"}
      BY <1>2 DEF Booting
    <2> DEFINE a == p \o w
    <2>2. i \in 1..Len(a) /\ a[i] = p[i]
      BY <1>2, Concats
    <2> HIDE DEF a
    <2>3. Booting(a)
      BY <2>1, <2>2 DEF Booting
    <2>4. QED BY <2>3 DEF a
  <1>3. Booting(sendAPLostNotif_p)
    BY DEF Booting, sendAPLostNotif_p
  <1>4. ASSUME NEW c \in Seq(Steps), c # <<>>, c[1].do \in {"booted", "disable"} PROVE Booting(Inserts(BootOps) \o c)
    <2> DEFINE b == Inserts(BootOps)
               a == b \o c
    <2>1. b \in Seq(Steps) /\ Len(c) \in Nat \ {0}
      BY <1>4, OpsType, InsertsType
    <2> HIDE DEF b
    <2>2. /\ a \in Seq(Steps) /\ Len(a) = Len(b) + Len(c) /\ Len(b) \in Nat
          /\ \A k \in 1..(Len(b) + Len(c)) : k > Len(b) => a[k] = c[k - Len(b)]
      BY <1>4, <2>1, Concats
    <2> HIDE DEF a
    <2>3. Len(b) + 1 \in 1..(Len(b) + Len(c)) /\ Len(b) + 1 > Len(b) /\ (Len(b) + 1) - Len(b) = 1
      BY <2>1, <2>2
    <2>4. a[Len(b) + 1] = c[1] /\ Len(b) + 1 \in 1..Len(a)
      BY <2>2, <2>3
    <2>5. Booting(a)
      BY <1>4, <2>4 DEF Booting
    <2>6. QED BY <2>5 DEF a, b
  <1>5. Booting(told_p)
    <2> DEFINE x == [do |-> "disable"]
               y == [do |-> "halted"]
               z == [do |-> "booted"]
    <2>1. x \in Steps /\ y \in Steps /\ z \in Steps /\ x.do = "disable" /\ z.do = "booted"
      BY MakeSteps DEF Plain
    <2>2. told_p = Inserts(BootOps) \o (IF m_isRunning THEN <<x, y>> ELSE <<z>>)
      BY DEF told_p
    <2> HIDE DEF x, y, z
    <2>3. <<x, y>> \in Seq(Steps) /\ <<x, y>> # <<>> /\ <<x, y>>[1] = x /\ <<z>> \in Seq(Steps) /\ <<z>> # <<>> /\ <<z>>[1] = z
      BY <2>1
    <2>4. Booting(Inserts(BootOps) \o <<x, y>>) /\ Booting(Inserts(BootOps) \o <<z>>)
      BY <1>4, <2>1, <2>3
    <2>5. QED BY <2>2, <2>4
  <1>6. QED BY <1>1, <1>2, <1>3, <1>5 DEF PlainSeq

\* A step that is not the boot's leaves the boot's step to be done.
LEMMA AwaitTail ==
    ASSUME NEW w \in Seq(Steps), w # <<>>, IoShape(w), Head(w).do \notin {"boot", "booted", "disable"}, AwaitBoot(w)
    PROVE  AwaitBoot(Tail(w))
  <1> SUFFICES ASSUME EndsInAck(Tail(w)) PROVE Booting(Tail(w))
    BY DEF AwaitBoot
  <1>1. EndsInAck(w)
    BY IoShapeTail
  <1>2. PICK i \in 1..Len(w) : w[i].do \in {"boot", "booted", "disable"}
    BY <1>1 DEF AwaitBoot, Booting
  <1>3. i # 1 /\ i - 1 \in 1..Len(Tail(w)) /\ Tail(w)[i - 1] = w[i]
    BY <1>2, Tails
  <1>4. QED BY <1>2, <1>3 DEF Booting

\* A step that keeps the flags and the joins under way keeps the join.
LEMMA JoinedKept ==
    ASSUME Joined, m_isMngrConnected' => m_isMngrConnected, m_isApConnected' => m_isApConnected,
           joinTried => joinTried', Starting => Starting'
    PROVE  Joined'
  BY DEF Joined

\* A thread that finished a step which is not the boot's keeps the join, unless the step began to insert the JOIN.
LEMMA TailKept ==
    ASSUME TypeInv, Shape, NEW t \in Threads, work[t] # <<>>, Head(work[t]).do \notin {"boot", "booted", "disable"},
           work' = [work EXCEPT ![t] = Tail(@)], mid' = mid \/ mid' = [mid EXCEPT ![t] = "none"], mid'[t] = "none"
    PROVE  /\ mid[t] # "none" \/ ~JoinStep(Head(work[t])) => (Starting => Starting')
           /\ AwaitBoot(work["io"]) => AwaitBoot(work["io"])'
  <1>0. work \in [Threads -> Seq(Steps)] /\ mid \in [Threads -> {"none", "send", "mark", "tell", "set"}]
        /\ IoShape(work["io"])
    BY DEF TypeInv, WorkType, Shape
  <1>1. ASSUME mid[t] # "none" \/ ~JoinStep(Head(work[t])) PROVE Starting => Starting'
    <2>1. \A s \in Threads \ {t} : work'[s] = work[s] /\ mid'[s] = mid[s]
      BY <1>0
    <2>2. work'[t] = Tail(work[t])
      BY <1>0
    <2>3. JoinIn(work[t], mid[t]) => JoinIn(work'[t], mid'[t])
      BY <1>0, <1>1, <2>2, JoinRest, Tails
    <2>4. QED BY <2>1, <2>3, StartKept
  <1>2. CASE t = "io"
    <2>1. AwaitBoot(work["io"]) => AwaitBoot(Tail(work["io"]))
      BY <1>0, <1>2, AwaitTail
    <2>2. QED BY <1>0, <1>1, <1>2, <2>1
  <1>3. CASE t # "io"
    BY <1>0, <1>1, <1>3, IoThread
  <1>4. QED BY <1>2, <1>3

\* A step inside insertMsg keeps the join.
LEMMA MidKept ==
    ASSUME TypeInv, NEW t \in Threads, mid[t] # "none", work' = work, NEW m, mid' = [mid EXCEPT ![t] = m]
    PROVE  Starting => Starting'
  <1>1. \A s \in Threads \ {t} : work'[s] = work[s] /\ mid'[s] = mid[s]
    BY DEF TypeInv, WorkType
  <1>2. JoinIn(work[t], mid[t]) => JoinIn(work'[t], mid'[t])
    BY DEF JoinIn
  <1>3. QED BY <1>1, <1>2, StartKept

\* So does a step of the io thread with no JOIN to insert.
LEMMA IoKept ==
    ASSUME TypeInv, ~JoinIn(work["io"], mid["io"]), NEW w, work' = [work EXCEPT !["io"] = w], mid' = mid
    PROVE  Starting => Starting'
  <1>1. \A s \in Threads \ {"io"} : work'[s] = work[s] /\ mid'[s] = mid[s]
    BY DEF TypeInv, WorkType
  <1>2. QED BY <1>1, StartKept, IoThread

\* And so does a step of a handler that puts other steps before the rest of its work.
LEMMA PrefixKept ==
    ASSUME TypeInv, NEW t \in Threads, work[t] # <<>>, ~JoinStep(Head(work[t])), NEW p, PlainSeq(p),
           work' = [work EXCEPT ![t] = p \o Tail(@)], mid' = mid, mid[t] = "none"
    PROVE  Starting => Starting'
  <1>1. work \in [Threads -> Seq(Steps)]
    BY DEF TypeInv, WorkType
  <1>2. \A s \in Threads \ {t} : work'[s] = work[s] /\ mid'[s] = mid[s]
    BY <1>1
  <1>3. work'[t] = p \o Tail(work[t])
    BY <1>1
  <1>4. JoinIn(work[t], mid[t]) => JoinIn(work'[t], mid'[t])
    BY <1>1, <1>3, JoinRest DEF PlainSeq
  <1>5. QED BY <1>2, <1>4, StartKept

\* The boot event is the only notification out while it is out.
LEMMA BootFrame ==
    ASSUME TypeInv, OneToken, BootOut, toAPC # <<>>, Head(toAPC).t = "ntf" PROVE Head(toAPC).kind = "BOOT" /\ NoAck
  <1>1. toAPC[1] = Head(toAPC) /\ 1 \in 1..Len(toAPC)
    BY Tails DEF TypeInv, LineType
  <1>2. out = <<Head(toAPC)>> /\ NoAck
    BY <1>1 DEF OneToken, OneNtf
  <1>3. QED BY <1>2 DEF BootOut

\* A boot event on the line is out.
LEMMA BootEventOut ==
    ASSUME TypeInv, OneToken, toAPC # <<>>, Head(toAPC).t = "ntf", Head(toAPC).kind = "BOOT" PROVE BootOut /\ NoAck
  <1>1. toAPC[1] = Head(toAPC) /\ 1 \in 1..Len(toAPC)
    BY Tails DEF TypeInv, LineType
  <1>2. out = <<Head(toAPC)>> /\ NoAck
    BY <1>1 DEF OneToken, OneNtf
  <1> DEFINE f == Head(toAPC)
  <1> HIDE DEF f
  <1>3. out = <<f>> /\ f.kind = "BOOT"
    BY <1>2 DEF f
  <1>4. QED BY <1>2, <1>3 DEF BootOut

\* A request is no acknowledgement.
LEMMA ReqKept ==
    ASSUME TypeInv, toAP' = toAP \/ \E f \in ToAP : f.t = "req" /\ toAP' = Append(toAP, f), NoAck
    PROVE  NoAck'
  <1>1. CASE toAP' = toAP
    BY <1>1 DEF NoAck
  <1>2. ASSUME NEW f \in ToAP, f.t = "req", toAP' = Append(toAP, f) PROVE NoAck'
    <2>1. toAP \in Seq(ToAP)
      BY DEF TypeInv, LineType
    <2>2. QED BY <1>2, <2>1 DEF NoAck
  <1>3. QED BY <1>1, <1>2

\* A line that lost a frame has no acknowledgement it did not have.
LEMMA NoAckTail == ASSUME toAP \in Seq(ToAP), toAP # <<>>, toAP' = Tail(toAP), NoAck PROVE NoAck'
  BY DEF NoAck

\* A thread with nothing to do starts no join.
LEMMA NoJoin == (\A m : ~JoinIn(<<>>, m)) /\ AwaitBoot(<<>>)
  BY DEF JoinIn, AwaitBoot, EndsInAck

\* Nor does a handler of a response.
LEMMA NoJoinResponse ==
    ASSUME TypeInv, Shape, work["io"] # <<>>, Head(work["io"]).do \in {"response", "responded", "resumed"}
    PROVE  ~JoinIn(work["io"], mid["io"])
  <1>1. work["io"] \in Seq(Steps) /\ IoShape(work["io"])
    BY IoThread DEF TypeInv, WorkType, Shape
  <1>2. Len(work["io"]) = 1 /\ Head(work["io"]) = work["io"][1]
    BY <1>1, IoShapeTail, Tails
  <1>3. QED BY <1>2 DEF JoinIn, JoinStep

\* Every step keeps the join: enableJoin and handleAPBoot each set one flag before they read the other.
LEMMA JoinInvStep == TypeInv /\ Shape /\ OneToken /\ JoinInv /\ [SysNext]_allVars => JoinInv'
  <1> SUFFICES ASSUME TypeInv /\ Shape /\ OneToken /\ JoinInv, [SysNext]_allVars PROVE JoinInv'
    OBVIOUS
  <1> USE DEF queueVars, timerVars, flowVars, joinVars, threadVars, ctlVars, logVars, vars, moteVars, allVars,
              Bridge, TypeInv, WorkType, LineType, Shape
  <1>1. CASE UNCHANGED allVars
    BY <1>1, JoinedKept DEF allVars, vars, JoinInv, BootSeen, BootOut, NoAck, Starting
  <1>2. CASE handleMsg_response /\ UNCHANGED moteVars
    <2>1. AwaitBoot(work'["io"]) /\ work' = [work EXCEPT !["io"] = work'["io"]]
      BY <1>2, IoThread DEF handleMsg_response, AwaitBoot, EndsInAck
    <2>2. Starting => Starting'
      <3>1. ~JoinIn(work["io"], mid["io"]) /\ mid' = mid
        BY <1>2, NoJoin DEF handleMsg_response, Receive
      <3>2. QED BY <2>1, <3>1, IoKept
    <2>3. QED BY <1>2, <2>1, <2>2, JoinedKept DEF handleMsg_response, JoinInv, BootSeen, BootOut, NoAck
  <1>3. CASE handleResponse /\ UNCHANGED moteVars
    <2>1. AwaitBoot(work'["io"]) /\ work' = [work EXCEPT !["io"] = work'["io"]]
      BY <1>3, IoThread DEF handleResponse, AwaitBoot, EndsInAck
    <2>2. ~JoinIn(work["io"], mid["io"])
      BY <1>3, NoJoinResponse DEF handleResponse, Doing
    <2>3. Starting => Starting'
      BY <1>3, <2>1, <2>2, IoKept DEF handleResponse
    <2>4. QED BY <1>3, <2>1, <2>3, JoinedKept DEF handleResponse, JoinInv, BootSeen, BootOut, NoAck
  <1>4. CASE handleResponse_resume /\ UNCHANGED moteVars
    <2>1. AwaitBoot(work'["io"]) /\ work' = [work EXCEPT !["io"] = work'["io"]]
      BY <1>4, IoThread DEF handleResponse_resume, AwaitBoot, EndsInAck
    <2>2. ~JoinIn(work["io"], mid["io"])
      BY <1>4, NoJoinResponse DEF handleResponse_resume, Doing
    <2>3. Starting => Starting'
      BY <1>4, <2>1, <2>2, IoKept DEF handleResponse_resume
    <2>4. QED BY <1>4, <2>1, <2>3, JoinedKept DEF handleResponse_resume, JoinInv, BootSeen, BootOut, NoAck
  <1>5. CASE handleResponse_end /\ UNCHANGED moteVars
    <2>1. (Starting => Starting') /\ (AwaitBoot(work["io"]) => AwaitBoot(work["io"])')
      BY <1>5, IoThread, TailKept DEF handleResponse_end, Doing, Done, JoinStep
    <2>2. NoAck => NoAck'
      BY <1>5, SendEffect, RetryEffect, ReqKept DEF handleResponse_end
    <2>3. QED BY <1>5, <2>1, <2>2, JoinedKept DEF handleResponse_end, JoinInv, BootSeen, BootOut
  <1>6. CASE handleNotification_retry /\ UNCHANGED moteVars
    <2>1. ~BootOut
      BY <1>6, BootFrame DEF handleNotification_retry, Receive, IsNew
    <2>2. QED BY <1>6, <2>1, JoinedKept DEF handleNotification_retry, JoinInv, BootSeen, Starting
  <1>7. CASE handleNotification_nack /\ UNCHANGED moteVars
    <2>1. ~BootOut
      BY <1>7, BootFrame DEF handleNotification_nack, Receive, IsNew
    <2>2. QED BY <1>7, <2>1, JoinedKept DEF handleNotification_nack, JoinInv, BootSeen, Starting
  <1>8. CASE handleNotification /\ UNCHANGED moteVars
    <2>1. ~BootOut
      BY <1>8, BootFrame DEF handleNotification, Receive
    <2>2. work' = [work EXCEPT !["io"] = work'["io"]]
      BY <1>8, IoThread DEF handleNotification
    <2>3. Starting => Starting'
      <3>1. ~JoinIn(work["io"], mid["io"]) /\ mid' = mid
        BY <1>8, NoJoin DEF handleNotification, Receive
      <3>2. QED BY <2>2, <3>1, IoKept
    <2>4. QED BY <1>8, <2>1, <2>3, JoinedKept DEF handleNotification, JoinInv, BootSeen
  <1>9. CASE handleAPBoot /\ UNCHANGED moteVars
    <2>1. Head(toAPC) \in Ntfs
      BY <1>9, Tails, MakeFrames DEF handleAPBoot
    <2>2. BootOut /\ NoAck
      BY <1>9, BootEventOut DEF handleAPBoot
    <2>3. Booting(work'["io"])
      <3> DEFINE w == <<[do |-> "boot"], [do |-> "ack", f |-> Head(toAPC)]>>
      <3>1. w \in Seq(Steps) /\ Len(w) = 2 /\ w[1].do = "boot"
        BY <2>1, BootWork
      <3>2. work'["io"] = w
        BY <1>9, IoThread DEF handleAPBoot
      <3> HIDE DEF w
      <3>3. 1 \in 1..Len(w) /\ w[1].do \in {"boot", "booted", "disable"}
        BY <3>1
      <3>4. Booting(w)
        BY <3>3 DEF Booting
      <3>5. QED BY <3>2, <3>4
    <2>4. QED BY <1>9, <2>2, <2>3 DEF handleAPBoot, JoinInv, BootSeen, BootOut, NoAck, AwaitBoot
  <1>10. CASE handleAPBoot_lost /\ UNCHANGED moteVars
    <2>1. Head(toAPC) \in Ntfs
      BY <1>10, Tails, MakeFrames DEF handleAPBoot_lost, Receive
    <2>2. BootOut /\ NoAck
      BY <1>10, BootEventOut DEF handleAPBoot_lost, Receive
    <2>3. Booting(work'["io"])
      <3>1. <<[do |-> "ack", f |-> Head(toAPC)]>> \in Seq(Steps)
        BY <2>1, MakeSteps
      <3>2. QED BY <1>10, <3>1, IoThread, BootPrefix DEF handleAPBoot_lost
    <2>4. QED BY <1>10, <2>2, <2>3 DEF handleAPBoot_lost, JoinInv, BootSeen, BootOut, NoAck, AwaitBoot
  <1>11. CASE handleAPBoot_booted /\ UNCHANGED moteVars
    <2>1. CASE m_isMngrConnected
      <3>1. Tail(work["io"]) \in Seq(Steps)
        BY <1>11, IoThread, Tails DEF handleAPBoot_booted, Doing
      <3>2. JoinIn(work'["io"], mid'["io"])
        BY <1>11, <2>1, <3>1, IoThread, JoinQueued DEF handleAPBoot_booted
      <3>3. Starting'
        BY <3>2, IoThread DEF Starting
      <3>4. QED BY <3>3 DEF JoinInv, Joined
    <2>2. CASE ~m_isMngrConnected
      BY <1>11, <2>2 DEF handleAPBoot_booted, JoinInv, Joined
    <2>3. QED BY <2>1, <2>2
  <1>12. CASE handleAPBoot_told /\ UNCHANGED moteVars
    <2>1. /\ work["io"] # <<>> /\ Head(work["io"]).do = "boot" /\ PlainSeq(told_p)
          /\ work' = [work EXCEPT !["io"] = told_p \o Tail(@)] /\ work'["io"] = told_p \o Tail(work["io"])
      BY <1>12, PrefixSteps DEF handleAPBoot_told, Doing
    <2>2. mid["io"] = "none" /\ ~JoinStep(Head(work["io"]))
      BY <2>1, IoThread DEF JoinStep
    <2>3. Starting => Starting'
      BY <1>12, <2>1, <2>2, IoThread, PrefixKept DEF handleAPBoot_told
    <2>4. Booting(work'["io"])
      BY <2>1, IoThread, Tails, BootPrefix
    <2>5. QED BY <1>12, <2>3, <2>4, JoinedKept DEF handleAPBoot_told, JoinInv, BootSeen, BootOut, NoAck, AwaitBoot
  <1>13. CASE handleNotification_ack /\ UNCHANGED moteVars
    <2>1. ~AwaitBoot(work["io"])
      <3>1. Len(work["io"]) = 1 /\ EndsInAck(work["io"]) /\ work["io"][1].do = "ack"
        BY <1>13, IoThread, IoShapeTail, Tails DEF handleNotification_ack, Doing
      <3>2. QED BY <3>1 DEF AwaitBoot, Booting
    <2>2. Starting => Starting'
      BY <1>13, IoThread, TailKept DEF handleNotification_ack, Doing, Done, JoinStep
    <2>3. QED BY <1>13, <2>1, <2>2, JoinedKept DEF handleNotification_ack, JoinInv, BootSeen
  <1>14. CASE OutputTimerExpires /\ UNCHANGED moteVars
    BY <1>14, JoinedKept DEF OutputTimerExpires, JoinInv, BootSeen, BootOut, NoAck, Starting
  <1>15. CASE handleRetryTimeout /\ UNCHANGED moteVars
    <2>1. NoAck => NoAck'
      BY <1>15, SendEffect, RetryEffect, ReqKept DEF handleRetryTimeout
    <2>2. QED BY <1>15, <2>1, JoinedKept DEF handleRetryTimeout, JoinInv, BootSeen, BootOut, Starting
  <1>16. CASE handleRetryTimeout_lost /\ UNCHANGED moteVars
    <2>1. CASE m_abortEnabled
      <3>1. ~EndsInAck(work'["io"])
        BY <1>16, <2>1, IoThread, PlainSeqs, PlainShape DEF handleRetryTimeout_lost
      <3>2. Starting => Starting'
        <4>1. ~JoinIn(work["io"], mid["io"]) /\ mid' = mid
          BY <1>16, NoJoin DEF handleRetryTimeout_lost, RetryDue
        <4>2. work' = [work EXCEPT !["io"] = sendAPLostNotif_p \o <<[do |-> "reset"]>>]
          BY <1>16, <2>1 DEF handleRetryTimeout_lost
        <4>3. QED BY <4>1, <4>2, IoKept
      <3>3. QED BY <1>16, <3>1, <3>2, JoinedKept DEF handleRetryTimeout_lost, JoinInv, BootSeen, BootOut, NoAck, AwaitBoot
    <2>2. CASE ~m_abortEnabled
      BY <1>16, <2>2, JoinedKept DEF handleRetryTimeout_lost, JoinInv, BootSeen, BootOut, NoAck, Starting
    <2>3. QED BY <2>1, <2>2
  <1>16a. CASE handleRetryTimeout_reset /\ UNCHANGED moteVars
    <2>1. (Starting => Starting') /\ (AwaitBoot(work["io"]) => AwaitBoot(work["io"])')
      BY <1>16a, IoThread, TailKept DEF handleRetryTimeout_reset, Doing, Done, JoinStep
    <2>2. QED BY <1>16a, <2>1, JoinedKept DEF handleRetryTimeout_reset, JoinInv, BootSeen, BootOut, NoAck
  <1>17. CASE handleQueueCheckTimeout /\ UNCHANGED moteVars
    BY <1>17, JoinedKept DEF handleQueueCheckTimeout, JoinInv, BootSeen, BootOut, NoAck, Starting
  <1>18. CASE handlePingTimeout /\ UNCHANGED moteVars
    <2>1. Inserts(<<GetParam>>) \in Seq(Steps) /\ AwaitBoot(Inserts(<<GetParam>>))
      <3>1. <<GetParam>> \in Seq(Ops)
        BY OpsType
      <3>2. QED BY <3>1, InsertsType, HandInserts DEF AwaitBoot
    <2>2. Starting => Starting'
      BY <1>18, IoKept, NoJoin DEF handlePingTimeout
    <2>3. QED BY <1>18, <2>1, <2>2, JoinedKept, IoThread DEF handlePingTimeout, JoinInv, BootSeen, BootOut, NoAck
  <1>19. ASSUME NEW t \in Threads, insertMsg(t), UNCHANGED moteVars PROVE JoinInv'
    <2>1. work[t] # <<>> /\ Head(work[t]).do = "insert" /\ mid[t] = "none"
      BY <1>19 DEF insertMsg, Doing
    <2>2. joinTried' = (joinTried \/ JoinStep(Head(work[t]))) /\ UNCHANGED <<m_isMngrConnected, m_isApConnected, out, toAP>>
      BY <1>19, <2>1 DEF insertMsg, JoinStep
    <2>3. CASE ~isReady
      <3>1. /\ work' = [work EXCEPT ![t] = sendAPLostNotif_p \o Tail(@)] /\ mid' = mid /\ PlainSeq(sendAPLostNotif_p)
            /\ Tail(work[t]) \in Seq(Steps)
        BY <1>19, <2>1, <2>3, Tails, PlainSeqs DEF insertMsg
      <3>2. ~JoinStep(Head(work[t])) => (Starting => Starting')
        BY <2>1, <3>1, PrefixKept
      <3>3. AwaitBoot(work["io"]) => AwaitBoot(work'["io"])
        <4>1. CASE t = "io"
          BY <3>1, <4>1, IoThread, BootPrefix DEF AwaitBoot
        <4>2. CASE t # "io"
          BY <3>1, <4>2, IoThread
        <4>3. QED BY <4>1, <4>2
      <3>4. QED BY <2>2, <3>2, <3>3, JoinedKept DEF JoinInv, BootSeen, BootOut, NoAck, Joined
    <2>4. CASE isReady /\ Full
      <3>1. work' = [work EXCEPT ![t] = Tail(@)] /\ mid' = mid
        BY <1>19, <2>4 DEF insertMsg, Done
      <3>2. /\ ~JoinStep(Head(work[t])) => (Starting => Starting')
            /\ AwaitBoot(work["io"]) => AwaitBoot(work["io"])'
        BY <2>1, <3>1, TailKept
      <3>3. QED BY <2>2, <3>2, JoinedKept DEF JoinInv, BootSeen, BootOut, NoAck, Joined
    <2>5. CASE isReady /\ ~Full
      <3>1. work' = work /\ mid' = [mid EXCEPT ![t] = "send"]
        BY <1>19, <2>5 DEF insertMsg
      <3>2. ASSUME ~JoinStep(Head(work[t])) PROVE Starting => Starting'
        <4>1. \A s \in Threads \ {t} : work'[s] = work[s] /\ mid'[s] = mid[s]
          BY <3>1
        <4>2. ~JoinStep(work[t][1])
          BY <2>1, <3>2, Tails
        <4>3. JoinIn(work[t], mid[t]) => JoinIn(work'[t], mid'[t])
          BY <3>1, <4>2 DEF JoinIn
        <4>4. QED BY <4>1, <4>3, StartKept
      <3>3. QED BY <2>2, <3>1, <3>2, JoinedKept DEF JoinInv, BootSeen, BootOut, NoAck, Joined
    <2>6. QED BY <2>3, <2>4, <2>5
  <1>20. ASSUME NEW t \in Threads, insertMsg_send(t), UNCHANGED moteVars PROVE JoinInv'
    <2>1. NoAck => NoAck'
      BY <1>20, SendEffect, RetryEffect, ReqKept DEF insertMsg_send
    <2>2. Starting => Starting'
      BY <1>20, MidKept DEF insertMsg_send
    <2>3. QED BY <1>20, <2>1, <2>2, JoinedKept DEF insertMsg_send, JoinInv, BootSeen, BootOut
  <1>21. ASSUME NEW t \in Threads, insertMsg_mark(t), UNCHANGED moteVars PROVE JoinInv'
    <2>1. work[t] # <<>> /\ Head(work[t]).do = "insert" /\ mid[t] = "mark"
      BY <1>21 DEF insertMsg_mark
    <2>2. CASE work' = work /\ mid' = [mid EXCEPT ![t] = "tell"]
      <3>1. Starting => Starting'
        BY <2>1, <2>2, MidKept
      <3>2. QED BY <1>21, <2>2, <3>1, JoinedKept DEF insertMsg_mark, JoinInv, BootSeen, BootOut, NoAck
    <2>3. CASE Done(t) /\ mid' = [mid EXCEPT ![t] = "none"]
      <3>1. (Starting => Starting') /\ (AwaitBoot(work["io"]) => AwaitBoot(work["io"])')
        BY <2>1, <2>3, TailKept DEF Done
      <3>2. QED BY <1>21, <3>1, JoinedKept DEF insertMsg_mark, JoinInv, BootSeen, BootOut, NoAck
    <2>4. QED BY <1>21, <2>2, <2>3 DEF insertMsg_mark, LeaveInsert
  <1>22. ASSUME NEW t \in Threads, insertMsg_tell(t), UNCHANGED moteVars PROVE JoinInv'
    <2>1. Starting => Starting'
      BY <1>22, MidKept DEF insertMsg_tell
    <2>2. QED BY <1>22, <2>1, JoinedKept DEF insertMsg_tell, JoinInv, BootSeen, BootOut, NoAck
  <1>23. ASSUME NEW t \in Threads, insertMsg_set(t), UNCHANGED moteVars PROVE JoinInv'
    <2>1. work[t] # <<>> /\ Head(work[t]).do = "insert" /\ mid[t] = "set"
      BY <1>23 DEF insertMsg_set
    <2>2. work' = [work EXCEPT ![t] = Tail(@)] /\ mid' = [mid EXCEPT ![t] = "none"]
      BY <1>23 DEF insertMsg_set, LeaveInsert, Done
    <2>3. (Starting => Starting') /\ (AwaitBoot(work["io"]) => AwaitBoot(work["io"])')
      BY <2>1, <2>2, TailKept
    <2>4. QED BY <1>23, <2>3, JoinedKept DEF insertMsg_set, JoinInv, BootSeen, BootOut, NoAck
  <1>24. ASSUME NEW t \in Threads, startJoin_p_end(t), UNCHANGED moteVars PROVE JoinInv'
    <2>1. work[t] # <<>> /\ Head(work[t]).do = "running" /\ mid[t] = "none"
      BY <1>24 DEF startJoin_p_end, Doing
    <2>2. (Starting => Starting') /\ (AwaitBoot(work["io"]) => AwaitBoot(work["io"])')
      BY <1>24, <2>1, TailKept DEF startJoin_p_end, Done, JoinStep
    <2>3. QED BY <1>24, <2>2, JoinedKept DEF startJoin_p_end, JoinInv, BootSeen, BootOut, NoAck
  <1>24a. ASSUME NEW t \in Threads, apGone(t), UNCHANGED moteVars PROVE JoinInv'
    <2>1. CASE m_isMngrConnected' = FALSE \/ m_isApConnected' = FALSE
      BY <2>1 DEF JoinInv, Joined
    <2>2. CASE Doing(t, "halted") /\ UNCHANGED <<m_isMngrConnected, m_isApConnected>>
      <3>1. work[t] # <<>> /\ Head(work[t]).do = "halted" /\ mid[t] = "none"
        BY <2>2 DEF Doing
      <3>2. (Starting => Starting') /\ (AwaitBoot(work["io"]) => AwaitBoot(work["io"])')
        BY <1>24a, <3>1, TailKept DEF apGone, Done, JoinStep
      <3>3. QED BY <1>24a, <2>2, <3>2, JoinedKept DEF apGone, JoinInv, BootSeen, BootOut, NoAck
    <2>3. QED BY <1>24a, <2>1, <2>2 DEF apGone
  <1>25. ASSUME NEW t \in Apps, NEW op \in AppOps, AppInsert(t, op), UNCHANGED moteVars PROVE JoinInv'
    <2>1. t \in Threads /\ t # "io" /\ ~JoinIn(work[t], mid[t]) /\ mid' = mid /\ \A s \in Threads \ {t} : work'[s] = work[s]
      BY <1>25, NoJoin, IoThread DEF AppInsert
    <2>2. Starting => Starting'
      BY <2>1, StartKept
    <2>3. QED BY <1>25, <2>1, <2>2, JoinedKept, IoThread DEF AppInsert, JoinInv, BootSeen, BootOut, NoAck
  <1>26. ASSUME NEW t \in Apps, enableJoin(t), UNCHANGED moteVars PROVE JoinInv'
    <2>1. CASE m_isApConnected
      <3>1. JoinIn(startJoin, mid'[t])
        BY StartJoinType, JoinQueued
      <3>2. Starting'
        BY <1>26, <2>1, <3>1, IoThread DEF enableJoin, Starting
      <3>3. QED BY <3>2 DEF JoinInv, Joined
    <2>2. CASE ~m_isApConnected
      BY <1>26, <2>2 DEF enableJoin, JoinInv, Joined
    <2>3. QED BY <2>1, <2>2
  <1>27. ASSUME NEW t \in Apps, Control(t), UNCHANGED moteVars PROVE JoinInv'
    <2>1. CASE disableJoin
      BY <2>1 DEF disableJoin, JoinInv, Joined
    <2>2. CASE setAPMState \/ setAbort \/ hwResetAP
      BY <1>27, <2>2, JoinedKept DEF Control, setAPMState, setAbort, hwResetAP, JoinInv, BootSeen, BootOut, NoAck, Starting
    <2>3. QED BY <1>27, <2>1, <2>2 DEF Control
  <1>28. CASE MoteCommand
    <2>1. NoAck => NoAck'
      BY <1>28, NoAckTail DEF MoteCommand
    <2>2. QED BY <1>28, <2>1, JoinedKept DEF MoteCommand, JoinInv, BootSeen, BootOut, Starting
  <1>29. CASE MoteAck
    <2>1. ~NoAck
      <3>1. toAP[1] = Head(toAP) /\ 1 \in 1..Len(toAP) /\ Head(toAP).t = "ack"
        BY <1>29, Tails DEF MoteAck
      <3>2. QED BY <3>1 DEF NoAck
    <2>2. QED BY <1>29, <2>1, JoinedKept DEF MoteAck, JoinInv, BootSeen, Starting
  <1>30. CASE MoteRepeat
    BY <1>30, JoinedKept DEF MoteRepeat, JoinInv, BootSeen, BootOut, NoAck, Starting
  <1>31. CASE MoteBoot
    <2>1. hand = <<>>
      BY <1>31, NoUnderway DEF MoteBoot
    <2>2. ~EndsInAck(work["io"])
      BY <2>1 DEF hand, Hand
    <2>3. BootOut' /\ NoAck'
      BY <1>31 DEF MoteBoot, BootOut, BootEvent, NoAck
    <2>4. QED BY <1>31, <2>2, <2>3 DEF MoteBoot, JoinInv, BootSeen, AwaitBoot
  <1>32. CASE LineLoses
    <2>1. NoAck => NoAck'
      BY <1>32, NoAckTail DEF LineLoses, NoAck
    <2>2. QED BY <1>32, <2>1, JoinedKept DEF LineLoses, JoinInv, BootSeen, BootOut, Starting
  <1>33. ASSUME NEW kind \in Kinds, MoteNotify(kind) PROVE JoinInv'
    BY <1>33, JoinedKept DEF MoteNotify, JoinInv, BootSeen, BootOut, Starting
  <1>34. QED
    BY <1>1, <1>2, <1>3, <1>4, <1>5, <1>6, <1>7, <1>8, <1>9, <1>10, <1>11, <1>12, <1>13, <1>14, <1>15, <1>16, <1>17,
       <1>18, <1>19, <1>20, <1>21, <1>22, <1>23, <1>24, <1>25, <1>26, <1>27, <1>28, <1>29, <1>30, <1>31, <1>32,
       <1>33, <1>16a, <1>24a
    DEF SysNext, TransportNext, IoNext, ThreadNext, AppNext, MoteNext

\* The flags and the timer.
Flow     == {"NORMAL", "PAUSE"}
FlagType ==
    /\ m_pending \in BOOLEAN /\ m_curRetryCount \in 0..MaxRetries
    /\ m_outputTimer \in [armed : BOOLEAN, due : Nat]
    /\ m_mngrInputState \in Flow /\ m_apInputState \in Flow /\ told \in Flow
    /\ m_bootCounter \in 0..MaxBootEvents

\* The bounds of the retries and of the boot events are numbers.
LEMMA Limits == MaxRetries \in Nat /\ MaxBootEvents \in Nat /\ 0 \in 0..MaxRetries /\ 0 \in 0..MaxBootEvents
  BY TransportAssumption

\* send sets m_pending or leaves it.
LEMMA SendPending == ASSUME NEW b \in BOOLEAN, send(b) PROVE m_pending' \in {TRUE, m_pending}
  BY DEF send

\* The timer is armed and cancelled within its type.
LEMMA TimerType ==
    ASSUME m_outputTimer \in [armed : BOOLEAN, due : Nat]
    PROVE  /\ Armed(m_outputTimer) \in [armed : BOOLEAN, due : Nat]
           /\ Cancelled(m_outputTimer) \in [armed : BOOLEAN, due : Nat]
  BY DEF Armed, Cancelled

\* Every step keeps the retry count, the boot count and the flow control's states within their ranges.
LEMMA FlagTypeStep == FlagType /\ [SysNext]_allVars => FlagType'
  <1> SUFFICES ASSUME FlagType, [SysNext]_allVars PROVE FlagType'
    OBVIOUS
  <1> USE DEF queueVars, timerVars, flowVars, joinVars, threadVars, ctlVars, logVars, vars, moteVars, allVars,
              Bridge, FlagType
  <1>1. CASE UNCHANGED allVars
    BY <1>1 DEF allVars, vars
  <1>2. CASE handleMsg_response /\ UNCHANGED moteVars
    BY <1>2 DEF handleMsg_response, Receive
  <1>3. CASE handleResponse /\ UNCHANGED moteVars
    <2>1. m_pending' \in BOOLEAN
      BY <1>3 DEF handleResponse
    <2>2. m_outputTimer' \in [armed : BOOLEAN, due : Nat]
      BY <1>3, TimerType DEF handleResponse, NackTimer
    <2>3. m_curRetryCount' \in 0..MaxRetries
      BY <1>3, TransportAssumption DEF handleResponse
    <2>4. QED BY <1>3, <2>1, <2>2, <2>3 DEF handleResponse
  <1>4. CASE handleResponse_resume /\ UNCHANGED moteVars
    BY <1>4 DEF handleResponse_resume, Doing, Flow
  <1>5. CASE handleResponse_end /\ UNCHANGED moteVars
    <2>1. m_pending' \in BOOLEAN
      BY <1>5, SendPending DEF handleResponse_end
    <2>2. m_outputTimer' \in [armed : BOOLEAN, due : Nat]
      BY <1>5, TimerType DEF handleResponse_end
    <2>3. m_mngrInputState' \in Flow
      BY <1>5 DEF handleResponse_end, Flow
    <2>4. m_bootCounter' \in {0, m_bootCounter}
      BY <1>5 DEF handleResponse_end
    <2>5. m_bootCounter' \in 0..MaxBootEvents
      BY <2>4, Limits
    <2>6. UNCHANGED <<m_curRetryCount, m_apInputState, told>>
      BY <1>5 DEF handleResponse_end
    <2>7. QED BY <2>1, <2>2, <2>3, <2>5, <2>6
  <1>6. CASE handleNotification_retry /\ UNCHANGED moteVars
    BY <1>6 DEF handleNotification_retry, Receive, IsNew
  <1>7. CASE handleNotification_nack /\ UNCHANGED moteVars
    BY <1>7 DEF handleNotification_nack, Receive, IsNew
  <1>8. CASE handleNotification /\ UNCHANGED moteVars
    BY <1>8, Limits DEF handleNotification, Receive, IsNew
  <1>9. CASE handleAPBoot /\ UNCHANGED moteVars
    <2>1. m_outputTimer' \in [armed : BOOLEAN, due : Nat]
      BY <1>9, TimerType DEF handleAPBoot, clearOutputQueue
    <2>2. m_bootCounter' \in 0..MaxBootEvents
      BY <1>9, Limits DEF handleAPBoot
    <2>3. m_pending' \in BOOLEAN /\ m_curRetryCount' \in 0..MaxRetries
      BY <1>9, Limits DEF handleAPBoot, clearOutputQueue
    <2>4. m_mngrInputState' \in Flow /\ m_apInputState' \in Flow /\ told' \in Flow
      BY <1>9 DEF handleAPBoot, clearOutputQueue, Flow
    <2>5. QED BY <2>1, <2>2, <2>3, <2>4
  <1>10. CASE handleAPBoot_lost /\ UNCHANGED moteVars
    BY <1>10, Limits DEF handleAPBoot_lost, Receive
  <1>11. CASE handleAPBoot_booted /\ UNCHANGED moteVars
    BY <1>11 DEF handleAPBoot_booted, Doing
  <1>12. CASE handleAPBoot_told /\ UNCHANGED moteVars
    BY <1>12 DEF handleAPBoot_told, Doing
  <1>13. CASE handleNotification_ack /\ UNCHANGED moteVars
    BY <1>13 DEF handleNotification_ack, Doing, Done
  <1>14. CASE OutputTimerExpires /\ UNCHANGED moteVars
    BY <1>14 DEF OutputTimerExpires
  <1>15. CASE handleRetryTimeout /\ UNCHANGED moteVars
    <2>1. m_pending' \in BOOLEAN
      BY <1>15, SendPending DEF handleRetryTimeout
    <2>2. m_outputTimer' \in [armed : BOOLEAN, due : Nat]
      BY <1>15 DEF handleRetryTimeout, RetryDue
    <2>3. m_curRetryCount' \in 0..MaxRetries
      BY <1>15, TransportAssumption DEF handleRetryTimeout
    <2>4. QED BY <1>15, <2>1, <2>2, <2>3 DEF handleRetryTimeout
  <1>16. CASE handleRetryTimeout_lost /\ UNCHANGED moteVars
    <2>1. m_outputTimer' \in [armed : BOOLEAN, due : Nat]
      <3>1. m_outputTimer.due > 0 /\ m_outputTimer' = [m_outputTimer EXCEPT !.due = @ - 1]
        BY <1>16 DEF handleRetryTimeout_lost, RetryDue
      <3>2. m_outputTimer.due - 1 \in Nat
        BY <3>1
      <3>3. QED BY <3>1, <3>2
    <2>2. QED BY <1>16, <2>1 DEF handleRetryTimeout_lost
  <1>16a. CASE handleRetryTimeout_reset /\ UNCHANGED moteVars
    BY <1>16a DEF handleRetryTimeout_reset
  <1>17. CASE handleQueueCheckTimeout /\ UNCHANGED moteVars
    BY <1>17 DEF handleQueueCheckTimeout, Flow
  <1>18. CASE handlePingTimeout /\ UNCHANGED moteVars
    BY <1>18 DEF handlePingTimeout
  <1>19. ASSUME NEW t \in Threads, insertMsg(t), UNCHANGED moteVars PROVE FlagType'
    BY <1>19 DEF insertMsg, Doing, Done
  <1>20. ASSUME NEW t \in Threads, insertMsg_send(t), UNCHANGED moteVars PROVE FlagType'
    <2>1. m_pending' \in BOOLEAN
      BY <1>20, SendPending DEF insertMsg_send
    <2>2. m_outputTimer' \in [armed : BOOLEAN, due : Nat]
      BY <1>20, TimerType DEF insertMsg_send
    <2>3. QED BY <1>20, <2>1, <2>2, TransportAssumption DEF insertMsg_send, Flow
  <1>21. ASSUME NEW t \in Threads, insertMsg_mark(t), UNCHANGED moteVars PROVE FlagType'
    BY <1>21 DEF insertMsg_mark, LeaveInsert, Done
  <1>22. ASSUME NEW t \in Threads, insertMsg_tell(t), UNCHANGED moteVars PROVE FlagType'
    BY <1>22 DEF insertMsg_tell, Flow
  <1>23. ASSUME NEW t \in Threads, insertMsg_set(t), UNCHANGED moteVars PROVE FlagType'
    BY <1>23 DEF insertMsg_set, LeaveInsert, Done, Flow
  <1>24. ASSUME NEW t \in Threads, startJoin_p_end(t), UNCHANGED moteVars PROVE FlagType'
    BY <1>24 DEF startJoin_p_end, Doing, Done
  <1>24a. ASSUME NEW t \in Threads, apGone(t), UNCHANGED moteVars PROVE FlagType'
    BY <1>24a DEF apGone
  <1>25. ASSUME NEW t \in Apps, NEW op \in AppOps, AppInsert(t, op), UNCHANGED moteVars PROVE FlagType'
    BY <1>25 DEF AppInsert
  <1>26. ASSUME NEW t \in Apps, enableJoin(t), UNCHANGED moteVars PROVE FlagType'
    BY <1>26 DEF enableJoin
  <1>27. ASSUME NEW t \in Apps, Control(t), UNCHANGED moteVars PROVE FlagType'
    <2>1. m_apInputState' \in Flow
      BY <1>27 DEF Control, disableJoin, setAPMState, setAbort, hwResetAP, Flow
    <2>2. QED BY <1>27, <2>1 DEF Control
  <1>28. CASE MoteCommand
    BY <1>28 DEF MoteCommand
  <1>29. CASE MoteAck
    BY <1>29 DEF MoteAck
  <1>30. CASE MoteRepeat
    BY <1>30 DEF MoteRepeat
  <1>31. CASE MoteBoot
    BY <1>31 DEF MoteBoot
  <1>32. CASE LineLoses
    BY <1>32 DEF LineLoses
  <1>33. ASSUME NEW kind \in Kinds, MoteNotify(kind) PROVE FlagType'
    BY <1>33 DEF MoteNotify
  <1>34. QED
    BY <1>1, <1>2, <1>3, <1>4, <1>5, <1>6, <1>7, <1>8, <1>9, <1>10, <1>11, <1>12, <1>13, <1>14, <1>15, <1>16, <1>17,
       <1>18, <1>19, <1>20, <1>21, <1>22, <1>23, <1>24, <1>25, <1>26, <1>27, <1>28, <1>29, <1>30, <1>31, <1>32,
       <1>33, <1>16a, <1>24a
    DEF SysNext, TransportNext, IoNext, ThreadNext, AppNext, MoteNext

\* The transport begins in a state of its type.
LEMMA InitType == SysInit => TypeInv /\ Shape /\ FlagType
  <1> SUFFICES ASSUME SysInit PROVE TypeInv /\ Shape /\ FlagType
    OBVIOUS
  <1> USE DEF SysInit, Init, MoteInit
  <1>1. QueueType
    BY TransportAssumption DEF QueueType
  <1>2. LineType
    BY DEF LineType, RcSet, Counts
  <1>3. WorkType
    BY DEF WorkType
  <1>4. Shape
    BY IoThread DEF Shape, AppShape, IoShape
  <1>5. FlagType
    BY Limits DEF FlagType, Flow, NoTimer
  <1>6. QED BY <1>1, <1>2, <1>3, <1>4, <1>5 DEF TypeInv

\* The transport begins without a notification and without a join.
LEMMA InitToken == SysInit => OneToken /\ Notified /\ JoinInv
  <1> SUFFICES ASSUME SysInit PROVE OneToken /\ Notified /\ JoinInv
    OBVIOUS
  <1> USE DEF SysInit, Init, MoteInit
  <1>1. hand = <<>>
    BY IoThread DEF hand, Hand, EndsInAck
  <1>2. OneToken
    BY <1>1 DEF OneToken, OneNtf, OneWork, OneAck
  <1>3. Notified
    BY DEF Notified, Counted, Recorded, Ordered
  <1>4. JoinInv
    BY DEF JoinInv, Joined
  <1>5. QED BY <1>2, <1>3, <1>4

\* The inductive invariant: types, the shape of the threads' work, and the one token.
Inv == TypeInv /\ FlagType /\ Shape /\ OneToken

\* The inductive invariant holds in every state of the bridge and the mote.
LEMMA Invariant == SysSpec => []Inv
  <1>1. SysInit => Inv
    BY InitType, InitToken DEF Inv
  <1>2. Inv /\ [SysNext]_allVars => Inv'
    <2> SUFFICES ASSUME TypeInv, FlagType, Shape, OneToken, [SysNext]_allVars PROVE Inv'
      BY DEF Inv
    <2>1. TypeInv'
      BY QueueTypeStep, LineTypeStep, WorkTypeStep DEF TypeInv
    <2>2. FlagType'
      BY FlagTypeStep
    <2>3. Shape'
      BY ShapeStep
    <2>4. OneToken'
      BY OneTokenStep
    <2>5. QED BY <2>1, <2>2, <2>3, <2>4 DEF Inv
  <1>3. QED BY <1>1, <1>2, PTL DEF SysSpec

\* The queue never exceeds its bound, the retry and boot counts theirs, and a thread inside insertMsg has that call to
\* finish, whatever the AP answers, loses or repeats (TransportTypeOK), for every number of threads and every bound.
THEOREM TransportTypes == SysSpec => []TransportTypeOK
  <1>1. Inv => TransportTypeOK
    BY DEF Inv, TypeInv, FlagType, Flow, QueueType, LineType, WorkType, TransportTypeOK
  <1>2. QED BY <1>1, Invariant, PTL

\* handleNotification hands every notification to the coupler at most once and in order, although the mote repeats it
\* until its acknowledgement arrives (NotifiedOnce), for any number of lost frames, notifications, boots and threads.
THEOREM NotificationsOnce == SysSpec => []NotifiedOnce
  <1>1. SysInit => Notified
    BY InitToken
  <1>2. Inv /\ Notified /\ [SysNext]_allVars => Notified'
    BY OneTokenStep, NotifiedStep DEF Inv
  <1>3. Inv /\ Notified => NotifiedOnce
    <2> SUFFICES ASSUME Inv, Notified PROVE NotifiedOnce
      OBVIOUS
    <2>1. DOMAIN delivered = 1..Len(delivered)
      BY DEF Inv, TypeInv, LineType
    <2>2. QED BY <2>1 DEF Notified, Ordered, NotifiedOnce
  <1>4. QED BY <1>1, <1>2, <1>3, Invariant, PTL DEF SysSpec

\* Once the AP booted and the Manager is connected, a JOIN was inserted since the boot, by enableJoin or by handleAPBoot,
\* whichever comes second, or is about to be (JoinStarted), for any number of threads, boots and AP losses, although
\* the reboot callback and sendAPLostNotif_p write the flags one after the other while other threads run.
THEOREM JoinsStarted == SysSpec => []JoinStarted
  <1>1. SysInit => JoinInv
    BY InitToken
  <1>2. Inv /\ JoinInv /\ [SysNext]_allVars => JoinInv'
    BY JoinInvStep DEF Inv
  <1>3. Inv /\ JoinInv => JoinStarted
    <2> SUFFICES ASSUME Inv, JoinInv PROVE JoinStarted
      OBVIOUS
    <2>1. \A t \in Threads : DOMAIN work[t] = 1..Len(work[t])
      BY DEF Inv, TypeInv, WorkType
    <2>2. QED BY <2>1 DEF JoinInv, Joined, BootSeen, BootOut, Starting, JoinIn, JoinStep, JoinStarted
  <1>4. QED BY <1>1, <1>2, <1>3, Invariant, PTL DEF SysSpec

\* What send does to m_pending and to what was transmitted last.
LEMMA SendFlags ==
    ASSUME NEW b \in BOOLEAN, send(b)
    PROVE  \/ CanSend(b) /\ m_pending' /\ lastTx'.n = Head(m_outputQueue).n
           \/ ~CanSend(b) /\ UNCHANGED <<m_pending, lastTx>>
  BY DEF send

\* What a retry does to m_pending and to what was transmitted last.
LEMMA RetryFlags ==
    ASSUME handleRetryTimeout
    PROVE  \/ UNCHANGED <<m_pending, lastTx>>
           \/ m_outputQueue # <<>> /\ m_pending' /\ lastTx'.n = Head(m_outputQueue).n
  <1> DEFINE sent == [n |-> Head(m_outputQueue).n, tries |-> lastTx.tries + 1]
  <1>1. CASE send(FALSE)
    BY <1>1, SendFlags DEF CanSend
  <1>2. CASE UNCHANGED <<m_pending, lastTx>>
    BY <1>2
  <1>3. CASE m_outputQueue # <<>> /\ m_pending /\ UNCHANGED m_pending /\ lastTx' = sent
    BY <1>3
  <1> HIDE DEF sent
  <1>4. send(FALSE) \/ UNCHANGED <<m_pending, lastTx>>
        \/ (m_outputQueue # <<>> /\ m_pending /\ UNCHANGED m_pending /\ lastTx' = sent)
    BY DEF handleRetryTimeout, sent
  <1>5. QED BY <1>1, <1>2, <1>3, <1>4

\* With equal priorities insertMsg puts the new command behind all others.
LEMMA QueuedLast ==
    ASSUME TypeInv, EqualPriority, NEW t \in Threads, insertMsg(t)
    PROVE  \/ UNCHANGED <<m_outputQueue, count>>
           \/ LET cmd == NewCommand(Head(work[t]).op) IN
              /\ cmd \in Cmds /\ isReady /\ m_outputQueue' = Append(m_outputQueue, cmd)
              /\ count' = [count EXCEPT !.insert = IF cmd.n = 0 THEN @ ELSE cmd.n]
              /\ mid' = [mid EXCEPT ![t] = "send"]
  <1> DEFINE cmd == NewCommand(Head(work[t]).op)
  <1>1. Head(work[t]).op \in Ops
    BY Tails, StepFields DEF insertMsg, Doing, TypeInv, WorkType
  <1>2. cmd \in Cmds /\ cmd.op \in Ops
    BY <1>1 DEF NewCommand, Cmds, TypeInv, QueueType
  <1>3. Queued(cmd) = Append(m_outputQueue, cmd)
    BY <1>2, PlainOps DEF Queued
  <1>4. \/ UNCHANGED <<m_outputQueue, count>>
        \/ /\ isReady /\ m_outputQueue' = Queued(cmd)
           /\ count' = [count EXCEPT !.insert = IF cmd.n = 0 THEN @ ELSE cmd.n]
           /\ mid' = [mid EXCEPT ![t] = "send"]
    BY DEF insertMsg
  <1> HIDE DEF cmd
  <1>5. QED BY <1>2, <1>3, <1>4 DEF cmd

\* After send a queue that is not empty has its front on the line, unless the serial port is not ready.
LEMMA SendServes ==
    ASSUME FlagType, isReady, send(TRUE), UNCHANGED m_outputQueue, m_outputQueue # <<>> PROVE m_pending'
  BY SendFlags DEF FlagType, CanSend

\* A command behind the others changes neither the front nor what is in front of it.
LEMMA AppendKeeps ==
    ASSUME NEW S, NEW q \in Seq(S), NEW e \in S, q # <<>>
    PROVE  Append(q, e) # <<>> /\ Head(Append(q, e)) = Head(q)
  OBVIOUS

\* Every step keeps the command on the line the front of the queue.
LEMMA FrontStep == EqualPriority /\ TypeInv /\ PendingIsFront /\ [SysNext]_allVars => PendingIsFront'
  <1> SUFFICES ASSUME EqualPriority /\ TypeInv /\ PendingIsFront, [SysNext]_allVars PROVE PendingIsFront'
    OBVIOUS
  <1> USE DEF queueVars, timerVars, flowVars, joinVars, threadVars, ctlVars, logVars, vars, moteVars, allVars,
              Bridge, PendingIsFront
  <1>1. CASE UNCHANGED allVars
    BY <1>1 DEF allVars, vars
  <1>2. CASE handleMsg_response /\ UNCHANGED moteVars
    BY <1>2 DEF handleMsg_response, Receive
  <1>3. CASE handleResponse /\ UNCHANGED moteVars
    BY <1>3 DEF handleResponse, Doing
  <1>4. CASE handleResponse_resume /\ UNCHANGED moteVars
    BY <1>4 DEF handleResponse_resume, Doing
  <1>5. CASE handleResponse_end /\ UNCHANGED moteVars
    BY <1>5, SendFlags DEF handleResponse_end, CanSend
  <1>6. CASE handleNotification_retry /\ UNCHANGED moteVars
    BY <1>6 DEF handleNotification_retry, Receive, IsNew
  <1>7. CASE handleNotification_nack /\ UNCHANGED moteVars
    BY <1>7 DEF handleNotification_nack, Receive, IsNew
  <1>8. CASE handleNotification /\ UNCHANGED moteVars
    BY <1>8 DEF handleNotification, Receive, IsNew
  <1>9. CASE handleAPBoot /\ UNCHANGED moteVars
    BY <1>9 DEF handleAPBoot, clearOutputQueue
  <1>10. CASE handleAPBoot_lost /\ UNCHANGED moteVars
    BY <1>10 DEF handleAPBoot_lost, Receive
  <1>11. CASE handleAPBoot_booted /\ UNCHANGED moteVars
    BY <1>11 DEF handleAPBoot_booted, Doing
  <1>12. CASE handleAPBoot_told /\ UNCHANGED moteVars
    BY <1>12 DEF handleAPBoot_told, Doing
  <1>13. CASE handleNotification_ack /\ UNCHANGED moteVars
    BY <1>13 DEF handleNotification_ack, Doing, Done
  <1>14. CASE OutputTimerExpires /\ UNCHANGED moteVars
    BY <1>14 DEF OutputTimerExpires
  <1>15. CASE handleRetryTimeout /\ UNCHANGED moteVars
    <2>1. UNCHANGED m_outputQueue
      BY <1>15 DEF handleRetryTimeout
    <2>2. QED BY <1>15, <2>1, RetryFlags
  <1>16. CASE handleRetryTimeout_lost /\ UNCHANGED moteVars
    BY <1>16 DEF handleRetryTimeout_lost, RetryDue
  <1>16a. CASE handleRetryTimeout_reset /\ UNCHANGED moteVars
    BY <1>16a DEF handleRetryTimeout_reset
  <1>17. CASE handleQueueCheckTimeout /\ UNCHANGED moteVars
    BY <1>17 DEF handleQueueCheckTimeout
  <1>18. CASE handlePingTimeout /\ UNCHANGED moteVars
    BY <1>18 DEF handlePingTimeout
  <1>19. ASSUME NEW t \in Threads, insertMsg(t), UNCHANGED moteVars PROVE PendingIsFront'
    <2>1. UNCHANGED <<m_pending, lastTx>>
      BY <1>19 DEF insertMsg
    <2>2. CASE UNCHANGED m_outputQueue
      BY <2>1, <2>2
    <2>3. CASE \E e \in Cmds : m_outputQueue' = Append(m_outputQueue, e)
      <3>1. PICK e \in Cmds : m_outputQueue' = Append(m_outputQueue, e)
        BY <2>3
      <3>2. m_outputQueue # <<>> => m_outputQueue' # <<>> /\ Head(m_outputQueue') = Head(m_outputQueue)
        BY <3>1, AppendKeeps DEF TypeInv, QueueType
      <3>3. QED BY <2>1, <3>2
    <2>4. QED BY <1>19, <2>2, <2>3, QueuedLast
  <1>20. ASSUME NEW t \in Threads, insertMsg_send(t), UNCHANGED moteVars PROVE PendingIsFront'
    BY <1>20, SendFlags DEF insertMsg_send, CanSend
  <1>21. ASSUME NEW t \in Threads, insertMsg_mark(t), UNCHANGED moteVars PROVE PendingIsFront'
    BY <1>21 DEF insertMsg_mark, LeaveInsert, Done
  <1>22. ASSUME NEW t \in Threads, insertMsg_tell(t), UNCHANGED moteVars PROVE PendingIsFront'
    BY <1>22 DEF insertMsg_tell
  <1>23. ASSUME NEW t \in Threads, insertMsg_set(t), UNCHANGED moteVars PROVE PendingIsFront'
    BY <1>23 DEF insertMsg_set, LeaveInsert, Done
  <1>24. ASSUME NEW t \in Threads, startJoin_p_end(t), UNCHANGED moteVars PROVE PendingIsFront'
    BY <1>24 DEF startJoin_p_end, Doing, Done
  <1>24a. ASSUME NEW t \in Threads, apGone(t), UNCHANGED moteVars PROVE PendingIsFront'
    BY <1>24a DEF apGone
  <1>25. ASSUME NEW t \in Apps, NEW op \in AppOps, AppInsert(t, op), UNCHANGED moteVars PROVE PendingIsFront'
    BY <1>25 DEF AppInsert
  <1>26. ASSUME NEW t \in Apps, enableJoin(t), UNCHANGED moteVars PROVE PendingIsFront'
    BY <1>26 DEF enableJoin
  <1>27. ASSUME NEW t \in Apps, Control(t), UNCHANGED moteVars PROVE PendingIsFront'
    BY <1>27 DEF Control, disableJoin, setAPMState, setAbort, hwResetAP
  <1>28. CASE MoteCommand
    BY <1>28 DEF MoteCommand
  <1>29. CASE MoteAck
    BY <1>29 DEF MoteAck
  <1>30. CASE MoteRepeat
    BY <1>30 DEF MoteRepeat
  <1>31. CASE MoteBoot
    BY <1>31 DEF MoteBoot
  <1>32. CASE LineLoses
    BY <1>32 DEF LineLoses
  <1>33. ASSUME NEW kind \in Kinds, MoteNotify(kind) PROVE PendingIsFront'
    BY <1>33 DEF MoteNotify
  <1>34. QED
    BY <1>1, <1>2, <1>3, <1>4, <1>5, <1>6, <1>7, <1>8, <1>9, <1>10, <1>11, <1>12, <1>13, <1>14, <1>15, <1>16, <1>17,
       <1>18, <1>19, <1>20, <1>21, <1>22, <1>23, <1>24, <1>25, <1>26, <1>27, <1>28, <1>29, <1>30, <1>31, <1>32,
       <1>33, <1>16a, <1>24a
    DEF SysNext, TransportNext, IoNext, ThreadNext, AppNext, MoteNext

\* With equal priorities the command on the line is the front of the queue, which handleMsg compares the response with
\* and a retry sends again (PendingIsFront).  Without the hypothesis a high-priority command put in front of a pending
\* one breaks it.
LEMMA PendingFront == ASSUME EqualPriority PROVE SysSpec => []PendingIsFront
  <1>1. SysInit => PendingIsFront
    BY DEF SysInit, Init, PendingIsFront
  <1>2. Inv /\ PendingIsFront /\ [SysNext]_allVars => PendingIsFront'
    BY FrontStep DEF Inv
  <1>3. QED BY <1>1, <1>2, Invariant, PTL DEF SysSpec

\* A queue whose front is not on the line has a thread on its way to send: inside insertMsg before its send, or the io
\* thread at the end of a response.
Answering(w) == w # <<>> /\ Head(w).do \in {"responded", "resumed"}
Served == m_outputQueue # <<>> /\ ~m_pending =>
            (\E t \in Threads : mid[t] = "send") \/ Answering(work["io"])

\* A step of the io thread's work that is not the end of a response leaves that end to come.
LEMMA ServedTail ==
    ASSUME TypeInv, Shape, NEW t \in Threads, work[t] # <<>>, Head(work[t]).do = "insert" \/ t # "io",
           work' = [work EXCEPT ![t] = Tail(@)]
    PROVE  Answering(work["io"]) => Answering(work'["io"])
  BY IoThread DEF TypeInv, WorkType, Answering

\* A step that changes neither the queue nor m_pending keeps the threads that will send.
LEMMA ServedKept ==
    ASSUME Served, UNCHANGED <<m_outputQueue, m_pending, mid>>, Answering(work["io"]) => Answering(work'["io"])
    PROVE  Served'
  BY DEF Served

\* Every step keeps a thread on its way to send the front.
LEMMA ServedStep == isReady /\ TypeInv /\ FlagType /\ Shape /\ Served /\ [SysNext]_allVars => Served'
  <1> SUFFICES ASSUME isReady /\ TypeInv /\ FlagType /\ Shape /\ Served, [SysNext]_allVars PROVE Served'
    OBVIOUS
  <1> USE DEF queueVars, timerVars, flowVars, joinVars, threadVars, ctlVars, logVars, vars, moteVars, allVars,
              Bridge, TypeInv, WorkType
  <1>1. CASE UNCHANGED allVars
    BY <1>1, ServedKept DEF allVars, vars
  <1>2. CASE handleMsg_response /\ UNCHANGED moteVars
    BY <1>2, ServedKept, IoThread DEF handleMsg_response, Receive, Answering
  <1>3. CASE handleResponse /\ UNCHANGED moteVars
    <2>1. Answering(work'["io"])
      BY <1>3, IoThread DEF handleResponse, Answering
    <2>2. QED BY <2>1 DEF Served
  <1>4. CASE handleResponse_resume /\ UNCHANGED moteVars
    <2>1. Answering(work'["io"])
      <3>1. Head(work["io"]) \in Steps /\ Head(work["io"]).do = "responded"
        BY <1>4, IoThread, Tails DEF handleResponse_resume, Doing
      <3> DEFINE e == [Head(work["io"]) EXCEPT !.do = "resumed"]
      <3>2. e.do = "resumed"
        BY <3>1 DEF Steps
      <3>3. work'["io"] = <<e>>
        BY <1>4, IoThread DEF handleResponse_resume
      <3> HIDE DEF e
      <3>4. QED BY <3>2, <3>3 DEF Answering
    <2>2. QED BY <2>1 DEF Served
  <1>5. CASE handleResponse_end /\ UNCHANGED moteVars
    <2>1. UNCHANGED m_outputQueue
      BY <1>5 DEF handleResponse_end
    <2>2. send(TRUE)
      BY <1>5 DEF handleResponse_end
    <2>3. QED BY <2>1, <2>2, SendServes DEF Served
  <1>6. CASE handleNotification_retry /\ UNCHANGED moteVars
    BY <1>6, ServedKept, IoThread DEF handleNotification_retry, Receive, IsNew, Answering
  <1>7. CASE handleNotification_nack /\ UNCHANGED moteVars
    BY <1>7, ServedKept, IoThread DEF handleNotification_nack, Receive, IsNew, Answering
  <1>8. CASE handleNotification /\ UNCHANGED moteVars
    BY <1>8, ServedKept, IoThread DEF handleNotification, Receive, IsNew, Answering
  <1>9. CASE handleAPBoot /\ UNCHANGED moteVars
    BY <1>9 DEF handleAPBoot, clearOutputQueue, Served
  <1>10. CASE handleAPBoot_lost /\ UNCHANGED moteVars
    BY <1>10, ServedKept, IoThread DEF handleAPBoot_lost, Receive, Answering
  <1>11. CASE handleAPBoot_booted /\ UNCHANGED moteVars
    BY <1>11, ServedKept, IoThread DEF handleAPBoot_booted, Doing, Answering
  <1>12. CASE handleAPBoot_told /\ UNCHANGED moteVars
    BY <1>12, ServedKept, IoThread DEF handleAPBoot_told, Doing, Answering
  <1>13. CASE handleNotification_ack /\ UNCHANGED moteVars
    BY <1>13, ServedKept, IoThread DEF handleNotification_ack, Doing, Done, Answering
  <1>14. CASE OutputTimerExpires /\ UNCHANGED moteVars
    BY <1>14, ServedKept, IoThread DEF OutputTimerExpires, Answering
  <1>15. CASE handleRetryTimeout /\ UNCHANGED moteVars
    <2>1. UNCHANGED <<m_outputQueue, mid, work>>
      BY <1>15 DEF handleRetryTimeout
    <2>2. QED BY <1>15, <2>1, RetryFlags DEF Served
  <1>16. CASE handleRetryTimeout_lost /\ UNCHANGED moteVars
    BY <1>16, ServedKept, IoThread DEF handleRetryTimeout_lost, RetryDue, Answering
  <1>16a. CASE handleRetryTimeout_reset /\ UNCHANGED moteVars
    BY <1>16a, ServedKept, IoThread DEF handleRetryTimeout_reset, Doing, Done, Answering
  <1>17. CASE handleQueueCheckTimeout /\ UNCHANGED moteVars
    BY <1>17, ServedKept, IoThread DEF handleQueueCheckTimeout, Answering
  <1>18. CASE handlePingTimeout /\ UNCHANGED moteVars
    BY <1>18, ServedKept, IoThread DEF handlePingTimeout, Answering
  <1>19. ASSUME NEW t \in Threads, insertMsg(t), UNCHANGED moteVars PROVE Served'
    <2>1. work[t] # <<>> /\ Head(work[t]).do = "insert" /\ m_pending' = m_pending
      BY <1>19 DEF insertMsg, Doing
    <2>2. CASE mid' = [mid EXCEPT ![t] = "send"]
      BY <2>2 DEF Served
    <2>3. CASE Done(t) /\ UNCHANGED <<m_outputQueue, mid>>
      BY <2>1, <2>3, ServedTail, ServedKept DEF Done, TypeInv
    <2>4. QED BY <1>19, <2>2, <2>3 DEF insertMsg
  <1>20. ASSUME NEW t \in Threads, insertMsg_send(t), UNCHANGED moteVars PROVE Served'
    <2>1. UNCHANGED m_outputQueue
      BY <1>20 DEF insertMsg_send
    <2>2. send(TRUE)
      BY <1>20 DEF insertMsg_send
    <2>3. QED BY <2>1, <2>2, SendServes DEF Served
  <1>21. ASSUME NEW t \in Threads, insertMsg_mark(t), UNCHANGED moteVars PROVE Served'
    <2>1. work[t] # <<>> /\ Head(work[t]).do = "insert" /\ UNCHANGED <<m_outputQueue, m_pending>>
      BY <1>21 DEF insertMsg_mark
    <2>2. Answering(work["io"]) => Answering(work'["io"])
      <3>1. CASE work' = work
        BY <3>1
      <3>2. CASE Done(t)
        BY <2>1, <3>2, ServedTail DEF Done, TypeInv
      <3>3. QED BY <1>21, <3>1, <3>2 DEF insertMsg_mark, LeaveInsert
    <2>3. \A u \in Threads : mid[u] = "send" => mid'[u] = "send"
      BY <1>21 DEF insertMsg_mark, LeaveInsert
    <2>4. QED BY <2>1, <2>2, <2>3 DEF Served
  <1>22. ASSUME NEW t \in Threads, insertMsg_tell(t), UNCHANGED moteVars PROVE Served'
    <2>1. \A u \in Threads : mid[u] = "send" => mid'[u] = "send"
      BY <1>22 DEF insertMsg_tell
    <2>2. QED BY <1>22, <2>1 DEF insertMsg_tell, Served
  <1>23. ASSUME NEW t \in Threads, insertMsg_set(t), UNCHANGED moteVars PROVE Served'
    <2>1. work[t] # <<>> /\ Head(work[t]).do = "insert" /\ UNCHANGED <<m_outputQueue, m_pending>>
      BY <1>23 DEF insertMsg_set
    <2>2. Answering(work["io"]) => Answering(work'["io"])
      <3>1. CASE work' = work
        BY <3>1
      <3>2. CASE Done(t)
        BY <2>1, <3>2, ServedTail DEF Done, TypeInv
      <3>3. QED BY <1>23, <3>1, <3>2 DEF insertMsg_set, LeaveInsert
    <2>3. \A u \in Threads : mid[u] = "send" => mid'[u] = "send"
      BY <1>23 DEF insertMsg_set, LeaveInsert
    <2>4. QED BY <2>1, <2>2, <2>3 DEF Served
  <1>24. ASSUME NEW t \in Threads, startJoin_p_end(t), UNCHANGED moteVars PROVE Served'
    BY <1>24, ServedKept, IoThread DEF startJoin_p_end, Doing, Done, Answering
  <1>24a. ASSUME NEW t \in Threads, apGone(t), UNCHANGED moteVars PROVE Served'
    BY <1>24a, ServedKept, IoThread DEF apGone, Doing, Done, Answering
  <1>25. ASSUME NEW t \in Apps, NEW op \in AppOps, AppInsert(t, op), UNCHANGED moteVars PROVE Served'
    BY <1>25, ServedKept, IoThread DEF AppInsert, Answering
  <1>26. ASSUME NEW t \in Apps, enableJoin(t), UNCHANGED moteVars PROVE Served'
    BY <1>26, ServedKept, IoThread DEF enableJoin, Answering
  <1>27. ASSUME NEW t \in Apps, Control(t), UNCHANGED moteVars PROVE Served'
    BY <1>27, ServedKept, IoThread DEF Control, disableJoin, setAPMState, setAbort, hwResetAP, Answering
  <1>28. CASE MoteCommand
    BY <1>28, ServedKept, IoThread DEF MoteCommand, Answering
  <1>29. CASE MoteAck
    BY <1>29, ServedKept, IoThread DEF MoteAck, Answering
  <1>30. CASE MoteRepeat
    BY <1>30, ServedKept, IoThread DEF MoteRepeat, Answering
  <1>31. CASE MoteBoot
    BY <1>31, ServedKept, IoThread DEF MoteBoot, Answering
  <1>32. CASE LineLoses
    BY <1>32, ServedKept, IoThread DEF LineLoses, Answering
  <1>33. ASSUME NEW kind \in Kinds, MoteNotify(kind) PROVE Served'
    BY <1>33, ServedKept, IoThread DEF MoteNotify, Answering
  <1>34. QED
    BY <1>1, <1>2, <1>3, <1>4, <1>5, <1>6, <1>7, <1>8, <1>9, <1>10, <1>11, <1>12, <1>13, <1>14, <1>15, <1>16, <1>17,
       <1>18, <1>19, <1>20, <1>21, <1>22, <1>23, <1>24, <1>25, <1>26, <1>27, <1>28, <1>29, <1>30, <1>31, <1>32,
       <1>33, <1>16a, <1>24a
    DEF SysNext, TransportNext, IoNext, ThreadNext, AppNext, MoteNext

\* No wakeup is lost: while the serial port stays ready, a queue that is not empty has its front on the line as soon as
\* no thread is inside a call (QueueIsServed), although insertMsg and handleResponse look at m_pending in locked sections
\* of their own.  A port that fails to reopen leaves the front unsent: the hypothesis cannot be dropped.
THEOREM QueueServed == SysSpec /\ []isReady => []QueueIsServed
  <1>1. SysInit => Served
    BY DEF SysInit, Init, Served
  <1>2. Inv /\ isReady /\ Served /\ [SysNext]_allVars => Served'
    BY ServedStep DEF Inv
  <1>3. Inv /\ Served => QueueIsServed
    <2> SUFFICES ASSUME Inv, Served, Idle, m_outputQueue # <<>> PROVE m_pending
      BY DEF QueueIsServed
    <2>1. \A t \in Threads : mid[t] = "none"
      BY DEF Idle, Inv, TypeInv, WorkType
    <2>2. ~Answering(work["io"])
      BY IoThread DEF Idle, Answering
    <2>3. QED BY <2>1, <2>2 DEF Served
  <1>4. QED BY <1>1, <1>2, <1>3, Invariant, PTL DEF SysSpec

\* The boot event is on its way, not handled yet.
BootComing == BootOut /\ NoAck /\ hand = <<>>

\* A command on the line has a timer running, an expiry to be handled, or the AP was given up: reset, or about to be.
Timed == m_outputTimer.armed \/ m_outputTimer.due > 0 \/ resetAP \/ Resetting
TimerInv == m_pending => Timed \/ BootComing

\* The timer that handleResponse and send arm is armed.
LEMMA ArmedTimed ==
    ASSUME FlagType PROVE Armed(m_outputTimer).armed /\ Armed(m_outputTimer).due = m_outputTimer.due
  BY DEF FlagType, Armed

\* A step that changes neither m_pending nor the timer, and takes no boot event, keeps the timer.
LEMMA TimerKept ==
    ASSUME TimerInv, UNCHANGED <<m_pending, m_outputTimer, out>>, resetAP => resetAP', NoAck => NoAck', Quiet
    PROVE  TimerInv'
  BY DEF TimerInv, Timed, BootComing, BootOut, Quiet

\* send arms the timer of the command it puts on the line.
LEMMA SendTimed ==
    ASSUME FlagType, TimerInv, send(TRUE), m_outputTimer' = IF CanSend(TRUE) THEN Armed(m_outputTimer) ELSE m_outputTimer,
           resetAP => resetAP', UNCHANGED out, NoAck => NoAck', Quiet
    PROVE  TimerInv'
  <1>1. CASE CanSend(TRUE)
    <2>1. m_outputTimer'.armed
      BY <1>1, ArmedTimed
    <2>2. QED BY <2>1 DEF TimerInv, Timed
  <1>2. CASE ~CanSend(TRUE)
    BY <1>2 DEF send, TimerInv, Timed, BootComing, BootOut, Quiet
  <1>3. QED BY <1>1, <1>2

\* Every step keeps a timer for the command on the line.
LEMMA TimerStep ==
    TypeInv /\ FlagType /\ Shape /\ OneToken /\ TimerInv /\ m_abortEnabled /\ [SysNext]_allVars /\
      [~handleAPBoot_lost]_allVars => TimerInv'
  <1> SUFFICES ASSUME TypeInv /\ FlagType /\ Shape /\ OneToken /\ TimerInv /\ m_abortEnabled, [SysNext]_allVars, [~handleAPBoot_lost]_allVars PROVE TimerInv'
    OBVIOUS
  <1> USE DEF queueVars, timerVars, flowVars, joinVars, threadVars, ctlVars, logVars, vars, moteVars, allVars,
              Bridge, TypeInv, WorkType, LineType, Shape
  <1>1. CASE UNCHANGED allVars
    BY <1>1, QuietSame, TimerKept DEF allVars, vars, NoAck
  <1>2. CASE handleMsg_response /\ UNCHANGED moteVars
    <2>1. hand' = hand /\ ~Resetting
      BY <1>2, IoThread DEF hand, handleMsg_response, Receive, Hand, EndsInAck, Resetting
    <2>2. QED BY <1>2, <2>1 DEF handleMsg_response, NoAck, TimerInv, Timed, BootComing, BootOut
  <1>3. CASE handleResponse /\ UNCHANGED moteVars
    <2>1. Hand(work["io"]) = <<>>
      BY <1>3, IoThread, IoShapeTail DEF handleResponse, Doing, Hand
    <2>2. Hand(work'["io"]) = <<>>
      BY <1>3, IoThread DEF handleResponse, Hand, EndsInAck
    <2>3. CASE m_outputTimer' = NackTimer /\ UNCHANGED m_pending
      <3>1. m_outputTimer'.armed
        BY <2>3, ArmedTimed DEF NackTimer
      <3>2. QED BY <3>1 DEF TimerInv, Timed
    <2>4. CASE ~m_pending'
      BY <2>4 DEF TimerInv
    <2>5. QED BY <1>3, <2>3, <2>4 DEF handleResponse
  <1>4. CASE handleResponse_resume /\ UNCHANGED moteVars
    BY <1>4, QuietIo, TimerKept DEF handleResponse_resume, NoAck
  <1>5. CASE handleResponse_end /\ UNCHANGED moteVars
    <2>1. Quiet
      BY <1>5, QuietIo
    <2>2. NoAck => NoAck'
      BY <1>5, SendEffect, ReqKept DEF handleResponse_end
    <2>3. resetAP => resetAP'
      BY <1>5 DEF handleResponse_end
    <2>4. QED BY <1>5, <2>1, <2>2, <2>3, SendTimed DEF handleResponse_end
  <1>6. CASE handleNotification_retry /\ UNCHANGED moteVars
    <2>1. ~BootOut
      BY <1>6, BootFrame DEF handleNotification_retry, Receive, IsNew
    <2>2. QED BY <1>6, <2>1 DEF handleNotification_retry, TimerInv, Timed, BootComing, Resetting
  <1>7. CASE handleNotification_nack /\ UNCHANGED moteVars
    <2>1. ~BootOut
      BY <1>7, BootFrame DEF handleNotification_nack, Receive, IsNew
    <2>2. QED BY <1>7, <2>1 DEF handleNotification_nack, TimerInv, Timed, BootComing, Resetting
  <1>8. CASE handleNotification /\ UNCHANGED moteVars
    <2>1. ~BootOut
      BY <1>8, BootFrame DEF handleNotification, Receive, IsNew
    <2>2. ~Resetting
      BY <1>8 DEF handleNotification, Receive, Resetting
    <2>3. QED BY <1>8, <2>1, <2>2 DEF handleNotification, TimerInv, Timed, BootComing
  <1>9. CASE handleAPBoot /\ UNCHANGED moteVars
    BY <1>9 DEF handleAPBoot, clearOutputQueue, TimerInv
  <1>10. CASE handleAPBoot_lost /\ UNCHANGED moteVars
    BY <1>1, <1>10
  <1>11. CASE handleAPBoot_booted /\ UNCHANGED moteVars
    BY <1>11, QuietIo, TimerKept DEF handleAPBoot_booted, NoAck
  <1>12. CASE handleAPBoot_told /\ UNCHANGED moteVars
    BY <1>12, QuietIo, TimerKept DEF handleAPBoot_told, NoAck
  <1>13. CASE handleNotification_ack /\ UNCHANGED moteVars
    <2>1. hand = <<Head(work["io"]).f>>
      BY <1>13, IoThread, HandTail DEF hand, handleNotification_ack, Doing
    <2>2. ~Resetting
      <3>1. Len(work["io"]) = 1 /\ Head(work["io"]) = work["io"][1] /\ Head(work["io"]).do = "ack"
        BY <1>13, IoThread, IoShapeTail, Tails DEF handleNotification_ack, Doing
      <3>2. QED BY <3>1 DEF Resetting
    <2>3. QED BY <1>13, <2>1, <2>2 DEF handleNotification_ack, TimerInv, Timed, BootComing
  <1>14. CASE OutputTimerExpires /\ UNCHANGED moteVars
    <2>1. m_outputTimer'.due > 0
      BY <1>14 DEF OutputTimerExpires, FlagType
    <2>2. QED BY <2>1 DEF TimerInv, Timed
  <1>15. CASE handleRetryTimeout /\ UNCHANGED moteVars
    <2>1. m_outputTimer'.armed
      BY <1>15 DEF handleRetryTimeout
    <2>2. QED BY <2>1 DEF TimerInv, Timed
  <1>16. CASE handleRetryTimeout_lost /\ UNCHANGED moteVars
    <2> DEFINE p == sendAPLostNotif_p \o <<[do |-> "reset"]>>
    <2>1. work'["io"] = p
      BY <1>16, IoThread DEF handleRetryTimeout_lost
    <2>2. 4 \in 1..Len(p) /\ p[4].do = "reset"
      BY DEF sendAPLostNotif_p
    <2> HIDE DEF p
    <2>3. Resetting'
      BY <2>1, <2>2 DEF Resetting
    <2>4. QED BY <2>3 DEF TimerInv, Timed
  <1>16a. CASE handleRetryTimeout_reset /\ UNCHANGED moteVars
    BY <1>16a DEF handleRetryTimeout_reset, TimerInv, Timed
  <1>17. CASE handleQueueCheckTimeout /\ UNCHANGED moteVars
    BY <1>17, QuietSame, TimerKept DEF handleQueueCheckTimeout, NoAck
  <1>18. CASE handlePingTimeout /\ UNCHANGED moteVars
    BY <1>18, QuietIo, TimerKept DEF handlePingTimeout, NoAck
  <1>19. ASSUME NEW t \in Threads, insertMsg(t), UNCHANGED moteVars PROVE TimerInv'
    BY <1>19, QuietThread, TimerKept DEF insertMsg, NoAck
  <1>20. ASSUME NEW t \in Threads, insertMsg_send(t), UNCHANGED moteVars PROVE TimerInv'
    <2>1. Quiet
      BY <1>20, QuietSame DEF insertMsg_send
    <2>2. NoAck => NoAck'
      BY <1>20, SendEffect, ReqKept DEF insertMsg_send
    <2>3. QED BY <1>20, <2>1, <2>2, SendTimed DEF insertMsg_send
  <1>21. ASSUME NEW t \in Threads, insertMsg_mark(t), UNCHANGED moteVars PROVE TimerInv'
    BY <1>21, QuietThread, TimerKept DEF insertMsg_mark, NoAck
  <1>22. ASSUME NEW t \in Threads, insertMsg_tell(t), UNCHANGED moteVars PROVE TimerInv'
    BY <1>22, QuietSame, TimerKept DEF insertMsg_tell, NoAck
  <1>23. ASSUME NEW t \in Threads, insertMsg_set(t), UNCHANGED moteVars PROVE TimerInv'
    BY <1>23, QuietThread, TimerKept DEF insertMsg_set, NoAck
  <1>24. ASSUME NEW t \in Threads, startJoin_p_end(t), UNCHANGED moteVars PROVE TimerInv'
    BY <1>24, QuietThread, TimerKept DEF startJoin_p_end, NoAck
  <1>24a. ASSUME NEW t \in Threads, apGone(t), UNCHANGED moteVars PROVE TimerInv'
    BY <1>24a, QuietThread, TimerKept DEF apGone, NoAck
  <1>25. ASSUME NEW t \in Apps, NEW op \in AppOps, AppInsert(t, op), UNCHANGED moteVars PROVE TimerInv'
    BY <1>25, QuietApp, TimerKept DEF AppInsert, NoAck
  <1>26. ASSUME NEW t \in Apps, enableJoin(t), UNCHANGED moteVars PROVE TimerInv'
    BY <1>26, QuietApp, TimerKept DEF enableJoin, NoAck
  <1>27. ASSUME NEW t \in Apps, Control(t), UNCHANGED moteVars PROVE TimerInv'
    <2>1. resetAP => resetAP'
      BY <1>27 DEF Control, disableJoin, setAPMState, setAbort, hwResetAP
    <2>2. Quiet
      BY <1>27, QuietSame DEF Control
    <2>3. QED BY <1>27, <2>1, <2>2, TimerKept DEF Control, NoAck
  <1>28. CASE MoteCommand
    <2>1. Quiet /\ (NoAck => NoAck')
      BY <1>28, NoAckTail, QuietSame DEF MoteCommand
    <2>2. QED BY <1>28, <2>1, TimerKept DEF MoteCommand
  <1>29. CASE MoteAck
    <2>1. ~NoAck
      <3>1. toAP[1] = Head(toAP) /\ 1 \in 1..Len(toAP) /\ Head(toAP).t = "ack"
        BY <1>29, Tails DEF MoteAck
      <3>2. QED BY <3>1 DEF NoAck
    <2>2. QED BY <1>29, <2>1 DEF MoteAck, TimerInv, Timed, BootComing, Resetting
  <1>30. CASE MoteRepeat
    BY <1>30, QuietSame, TimerKept DEF MoteRepeat, NoAck
  <1>31. CASE MoteBoot
    <2>1. hand = <<>> /\ hand' = hand
      BY <1>31, NoUnderway DEF MoteBoot, hand
    <2>2. BootOut' /\ NoAck'
      BY <1>31 DEF MoteBoot, BootOut, BootEvent, NoAck
    <2>3. QED BY <2>1, <2>2 DEF TimerInv, BootComing
  <1>32. CASE LineLoses
    <2>1. Quiet /\ (NoAck => NoAck')
      BY <1>32, NoAckTail, QuietSame DEF LineLoses, NoAck
    <2>2. QED BY <1>32, <2>1, TimerKept DEF LineLoses
  <1>33. ASSUME NEW kind \in Kinds, MoteNotify(kind) PROVE TimerInv'
    BY <1>33 DEF MoteNotify, TimerInv, Timed, BootComing, BootOut, Resetting
  <1>34. QED
    BY <1>1, <1>2, <1>3, <1>4, <1>5, <1>6, <1>7, <1>8, <1>9, <1>10, <1>11, <1>12, <1>13, <1>14, <1>15, <1>16, <1>17,
       <1>18, <1>19, <1>20, <1>21, <1>22, <1>23, <1>24, <1>25, <1>26, <1>27, <1>28, <1>29, <1>30, <1>31, <1>32,
       <1>33, <1>16a, <1>24a
    DEF SysNext, TransportNext, IoNext, ThreadNext, AppNext, MoteNext

\* A command on the line has a retry timer, or the AP was given up and reset, or its boot event is on the way
\* (PendingHasTimer).  The hypotheses are needed: with m_abortEnabled off a command is given up without a reset, and
\* handleAPBoot_lost gives up with the queue uncleared.
THEOREM PendingTimed ==
    SysSpec /\ []m_abortEnabled /\ [][~handleAPBoot_lost]_allVars => [](PendingHasTimer \/ BootComing)
  <1>1. SysInit => TimerInv
    BY DEF SysInit, Init, TimerInv
  <1>2. Inv /\ m_abortEnabled /\ TimerInv /\ [SysNext]_allVars /\ [~handleAPBoot_lost]_allVars => TimerInv'
    BY TimerStep DEF Inv
  <1>3. TimerInv => PendingHasTimer \/ BootComing
    BY DEF TimerInv, Timed, PendingHasTimer, Resetting
  <1>4. QED BY <1>1, <1>2, <1>3, Invariant, PTL DEF SysSpec
-------------------------------------------------------------------------------
(*****************************************************************************)
(* The commands are carried out in the order they were queued, each at most  *)
(* once, over lines that lose frames: the transport's one-bit packet id is an *)
(* alternating bit.  The invariant relates the queue, the requests on one    *)
(* line, what the mote remembers, the responses on the other line and the    *)
(* response in the io thread's hand; a boot of the mote restarts it.         *)
(*****************************************************************************)
\* The frames of m whose kind is in T are frames of l, in the same order.
Shift(m, l, T) == \E d \in {0, 1} : \A i \in 1..Len(m) : m[i].t \in T => i + d \in 1..Len(l) /\ m[i] = l[i + d]

\* Once a frame of kind t carries the id, those behind it do.
Sorted(l, t, id) == \A i, j \in 1..Len(l) : i < j /\ l[i].t = t /\ l[j].t = t /\ l[i].id = id => l[j].id = id

\* All frames, and none, of kind t carry the id.
AllNew(l, t, id) == \A i \in 1..Len(l) : l[i].t = t => l[i].id = id
NoneNew(l, t, id) == \A i \in 1..Len(l) : l[i].t = t => l[i].id # id

\* There is no frame of kind t.
Absent(l, t) == \A i \in 1..Len(l) : l[i].t # t

\* No response is behind a notification.
Behind(l) == \A i, j \in 1..Len(l) : i < j /\ l[i].t = "ntf" => l[j].t # "rsp"

\* What losing the first frame, or writing a frame of another kind, does to the frames of a kind: they stay in order.
LEMMA Shifts ==
    ASSUME NEW S, NEW l \in Seq(S), NEW T
    PROVE  /\ Shift(l, l, T) /\ Shift(<<>>, l, T)
           /\ l # <<>> => Shift(Tail(l), l, T)
           /\ \A e \in S : e.t \notin T => Shift(Append(l, e), l, T)
  <1>1. Shift(l, l, T)
    <2>1. \A i \in 1..Len(l) : i + 0 \in 1..Len(l) /\ l[i] = l[i + 0]
      OBVIOUS
    <2>2. QED BY <2>1 DEF Shift
  <1>2. Shift(<<>>, l, T)
    BY DEF Shift
  <1>3. ASSUME l # <<>> PROVE Shift(Tail(l), l, T)
    <2>1. \A i \in 1..Len(Tail(l)) : i + 1 \in 1..Len(l) /\ Tail(l)[i] = l[i + 1]
      BY <1>3, Tails
    <2>2. QED BY <2>1 DEF Shift
  <1>4. ASSUME NEW e \in S, e.t \notin T PROVE Shift(Append(l, e), l, T)
    <2>1. \A i \in 1..Len(Append(l, e)) : Append(l, e)[i].t \in T => i + 0 \in 1..Len(l) /\ Append(l, e)[i] = l[i + 0]
      BY <1>4
    <2>2. QED BY <2>1 DEF Shift
  <1>5. QED BY <1>1, <1>2, <1>3, <1>4

\* A line whose frames stay in order keeps what is said of all its frames and of every two of them.
LEMMA ShiftKeeps ==
    ASSUME NEW S, NEW l \in Seq(S), NEW m \in Seq(S), NEW t, NEW T, t \in T, Shift(m, l, T), NEW id
    PROVE  /\ Sorted(l, t, id) => Sorted(m, t, id)
           /\ AllNew(l, t, id) => AllNew(m, t, id)
           /\ NoneNew(l, t, id) => NoneNew(m, t, id)
           /\ Absent(l, t) => Absent(m, t)
           /\ {"ntf", "rsp"} \subseteq T /\ Behind(l) => Behind(m)
  <1>1. PICK d \in {0, 1} : \A i \in 1..Len(m) : m[i].t \in T => i + d \in 1..Len(l) /\ m[i] = l[i + d]
    BY DEF Shift
  <1>2. Sorted(l, t, id) => Sorted(m, t, id)
    <2> SUFFICES ASSUME Sorted(l, t, id), NEW i \in 1..Len(m), NEW k \in 1..Len(m), i < k,
                        m[i].t = t, m[k].t = t, m[i].id = id
                 PROVE  m[k].id = id
      BY DEF Sorted
    <2>1. i + d \in 1..Len(l) /\ k + d \in 1..Len(l) /\ m[i] = l[i + d] /\ m[k] = l[k + d] /\ i + d < k + d
      BY <1>1
    <2>2. QED BY <2>1 DEF Sorted
  <1>3. AllNew(l, t, id) => AllNew(m, t, id)
    BY <1>1 DEF AllNew
  <1>4. NoneNew(l, t, id) => NoneNew(m, t, id)
    BY <1>1 DEF NoneNew
  <1>5. Absent(l, t) => Absent(m, t)
    BY <1>1 DEF Absent
  <1>6. {"ntf", "rsp"} \subseteq T /\ Behind(l) => Behind(m)
    <2> SUFFICES ASSUME {"ntf", "rsp"} \subseteq T, Behind(l), NEW i \in 1..Len(m), NEW k \in 1..Len(m), i < k,
                        m[i].t = "ntf", m[k].t = "rsp"
                 PROVE  FALSE
      BY DEF Behind
    <2>1. i + d \in 1..Len(l) /\ k + d \in 1..Len(l) /\ m[i] = l[i + d] /\ m[k] = l[k + d] /\ i + d < k + d
      BY <1>1
    <2>2. QED BY <2>1 DEF Behind
  <1>7. QED BY <1>2, <1>3, <1>4, <1>5, <1>6

\* What is said of a line's frames after one more was written.
LEMMA Appended ==
    ASSUME NEW S, NEW l \in Seq(S), NEW e \in S, NEW t, NEW id
    PROVE  /\ Sorted(l, t, id) /\ (e.id = id \/ NoneNew(l, t, id)) => Sorted(Append(l, e), t, id)
           /\ AllNew(l, t, id) /\ e.id = id => AllNew(Append(l, e), t, id)
           /\ Behind(l) /\ e.t = "ntf" => Behind(Append(l, e))
           /\ Absent(l, "ntf") /\ e.t = "ntf" => Behind(Append(l, e))
  <1> DEFINE m == Append(l, e)
  <1>1. /\ Len(l) \in Nat /\ Len(m) = Len(l) + 1 /\ m[Len(l) + 1] = e
        /\ \A i \in 1..Len(l) : m[i] = l[i]
    BY Appends
  <1> HIDE DEF m
  <1>2. Sorted(l, t, id) /\ (e.id = id \/ NoneNew(l, t, id)) => Sorted(m, t, id)
    <2> SUFFICES ASSUME Sorted(l, t, id), e.id = id \/ NoneNew(l, t, id),
                        NEW i \in 1..Len(m), NEW k \in 1..Len(m), i < k,
                        m[i].t = t, m[k].t = t, m[i].id = id
                 PROVE  m[k].id = id
      BY DEF Sorted
    <2>1. i \in 1..Len(l) /\ m[i] = l[i]
      BY <1>1
    <2>2. CASE k \in 1..Len(l)
      BY <1>1, <2>1, <2>2 DEF Sorted
    <2>3. CASE k = Len(l) + 1
      BY <1>1, <2>1, <2>3 DEF NoneNew
    <2>4. QED BY <1>1, <2>2, <2>3
  <1>3. AllNew(l, t, id) /\ e.id = id => AllNew(m, t, id)
    BY <1>1 DEF AllNew
  <1>4. Behind(l) /\ e.t = "ntf" => Behind(m)
    BY <1>1 DEF Behind
  <1>5. Absent(l, "ntf") /\ e.t = "ntf" => Behind(m)
    BY <1>1 DEF Behind, Absent
  <1>6. QED BY <1>2, <1>3, <1>4, <1>5 DEF m

\* A command is on the line; a request for it; the mote carried out command n.
Front      == m_pending /\ m_outputQueue # <<>>
Sent(f)    == f.id = m_respPacketId /\ Front /\ f.n = Head(m_outputQueue).n
Carried(n) == n = 0 \/ \E k \in 1..Len(handled) : handled[k] = n

\* rc is the answer to the command on the line.
Answer(rc) == /\ Front /\ (rc = "OK" => Carried(Head(m_outputQueue).n))
              /\ ap.acked => ap.lastId = m_respPacketId /\ ap.lastRc = rc

\* Responses: once one carries the current packet id all behind it do, and such a one answers the command on the line.
RspTrue == \A i \in 1..Len(toAPC) :
              toAPC[i].t = "rsp" /\ toAPC[i].id = m_respPacketId => Answer(toAPC[i].rc)
RspInv  == /\ Sorted(toAPC, "rsp", m_respPacketId) /\ RspTrue
           /\ AtResponse => AllNew(toAPC, "rsp", m_respPacketId) /\ Answer(Head(work["io"]).rc)

\* Requests, while the mote took note of the boot's acknowledgement: one with the current packet id is for the front, and
\* what the mote carried out is older than everything queued, except the front after the mote carried it out.
NoRsp   == ~AtResponse /\ Absent(toAPC, "rsp")
ReqTrue == \A i \in 1..Len(toAP) : toAP[i].t = "req" /\ toAP[i].id = m_respPacketId => Sent(toAP[i])
Ahead   == \A k \in 1..Len(handled), i \in 1..Len(m_outputQueue) : m_outputQueue[i].n # 0 =>
              \/ handled[k] < m_outputQueue[i].n
              \/ i = 1 /\ handled[k] = m_outputQueue[1].n /\ ap.lastId = m_respPacketId /\ ap.lastRc = "OK"
LastTrue == ap.lastId = m_respPacketId => Front /\ (ap.lastRc = "OK" => Carried(Head(m_outputQueue).n))
ReqInv  == ap.acked => /\ Sorted(toAP, "req", m_respPacketId) /\ ReqTrue /\ Ahead /\ LastTrue
                       /\ ap.lastId # 1 - m_respPacketId => AllNew(toAP, "req", m_respPacketId)
                       /\ ap.lastId = 2 => NoRsp

\* The boot: until the mote has its acknowledgement it drops requests; behind the acknowledgement there are only
\* requests for the front, and no response and no carried out command of before is in the queue.
AfterAck == \A i, j \in 1..Len(toAP) : i < j /\ toAP[i].t = "ack" /\ toAP[j].t = "req" => Sent(toAP[j])
Clear    == \A k \in 1..Len(handled), i \in 1..Len(m_outputQueue) :
               m_outputQueue[i].n # 0 => handled[k] < m_outputQueue[i].n
Met      == hand # <<>> \/ ~NoAck
BootInv  == /\ BootOut => ~ap.acked
            /\ ~BootOut => ap.acked
            /\ ~ap.acked => ap.lastId = 2 /\ Behind(toAPC)
            /\ ~ap.acked /\ Met => NoRsp /\ Clear /\ AfterAck

\* The numbers of the commands queued, carried out and answered.
QueueOrder == \A i, j \in 1..Len(m_outputQueue) :
                 i < j /\ m_outputQueue[i].n # 0 /\ m_outputQueue[j].n # 0 => m_outputQueue[i].n < m_outputQueue[j].n
QueueBound == \A i \in 1..Len(m_outputQueue) : m_outputQueue[i].n <= count.insert
Handled    == \A k \in 1..Len(handled) : handled[k] <= count.insert
InOrder    == \A i, j \in 1..Len(handled) : i < j => handled[i] < handled[j]
Answered   == answered \subseteq {handled[k] : k \in 1..Len(handled)}
OrderInv   == QueueOrder /\ QueueBound /\ Handled /\ InOrder /\ Answered

\* The command on the line stays on it; the mote's memory stays.
FrontKept == Front => Front' /\ Head(m_outputQueue').n = Head(m_outputQueue).n
SameAp    == ap'.acked = ap.acked /\ ap'.lastId = ap.lastId /\ ap'.lastRc = ap.lastRc

\* An answer stays the answer while its command stays on the line.
LEMMA AnswerKept ==
    ASSUME FrontKept, m_respPacketId' = m_respPacketId, handled' = handled, SameAp \/ ~ap'.acked
    PROVE  \A rc : Answer(rc) => Answer(rc)'
  <1> SUFFICES ASSUME NEW rc, Answer(rc) PROVE Answer(rc)'
    OBVIOUS
  <1>1. Front' /\ Head(m_outputQueue').n = Head(m_outputQueue).n
    BY DEF Answer, FrontKept
  <1>2. rc = "OK" => Carried(Head(m_outputQueue).n)'
    BY <1>1 DEF Answer, Carried
  <1>3. ap'.acked => ap'.lastId = m_respPacketId' /\ ap'.lastRc = rc
    BY DEF Answer, SameAp
  <1>4. QED BY <1>1, <1>2, <1>3 DEF Answer

\* The responses stay answers while their order and the command stay.
LEMMA RspKept ==
    ASSUME toAPC \in Seq(ToAPC), toAPC' \in Seq(ToAPC), RspInv, Shift(toAPC', toAPC, {"rsp"}),
           m_respPacketId' = m_respPacketId, \A rc : Answer(rc) => Answer(rc)',
           AtResponse' => AtResponse /\ Head(work'["io"]) = Head(work["io"])
    PROVE  RspInv'
  <1>1. Sorted(toAPC, "rsp", m_respPacketId)' /\ (AtResponse' => AllNew(toAPC, "rsp", m_respPacketId)')
    <2>1. Sorted(toAPC', "rsp", m_respPacketId)
      BY ShiftKeeps DEF RspInv
    <2>2. AllNew(toAPC, "rsp", m_respPacketId) => AllNew(toAPC', "rsp", m_respPacketId)
      BY ShiftKeeps
    <2>3. QED BY <2>1, <2>2 DEF RspInv
  <1>2. RspTrue'
    <2> SUFFICES ASSUME NEW i \in 1..Len(toAPC'), toAPC'[i].t = "rsp", toAPC'[i].id = m_respPacketId
                 PROVE  Answer(toAPC[i].rc)'
      BY DEF RspTrue
    <2>1. PICK d \in {0, 1} : i + d \in 1..Len(toAPC) /\ toAPC'[i] = toAPC[i + d]
      BY DEF Shift
    <2>2. Answer(toAPC'[i].rc)
      BY <2>1 DEF RspInv, RspTrue
    <2>3. QED BY <2>2 DEF Answer
  <1>3. AtResponse' => Answer(Head(work["io"]).rc)'
    BY DEF RspInv, Answer
  <1>4. QED BY <1>1, <1>2, <1>3 DEF RspInv

\* A request stays the request for the command on the line.
LEMMA SentKept ==
    ASSUME FrontKept, m_respPacketId' = m_respPacketId PROVE \A f : Sent(f) => Sent(f)'
  BY DEF Sent, FrontKept

\* The requests stay requests for the front while it stays.
LEMMA ReqTrueKept ==
    ASSUME ReqTrue, FrontKept, m_respPacketId' = m_respPacketId, Shift(toAP', toAP, {"req"})
    PROVE  ReqTrue'
  <1> SUFFICES ASSUME NEW i \in 1..Len(toAP'), toAP'[i].t = "req", toAP'[i].id = m_respPacketId
               PROVE  Sent(toAP[i])'
    BY DEF ReqTrue
  <1>1. PICK d \in {0, 1} : i + d \in 1..Len(toAP) /\ toAP'[i] = toAP[i + d]
    BY DEF Shift
  <1>2. Sent(toAP'[i])
    BY <1>1 DEF ReqTrue
  <1>3. QED BY <1>2, SentKept DEF Sent

\* What is known of the requests stays while the front, the order and the mote's memory stay.
LEMMA RequestsKept ==
    ASSUME toAP \in Seq(ToAP), toAP' \in Seq(ToAP), ReqInv, SameAp, m_respPacketId' = m_respPacketId, handled' = handled,
           FrontKept, Ahead => Ahead', Shift(toAP', toAP, {"req"}), NoRsp => NoRsp'
    PROVE  ReqInv'
  <1> SUFFICES ASSUME ap'.acked PROVE ReqInv'
    BY DEF ReqInv
  <1>1. ap.acked
    BY DEF SameAp
  <1>2. Sorted(toAP', "req", m_respPacketId) /\ (AllNew(toAP, "req", m_respPacketId) => AllNew(toAP', "req", m_respPacketId))
    BY <1>1, ShiftKeeps DEF ReqInv
  <1>3. ReqTrue'
    BY <1>1, ReqTrueKept DEF ReqInv
  <1>4. LastTrue'
    BY <1>1 DEF ReqInv, LastTrue, FrontKept, SameAp, Carried
  <1>5. QED BY <1>1, <1>2, <1>3, <1>4 DEF ReqInv, SameAp

\* What is known of the boot stays while its token and the front stay.
LEMMA BootKept ==
    ASSUME BootInv, SameAp, UNCHANGED out, Behind(toAPC) => Behind(toAPC'), Met' => Met,
           NoRsp => NoRsp', Clear => Clear', AfterAck => AfterAck'
    PROVE  BootInv'
  BY DEF BootInv, BootOut, SameAp

\* Nothing is to be known of the boot once it was acknowledged.
LEMMA BootOver == ASSUME ap'.acked, ~BootOut' PROVE BootInv'
  BY DEF BootInv

\* The numbers stay in order when none is added.
LEMMA OrderSame ==
    ASSUME OrderInv, UNCHANGED <<m_outputQueue, handled, answered>>, count'.insert = count.insert
    PROVE  OrderInv'
  BY DEF OrderInv, QueueOrder, QueueBound, Handled, InOrder, Answered

\* The invariant of the alternating packet id.
Abp == RspInv /\ ReqInv /\ BootInv /\ OrderInv

\* The command on the line and what is known of it stay.
SameCore == UNCHANGED <<m_outputQueue, m_pending, m_respPacketId, handled, answered>> /\ count'.insert = count.insert
Lines    == toAP \in Seq(ToAP) /\ toAPC \in Seq(ToAPC) /\ toAP' \in Seq(ToAP) /\ toAPC' \in Seq(ToAPC)

\* What stays with the command on the line.
LEMMA CoreKept ==
    ASSUME SameCore, SameAp PROVE FrontKept /\ (Ahead => Ahead') /\ (Clear => Clear')
  BY DEF SameCore, SameAp, FrontKept, Front, Ahead, Clear

\* No acknowledgement is on the line.
LEMMA NoAckAbsent == NoAck <=> Absent(toAP, "ack")
  BY DEF NoAck, Absent

\* The frames behind an acknowledgement stay requests for the front.
LEMMA AckKept ==
    ASSUME Lines, Shift(toAP', toAP, {"req", "ack"}), FrontKept, m_respPacketId' = m_respPacketId
    PROVE  (NoAck => NoAck') /\ (AfterAck => AfterAck')
  <1>1. Absent(toAP, "ack") => Absent(toAP', "ack")
    BY ShiftKeeps DEF Lines
  <1>2. NoAck => NoAck'
    BY <1>1, NoAckAbsent DEF NoAck, Absent
  <1>3. AfterAck => AfterAck'
    <2> SUFFICES ASSUME AfterAck, NEW i \in 1..Len(toAP'), NEW k \in 1..Len(toAP'), i < k, toAP'[i].t = "ack", toAP'[k].t = "req"
                 PROVE  Sent(toAP[k])'
      BY DEF AfterAck
    <2>1. PICK d \in {0, 1} : \A m \in 1..Len(toAP') : toAP'[m].t \in {"req", "ack"} => m + d \in 1..Len(toAP) /\ toAP'[m] = toAP[m + d]
      BY DEF Shift
    <2>2. i + d \in 1..Len(toAP) /\ k + d \in 1..Len(toAP) /\ toAP'[i] = toAP[i + d] /\ toAP'[k] = toAP[k + d] /\ i + d < k + d
      BY <2>1
    <2>3. Sent(toAP'[k])
      BY <2>2 DEF AfterAck
    <2>4. QED BY <2>3, SentKept DEF Sent
  <1>4. QED BY <1>2, <1>3

\* Frames in order are in order within fewer kinds.
LEMMA NarrowShift ==
    ASSUME NEW m, NEW l, NEW T, NEW R, R \subseteq T, Shift(m, l, T) PROVE Shift(m, l, R)
  BY DEF Shift

\* No response comes from nowhere.
LEMMA NoRspKept ==
    ASSUME Lines, Shift(toAPC', toAPC, {"rsp"}), AtResponse' => AtResponse PROVE NoRsp => NoRsp'
  <1>1. Absent(toAPC, "rsp") => Absent(toAPC', "rsp")
    BY ShiftKeeps DEF Lines
  <1>2. QED BY <1>1 DEF NoRsp

\* Frames are lost or dropped, or nothing happens.
LEMMA AbpQuiet ==
    ASSUME Lines, Abp, Quiet, SameCore, SameAp, UNCHANGED out,
           Shift(toAPC', toAPC, {"rsp"}), Behind(toAPC) => Behind(toAPC'), Shift(toAP', toAP, {"req", "ack"})
    PROVE  Abp'
  <1>1. Shift(toAP', toAP, {"req"})
    BY NarrowShift
  <1>2. FrontKept /\ (Ahead => Ahead') /\ (Clear => Clear') /\ UNCHANGED <<m_respPacketId, handled>>
    BY CoreKept DEF SameCore
  <1>3. NoRsp => NoRsp'
    BY <1>1, NoRspKept DEF Quiet
  <1>4. RspInv'
    BY <1>1, <1>2, AnswerKept, RspKept DEF Abp, Quiet, Lines
  <1>5. ReqInv'
    BY <1>1, <1>2, <1>3, RequestsKept DEF Abp, Lines
  <1>6. BootInv'
    <2>1. (NoAck => NoAck') /\ (AfterAck => AfterAck')
      BY <1>2, AckKept
    <2>2. Met' => Met
      BY <2>1 DEF Met, Quiet
    <2>3. QED BY <1>2, <1>3, <2>1, <2>2, BootKept DEF Abp
  <1>7. OrderInv'
    BY OrderSame DEF Abp, SameCore
  <1>8. QED BY <1>4, <1>5, <1>6, <1>7 DEF Abp

\* Notifications other than the boot event, and their acknowledgements.
LEMMA AbpNotify ==
    ASSUME Lines, Abp, SameCore, SameAp, ap.acked, ~BootOut',
           AtResponse' => AtResponse /\ Head(work'["io"]) = Head(work["io"]),
           Shift(toAPC', toAPC, {"rsp"}), Shift(toAP', toAP, {"req"})
    PROVE  Abp'
  <1>1. FrontKept /\ (Ahead => Ahead') /\ UNCHANGED <<m_respPacketId, handled>>
    BY CoreKept DEF SameCore
  <1>2. RspInv'
    BY <1>1, AnswerKept, RspKept DEF Abp, Lines
  <1>3. ReqInv'
    BY <1>1, NoRspKept, RequestsKept DEF Abp, Lines
  <1>4. BootInv'
    BY BootOver DEF SameAp
  <1>5. OrderInv'
    BY OrderSame DEF Abp, SameCore
  <1>6. QED BY <1>2, <1>3, <1>4, <1>5 DEF Abp

\* A new command behind the others.
LEMMA AbpInsert ==
    ASSUME Lines, Abp, Quiet, NEW cmd \in Cmds, m_outputQueue \in Seq(Cmds), handled \in Seq(Nat), count.insert \in Nat,
           m_outputQueue' = Append(m_outputQueue, cmd),
           \/ cmd.n = 0 /\ count'.insert = count.insert
           \/ cmd.n = count.insert + 1 /\ count'.insert = cmd.n,
           UNCHANGED <<m_pending, m_respPacketId, handled, answered, ap, out, toAP, toAPC>>
    PROVE  Abp'
  <1> DEFINE q == m_outputQueue
  <1>1. /\ Len(q) \in Nat /\ Len(q') = Len(q) + 1 /\ q'[Len(q) + 1] = cmd
        /\ \A i \in 1..Len(q) : q'[i] = q[i]
        /\ q # <<>> => q' # <<>> /\ Head(q') = Head(q)
    BY Appends, AppendKeeps
  <1>2. /\ \A i \in 1..Len(q) : q[i].n \in Nat
        /\ \A k \in 1..Len(handled) : handled[k] \in Nat
    <2>1. \A i \in 1..Len(q) : q[i] \in Cmds
      OBVIOUS
    <2>2. \A k \in 1..Len(handled) : handled[k] \in Nat
      OBVIOUS
    <2>3. QED BY <2>1, <2>2 DEF Cmds
  <1> HIDE DEF q
  <1>3. FrontKept
    BY <1>1 DEF FrontKept, Front, q
  <1>4. \A k \in 1..Len(handled) : cmd.n # 0 => handled[k] < cmd.n
    BY <1>2 DEF Abp, OrderInv, Handled
  <1>5. Ahead => Ahead'
    <2> SUFFICES ASSUME Ahead, NEW k \in 1..Len(handled), NEW i \in 1..Len(q'), q'[i].n # 0
                 PROVE  \/ handled[k] < q'[i].n
                        \/ i = 1 /\ handled[k] = q'[1].n /\ ap.lastId = m_respPacketId /\ ap.lastRc = "OK"
      BY DEF Ahead, q
    <2>1. CASE i \in 1..Len(q)
      <3>1. q'[i] = q[i] /\ q'[1] = q[1]
        BY <1>1, <2>1
      <3>2. \/ handled[k] < q[i].n
            \/ i = 1 /\ handled[k] = q[1].n /\ ap.lastId = m_respPacketId /\ ap.lastRc = "OK"
        BY <2>1, <3>1 DEF Ahead, q
      <3>3. QED BY <3>1, <3>2
    <2>2. CASE i = Len(q) + 1
      BY <1>1, <1>4, <2>2
    <2>3. QED BY <1>1, <2>1, <2>2
  <1>6. Clear => Clear'
    <2> SUFFICES ASSUME Clear, NEW k \in 1..Len(handled), NEW i \in 1..Len(q'), q'[i].n # 0
                 PROVE  handled[k] < q'[i].n
      BY DEF Clear, q
    <2>1. CASE i \in 1..Len(q)
      BY <1>1, <2>1 DEF Clear, q
    <2>2. CASE i = Len(q) + 1
      BY <1>1, <1>4, <2>2
    <2>3. QED BY <1>1, <2>1, <2>2
  <1>7. Shift(toAPC', toAPC, {"rsp"}) /\ Shift(toAP', toAP, {"req"}) /\ Shift(toAP', toAP, {"req", "ack"})
    BY Shifts DEF Lines
  <1>8. NoRsp => NoRsp'
    BY <1>7, NoRspKept DEF Quiet
  <1>9. SameAp
    BY DEF SameAp
  <1>10. RspInv'
    BY <1>3, <1>7, <1>9, AnswerKept, RspKept DEF Abp, Quiet, Lines
  <1>11. ReqInv'
    BY <1>3, <1>5, <1>7, <1>8, <1>9, RequestsKept DEF Abp, Lines
  <1>12. BootInv'
    <2>1. (NoAck => NoAck') /\ (AfterAck => AfterAck')
      BY <1>3, <1>7, AckKept
    <2>2. Met' => Met
      BY <2>1 DEF Met, Quiet
    <2>3. QED BY <1>6, <1>8, <1>9, <2>1, <2>2, BootKept DEF Abp
  <1>13. OrderInv'
    <2>1. count.insert <= count'.insert /\ cmd.n <= count'.insert /\ count'.insert \in Nat
      BY DEF Cmds
    <2>2. QueueBound'
      <3> SUFFICES ASSUME NEW i \in 1..Len(q') PROVE q'[i].n <= count'.insert
        BY DEF QueueBound, q
      <3>1. CASE i \in 1..Len(q)
        <4>1. q'[i].n = q[i].n /\ q[i].n \in Nat /\ q[i].n <= count.insert
          BY <1>1, <1>2, <3>1 DEF Abp, OrderInv, QueueBound, q
        <4>2. QED BY <2>1, <4>1
      <3>2. CASE i = Len(q) + 1
        BY <1>1, <2>1, <3>2
      <3>3. QED BY <1>1, <3>1, <3>2
    <2>3. QueueOrder'
      <3> SUFFICES ASSUME NEW i \in 1..Len(q'), NEW k \in 1..Len(q'), i < k, q'[i].n # 0, q'[k].n # 0
                   PROVE  q'[i].n < q'[k].n
        BY DEF QueueOrder, q
      <3>1. i \in 1..Len(q) /\ q'[i] = q[i]
        BY <1>1
      <3>2. CASE k \in 1..Len(q)
        BY <1>1, <3>1, <3>2 DEF Abp, OrderInv, QueueOrder, q
      <3>3. CASE k = Len(q) + 1
        <4>1. q[i].n \in Nat /\ q[i].n <= count.insert
          BY <1>2, <3>1 DEF Abp, OrderInv, QueueBound, q
        <4>2. cmd.n = count.insert + 1
          BY <1>1, <3>3
        <4>3. QED BY <1>1, <3>1, <3>3, <4>1, <4>2
      <3>4. k \in 1..Len(q) \/ k = Len(q) + 1
        <4>1. Len(q) \in Nat /\ k \in 1..(Len(q) + 1)
          BY <1>1
        <4>2. QED BY <4>1
      <3>5. QED BY <3>2, <3>3, <3>4
    <2>4. Handled'
      BY <1>2, <2>1 DEF Abp, OrderInv, Handled
    <2>5. QED BY <2>2, <2>3, <2>4 DEF Abp, OrderInv, InOrder, Answered
  <1>14. QED BY <1>10, <1>11, <1>12, <1>13 DEF Abp

\* The front of the queue is sent, for the first time or again.
LEMMA AbpSend ==
    ASSUME Lines, Abp, Quiet, m_outputQueue # <<>>, m_pending', NEW f \in ToAP, f.t = "req",
           f.id = m_respPacketId, f.n = Head(m_outputQueue).n, toAP' = toAP \/ toAP' = Append(toAP, f),
           UNCHANGED <<m_outputQueue, m_respPacketId, handled, answered, ap, out, toAPC>>, count'.insert = count.insert
    PROVE  Abp'
  <1>1. FrontKept /\ SameAp /\ Sent(f)' /\ (Ahead => Ahead') /\ (Clear => Clear')
    <2>1. FrontKept /\ SameAp /\ Sent(f)'
      BY DEF FrontKept, Front, SameAp, Sent
    <2>2. QED BY <2>1 DEF Ahead, Clear
  <1>2. Shift(toAPC', toAPC, {"rsp"}) /\ Behind(toAPC')  = Behind(toAPC)
    BY Shifts DEF Lines
  <1>3. NoRsp => NoRsp'
    BY <1>2, NoRspKept DEF Quiet
  <1>4. CASE toAP' = toAP
    <2>1. Shift(toAP', toAP, {"req"}) /\ Shift(toAP', toAP, {"req", "ack"})
      BY <1>4, Shifts DEF Lines
    <2>2. RspInv'
      BY <1>1, <1>2, AnswerKept, RspKept DEF Abp, Quiet, Lines
    <2>3. ReqInv'
      BY <1>1, <1>3, <2>1, RequestsKept DEF Abp, Lines
    <2>4. (NoAck => NoAck') /\ (AfterAck => AfterAck')
      BY <1>1, <2>1, AckKept
    <2>5. Met' => Met
      BY <2>4 DEF Met, Quiet
    <2>6. BootInv'
      BY <1>1, <1>2, <1>3, <2>4, <2>5, BootKept DEF Abp
    <2>7. QED BY <2>2, <2>3, <2>6, OrderSame DEF Abp
  <1>5. CASE toAP' = Append(toAP, f)
    <2>1. /\ Len(toAP) \in Nat /\ Len(toAP') = Len(toAP) + 1 /\ toAP'[Len(toAP) + 1] = f
          /\ \A i \in 1..Len(toAP) : toAP'[i] = toAP[i]
      BY <1>5, Appends DEF Lines
    <2>2. \A g : Sent(g) => Sent(g)'
      BY <1>1, SentKept
    <2>3. RspInv'
      BY <1>1, <1>2, AnswerKept, RspKept DEF Abp, Quiet, Lines
    <2>4. ReqInv'
      <3> SUFFICES ASSUME ap.acked PROVE ReqInv'
        BY DEF ReqInv
      <3>1. Sorted(toAP', "req", m_respPacketId) /\ (AllNew(toAP, "req", m_respPacketId) => AllNew(toAP', "req", m_respPacketId))
        BY <1>5, Appended DEF Lines, Abp, ReqInv
      <3>2. ReqTrue'
        <4> SUFFICES ASSUME NEW i \in 1..Len(toAP'), toAP'[i].t = "req", toAP'[i].id = m_respPacketId PROVE Sent(toAP[i])'
          BY DEF ReqTrue
        <4>1. CASE i \in 1..Len(toAP)
          <5>1. Sent(toAP[i]) /\ toAP'[i] = toAP[i]
            BY <2>1, <4>1 DEF Abp, ReqInv, ReqTrue
          <5>2. QED BY <2>2, <5>1 DEF Sent
        <4>2. CASE i = Len(toAP) + 1
          BY <1>1, <2>1, <4>2 DEF Sent
        <4>3. QED BY <2>1, <4>1, <4>2
      <3>3. LastTrue'
        BY <1>1 DEF Abp, ReqInv, LastTrue, FrontKept, Carried
      <3>4. QED BY <1>1, <1>3, <3>1, <3>2, <3>3 DEF Abp, ReqInv
    <2>5. NoAck => NoAck'
      BY <2>1 DEF NoAck
    <2>6. AfterAck => AfterAck'
      <3> SUFFICES ASSUME AfterAck, NEW i \in 1..Len(toAP'), NEW k \in 1..Len(toAP'), i < k, toAP'[i].t = "ack", toAP'[k].t = "req"
                   PROVE  Sent(toAP[k])'
        BY DEF AfterAck
      <3>1. CASE k \in 1..Len(toAP)
        <4>1. i \in 1..Len(toAP) /\ toAP'[i] = toAP[i] /\ toAP'[k] = toAP[k]
          BY <2>1, <3>1
        <4>2. Sent(toAP[k])
          BY <3>1, <4>1 DEF AfterAck
        <4>3. QED BY <2>2, <4>1, <4>2 DEF Sent
      <3>2. CASE k = Len(toAP) + 1
        BY <1>1, <2>1, <3>2 DEF Sent
      <3>3. QED BY <2>1, <3>1, <3>2
    <2>7. Met' => Met
      BY <2>5 DEF Met, Quiet
    <2>8. BootInv'
      BY <1>1, <1>2, <1>3, <2>6, <2>7, BootKept DEF Abp
    <2>9. QED BY <2>3, <2>4, <2>8, OrderSame DEF Abp
  <1>6. QED BY <1>4, <1>5

\* A response that fits is taken from the line.
LEMMA AbpResponse ==
    ASSUME Lines, Abp, SameCore, UNCHANGED <<ap, out, toAP>>, hand' = hand,
           toAPC # <<>>, Head(toAPC).t = "rsp", Head(toAPC).id = m_respPacketId, toAPC' = Tail(toAPC),
           Head(work'["io"]).rc = Head(toAPC).rc
    PROVE  Abp'
  <1>1. SameAp /\ toAPC[1] = Head(toAPC) /\ 1 \in 1..Len(toAPC)
    BY Tails DEF SameAp, Lines
  <1>2. FrontKept /\ (Ahead => Ahead') /\ (Clear => Clear') /\ UNCHANGED <<m_respPacketId, handled>>
    BY <1>1, CoreKept DEF SameCore
  <1>3. ~NoRsp
    BY <1>1 DEF NoRsp, Absent
  <1>4. Shift(toAPC', toAPC, {"rsp"}) /\ Shift(toAPC', toAPC, {"rsp", "ntf"}) /\ Shift(toAP', toAP, {"req"}) /\ Shift(toAP', toAP, {"req", "ack"})
    BY Shifts DEF Lines
  <1>5. \A rc : Answer(rc) => Answer(rc)'
    BY <1>1, <1>2, AnswerKept
  <1>6. Answer(Head(work["io"]).rc)'
    <2>1. Answer(Head(toAPC).rc)
      BY <1>1 DEF Abp, RspInv, RspTrue
    <2>2. Answer(Head(work'["io"]).rc)
      BY <2>1
    <2>3. QED BY <1>5, <2>2 DEF Answer
  <1>7. AllNew(toAPC', "rsp", m_respPacketId)
    <2>1. \A i \in 1..Len(toAPC') : i + 1 \in 1..Len(toAPC) /\ toAPC'[i] = toAPC[i + 1] /\ 1 < i + 1
      BY Tails DEF Lines
    <2>2. Sorted(toAPC, "rsp", m_respPacketId)
      BY DEF Abp, RspInv
    <2>3. \A i \in 1..Len(toAPC') : toAPC'[i].t = "rsp" => toAPC'[i].id = m_respPacketId
      BY <1>1, <2>1, <2>2 DEF Sorted
    <2>4. QED BY <2>3 DEF AllNew
  <1>8. RspTrue' /\ Sorted(toAPC', "rsp", m_respPacketId)
    <2>1. Sorted(toAPC', "rsp", m_respPacketId)
      BY <1>4, ShiftKeeps DEF Lines, Abp, RspInv
    <2> SUFFICES ASSUME NEW i \in 1..Len(toAPC'), toAPC'[i].t = "rsp", toAPC'[i].id = m_respPacketId
                 PROVE  Answer(toAPC[i].rc)'
      BY <1>2, <2>1 DEF RspTrue
    <2>2. PICK d \in {0, 1} : i + d \in 1..Len(toAPC) /\ toAPC'[i] = toAPC[i + d]
      BY <1>4 DEF Shift
    <2>3. Answer(toAPC'[i].rc)
      BY <2>2 DEF Abp, RspInv, RspTrue
    <2>4. QED BY <1>5, <2>3 DEF Answer
  <1>9. RspInv'
    BY <1>2, <1>6, <1>7, <1>8 DEF RspInv
  <1>10. ReqInv'
    BY <1>1, <1>2, <1>3, <1>4, RequestsKept DEF Abp, Lines
  <1>11. BootInv'
    <2>1. Behind(toAPC) => Behind(toAPC')
      BY <1>4, ShiftKeeps DEF Lines
    <2>2. (NoAck => NoAck') /\ (AfterAck => AfterAck')
      BY <1>2, <1>4, AckKept
    <2>3. Met' => Met
      BY <2>2 DEF Met
    <2>4. QED BY <1>1, <1>2, <1>3, <2>1, <2>2, <2>3, BootKept DEF Abp
  <1>12. OrderInv'
    BY OrderSame DEF Abp, SameCore
  <1>13. QED BY <1>9, <1>10, <1>11, <1>12 DEF Abp

\* A response is applied: the packet id toggles, and a command that was not refused leaves the queue.
LEMMA AbpTaken ==
    ASSUME Lines, Abp, AtResponse, ~AtResponse', hand' = hand, m_outputQueue \in Seq(Cmds), handled \in Seq(Nat),
           m_respPacketId \in {0, 1}, ap.lastId \in {0, 1, 2}, m_respPacketId' = 1 - m_respPacketId,
           UNCHANGED <<ap, out, handled, toAP, toAPC>>, count'.insert = count.insert,
           \/ Head(work["io"]).rc = "NACK" /\ UNCHANGED <<m_outputQueue, m_pending, answered>>
           \/ /\ m_outputQueue' = Tail(m_outputQueue) /\ ~m_pending'
              /\ \/ answered' = answered
                 \/ Head(work["io"]).rc = "OK" /\ answered' = answered \cup ({Head(m_outputQueue).n} \ {0})
    PROVE  Abp'
  <1> DEFINE rc == Head(work["io"]).rc
             q  == m_outputQueue
  <1>1. Answer(rc) /\ AllNew(toAPC, "rsp", m_respPacketId) /\ q # <<>>
    BY DEF Abp, RspInv, Answer, Front
  <1>2. m_respPacketId' # m_respPacketId /\ m_respPacketId' # 2 /\ m_respPacketId' \in {0, 1} /\ 1 - m_respPacketId' = m_respPacketId
    OBVIOUS
  <1>3. RspInv'
    <2>1. NoneNew(toAPC, "rsp", m_respPacketId')
      BY <1>1, <1>2 DEF AllNew, NoneNew
    <2>2. QED BY <2>1 DEF RspInv, Sorted, NoneNew, RspTrue
  <1>4. q # <<>> /\ q \in Seq(Cmds) /\ Len(q) \in Nat \ {0} /\ Head(q) = q[1]
    BY <1>1, Tails
  <1>5. q' = q \/ /\ q' \in Seq(Cmds) /\ Len(q') = Len(q) - 1
                  /\ \A i \in 1..Len(q') : i + 1 \in 1..Len(q) /\ q'[i] = q[i + 1]
    BY <1>4, Tails
  <1> HIDE DEF q, rc
  <1>6. ReqInv'
    <2> SUFFICES ASSUME ap.acked PROVE ReqInv'
      BY DEF ReqInv
    <2>1. ap.lastId = m_respPacketId /\ ap.lastRc = rc
      BY <1>1 DEF Answer
    <2>2. AllNew(toAP, "req", m_respPacketId) /\ Ahead
      BY <1>2, <2>1 DEF Abp, ReqInv
    <2>3. NoneNew(toAP, "req", m_respPacketId')
      BY <1>2, <2>2 DEF AllNew, NoneNew
    <2>4. Sorted(toAP, "req", m_respPacketId)' /\ ReqTrue'
      BY <2>3 DEF NoneNew, Sorted, ReqTrue
    <2>5. Ahead'
      <3> SUFFICES ASSUME NEW k \in 1..Len(handled), NEW i \in 1..Len(q'), q'[i].n # 0
                   PROVE  handled[k] < q'[i].n
        BY DEF Ahead, q
      <3>1. CASE q' = Tail(q)
        <4>1. i + 1 \in 1..Len(q) /\ q'[i] = q[i + 1] /\ i + 1 # 1
          BY <1>4, <3>1, Tails
        <4>2. QED BY <2>2, <4>1 DEF Ahead, q
      <3>2. CASE q' = q /\ rc = "NACK"
        BY <2>1, <2>2, <3>2 DEF Ahead, q
      <3>3. QED BY <3>1, <3>2 DEF q, rc
    <2>6. QED BY <1>2, <2>1, <2>4, <2>5 DEF ReqInv, LastTrue
  <1>7. BootInv'
    <2>1. ~NoRsp
      BY DEF NoRsp
    <2>2. Met' => Met
      BY DEF Met, NoAck
    <2>3. QED BY <2>1, <2>2 DEF Abp, BootInv, BootOut
  <1>8. OrderInv'
    <2>1. QueueOrder' /\ QueueBound'
      <3>1. CASE q' = q
        BY <3>1 DEF Abp, OrderInv, QueueOrder, QueueBound, q
      <3>2. CASE /\ q' \in Seq(Cmds) /\ Len(q') = Len(q) - 1
                 /\ \A i \in 1..Len(q') : i + 1 \in 1..Len(q) /\ q'[i] = q[i + 1]
        <4>1. QueueBound'
          BY <3>2 DEF Abp, OrderInv, QueueBound, q
        <4>2. QueueOrder'
          <5> SUFFICES ASSUME NEW i \in 1..Len(q'), NEW k \in 1..Len(q'), i < k, q'[i].n # 0, q'[k].n # 0
                       PROVE  q'[i].n < q'[k].n
            BY DEF QueueOrder, q
          <5>1. i + 1 \in 1..Len(q) /\ k + 1 \in 1..Len(q) /\ i + 1 < k + 1 /\ q'[i] = q[i + 1] /\ q'[k] = q[k + 1]
            BY <3>2
          <5>2. QED BY <5>1 DEF Abp, OrderInv, QueueOrder, q
        <4>3. QED BY <4>1, <4>2
      <3>3. QED BY <1>5, <3>1, <3>2
    <2>2. Answered'
      <3>1. CASE answered' = answered
        BY <3>1 DEF Abp, OrderInv, Answered
      <3>2. CASE rc = "OK" /\ answered' = answered \cup ({Head(q).n} \ {0})
        <4>1. Carried(Head(q).n)
          BY <1>1, <3>2 DEF Answer, q
        <4>2. Head(q).n = 0 \/ Head(q).n \in {handled[k] : k \in 1..Len(handled)}
          BY <4>1 DEF Carried
        <4>3. QED BY <3>2, <4>2 DEF Abp, OrderInv, Answered
      <3>3. QED BY <3>1, <3>2 DEF rc, q
    <2>3. QED BY <2>1, <2>2 DEF Abp, OrderInv, Handled, InOrder
  <1>9. QED BY <1>3, <1>6, <1>7, <1>8 DEF Abp

\* A boot event is handled: the queue is cleared.
LEMMA AbpBoot ==
    ASSUME Lines, Abp, BootOut, NoAck, ~AtResponse', toAPC # <<>>, Head(toAPC).t = "ntf", toAPC' = Tail(toAPC),
           m_outputQueue' = <<>>, UNCHANGED <<ap, out, toAP, handled, answered>>, count'.insert = count.insert
    PROVE  Abp'
  <1>1. ~ap.acked /\ ap.lastId = 2 /\ Behind(toAPC)
    BY DEF Abp, BootInv
  <1>2. Absent(toAPC', "rsp") /\ Behind(toAPC')
    <2>1. /\ 1 \in 1..Len(toAPC) /\ toAPC[1].t = "ntf"
          /\ \A i \in 1..Len(toAPC') : i + 1 \in 1..Len(toAPC) /\ toAPC'[i] = toAPC[i + 1] /\ 1 < i + 1
      BY Tails DEF Lines
    <2>2. Absent(toAPC', "rsp")
      BY <1>1, <2>1 DEF Behind, Absent
    <2>3. QED BY <2>2 DEF Behind, Absent
  <1>3. NoRsp'
    BY <1>2 DEF NoRsp
  <1>4. RspInv'
    BY <1>2 DEF RspInv, Absent, Sorted, RspTrue
  <1>5. ReqInv'
    BY <1>1 DEF ReqInv
  <1>6. Clear' /\ AfterAck'
    BY DEF Clear, AfterAck, NoAck
  <1>7. BootInv'
    BY <1>1, <1>2, <1>3, <1>6 DEF BootInv, Abp, BootOut
  <1>8. OrderInv'
    BY DEF Abp, OrderInv, QueueOrder, QueueBound, Handled, InOrder, Answered
  <1>9. QED BY <1>4, <1>5, <1>7, <1>8 DEF Abp

\* The boot event is acknowledged.
LEMMA AbpBootAck ==
    ASSUME Lines, Abp, BootOut, hand # <<>>, NoAck, ~AtResponse', SameCore, UNCHANGED <<ap, out, toAPC>>,
           NEW f \in ToAP, f.t = "ack", toAP' = toAP \/ toAP' = Append(toAP, f)
    PROVE  Abp'
  <1>1. ~ap.acked /\ ap.lastId = 2 /\ Behind(toAPC) /\ NoRsp /\ Clear
    BY DEF Abp, BootInv, Met
  <1>2. NoRsp' /\ Clear' /\ SameAp
    BY <1>1, CoreKept DEF NoRsp, SameAp
  <1>3. RspInv'
    BY <1>2 DEF RspInv, NoRsp, Absent, Sorted, RspTrue
  <1>4. AfterAck'
    <2>1. CASE toAP' = toAP
      BY <2>1 DEF AfterAck, NoAck
    <2>2. CASE toAP' = Append(toAP, f)
      <3>1. \A i \in 1..Len(toAP') : toAP'[i].t = "ack" => i = Len(toAP')
        BY <2>2 DEF NoAck, Lines
      <3>2. QED BY <3>1 DEF AfterAck, Lines
    <2>3. QED BY <2>1, <2>2
  <1>5. BootInv'
    BY <1>1, <1>2, <1>4 DEF BootInv, Abp, BootOut
  <1>6. ReqInv'
    BY <1>1 DEF ReqInv
  <1>7. QED BY <1>3, <1>5, <1>6, OrderSame DEF Abp, SameCore

\* The mote boots.
LEMMA AbpMoteBoot ==
    ASSUME Lines, Abp, Quiet, hand = <<>>, NoNtf, SameCore, ~ap'.acked, ap'.lastId = 2, toAP' = <<>>,
           out' = <<BootEvent>>, NEW f \in ToAPC, f.t = "ntf", toAPC' = toAPC \/ toAPC' = Append(toAPC, f)
    PROVE  Abp'
  <1>1. Absent(toAPC, "ntf")
    BY DEF NoNtf, Absent
  <1>2. Behind(toAPC') /\ Shift(toAPC', toAPC, {"rsp"})
    <2>1. CASE toAPC' = toAPC
      BY <1>1, <2>1, Shifts DEF Absent, Behind, Lines
    <2>2. CASE toAPC' = Append(toAPC, f)
      BY <1>1, <2>2, Shifts, Appended DEF Lines
    <2>3. QED BY <2>1, <2>2
  <1>3. FrontKept /\ UNCHANGED <<m_respPacketId, handled>>
    BY DEF SameCore, FrontKept, Front
  <1>4. RspInv'
    BY <1>2, <1>3, AnswerKept, RspKept DEF Abp, Quiet, Lines
  <1>5. BootInv'
    <2>1. BootOut' /\ ~Met'
      BY DEF BootOut, BootEvent, Met, NoAck, Quiet
    <2>2. QED BY <1>2, <2>1 DEF BootInv
  <1>6. ReqInv'
    BY DEF ReqInv
  <1>7. QED BY <1>4, <1>5, <1>6, OrderSame DEF Abp, SameCore

\* The mote learns that its boot event was acknowledged.
LEMMA AbpAcked ==
    ASSUME Lines, Abp, Quiet, SameCore, BootOut, out' = <<>>, ap'.acked, ap'.lastId = ap.lastId, UNCHANGED toAPC,
           m_respPacketId \in {0, 1}, toAP # <<>>, Head(toAP).t = "ack", toAP' = Tail(toAP)
    PROVE  Abp'
  <1>1. /\ 1 \in 1..Len(toAP) /\ toAP[1].t = "ack"
        /\ \A i \in 1..Len(toAP') : i + 1 \in 1..Len(toAP) /\ toAP'[i] = toAP[i + 1] /\ 1 < i + 1
    BY Tails DEF Lines
  <1>2. ~NoAck
    BY <1>1 DEF NoAck
  <1>3. ~ap.acked /\ ap.lastId = 2 /\ NoRsp /\ Clear /\ AfterAck
    BY <1>2 DEF Abp, BootInv, Met
  <1>4. NoRsp'
    BY <1>3 DEF NoRsp, Quiet
  <1>5. RspInv'
    BY <1>4 DEF RspInv, NoRsp, Absent, Sorted, RspTrue
  <1>6. \A i \in 1..Len(toAP') : toAP'[i].t = "req" => Sent(toAP'[i])
    BY <1>1, <1>3 DEF AfterAck
  <1>7. \A g : Sent(g) => Sent(g)'
    BY DEF Sent, SameCore, Front
  <1>8. ReqTrue' /\ AllNew(toAP, "req", m_respPacketId)' /\ Sorted(toAP, "req", m_respPacketId)'
    <2>1. ReqTrue'
      BY <1>6, <1>7 DEF ReqTrue, Sent
    <2>2. AllNew(toAP, "req", m_respPacketId)'
      BY <1>6 DEF AllNew, Sent, SameCore
    <2>3. QED BY <2>1, <2>2 DEF AllNew, Sorted
  <1>9. Ahead' /\ LastTrue'
    BY <1>3 DEF Ahead, Clear, SameCore, LastTrue
  <1>10. ReqInv'
    BY <1>4, <1>8, <1>9 DEF ReqInv
  <1>11. BootInv'
    BY BootOver DEF BootOut
  <1>12. QED BY <1>5, <1>10, <1>11, OrderSame DEF Abp, SameCore

\* A request with the packet id the mote answered last: it gets the same answer.
LEMMA AbpRepeated ==
    ASSUME Lines, Abp, Quiet, SameCore, SameAp, ap.acked, UNCHANGED out, m_respPacketId \in {0, 1},
           toAP # <<>>, Head(toAP).t = "req", Head(toAP).id = ap.lastId, ap.lastId \in {0, 1}, toAP' = Tail(toAP),
           NEW e \in ToAPC, e.t = "rsp", e.id = ap.lastId, e.rc = ap.lastRc, toAPC' = toAPC \/ toAPC' = Append(toAPC, e)
    PROVE  Abp'
  <1>1. FrontKept /\ (Ahead => Ahead') /\ UNCHANGED <<m_respPacketId, handled>>
    BY CoreKept DEF SameCore
  <1>2. \A rc : Answer(rc) => Answer(rc)'
    BY <1>1, AnswerKept
  <1>3. ~BootOut
    BY DEF Abp, BootInv
  <1>4. ReqInv
    BY DEF Abp
  <1>5. Shift(toAP', toAP, {"req"})
    BY Shifts DEF Lines
  <1>6. RspInv'
    <2>1. CASE toAPC' = toAPC
      BY <1>1, <1>2, <2>1, Shifts, RspKept DEF Abp, Quiet, Lines
    <2>2. CASE toAPC' = Append(toAPC, e)
      <3>1. /\ Len(toAPC) \in Nat /\ Len(toAPC') = Len(toAPC) + 1 /\ toAPC'[Len(toAPC) + 1] = e
            /\ \A i \in 1..Len(toAPC) : toAPC'[i] = toAPC[i]
        BY <2>2, Appends DEF Lines
      <3>2. RspInv
        BY DEF Abp
      <3>3. e.id = m_respPacketId => Answer(e.rc)
        BY <1>4 DEF ReqInv, LastTrue, Answer
      <3>4. e.id # m_respPacketId => NoneNew(toAPC, "rsp", m_respPacketId) /\ ~AtResponse
        BY <3>2 DEF RspInv, RspTrue, Answer, NoneNew
      <3>5. Sorted(toAPC', "rsp", m_respPacketId)
        BY <2>2, <3>2, <3>4, Appended DEF Lines, RspInv
      <3>6. AtResponse => AllNew(toAPC', "rsp", m_respPacketId)
        BY <2>2, <3>2, <3>4, Appended DEF Lines, RspInv
      <3>7. RspTrue'
        <4> SUFFICES ASSUME NEW i \in 1..Len(toAPC'), toAPC'[i].t = "rsp", toAPC'[i].id = m_respPacketId
                     PROVE  Answer(toAPC[i].rc)'
          BY <1>1 DEF RspTrue
        <4>1. Answer(toAPC'[i].rc)
          <5>1. CASE i \in 1..Len(toAPC)
            BY <3>1, <3>2, <5>1 DEF RspInv, RspTrue
          <5>2. CASE i = Len(toAPC) + 1
            BY <3>1, <3>3, <5>2
          <5>3. QED BY <3>1, <5>1, <5>2
        <4>2. QED BY <1>2, <4>1 DEF Answer
      <3>8. AtResponse' => Answer(Head(work["io"]).rc)'
        BY <1>2, <3>2 DEF RspInv, Answer, Quiet
      <3>9. QED BY <1>1, <3>5, <3>6, <3>7, <3>8 DEF RspInv, Quiet
    <2>3. QED BY <2>1, <2>2
  <1>7. ReqInv'
    <2>1. Sorted(toAP', "req", m_respPacketId) /\ (AllNew(toAP, "req", m_respPacketId) => AllNew(toAP', "req", m_respPacketId))
      BY <1>4, <1>5, ShiftKeeps DEF Lines, ReqInv
    <2>2. ReqTrue'
      BY <1>1, <1>4, <1>5, ReqTrueKept DEF ReqInv
    <2>3. LastTrue'
      BY <1>1, <1>4 DEF ReqInv, LastTrue, FrontKept, SameAp, Carried
    <2>4. QED BY <1>1, <1>4, <2>1, <2>2, <2>3 DEF ReqInv, SameAp
  <1>8. BootInv'
    BY <1>3, BootOver DEF BootOut, SameAp
  <1>9. QED BY <1>6, <1>7, <1>8, OrderSame DEF Abp, SameCore

\* A request with another packet id: it is for the command on the line, which the mote has not answered.
LEMMA AbpFresh ==
    ASSUME Lines, Abp, ap.acked, m_respPacketId \in {0, 1}, ap.lastId \in {0, 1, 2},
           toAP # <<>>, Head(toAP).t = "req", Head(toAP).id \in {0, 1}, Head(toAP).id # ap.lastId
    PROVE  /\ Head(toAP).id = m_respPacketId /\ ap.lastId # m_respPacketId /\ Front /\ Head(toAP).n = Head(m_outputQueue).n
           /\ NoneNew(toAPC, "rsp", m_respPacketId) /\ ~AtResponse /\ AllNew(Tail(toAP), "req", m_respPacketId)
  <1>1. /\ 1 \in 1..Len(toAP) /\ toAP[1] = Head(toAP)
        /\ \A i \in 1..Len(Tail(toAP)) : i + 1 \in 1..Len(toAP) /\ Tail(toAP)[i] = toAP[i + 1] /\ 1 < i + 1
    BY Tails DEF Lines
  <1>2. ReqInv /\ RspInv
    BY DEF Abp
  <1>3. Head(toAP).id = m_respPacketId
    <2> SUFFICES ASSUME Head(toAP).id # m_respPacketId PROVE FALSE
      OBVIOUS
    <2>1. ap.lastId # 1 - m_respPacketId
      OBVIOUS
    <2>2. AllNew(toAP, "req", m_respPacketId)
      BY <1>2, <2>1 DEF ReqInv
    <2>3. QED BY <1>1, <2>2 DEF AllNew
  <1>4. Sent(Head(toAP))
    BY <1>1, <1>2, <1>3 DEF ReqInv, ReqTrue
  <1>5. ap.lastId # m_respPacketId
    BY <1>3
  <1>6. NoneNew(toAPC, "rsp", m_respPacketId) /\ ~AtResponse
    BY <1>2, <1>5 DEF RspInv, RspTrue, Answer, NoneNew
  <1>7. AllNew(Tail(toAP), "req", m_respPacketId)
    <2>1. \A i \in 1..Len(Tail(toAP)) : Tail(toAP)[i].t = "req" => Tail(toAP)[i].id = m_respPacketId
      BY <1>1, <1>2, <1>3 DEF ReqInv, Sorted
    <2>2. QED BY <2>1 DEF AllNew
  <1>8. QED BY <1>3, <1>4, <1>5, <1>6, <1>7 DEF Sent

\* ... so the mote carries it out, or refuses it, and that is its only answer.
LEMMA AbpCarried ==
    ASSUME Lines, Abp, Quiet, ap.acked, ap'.acked, UNCHANGED <<m_outputQueue, m_pending, m_respPacketId, answered, out>>,
           count'.insert = count.insert, m_respPacketId \in {0, 1}, ap.lastId \in {0, 1, 2}, count.insert \in Nat,
           m_outputQueue \in Seq(Cmds), handled \in Seq(Nat),
           toAP # <<>>, Head(toAP).t = "req", Head(toAP).id \in {0, 1}, Head(toAP).id # ap.lastId, toAP' = Tail(toAP),
           NEW rc, ap'.lastId = Head(toAP).id, ap'.lastRc = rc,
           handled' = IF rc = "OK" /\ Head(toAP).n # 0 THEN Append(handled, Head(toAP).n) ELSE handled,
           NEW e \in ToAPC, e.t = "rsp", e.id = Head(toAP).id, e.rc = rc, toAPC' = toAPC \/ toAPC' = Append(toAPC, e)
    PROVE  Abp'
  <1> DEFINE f == Head(toAP)
             q == m_outputQueue
  <1>1. /\ f.id = m_respPacketId /\ ap.lastId # m_respPacketId /\ Front /\ f.n = Head(q).n
        /\ NoneNew(toAPC, "rsp", m_respPacketId) /\ ~AtResponse /\ AllNew(toAP', "req", m_respPacketId)
    BY AbpFresh
  <1>2. q # <<>> /\ Len(q) \in Nat \ {0} /\ Head(q) = q[1] /\ f.n \in Nat /\ \A i \in 1..Len(q) : q[i].n \in Nat
    <2>1. q # <<>>
      BY <1>1 DEF Front
    <2>2. Len(q) \in Nat \ {0} /\ Head(q) = q[1]
      BY <2>1, Tails
    <2>3. \A i \in 1..Len(q) : q[i] \in Cmds
      OBVIOUS
    <2>4. \A i \in 1..Len(q) : q[i].n \in Nat
      BY <2>3 DEF Cmds
    <2>5. QED BY <1>1, <2>1, <2>2, <2>4
  <1>3. Len(handled) \in Nat /\ \A k \in 1..Len(handled) : handled[k] \in Nat
    OBVIOUS
  <1>4. \/ handled' = handled /\ (rc = "OK" => f.n = 0)
        \/ /\ rc = "OK" /\ f.n # 0 /\ Len(handled') = Len(handled) + 1 /\ handled'[Len(handled) + 1] = f.n
           /\ \A k \in 1..Len(handled) : handled'[k] = handled[k]
    BY <1>2
  <1> HIDE DEF f, q
  <1>5. rc = "OK" => Carried(Head(m_outputQueue).n)'
    <2> SUFFICES ASSUME rc = "OK" PROVE Carried(Head(m_outputQueue).n)'
      OBVIOUS
    <2>1. Head(m_outputQueue)' = Head(q)
      BY DEF q
    <2>2. f.n = 0 \/ \E k \in 1..Len(handled') : handled'[k] = f.n
      <3>1. f.n # 0 => Len(handled) + 1 \in 1..Len(handled') /\ handled'[Len(handled) + 1] = f.n
        BY <1>3, <1>4
      <3>2. QED BY <3>1
    <2>3. QED BY <1>1, <2>1, <2>2 DEF Carried
  <1>6. Front' /\ Answer(rc)'
    <2>1. Front'
      BY <1>1 DEF Front
    <2>2. ap'.lastId = m_respPacketId' /\ ap'.lastRc = rc
      BY <1>1 DEF f
    <2>3. QED BY <1>5, <2>1, <2>2 DEF Answer
  <1>7. RspInv'
    <2>1. CASE toAPC' = toAPC
      BY <1>1, <2>1 DEF RspInv, RspTrue, NoneNew, Sorted, Quiet
    <2>2. CASE toAPC' = Append(toAPC, e)
      <3>1. /\ Len(toAPC) \in Nat /\ Len(toAPC') = Len(toAPC) + 1 /\ toAPC'[Len(toAPC) + 1] = e
            /\ \A i \in 1..Len(toAPC) : toAPC'[i] = toAPC[i]
        BY <2>2, Appends DEF Lines
      <3>2. \A i \in 1..Len(toAPC') : toAPC'[i].t = "rsp" /\ toAPC'[i].id = m_respPacketId => i = Len(toAPC') /\ toAPC'[i] = e
        <4> SUFFICES ASSUME NEW i \in 1..Len(toAPC'), toAPC'[i].t = "rsp", toAPC'[i].id = m_respPacketId
                     PROVE  i = Len(toAPC')
          BY <3>1
        <4>1. i \notin 1..Len(toAPC)
          BY <1>1, <3>1 DEF NoneNew
        <4> DEFINE m == Len(toAPC)
        <4>2. m \in Nat /\ i \in 1..(m + 1) /\ i \notin 1..m /\ Len(toAPC') = m + 1
          BY <3>1, <4>1
        <4> HIDE DEF m
        <4>3. QED BY <4>2
      <3>3. Sorted(toAPC', "rsp", m_respPacketId)
        BY <3>1, <3>2 DEF Sorted
      <3>4. RspTrue'
        <4> SUFFICES ASSUME NEW i \in 1..Len(toAPC'), toAPC'[i].t = "rsp", toAPC'[i].id = m_respPacketId
                     PROVE  Answer(toAPC[i].rc)'
          BY DEF RspTrue
        <4>1. toAPC'[i].rc = rc
          BY <3>2
        <4>2. QED BY <1>6, <4>1 DEF Answer
      <3>5. QED BY <1>1, <3>3, <3>4 DEF RspInv, Quiet
    <2>3. QED BY <2>1, <2>2
  <1>8. Ahead
    BY DEF Abp, ReqInv
  <1>9. \A k \in 1..Len(handled), i \in 1..Len(q) : q[i].n # 0 => handled[k] < q[i].n
    BY <1>1, <1>8 DEF Ahead, q
  <1>10. \A i \in 1..Len(q) : f.n # 0 /\ q[i].n # 0 /\ i # 1 => f.n < q[i].n
    <2> SUFFICES ASSUME NEW i \in 1..Len(q), f.n # 0, q[i].n # 0, i # 1 PROVE f.n < q[i].n
      OBVIOUS
    <2>1. 1 \in 1..Len(q) /\ 1 < i /\ q[1].n = f.n
      BY <1>1, <1>2
    <2>2. QED BY <2>1 DEF Abp, OrderInv, QueueOrder, q
  <1>11. Ahead'
    <2> SUFFICES ASSUME NEW k \in 1..Len(handled'), NEW i \in 1..Len(q), q[i].n # 0
                 PROVE  \/ handled'[k] < q[i].n
                        \/ i = 1 /\ handled'[k] = q[1].n /\ ap'.lastId = m_respPacketId /\ ap'.lastRc = "OK"
      BY DEF Ahead, q
    <2>1. CASE k \in 1..Len(handled)
      <3>1. handled'[k] = handled[k]
        BY <1>4, <2>1
      <3>2. QED BY <1>9, <2>1, <3>1
    <2>2. CASE k \notin 1..Len(handled)
      <3>1. rc = "OK" /\ f.n # 0 /\ k = Len(handled) + 1 /\ handled'[k] = f.n
        BY <1>3, <1>4, <2>2
      <3>2. CASE i = 1
        BY <1>1, <1>2, <3>1, <3>2 DEF f
      <3>3. CASE i # 1
        BY <1>10, <3>1, <3>3
      <3>4. QED BY <3>2, <3>3
    <2>3. QED BY <2>1, <2>2
  <1>12. ReqInv'
    <2>1. Sorted(toAP, "req", m_respPacketId)'
      BY <1>1 DEF AllNew, Sorted
    <2>2. ReqTrue'
      <3>1. FrontKept
        BY DEF FrontKept, Front
      <3>2. Shift(toAP', toAP, {"req"})
        BY Shifts DEF Lines
      <3>3. ReqTrue
        BY DEF Abp, ReqInv
      <3>4. QED BY <3>1, <3>2, <3>3, ReqTrueKept
    <2>3. LastTrue'
      BY <1>5, <1>6 DEF LastTrue
    <2>4. ap'.lastId # 2
      BY DEF f
    <2>5. QED BY <1>1, <1>11, <2>1, <2>2, <2>3, <2>4 DEF ReqInv
  <1>13. BootInv'
    BY BootOver DEF Abp, BootInv, BootOut
  <1>14. OrderInv'
    <2>1. QueueOrder' /\ QueueBound'
      BY DEF Abp, OrderInv, QueueOrder, QueueBound
    <2>2. CASE handled' = handled
      BY <2>1, <2>2 DEF Abp, OrderInv, Handled, InOrder, Answered
    <2>3. CASE /\ rc = "OK" /\ f.n # 0 /\ Len(handled') = Len(handled) + 1 /\ handled'[Len(handled) + 1] = f.n
               /\ \A k \in 1..Len(handled) : handled'[k] = handled[k]
      <3>1. 1 \in 1..Len(q) /\ q[1].n = f.n
        BY <1>1, <1>2
      <3>2. f.n <= count.insert /\ \A k \in 1..Len(handled) : handled[k] < f.n
        BY <1>9, <2>3, <3>1 DEF Abp, OrderInv, QueueBound, q
      <3>3. Handled'
        BY <1>3, <2>3, <3>2 DEF Abp, OrderInv, Handled
      <3>4. InOrder'
        <4> SUFFICES ASSUME NEW i \in 1..Len(handled'), NEW k \in 1..Len(handled'), i < k PROVE handled'[i] < handled'[k]
          BY DEF InOrder
        <4>1. i \in 1..Len(handled) /\ handled'[i] = handled[i]
          BY <1>3, <2>3
        <4>2. CASE k \in 1..Len(handled)
          BY <2>3, <4>1, <4>2 DEF Abp, OrderInv, InOrder
        <4>3. CASE k = Len(handled) + 1
          BY <2>3, <3>2, <4>1, <4>3
        <4>4. QED BY <1>3, <2>3, <4>2, <4>3
      <3>5. Answered'
        <4>1. \A k \in 1..Len(handled) : k \in 1..Len(handled') /\ handled'[k] = handled[k]
          BY <1>3, <2>3
        <4>2. QED BY <4>1 DEF Abp, OrderInv, Answered
      <3>6. QED BY <2>1, <3>3, <3>4, <3>5 DEF OrderInv
    <2>4. QED BY <1>4, <2>2, <2>3
  <1>15. QED BY <1>7, <1>12, <1>13, <1>14 DEF Abp

\* A frame of another kind, written or not, leaves the frames of a kind in order.
LEMMA PutShift ==
    ASSUME NEW S, NEW l \in Seq(S), NEW m, NEW e \in S, NEW T, e.t \notin T, m = l \/ m = Append(l, e)
    PROVE  Shift(m, l, T)
  <1>1. Shift(l, l, T) /\ Shift(Append(l, e), l, T)
    BY Shifts
  <1>2. QED BY <1>1

\* A step that moves no frame keeps the invariant.
LEMMA AbpStill ==
    ASSUME Lines, Abp, Quiet, SameCore, SameAp, UNCHANGED <<out, toAP, toAPC>> PROVE Abp'
  <1>1. Shift(toAPC', toAPC, {"rsp"}) /\ Shift(toAP', toAP, {"req", "ack"})
    BY Shifts DEF Lines
  <1>2. Behind(toAPC) => Behind(toAPC')
    OBVIOUS
  <1>3. QED BY <1>1, <1>2, AbpQuiet

\* A request for the front of the queue is written, or nothing is.
Requests == \/ UNCHANGED <<toAP, m_pending>>
            \/ /\ m_outputQueue # <<>> /\ m_pending'
               /\ \E f \in ToAP : /\ f.t = "req" /\ f.id = m_respPacketId /\ f.n = Head(m_outputQueue).n
                                  /\ toAP' = toAP \/ toAP' = Append(toAP, f)

\* What send and the retry write is a request for the front with the current packet id.
LEMMA RequestFrame ==
    ASSUME TypeInv, m_outputQueue # <<>>, NEW b \in BOOLEAN
    PROVE  LET f == [t |-> "req", op |-> Head(m_outputQueue).op, n |-> Head(m_outputQueue).n, id |-> RequestId(b)]
           IN  f \in ToAP /\ f.t = "req" /\ f.id = m_respPacketId /\ f.n = Head(m_outputQueue).n
  <1>1. Head(m_outputQueue) \in Cmds /\ RequestId(b) = m_respPacketId /\ m_respPacketId \in {0, 1}
    BY Tails DEF RequestId, LineType, QueueType, TypeInv
  <1>2. QED BY <1>1, MakeFrames

\* send writes a request for the front, or nothing.
LEMMA SendRequests == ASSUME TypeInv, NEW b \in BOOLEAN, send(b) PROVE Requests
  <1>1. CASE CanSend(b)
    <2> DEFINE f == [t |-> "req", op |-> Head(m_outputQueue).op, n |-> Head(m_outputQueue).n, id |-> RequestId(b)]
    <2>1. m_outputQueue # <<>> /\ m_pending' /\ toAP' = Put(toAP, f)
      BY <1>1 DEF send, CanSend
    <2>2. f \in ToAP /\ f.t = "req" /\ f.id = m_respPacketId /\ f.n = Head(m_outputQueue).n
      BY <2>1, RequestFrame
    <2> HIDE DEF f
    <2>3. QED BY <2>1, <2>2 DEF Put, Requests
  <1>2. CASE ~CanSend(b)
    BY <1>2 DEF send, Requests
  <1>3. QED BY <1>1, <1>2

\* So does a retry.
LEMMA RetryRequests == ASSUME TypeInv, handleRetryTimeout PROVE Requests
  <1> DEFINE f == [t |-> "req", op |-> Head(m_outputQueue).op, n |-> Head(m_outputQueue).n, id |-> RequestId(FALSE)]
  <1>1. \/ send(FALSE) \/ UNCHANGED <<toAP, m_pending>>
        \/ m_outputQueue # <<>> /\ m_pending /\ UNCHANGED m_pending /\ toAP' = Put(toAP, f)
    BY DEF handleRetryTimeout
  <1>2. CASE m_outputQueue # <<>> /\ m_pending /\ UNCHANGED m_pending /\ toAP' = Put(toAP, f)
    <2>1. f \in ToAP /\ f.t = "req" /\ f.id = m_respPacketId /\ f.n = Head(m_outputQueue).n
      BY <1>2, RequestFrame
    <2> HIDE DEF f
    <2>2. QED BY <1>2, <2>1 DEF Put, Requests
  <1>3. QED BY <1>1, <1>2, SendRequests DEF Requests

\* A request for the front keeps the invariant.
LEMMA AbpRequests ==
    ASSUME Lines, Abp, Quiet, Requests, UNCHANGED <<m_outputQueue, m_respPacketId, handled, answered, ap, out, toAPC>>,
           count'.insert = count.insert
    PROVE  Abp'
  <1>1. CASE UNCHANGED <<toAP, m_pending>>
    BY <1>1, AbpStill DEF SameCore, SameAp
  <1>2. CASE /\ m_outputQueue # <<>> /\ m_pending'
             /\ \E f \in ToAP : /\ f.t = "req" /\ f.id = m_respPacketId /\ f.n = Head(m_outputQueue).n
                                /\ toAP' = toAP \/ toAP' = Append(toAP, f)
    BY <1>2, AbpSend
  <1>3. QED BY <1>1, <1>2 DEF Requests

\* A frame lost, or dropped, on the way to the bridge keeps the invariant.
LEMMA AbpLosesAPC ==
    ASSUME Lines, Abp, Quiet, SameCore, SameAp, UNCHANGED <<out, toAP>>, toAPC # <<>>, toAPC' = Tail(toAPC) PROVE Abp'
  <1>1. Shift(toAPC', toAPC, {"rsp"}) /\ Shift(toAPC', toAPC, {"rsp", "ntf"}) /\ Shift(toAP', toAP, {"req", "ack"})
    BY Shifts DEF Lines
  <1>2. Behind(toAPC) => Behind(toAPC')
    BY <1>1, ShiftKeeps DEF Lines
  <1>3. QED BY <1>1, <1>2, AbpQuiet

\* A frame lost, or dropped, on the way to the AP keeps the invariant.
LEMMA AbpLosesAP ==
    ASSUME Lines, Abp, Quiet, SameCore, SameAp, UNCHANGED <<out, toAPC>>, toAP # <<>>, toAP' = Tail(toAP) PROVE Abp'
  <1>1. Shift(toAPC', toAPC, {"rsp"}) /\ Shift(toAP', toAP, {"req", "ack"})
    BY Shifts DEF Lines
  <1>2. QED BY <1>1, AbpQuiet

\* A notification's handler applies no response.
LEMMA NotifiedHead == ASSUME TypeInv, handleNotification \/ handleAPBoot PROVE ~AtResponse'
  <1>1. Head(toAPC) \in Ntfs
    BY Tails, MakeFrames DEF handleNotification, handleAPBoot, Receive, TypeInv, LineType
  <1>2. CASE handleNotification
    <2> DEFINE p == Inserts(CouplerOps(Head(toAPC).kind))
    <2>1. PlainSeq(p)
      BY <1>1, CouplerOpsType, PlainSeqs
    <2>2. work'["io"] = p \o <<[do |-> "ack", f |-> Head(toAPC)]>>
      BY <1>2, IoThread DEF handleNotification, TypeInv, WorkType
    <2> HIDE DEF p
    <2>3. QED BY <1>1, <2>1, <2>2, AckPrefix DEF AtResponse
  <1>3. CASE handleAPBoot
    BY <1>1, <1>3, IoThread, BootWork DEF handleAPBoot, TypeInv, WorkType, AtResponse
  <1>4. QED BY <1>2, <1>3

\* The mote's response carries the packet id of the request.
LEMMA RspFrame ==
    ASSUME NEW f \in Reqs, NEW rc \in RcSet
    PROVE  Rsp(f, rc) \in ToAPC /\ Rsp(f, rc).t = "rsp" /\ Rsp(f, rc).id = f.id /\ Rsp(f, rc).rc = rc
  BY MakeFrames DEF Rsp

\* What the mote does with a request that does not synchronise the packet ids.
LEMMA CommandCases ==
    ASSUME MoteCommand, ~Head(toAP).op.sync
    PROVE  LET f == Head(toAP) IN
           \/ UNCHANGED <<toAPC, ap, handled>>
           \/ ap.acked /\ f.id = ap.lastId /\ toAPC' = Put(toAPC, Rsp(f, ap.lastRc)) /\ UNCHANGED <<ap, handled>>
           \/ \E rc \in Rcs : /\ ap.acked /\ f.id # ap.lastId /\ ap' = [ap EXCEPT !.lastId = f.id, !.lastRc = rc]
                              /\ handled' = IF rc = "OK" /\ f.n # 0 THEN Append(handled, f.n) ELSE handled
                              /\ toAPC' = Put(toAPC, Rsp(f, rc))
  BY DEF MoteCommand

\* Every step of the bridge and the mote keeps the invariant of the alternating packet id.
LEMMA AbpStep ==
    EqualPriority /\ TypeInv /\ Shape /\ OneToken /\ Abp /\ Lines /\ [SysNext]_allVars /\
      [~handleAPBoot_lost]_allVars => Abp'
  <1> SUFFICES ASSUME EqualPriority /\ TypeInv /\ Shape /\ OneToken /\ Abp /\ Lines, [SysNext]_allVars, [~handleAPBoot_lost]_allVars PROVE Abp'
    OBVIOUS
  <1> USE DEF queueVars, timerVars, flowVars, joinVars, threadVars, ctlVars, logVars, vars, moteVars, allVars,
              Bridge, TypeInv, WorkType, LineType, Shape
  <1>1. CASE UNCHANGED allVars
    BY <1>1, QuietSame, AbpStill DEF allVars, vars, SameCore, SameAp
  <1>2. CASE handleMsg_response /\ UNCHANGED moteVars
    <2>1. hand' = hand
      BY <1>2, IoThread DEF hand, handleMsg_response, Receive, Hand, EndsInAck
    <2>2. /\ toAPC # <<>> /\ Head(toAPC).t = "rsp" /\ toAPC' = Tail(toAPC) /\ SameCore /\ SameAp
          /\ UNCHANGED <<ap, out, toAP>>
      BY <1>2 DEF handleMsg_response, Receive, SameCore, SameAp
    <2>3. CASE ResponseFits(Head(toAPC))
      <3>1. Head(work'["io"]).rc = Head(toAPC).rc /\ Head(toAPC).id = m_respPacketId
        BY <1>2, <2>3, IoThread DEF handleMsg_response, ResponseFits
      <3>2. QED BY <2>1, <2>2, <3>1, AbpResponse
    <2>4. CASE ~ResponseFits(Head(toAPC))
      <3>1. Quiet
        BY <1>2, <2>1, <2>4, IoThread DEF handleMsg_response, Receive, Quiet, AtResponse, Resetting
      <3>2. QED BY <2>2, <3>1, AbpLosesAPC
    <2>5. QED BY <2>3, <2>4
  <1>3. CASE handleResponse /\ UNCHANGED moteVars
    <2>1. AtResponse /\ ~AtResponse' /\ hand' = hand
      <3>1. AtResponse /\ ~AtResponse'
        BY <1>3, IoThread DEF handleResponse, Doing, AtResponse
      <3>2. Hand(work["io"]) = <<>>
        BY <1>3, IoThread, IoShapeTail DEF handleResponse, Doing, Hand
      <3>3. Hand(work'["io"]) = <<>>
        BY <1>3, IoThread DEF handleResponse, Hand, EndsInAck
      <3>4. QED BY <3>1, <3>2, <3>3 DEF hand
    <2>2. \/ Head(work["io"]).rc = "NACK" /\ UNCHANGED <<m_outputQueue, m_pending, answered>>
          \/ /\ m_outputQueue' = Tail(m_outputQueue) /\ ~m_pending'
             /\ \/ answered' = answered
                \/ Head(work["io"]).rc = "OK" /\ answered' = answered \cup ({Head(m_outputQueue).n} \ {0})
      BY <1>3 DEF handleResponse
    <2>3. m_respPacketId' = 1 - m_respPacketId /\ UNCHANGED <<ap, out, handled, toAP, toAPC>> /\ count'.insert = count.insert
      BY <1>3 DEF handleResponse, NextPacketId
    <2>4. m_outputQueue \in Seq(Cmds) /\ handled \in Seq(Nat) /\ m_respPacketId \in {0, 1} /\ ap.lastId \in {0, 1, 2}
      BY DEF QueueType
    <2>5. QED BY <2>1, <2>2, <2>3, <2>4, AbpTaken
  <1>4. CASE handleResponse_resume /\ UNCHANGED moteVars
    BY <1>4, QuietIo, AbpStill DEF handleResponse_resume, SameCore, SameAp
  <1>5. CASE handleResponse_end /\ UNCHANGED moteVars
    <2>1. Quiet
      BY <1>5, QuietIo
    <2>2. Requests
      BY <1>5, SendRequests DEF handleResponse_end
    <2>3. QED BY <1>5, <2>1, <2>2, AbpRequests DEF handleResponse_end
  <1>6. CASE handleNotification_retry /\ UNCHANGED moteVars
    <2>1. ~BootOut /\ ap.acked
      <3>1. ~BootOut
        BY <1>6, BootFrame DEF handleNotification_retry, Receive, IsNew
      <3>2. QED BY <3>1 DEF Abp, BootInv
    <2>2. Head(toAPC) \in Ntfs
      BY <1>6, Tails, MakeFrames DEF handleNotification_retry, Receive
    <2> DEFINE f == Ack(Head(toAPC), "OK")
    <2>3. f \in ToAP /\ f.t = "ack"
      BY <2>2, MakeFrames DEF RcSet
    <2>4. toAP' = toAP \/ toAP' = Append(toAP, f)
      BY <1>6 DEF handleNotification_retry, Put
    <2> HIDE DEF f
    <2>5. Shift(toAP', toAP, {"req"})
      BY <2>3, <2>4, PutShift DEF Lines
    <2>6. /\ AtResponse' => AtResponse /\ Head(work'["io"]) = Head(work["io"])
          /\ Shift(toAPC', toAPC, {"rsp"}) /\ ~BootOut' /\ SameCore /\ SameAp
      <3>1. AtResponse' => AtResponse /\ Head(work'["io"]) = Head(work["io"])
        BY <1>6 DEF handleNotification_retry, AtResponse
      <3>2. toAPC # <<>> /\ toAPC' = Tail(toAPC) /\ out' = out /\ SameCore /\ SameAp
        BY <1>6 DEF handleNotification_retry, Receive, SameCore, SameAp
      <3>3. QED BY <2>1, <3>1, <3>2, Shifts DEF Lines, BootOut
    <2>7. QED BY <2>1, <2>5, <2>6, AbpNotify
  <1>7. CASE handleNotification_nack /\ UNCHANGED moteVars
    <2>1. ~BootOut /\ ap.acked
      <3>1. ~BootOut
        BY <1>7, BootFrame DEF handleNotification_nack, Receive, IsNew
      <3>2. QED BY <3>1 DEF Abp, BootInv
    <2>2. Head(toAPC) \in Ntfs
      BY <1>7, Tails, MakeFrames DEF handleNotification_nack, Receive
    <2> DEFINE f == Ack(Head(toAPC), "NACK")
    <2>3. f \in ToAP /\ f.t = "ack"
      BY <2>2, MakeFrames DEF RcSet
    <2>4. toAP' = toAP \/ toAP' = Append(toAP, f)
      BY <1>7 DEF handleNotification_nack, Put
    <2> HIDE DEF f
    <2>5. Shift(toAP', toAP, {"req"})
      BY <2>3, <2>4, PutShift DEF Lines
    <2>6. /\ AtResponse' => AtResponse /\ Head(work'["io"]) = Head(work["io"])
          /\ Shift(toAPC', toAPC, {"rsp"}) /\ ~BootOut' /\ SameCore /\ SameAp
      <3>1. AtResponse' => AtResponse /\ Head(work'["io"]) = Head(work["io"])
        BY <1>7 DEF handleNotification_nack, AtResponse
      <3>2. toAPC # <<>> /\ toAPC' = Tail(toAPC) /\ out' = out /\ SameCore /\ SameAp
        BY <1>7 DEF handleNotification_nack, Receive, SameCore, SameAp
      <3>3. QED BY <2>1, <3>1, <3>2, Shifts DEF Lines, BootOut
    <2>7. QED BY <2>1, <2>5, <2>6, AbpNotify
  <1>8. CASE handleNotification /\ UNCHANGED moteVars
    <2>1. ~BootOut /\ ap.acked
      <3>1. ~BootOut
        BY <1>8, BootFrame DEF handleNotification, Receive, IsNew
      <3>2. QED BY <3>1 DEF Abp, BootInv
    <2>2. Shift(toAP', toAP, {"req"})
      BY <1>8, Shifts DEF handleNotification, Lines
    <2>3. /\ AtResponse' => AtResponse /\ Head(work'["io"]) = Head(work["io"])
          /\ Shift(toAPC', toAPC, {"rsp"}) /\ ~BootOut' /\ SameCore /\ SameAp
      <3>1. AtResponse' => AtResponse /\ Head(work'["io"]) = Head(work["io"])
        BY <1>8, NotifiedHead
      <3>2. toAPC # <<>> /\ toAPC' = Tail(toAPC) /\ out' = out /\ SameCore /\ SameAp
        BY <1>8 DEF handleNotification, Receive, SameCore, SameAp
      <3>3. QED BY <2>1, <3>1, <3>2, Shifts DEF Lines, BootOut
    <2>4. QED BY <2>1, <2>2, <2>3, AbpNotify
  <1>9. CASE handleAPBoot /\ UNCHANGED moteVars
    <2>1. BootOut /\ NoAck
      <3>1. toAPC[1] = Head(toAPC) /\ 1 \in 1..Len(toAPC) /\ Head(toAPC).t = "ntf" /\ Head(toAPC).kind = "BOOT"
        BY <1>9, Tails DEF handleAPBoot
      <3>2. out = <<Head(toAPC)>> /\ NoAck
        BY <3>1 DEF OneToken, OneNtf
      <3>3. QED BY <3>1, <3>2 DEF BootOut
    <2>2. ~AtResponse'
      BY <1>9, NotifiedHead
    <2>3. /\ toAPC # <<>> /\ Head(toAPC).t = "ntf" /\ toAPC' = Tail(toAPC) /\ m_outputQueue' = <<>>
          /\ UNCHANGED <<ap, out, toAP, handled, answered>> /\ count'.insert = count.insert
      BY <1>9 DEF handleAPBoot, clearOutputQueue
    <2>4. QED BY <2>1, <2>2, <2>3, AbpBoot
  <1>10. CASE handleAPBoot_lost /\ UNCHANGED moteVars
    BY <1>1, <1>10
  <1>11. CASE handleAPBoot_booted /\ UNCHANGED moteVars
    BY <1>11, QuietIo, AbpStill DEF handleAPBoot_booted, SameCore, SameAp
  <1>12. CASE handleAPBoot_told /\ UNCHANGED moteVars
    BY <1>12, QuietIo, AbpStill DEF handleAPBoot_told, SameCore, SameAp
  <1>13. CASE handleNotification_ack /\ UNCHANGED moteVars
    <2> DEFINE g == Head(work["io"]).f
               f == Ack(g, "OK")
    <2>1. hand = <<g>> /\ work'["io"] = <<>>
      <3>1. hand = <<g>>
        BY <1>13, IoThread, HandTail DEF hand, handleNotification_ack, Doing
      <3>2. work'["io"] = <<>>
        BY <1>13, IoThread, IoShapeTail DEF handleNotification_ack, Doing, Done
      <3>3. QED BY <3>1, <3>2
    <2>2. g \in Ntfs
      BY <1>13, IoThread, Tails, StepFields DEF handleNotification_ack, Doing
    <2>3. f \in ToAP /\ f.t = "ack"
      BY <2>2, MakeFrames DEF RcSet
    <2>4. toAP' = toAP \/ toAP' = Append(toAP, f)
      BY <1>13 DEF handleNotification_ack, Put
    <2>5. out = hand /\ NoAck /\ ~AtResponse'
      BY <2>1 DEF OneToken, OneWork, AtResponse
    <2>6. SameCore /\ SameAp /\ UNCHANGED <<ap, out, toAPC>>
      BY <1>13 DEF handleNotification_ack, SameCore, SameAp
    <2> HIDE DEF f, g
    <2>7. CASE BootOut
      BY <2>1, <2>3, <2>4, <2>5, <2>6, <2>7, AbpBootAck
    <2>8. CASE ~BootOut
      <3>1. ap.acked /\ ~BootOut'
        BY <2>6, <2>8 DEF Abp, BootInv, BootOut
      <3>2. Shift(toAP', toAP, {"req"}) /\ Shift(toAPC', toAPC, {"rsp"})
        BY <2>3, <2>4, <2>6, PutShift, Shifts DEF Lines
      <3>3. QED BY <2>5, <2>6, <3>1, <3>2, AbpNotify
    <2>9. QED BY <2>7, <2>8
  <1>14. CASE OutputTimerExpires /\ UNCHANGED moteVars
    BY <1>14, QuietSame, AbpStill DEF OutputTimerExpires, SameCore, SameAp
  <1>15. CASE handleRetryTimeout /\ UNCHANGED moteVars
    <2>1. Quiet
      BY <1>15, QuietSame DEF handleRetryTimeout
    <2>2. Requests
      BY <1>15, RetryRequests
    <2>3. QED BY <1>15, <2>1, <2>2, AbpRequests DEF handleRetryTimeout
  <1>16. CASE handleRetryTimeout_lost /\ UNCHANGED moteVars
    BY <1>16, QuietIo, AbpStill DEF handleRetryTimeout_lost, SameCore, SameAp
  <1>16a. CASE handleRetryTimeout_reset /\ UNCHANGED moteVars
    BY <1>16a, QuietIo, AbpStill DEF handleRetryTimeout_reset, SameCore, SameAp
  <1>17. CASE handleQueueCheckTimeout /\ UNCHANGED moteVars
    BY <1>17, QuietSame, AbpStill DEF handleQueueCheckTimeout, SameCore, SameAp
  <1>18. CASE handlePingTimeout /\ UNCHANGED moteVars
    BY <1>18, QuietIo, AbpStill DEF handlePingTimeout, SameCore, SameAp
  <1>19. ASSUME NEW t \in Threads, insertMsg(t), UNCHANGED moteVars PROVE Abp'
    <2> DEFINE cmd == NewCommand(Head(work[t]).op)
    <2>1. Quiet /\ UNCHANGED <<m_pending, m_respPacketId, handled, answered, ap, out, toAP, toAPC>>
      BY <1>19, QuietThread DEF insertMsg
    <2>2. CASE UNCHANGED <<m_outputQueue, count>>
      BY <2>1, <2>2, AbpStill DEF SameCore, SameAp
    <2>3. CASE /\ cmd \in Cmds /\ m_outputQueue' = Append(m_outputQueue, cmd)
               /\ count' = [count EXCEPT !.insert = IF cmd.n = 0 THEN @ ELSE cmd.n]
      <3>1. cmd.n = 0 \/ cmd.n = count.insert + 1
        BY DEF NewCommand
      <3>2. count.insert \in Nat /\ count'.insert = IF cmd.n = 0 THEN count.insert ELSE cmd.n
        BY <2>3 DEF QueueType
      <3> HIDE DEF cmd
      <3>3. m_outputQueue \in Seq(Cmds) /\ handled \in Seq(Nat)
        BY DEF QueueType
      <3>4. \/ cmd.n = 0 /\ count'.insert = count.insert
            \/ cmd.n = count.insert + 1 /\ count'.insert = cmd.n
        BY <3>1, <3>2
      <3>5. QED BY <2>1, <2>3, <3>2, <3>3, <3>4, AbpInsert
    <2>4. QED BY <1>19, <2>2, <2>3, QueuedLast
  <1>20. ASSUME NEW t \in Threads, insertMsg_send(t), UNCHANGED moteVars PROVE Abp'
    <2>1. Quiet
      BY <1>20, QuietSame DEF insertMsg_send
    <2>2. Requests
      BY <1>20, SendRequests DEF insertMsg_send
    <2>3. QED BY <1>20, <2>1, <2>2, AbpRequests DEF insertMsg_send
  <1>21. ASSUME NEW t \in Threads, insertMsg_mark(t), UNCHANGED moteVars PROVE Abp'
    BY <1>21, QuietThread, AbpStill DEF insertMsg_mark, SameCore, SameAp
  <1>22. ASSUME NEW t \in Threads, insertMsg_tell(t), UNCHANGED moteVars PROVE Abp'
    BY <1>22, QuietSame, AbpStill DEF insertMsg_tell, SameCore, SameAp
  <1>23. ASSUME NEW t \in Threads, insertMsg_set(t), UNCHANGED moteVars PROVE Abp'
    BY <1>23, QuietThread, AbpStill DEF insertMsg_set, SameCore, SameAp
  <1>24. ASSUME NEW t \in Threads, startJoin_p_end(t), UNCHANGED moteVars PROVE Abp'
    BY <1>24, QuietThread, AbpStill DEF startJoin_p_end, SameCore, SameAp
  <1>24a. ASSUME NEW t \in Threads, apGone(t), UNCHANGED moteVars PROVE Abp'
    BY <1>24a, QuietThread, AbpStill DEF apGone, SameCore, SameAp
  <1>25. ASSUME NEW t \in Apps, NEW op \in AppOps, AppInsert(t, op), UNCHANGED moteVars PROVE Abp'
    BY <1>25, QuietApp, AbpStill DEF AppInsert, SameCore, SameAp
  <1>26. ASSUME NEW t \in Apps, enableJoin(t), UNCHANGED moteVars PROVE Abp'
    <2>1. count'.insert = count.insert
      BY <1>26 DEF enableJoin, QueueType
    <2>2. QED BY <1>26, <2>1, QuietApp, AbpStill DEF enableJoin, SameCore, SameAp
  <1>27. ASSUME NEW t \in Apps, Control(t), UNCHANGED moteVars PROVE Abp'
    BY <1>27, QuietSame, AbpStill DEF Control, SameCore, SameAp
  <1>28. CASE MoteCommand
    <2> DEFINE f == Head(toAP)
    <2>1. /\ toAP # <<>> /\ f.t = "req" /\ toAP' = Tail(toAP)
          /\ UNCHANGED <<m_outputQueue, m_pending, m_respPacketId, answered, out, count>>
      BY <1>28 DEF MoteCommand
    <2>2. Quiet /\ f \in Reqs
      BY <1>28, <2>1, QuietSame, Tails, MakeFrames DEF MoteCommand
    <2>3. f.id \in {0, 1} /\ f.op \in Ops
      BY <2>2 DEF Reqs
    <2>4. ~f.op.sync
      BY <2>3, PlainOps
    <2>5. /\ m_outputQueue \in Seq(Cmds) /\ handled \in Seq(Nat) /\ m_respPacketId \in {0, 1} /\ ap.lastId \in {0, 1, 2}
          /\ count.insert \in Nat /\ ap.lastRc \in RcSet
      BY DEF QueueType
    <2> HIDE DEF f
    <2>6. CASE UNCHANGED <<toAPC, ap, handled>>
      BY <2>1, <2>2, <2>6, AbpLosesAP DEF SameCore, SameAp
    <2>7. CASE ap.acked /\ f.id = ap.lastId /\ toAPC' = Put(toAPC, Rsp(f, ap.lastRc)) /\ UNCHANGED <<ap, handled>>
      <3> DEFINE e == Rsp(f, ap.lastRc)
      <3>1. e \in ToAPC /\ e.t = "rsp" /\ e.id = f.id /\ e.rc = ap.lastRc
        BY <2>2, <2>5, RspFrame
      <3> HIDE DEF e
      <3>2. toAPC' = toAPC \/ toAPC' = Append(toAPC, e)
        BY <2>7 DEF Put, e
      <3>3. SameCore /\ SameAp
        BY <2>1, <2>7 DEF SameCore, SameAp
      <3>4. ap.lastId \in {0, 1} /\ Head(toAP).t = "req" /\ Head(toAP).id = ap.lastId
        BY <2>1, <2>3, <2>7 DEF f
      <3>5. QED BY <2>1, <2>2, <2>5, <2>7, <3>1, <3>2, <3>3, <3>4, AbpRepeated
    <2>8. ASSUME NEW rc \in Rcs, ap.acked, f.id # ap.lastId, ap' = [ap EXCEPT !.lastId = f.id, !.lastRc = rc],
                 handled' = IF rc = "OK" /\ f.n # 0 THEN Append(handled, f.n) ELSE handled,
                 toAPC' = Put(toAPC, Rsp(f, rc))
          PROVE  Abp'
      <3> DEFINE e == Rsp(f, rc)
      <3>1. rc \in RcSet
        BY MoteAssumption DEF RcSet
      <3>2. e \in ToAPC /\ e.t = "rsp" /\ e.id = f.id /\ e.rc = rc
        BY <2>2, <3>1, RspFrame
      <3> HIDE DEF e
      <3>3. toAPC' = toAPC \/ toAPC' = Append(toAPC, e)
        BY <2>8 DEF Put, e
      <3>4. ap'.acked /\ ap'.lastId = f.id /\ ap'.lastRc = rc
        BY <2>8
      <3> HIDE DEF TypeInv, LineType
      <3>5. QED BY <2>1, <2>2, <2>3, <2>5, <2>8, <3>2, <3>3, <3>4, AbpCarried DEF f
    <2>9. QED BY <1>28, <2>4, <2>6, <2>7, <2>8, CommandCases DEF f
  <1>29. CASE MoteAck
    <2>1. /\ toAP # <<>> /\ Head(toAP).t = "ack" /\ toAP' = Tail(toAP) /\ UNCHANGED toAPC /\ SameCore /\ Quiet
      BY <1>29, QuietSame DEF MoteAck, SameCore
    <2>2. CASE out' = out /\ ap' = ap
      BY <2>1, <2>2, AbpLosesAP DEF SameAp
    <2>3. CASE out' = <<>> /\ ~BootOut /\ ap' = ap
      <3>1. ap.acked /\ ~BootOut' /\ SameAp
        BY <2>3 DEF Abp, BootInv, BootOut, SameAp
      <3>2. Shift(toAP', toAP, {"req"}) /\ Shift(toAPC', toAPC, {"rsp"})
        BY <2>1, Shifts DEF Lines
      <3>3. QED BY <2>1, <3>1, <3>2, AbpNotify DEF Quiet
    <2>4. CASE out' = <<>> /\ BootOut /\ ap' = [ap EXCEPT !.acked = TRUE]
      <3>1. ap'.acked /\ ap'.lastId = ap.lastId
        BY <2>4
      <3>2. QED BY <2>1, <2>4, <3>1, AbpAcked
    <2>5. QED BY <1>29, <2>2, <2>3, <2>4 DEF MoteAck, BootOut
  <1>30. CASE MoteRepeat
    <2>1. Quiet /\ SameCore /\ SameAp /\ UNCHANGED <<out, toAP>> /\ out # <<>>
      BY <1>30, QuietSame DEF MoteRepeat, SameCore, SameAp
    <2>2. toAPC' = toAPC \/ toAPC' = Append(toAPC, Head(out))
      BY <1>30 DEF MoteRepeat, Put
    <2>3. Head(out) \in ToAPC /\ Head(out).t = "ntf"
      <3>1. Head(out) \in Ntfs
        BY <2>1, Tails
      <3>2. QED BY <3>1, MakeFrames DEF Ntfs
    <2>4. Shift(toAPC', toAPC, {"rsp"}) /\ Shift(toAP', toAP, {"req", "ack"}) /\ (Behind(toAPC) => Behind(toAPC'))
      <3>1. CASE toAPC' = toAPC
        BY <2>1, <3>1, Shifts DEF Lines
      <3>2. CASE toAPC' = Append(toAPC, Head(out))
        BY <2>1, <2>3, <3>2, Shifts, Appended DEF Lines
      <3>3. QED BY <2>2, <3>1, <3>2
    <2>5. QED BY <2>1, <2>4, AbpQuiet
  <1>31. CASE MoteBoot
    <2>1. Quiet /\ SameCore /\ ~ap'.acked /\ ap'.lastId = 2 /\ toAP' = <<>> /\ out' = <<BootEvent>>
      BY <1>31, QuietSame DEF MoteBoot, SameCore
    <2>2. hand = <<>> /\ NoNtf
      BY <1>31, NoUnderway DEF MoteBoot
    <2>3. BootEvent \in ToAPC /\ BootEvent.t = "ntf"
      BY MakeFrames DEF BootEvent, NtfKinds
    <2>4. toAPC' = toAPC \/ toAPC' = Append(toAPC, BootEvent)
      BY <1>31 DEF MoteBoot, Put
    <2>5. QED BY <2>1, <2>2, <2>3, <2>4, AbpMoteBoot
  <1>32. CASE LineLoses
    <2>1. Quiet /\ SameCore /\ SameAp /\ UNCHANGED out
      BY <1>32, QuietSame DEF LineLoses, SameCore, SameAp
    <2>2. \/ toAP # <<>> /\ toAP' = Tail(toAP) /\ UNCHANGED toAPC
          \/ toAPC # <<>> /\ toAPC' = Tail(toAPC) /\ UNCHANGED toAP
      BY <1>32 DEF LineLoses
    <2>3. QED BY <2>1, <2>2, AbpLosesAP, AbpLosesAPC
  <1>33. ASSUME NEW kind \in Kinds, MoteNotify(kind) PROVE Abp'
    <2> DEFINE f == [t |-> "ntf", kind |-> kind, n |-> moteCount.ntf + 1, id |-> 1 - ap.lastNtf]
    <2>1. Quiet /\ SameCore /\ ap.acked /\ toAP' = toAP
      BY <1>33, QuietSame DEF MoteNotify, SameCore
    <2>2. SameAp
      BY <1>33 DEF MoteNotify, SameAp
    <2>3. f \in ToAPC /\ f.t = "ntf" /\ kind # "BOOT" /\ f.kind = kind
      BY NotifyType, MoteAssumption
    <2>4. out' = <<f>> /\ (toAPC' = toAPC \/ toAPC' = Append(toAPC, f))
      BY <1>33 DEF MoteNotify, Put
    <2> HIDE DEF f
    <2>5. ~BootOut'
      BY <2>3, <2>4 DEF BootOut
    <2>6. Shift(toAPC', toAPC, {"rsp"}) /\ Shift(toAP', toAP, {"req"})
      BY <2>1, <2>3, <2>4, PutShift, Shifts DEF Lines
    <2>7. QED BY <2>1, <2>2, <2>5, <2>6, AbpNotify DEF Quiet
  <1>34. QED
    BY <1>1, <1>2, <1>3, <1>4, <1>5, <1>6, <1>7, <1>8, <1>9, <1>10, <1>11, <1>12, <1>13, <1>14, <1>15, <1>16, <1>17,
       <1>18, <1>19, <1>20, <1>21, <1>22, <1>23, <1>24, <1>25, <1>26, <1>27, <1>28, <1>29, <1>30, <1>31, <1>32,
       <1>33, <1>16a, <1>24a
    DEF SysNext, TransportNext, IoNext, ThreadNext, AppNext, MoteNext

\* It holds in the beginning.
LEMMA InitAbp == SysInit => Abp
  <1> SUFFICES ASSUME SysInit PROVE Abp
    OBVIOUS
  <1> USE DEF SysInit, Init, MoteInit
  <1>1. RspInv
    BY IoThread DEF RspInv, Sorted, RspTrue, AtResponse
  <1>2. ReqInv
    BY IoThread DEF ReqInv, Sorted, ReqTrue, Ahead, LastTrue, AllNew, NoRsp, AtResponse, Absent
  <1>3. BootInv
    BY DEF BootInv, BootOut
  <1>4. OrderInv
    BY DEF OrderInv, QueueOrder, QueueBound, Handled, InOrder, Answered
  <1>5. QED BY <1>1, <1>2, <1>3, <1>4 DEF Abp

\* It holds in every state in which the AP was not given up for too many boot events.
LEMMA AbpInvariant == ASSUME EqualPriority PROVE SysSpec /\ [][~handleAPBoot_lost]_allVars => []Abp
  <1>1. SysInit => Abp
    BY InitAbp
  <1>2. Inv /\ Inv' /\ Abp /\ [SysNext]_allVars /\ [~handleAPBoot_lost]_allVars => Abp'
    BY AbpStep DEF Inv, TypeInv, LineType, Lines
  <1>3. QED BY <1>1, <1>2, Invariant, PTL DEF SysSpec

\* The mote carries out the commands in the order they were queued, each at most once (InOrderAtMostOnce), whatever is
\* lost, repeated, refused with NACK or interrupted by a boot, with one packet id bit: send, the retry and handleMsg's
\* check of the response keep to it.  The hypotheses are needed: a high-priority command overtakes, and
\* handleAPBoot_lost leaves commands in the queue that the booted mote may have carried out.
THEOREM CommandsInOrder ==
    ASSUME EqualPriority
    PROVE  SysSpec /\ [][~handleAPBoot_lost]_allVars => []InOrderAtMostOnce
  <1>1. Inv /\ Abp => InOrderAtMostOnce
    <2> SUFFICES ASSUME Inv, Abp PROVE InOrderAtMostOnce
      OBVIOUS
    <2>1. DOMAIN handled = 1..Len(handled)
      BY DEF Inv, TypeInv, LineType
    <2>2. QED BY <2>1 DEF Abp, OrderInv, InOrder, InOrderAtMostOnce
  <1>2. QED BY <1>1, Invariant, AbpInvariant, PTL

\* A command leaves the queue as done only if the mote carried it out (AnsweredWasHandled): no response is taken for
\* another command's.
THEOREM AnsweredHandled ==
    ASSUME EqualPriority
    PROVE  SysSpec /\ [][~handleAPBoot_lost]_allVars => []AnsweredWasHandled
  <1>1. Inv /\ Abp => AnsweredWasHandled
    <2> SUFFICES ASSUME Inv, Abp PROVE AnsweredWasHandled
      OBVIOUS
    <2>1. DOMAIN handled = 1..Len(handled)
      BY DEF Inv, TypeInv, LineType
    <2>2. QED BY <2>1 DEF Abp, OrderInv, Answered, AnsweredWasHandled
  <1>2. QED BY <1>1, Invariant, AbpInvariant, PTL

\* With equal priorities the command a response takes off the queue is the one transmitted last, as handleMsg's comment
\* "ensure this response is for most recent command" says (ResponseTakesLastSent).
THEOREM ResponsesForLastSent ==
    ASSUME EqualPriority
    PROVE  SysSpec /\ [][~handleAPBoot_lost]_allVars => ResponseTakesLastSent
  <1>1. Inv /\ Abp /\ PendingIsFront /\ [SysNext]_allVars => [handleResponse => Head(m_outputQueue).n = lastTx.n]_allVars
    <2> SUFFICES ASSUME Abp, PendingIsFront, handleResponse PROVE Head(m_outputQueue).n = lastTx.n
      OBVIOUS
    <2>1. AtResponse
      BY DEF handleResponse, Doing, AtResponse
    <2>2. m_pending
      BY <2>1 DEF Abp, RspInv, Answer, Front
    <2>3. QED BY <2>2 DEF PendingIsFront
  <1>2. QED BY <1>1, Invariant, AbpInvariant, PendingFront, PTL DEF SysSpec, ResponseTakesLastSent
===============================================================================
