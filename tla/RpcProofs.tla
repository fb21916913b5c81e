----------------------------- MODULE RpcProofs -----------------------------
(***************************************************************************)
(* Two results about the RPC server.  The answer of AP_API a client gets   *)
(* is the AP's answer to its own command, or to one the worker had given   *)
(* up: of the workers only the APC's waits for the AP, and while it waits  *)
(* all that is under way in the io thread is for the request it is at or   *)
(* for one that was given up; when it does not, for the latter only.       *)
(* And the dispatcher's lists of waiting workers hold a worker at most     *)
(* once: a worker has one task at most, and a registration with a task     *)
(* behind it is of a worker that is still known.                           *)
(***************************************************************************)
EXTENDS Rpc, TLAPS

\* The commands at the AP and the answer stored are of the request the worker is at (handleAP_API,
\* handleAP_APIResponse) or of one whose wait is over.
Waiting(w) ==
    /\ apq \subseteq gaveUp \cup {m_reply_to[w]}
    /\ m_apAPIResponse \in gaveUp \cup {NONE, m_reply_to[w]}
Idle == apq \subseteq gaveUp
ApiInv ==
    /\ DOMAIN wpc = Workers /\ DOMAIN m_reply_to = Workers
    /\ \A w \in Workers : wpc[w] = "api" => w = "apc" /\ Waiting(w)
    /\ (\A w \in Workers : wpc[w] # "api") => Idle

\* The replies of q carry an answer of the AP only to the request they are for, or to one of G.
OwnQ(q, G) ==
    /\ \E S : q \in Seq(S)
    /\ \A i \in 1..Len(q) : q[i].op = "REPLY" /\ q[i].answer \in Requests => q[i].answer \in {q[i].r} \cup G
OwnInv == DOMAIN up = Workers /\ DOMAIN client = Requests /\ \A w \in Workers : OwnQ(up[w], gaveUp)

\* The words for a client's state and for an answer without data are no requests.
LEMMA Words == \A x \in {"none", "idle", "waits", "gone", "ok", "denied", "refused"} : x \notin Requests
  BY RpcAssumption

\* Own replies stay so when the dispatcher takes one,
LEMMA OwnTail == ASSUME NEW q, NEW G, OwnQ(q, G), q # <<>> PROVE OwnQ(Tail(q), G) /\ Head(q) = q[1] /\ 1 \in 1..Len(q)
  <1>1. PICK S : q \in Seq(S)
    BY DEF OwnQ
  <1>2. /\ Tail(q) \in Seq(S) /\ Head(q) = q[1] /\ 1 \in 1..Len(q)
        /\ \A i \in 1..Len(Tail(q)) : i + 1 \in 1..Len(q) /\ Tail(q)[i] = q[i + 1]
    BY <1>1
  <1>3. QED BY <1>2 DEF OwnQ

\* when a worker adds a message,
LEMMA OwnAdd ==
    ASSUME NEW q, NEW G, OwnQ(q, G), NEW m,
           m.op = "REPLY" /\ m.answer \in Requests => m.answer \in {m.r} \cup G
    PROVE  OwnQ(Append(q, m), G)
  <1>1. PICK S : q \in Seq(S)
    BY DEF OwnQ
  <1>2. q \in Seq(S \cup {m})
    BY <1>1
  <1>3. PICK T : q \in Seq(T) /\ m \in T
    BY <1>2
  <1>4. /\ Append(q, m) \in Seq(T) /\ Len(Append(q, m)) = Len(q) + 1 /\ Len(q) \in Nat
        /\ \A i \in 1..Len(q) : Append(q, m)[i] = q[i]
        /\ Append(q, m)[Len(q) + 1] = m
    BY <1>3
  <1>5. \A i \in 1..Len(q) + 1 : i \in 1..Len(q) \/ i = Len(q) + 1
    BY <1>4
  <1> DEFINE u == Append(q, m)
  <1>6. (\E R : u \in Seq(R)) /\ Len(u) = Len(q) + 1
    BY <1>4
  <1>7. ASSUME NEW i \in 1..Len(u), u[i].op = "REPLY", u[i].answer \in Requests
        PROVE  u[i].answer \in {u[i].r} \cup G
    <2>1. i \in 1..Len(q) \/ i = Len(q) + 1
      BY <1>5, <1>6
    <2>2. CASE i \in 1..Len(q)
      <3>1. u[i] = q[i]
        BY <1>4, <2>2
      <3>2. QED BY <1>7, <2>2, <3>1 DEF OwnQ
    <2>3. CASE i = Len(q) + 1
      <3>1. u[i] = m
        BY <1>4, <2>3
      <3>2. QED BY <1>7, <3>1
    <2>4. QED BY <2>1, <2>2, <2>3
  <1> HIDE DEF u
  <1>8. OwnQ(u, G)
    BY <1>6, <1>7 DEF OwnQ
  <1>9. QED BY <1>8 DEF u

\* and when a new socket keeps the first of them (connectToServer).
LEMMA OwnSub == ASSUME NEW q, NEW G, OwnQ(q, G), NEW k \in 0..Len(q) PROVE OwnQ(SubSeq(q, 1, k), G)
  <1>1. PICK S : q \in Seq(S)
    BY DEF OwnQ
  <1>2. /\ SubSeq(q, 1, k) \in Seq(S) /\ Len(SubSeq(q, 1, k)) = k
        /\ \A i \in 1..k : SubSeq(q, 1, k)[i] = q[i] /\ i \in 1..Len(q)
    BY <1>1
  <1>3. QED BY <1>2 DEF OwnQ

\* With a command more given up they stay so, too.
LEMMA OwnMore == ASSUME NEW q, NEW G, NEW H, OwnQ(q, G), G \subseteq H PROVE OwnQ(q, H)
  BY DEF OwnQ
-----------------------------------------------------------------------------
(* The worker that waits for the AP *)

\* A step that leaves the AP's side and lets no worker begin or end a wait.
LEMMA ApiKept ==
    ASSUME ApiInv, UNCHANGED <<apiVars, m_reply_to>>, DOMAIN wpc' = Workers,
           \A w \in Workers : wpc'[w] = "api" <=> wpc[w] = "api"
    PROVE  ApiInv'
  BY DEF ApiInv, Waiting, Idle, apiVars

\* A worker that is at no wait goes to a place that is none.
LEMMA ApiMoves ==
    ASSUME ApiInv, UNCHANGED <<apiVars, m_reply_to>>, NEW w \in Workers, wpc[w] # "api",
           NEW x, x # "api", wpc' = [wpc EXCEPT ![w] = x]
    PROVE  ApiInv'
  <1>1. DOMAIN wpc = Workers
    BY DEF ApiInv
  <1>2. DOMAIN wpc' = Workers /\ \A v \in Workers : wpc'[v] = "api" <=> wpc[v] = "api"
    BY <1>1
  <1>3. QED BY <1>2, ApiKept

\* The wait begins with nothing of an earlier one under way (handleAP_API).
LEMMA ApiBegins ==
    ASSUME ApiInv, wpc["apc"] # "api", "apc" \in Workers, NEW r, handleAP_API("apc", r)
    PROVE  ApiInv'
  <1>1. DOMAIN wpc = Workers /\ DOMAIN m_reply_to = Workers /\ \A w \in Workers : wpc[w] # "api"
    BY DEF ApiInv
  <1>2. apq \subseteq gaveUp
    BY <1>1 DEF ApiInv, Idle
  <1>3. /\ m_reply_to' = [m_reply_to EXCEPT !["apc"] = r] /\ wpc' = [wpc EXCEPT !["apc"] = "api"]
        /\ apq' = apq \cup {r} /\ gaveUp' = gaveUp /\ m_apAPIResponse' = NONE
    BY DEF handleAP_API
  <1>4. DOMAIN wpc' = Workers /\ DOMAIN m_reply_to' = Workers /\ m_reply_to'["apc"] = r
    BY <1>1, <1>3
  <1>5. wpc'["apc"] = "api" /\ \A w \in Workers : w # "apc" => wpc'[w] # "api"
    BY <1>1, <1>3
  <1>6. Waiting("apc")'
    BY <1>2, <1>3, <1>4 DEF Waiting
  <1>7. QED BY <1>4, <1>5, <1>6 DEF ApiInv

\* A request the worker takes: it waits for the AP, or is answered at once.
LEMMA ApiTakes ==
    ASSUME ApiInv, NEW w \in Workers, wpc[w] # "api", NEW q, processCall(w, q)
    PROVE  ApiInv' /\ (up' = up \/ \E a \in {"ok", "denied"} : Reply(w, q.r, a))
  <1>1. ASSUME NEW a \in {"ok", "denied"}, AnswerAtOnce(w, q.r, a) PROVE ApiInv' /\ Reply(w, q.r, a)
    <2>1. Reply(w, q.r, a) /\ UNCHANGED <<apiVars, m_reply_to>> /\ wpc' = [wpc EXCEPT ![w] = "top"]
      BY <1>1 DEF AnswerAtOnce
    <2>2. QED BY <2>1, ApiMoves
  <1>2. CASE \E a \in {"ok", "denied"} : AnswerAtOnce(w, q.r, a)
    BY <1>1, <1>2
  <1>3. CASE w = "apc" /\ handleAP_API(w, q.r) /\ up' = up
    BY <1>3, ApiBegins
  <1>4. QED BY <1>2, <1>3 DEF processCall, processCmdMsg, processCmdMsg_log

\* A step of a worker but the end of its wait.
LEMMA ApiWorker ==
    ASSUME ApiInv, NEW w \in Workers, run(w) \/ recv(w) \/ poll_timeout(w) \/ connectToServer(w)
    PROVE  ApiInv'
  <1>1. CASE run(w)
    <2>1. \E x \in {"ended", "poll"} : /\ wpc[w] = "top" /\ UNCHANGED <<apiVars, m_reply_to>>
                                       /\ wpc' = [wpc EXCEPT ![w] = x]
      BY <1>1 DEF run
    <2>2. QED BY <2>1, ApiMoves
  <1>2. CASE recv(w)
    <2>1. wpc[w] = "poll"
      BY <1>2 DEF recv
    <2>2. CASE Head(d.down[w]).op = "REQUEST"
      BY <1>2, <2>1, <2>2, ApiTakes DEF recv
    <2>3. CASE Head(d.down[w]).op # "REQUEST"
      <3>1. \E x \in {"connect", "top"} : UNCHANGED <<apiVars, m_reply_to>> /\ wpc' = [wpc EXCEPT ![w] = x]
        BY <1>2, <2>3 DEF recv
      <3>2. QED BY <2>1, <3>1, ApiMoves
    <2>4. QED BY <2>2, <2>3
  <1>3. CASE poll_timeout(w)
    <2>1. \E x \in {"connect", "top"} : /\ wpc[w] = "poll" /\ UNCHANGED <<apiVars, m_reply_to>>
                                        /\ wpc' = [wpc EXCEPT ![w] = x]
      BY <1>3 DEF poll_timeout
    <2>2. QED BY <2>1, ApiMoves
  <1>4. CASE connectToServer(w)
    <2>1. wpc[w] = "connect" /\ UNCHANGED <<apiVars, m_reply_to>> /\ wpc' = [wpc EXCEPT ![w] = "top"]
      BY <1>4 DEF connectToServer
    <2>2. QED BY <2>1, ApiMoves
  <1>5. QED BY <1>1, <1>2, <1>3, <1>4

\* The end of the wait: what is left under way is given up, and the answer is the request's own, one that was given up
\* before, or none.
LEMMA ApiEnds ==
    ASSUME ApiInv, NEW w \in Workers, handleAP_API_end(w)
    PROVE  /\ ApiInv' /\ gaveUp \subseteq gaveUp'
           /\ \E a \in gaveUp \cup {m_reply_to[w], "ok"} : Reply(w, m_reply_to[w], a)
  <1>1. DOMAIN wpc = Workers /\ DOMAIN m_reply_to = Workers /\ w = "apc" /\ wpc[w] = "api" /\ Waiting(w)
    BY DEF handleAP_API_end, ApiInv
  <1>2. apq' = apq /\ gaveUp' = gaveUp \cup ({m_reply_to[w]} \cap apq)
    BY DEF handleAP_API_end, GivesUp
  <1>3. m_reply_to' = [m_reply_to EXCEPT ![w] = NONE] /\ wpc' = [wpc EXCEPT ![w] = "top"]
    BY DEF handleAP_API_end
  <1>4. DOMAIN wpc' = Workers /\ DOMAIN m_reply_to' = Workers
    BY <1>1, <1>3
  <1>5. \A v \in Workers : wpc'[v] # "api"
    BY <1>1, <1>3 DEF ApiInv
  <1>6. ApiInv' /\ gaveUp \subseteq gaveUp'
    BY <1>1, <1>2, <1>4, <1>5 DEF ApiInv, Idle, Waiting
  <1>7. CASE m_apAPIResponse = NONE
    BY <1>6, <1>7 DEF handleAP_API_end
  <1>8. CASE m_apAPIResponse # NONE
    BY <1>1, <1>6, <1>8 DEF handleAP_API_end, Waiting
  <1>9. QED BY <1>7, <1>8

\* The io thread: the answer or the loss of a command is of the request the worker is at, or of one given up.
LEMMA ApiAnswers ==
    ASSUME ApiInv, NEW r \in Requests, handleAP_APIResponse(r) \/ APLoses(r)
    PROVE  ApiInv'
  <1>1. UNCHANGED <<wpc, m_reply_to, gaveUp>>
    BY DEF handleAP_APIResponse, APLoses, wVars
  <1>2. apq' \subseteq apq /\ (m_apAPIResponse' = m_apAPIResponse \/ m_apAPIResponse' \in apq)
    BY DEF handleAP_APIResponse, APLoses
  <1>3. ASSUME NEW w \in Workers, Waiting(w) PROVE Waiting(w)'
    BY <1>1, <1>2, <1>3 DEF Waiting
  <1>4. QED BY <1>1, <1>2, <1>3 DEF ApiInv, Idle

\* Every step keeps it.
LEMMA ApiStep ==
    ASSUME ApiInv, [RpcNext]_rvars
    PROVE  ApiInv'
  <1>1. ASSUME UNCHANGED <<wpc, m_reply_to, apiVars>> PROVE ApiInv'
    BY <1>1 DEF ApiInv, Waiting, Idle, apiVars
  <1>2. CASE \E r \in Requests : Abandon(r) \/ \E cmd \in Commands : Ask(r, cmd)
    BY <1>1, <1>2 DEF Abandon, Ask, wVars
  <1>3. CASE \E r \in Requests : handleAP_APIResponse(r) \/ APLoses(r)
    BY <1>3, ApiAnswers
  <1>4. CASE \E q \in asked : client_process(q)
    BY <1>1, <1>4 DEF client_process, wVars
  <1>5. CASE \E w \in Workers : worker_process(w)
    BY <1>1, <1>5 DEF worker_process, wVars
  <1>6. CASE \E w \in Workers : WorkerStep(w)
    BY <1>6, ApiWorker, ApiEnds DEF WorkerStep
  <1>7. CASE heartbeat \/ run_done
    BY <1>1, <1>7 DEF heartbeat, run_done, wVars
  <1>8. CASE stopStep
    BY <1>1, <1>8 DEF stopStep
  <1>9. CASE UNCHANGED rvars
    BY <1>1, <1>9 DEF rvars, wVars
  <1>10. QED BY <1>2, <1>3, <1>4, <1>5, <1>6, <1>7, <1>8, <1>9 DEF RpcNext
-----------------------------------------------------------------------------
(* The replies *)

\* One more message of one worker.
LEMMA OwnSends ==
    ASSUME OwnInv, NEW w \in Workers, NEW m, m.op = "REPLY" /\ m.answer \in Requests => m.answer \in {m.r} \cup gaveUp,
           up' = [up EXCEPT ![w] = Append(@, m)], client' = client, gaveUp \subseteq gaveUp'
    PROVE  OwnInv'
  <1>1. DOMAIN up = Workers /\ \A v \in Workers : OwnQ(up[v], gaveUp)
    BY DEF OwnInv
  <1>2. DOMAIN up' = Workers /\ up'[w] = Append(up[w], m) /\ \A v \in Workers : v # w => up'[v] = up[v]
    BY <1>1
  <1>3. OwnQ(Append(up[w], m), gaveUp)
    BY <1>1, OwnAdd
  <1>4. \A v \in Workers : OwnQ(up'[v], gaveUp')
    BY <1>1, <1>2, <1>3, OwnMore
  <1>5. QED BY <1>2, <1>4 DEF OwnInv

\* A reply with the request's own answer, or with none of the AP.
LEMMA OwnReplies ==
    ASSUME OwnInv, NEW w \in Workers, NEW r, NEW a, a \in {r} \cup gaveUp \/ a \notin Requests, Reply(w, r, a),
           client' = client, gaveUp \subseteq gaveUp'
    PROVE  OwnInv'
  <1> DEFINE m == [op |-> "REPLY", r |-> r, answer |-> a]
  <1>1. m.answer = a /\ m.r = r
    OBVIOUS
  <1>2. up' = [up EXCEPT ![w] = Append(@, m)]
    BY DEF Reply
  <1>3. m.op = "REPLY" /\ m.answer \in Requests => m.answer \in {m.r} \cup gaveUp
    BY <1>1
  <1> HIDE DEF m
  <1>4. QED BY <1>2, <1>3, OwnSends

\* A step of a worker writes own replies only.
LEMMA OwnWorker ==
    ASSUME ApiInv, OwnInv, NEW w \in Workers, WorkerStep(w)
    PROVE  OwnInv' /\ client' = client /\ gaveUp \subseteq gaveUp'
  <1>1. client' = client
    BY DEF WorkerStep, run, recv, poll_timeout, connectToServer, handleAP_API_end
  <1>2. ASSUME up' = up, gaveUp' = gaveUp PROVE OwnInv'
    BY <1>1, <1>2 DEF OwnInv
  <1>3. CASE run(w)
    <2>0. gaveUp' = gaveUp
      BY <1>3 DEF run, apiVars
    <2>1. CASE up' = [up EXCEPT ![w] = Append(@, [op |-> "HEARTBEAT"])]
      <3>1. PICK m : m = [op |-> "HEARTBEAT"]
        OBVIOUS
      <3>2. m.op # "REPLY" /\ up' = [up EXCEPT ![w] = Append(@, m)]
        BY <2>1, <3>1
      <3>3. QED BY <1>1, <2>0, <3>2, OwnSends
    <2>2. CASE up' = up
      BY <1>1, <1>2, <2>0, <2>2
    <2>3. QED BY <1>1, <1>3, <2>0, <2>1, <2>2 DEF run
  <1>4. CASE recv(w)
    <2>1. CASE Head(d.down[w]).op = "REQUEST"
      <3>1. wpc[w] # "api" /\ processCall(w, Head(d.down[w]).req)
        BY <1>4, <2>1 DEF recv
      <3>2. up' = up \/ \E a \in {"ok", "denied"} : Reply(w, Head(d.down[w]).req.r, a)
        BY <3>1, ApiTakes
      <3>3. gaveUp' = gaveUp
        BY <3>1 DEF processCall, processCmdMsg, processCmdMsg_log, AnswerAtOnce, handleAP_API, apiVars
      <3>4. QED BY <1>1, <1>2, <3>2, <3>3, OwnReplies, Words
    <2>2. CASE Head(d.down[w]).op # "REQUEST"
      BY <1>1, <1>2, <1>4, <2>2 DEF recv, apiVars
    <2>3. QED BY <2>1, <2>2
  <1>5. CASE poll_timeout(w)
    BY <1>1, <1>2, <1>5 DEF poll_timeout, apiVars
  <1>6. CASE connectToServer(w)
    <2>1. PICK kept \in 0..Len(up[w]) :
             \/ up' = [up EXCEPT ![w] = Append(SubSeq(@, 1, kept), [op |-> "REGISTER"])]
             \/ up' = [up EXCEPT ![w] = SubSeq(@, 1, kept)]
      BY <1>6 DEF connectToServer
    <2>2. DOMAIN up = Workers /\ \A v \in Workers : OwnQ(up[v], gaveUp)
      BY DEF OwnInv
    <2>3. OwnQ(SubSeq(up[w], 1, kept), gaveUp)
      BY <2>2, OwnSub
    <2>4. PICK m : m = [op |-> "REGISTER"]
      OBVIOUS
    <2>5. OwnQ(Append(SubSeq(up[w], 1, kept), m), gaveUp)
      <3>1. m.op # "REPLY"
        BY <2>4
      <3>2. QED BY <2>3, <3>1, OwnAdd
    <2>6. DOMAIN up' = Workers /\ \A v \in Workers : OwnQ(up'[v], gaveUp)
      BY <2>1, <2>2, <2>3, <2>4, <2>5
    <2>7. gaveUp' = gaveUp
      BY <1>6 DEF connectToServer, apiVars
    <2>8. QED BY <1>1, <2>6, <2>7 DEF OwnInv
  <1>7. CASE handleAP_API_end(w)
    <2>1. PICK a \in gaveUp \cup {m_reply_to[w], "ok"} : Reply(w, m_reply_to[w], a)
      BY <1>7, ApiEnds
    <2>2. gaveUp \subseteq gaveUp'
      BY <1>7, ApiEnds
    <2>3. QED BY <1>1, <2>1, <2>2, OwnReplies, Words
  <1>8. QED BY <1>3, <1>4, <1>5, <1>6, <1>7 DEF WorkerStep

\* A client gets an answer: a word, its own, or one that was given up.
LEMMA OwnAnswer ==
    ASSUME AnswerIsOwn, DOMAIN client = Requests, NEW r, NEW a, a \in Requests => a \in {r} \cup gaveUp,
           client' = Answered(r, a), gaveUp' = gaveUp
    PROVE  AnswerIsOwn' /\ DOMAIN client' = Requests
  <1>1. client' = client \/ client' = [client EXCEPT ![r] = a]
    BY DEF Answered
  <1>2. QED BY <1>1 DEF AnswerIsOwn

\* Every step keeps the replies and the answers.
LEMMA OwnStep ==
    ASSUME ApiInv, OwnInv, AnswerIsOwn, [RpcNext]_rvars
    PROVE  OwnInv' /\ AnswerIsOwn'
  <1>1. ASSUME up' = up, client' = client, gaveUp' = gaveUp PROVE OwnInv' /\ AnswerIsOwn'
    BY <1>1 DEF OwnInv, AnswerIsOwn
  <1>2. DOMAIN client = Requests /\ DOMAIN up = Workers /\ \A w \in Workers : OwnQ(up[w], gaveUp)
    BY DEF OwnInv
  <1>3. ASSUME up' = up, DOMAIN client' = Requests, gaveUp' = gaveUp PROVE OwnInv'
    BY <1>3 DEF OwnInv
  <1>4. ASSUME NEW r \in Requests, NEW a \in {"waits", "gone"}, client' = [client EXCEPT ![r] = a],
               gaveUp' = gaveUp
        PROVE  AnswerIsOwn' /\ DOMAIN client' = Requests
    BY <1>2, <1>4, Words DEF AnswerIsOwn
  <1>5. CASE \E r \in Requests : Abandon(r) \/ \E cmd \in Commands : Ask(r, cmd)
    BY <1>3, <1>4, <1>5 DEF Abandon, Ask, apiVars
  <1>6. CASE \E r \in Requests : handleAP_APIResponse(r) \/ APLoses(r)
    BY <1>1, <1>6 DEF handleAP_APIResponse, APLoses
  <1>7. ASSUME NEW q \in asked, client_process(q) PROVE OwnInv' /\ AnswerIsOwn'
    <2>1. up' = up /\ gaveUp' = gaveUp /\ (client' = client \/ client' = Answered(q.r, "refused"))
      BY <1>7 DEF client_process, apiVars
    <2>2. CASE client' = client
      BY <1>1, <2>1, <2>2
    <2>3. CASE client' = Answered(q.r, "refused")
      BY <1>2, <1>3, <2>1, <2>3, OwnAnswer, Words
    <2>4. QED BY <2>1, <2>2, <2>3
  <1>8. ASSUME NEW w \in Workers, worker_process(w) PROVE OwnInv' /\ AnswerIsOwn'
    <2>1. up[w] # <<>> /\ up' = [up EXCEPT ![w] = Tail(@)] /\ gaveUp' = gaveUp
      BY <1>8 DEF worker_process, apiVars
    <2>2. OwnQ(up[w], gaveUp) /\ OwnQ(Tail(up[w]), gaveUp) /\ Head(up[w]) = up[w][1] /\ 1 \in 1..Len(up[w])
      BY <1>2, <2>1, OwnTail
    <2>3. DOMAIN up' = Workers /\ \A v \in Workers : OwnQ(up'[v], gaveUp')
      BY <1>2, <2>1, <2>2
    <2>4. CASE client' = client
      BY <1>2, <2>1, <2>3, <2>4 DEF OwnInv, AnswerIsOwn
    <2>5. CASE Head(up[w]).op = "REPLY" /\ client' = Answered(Head(up[w]).r, Head(up[w]).answer)
      <3>1. Head(up[w]).answer \in Requests => Head(up[w]).answer \in {Head(up[w]).r} \cup gaveUp
        BY <2>2, <2>5 DEF OwnQ
      <3>2. AnswerIsOwn' /\ DOMAIN client' = Requests
        BY <1>2, <2>1, <2>5, <3>1, OwnAnswer
      <3>3. QED BY <2>3, <3>2 DEF OwnInv
    <2>6. QED BY <1>8, <2>4, <2>5 DEF worker_process
  <1>9. ASSUME NEW w \in Workers, WorkerStep(w) PROVE OwnInv' /\ AnswerIsOwn'
    <2>1. OwnInv' /\ client' = client /\ gaveUp \subseteq gaveUp'
      BY <1>9, OwnWorker
    <2>2. QED BY <2>1 DEF AnswerIsOwn
  <1>10. CASE heartbeat \/ run_done \/ stopStep
    BY <1>1, <1>10 DEF heartbeat, run_done, stopStep, apiVars
  <1>11. CASE UNCHANGED rvars
    BY <1>1, <1>11 DEF rvars, apiVars
  <1>12. QED BY <1>5, <1>6, <1>7, <1>8, <1>9, <1>10, <1>11 DEF RpcNext

\* The answer of AP_API a client gets is the AP's answer to its own command, or a late answer to a command the worker had
\* given up after AP_RESPONSE_TIMEOUT, for every number of clients, whatever connections between the workers and the
\* dispatcher are lost, whoever gives up waiting and whenever the AP answers.  (There is one m_apAPIResponse, and nothing
\* in it says whose it is: the clearing in handleAP_API is all that keeps an answer from being given twice.)
THEOREM AnswersOwn == RpcSpec => []AnswerIsOwn
  <1>1. RpcInit => ApiInv /\ OwnInv /\ AnswerIsOwn
    <2>1. SUFFICES ASSUME RpcInit PROVE ApiInv /\ OwnInv /\ AnswerIsOwn
      OBVIOUS
    <2>2. ApiInv
      BY <2>1 DEF RpcInit, ApiInv, Idle
    <2>3. PICK m : m = [op |-> "REGISTER"]
      OBVIOUS
    <2>4. OwnQ(<<m>>, gaveUp)
      <3>1. m.op # "REPLY"
        BY <2>3
      <3>2. PICK u : u = <<m>> /\ u \in Seq({m}) /\ Len(u) = 1 /\ u[1] = m
        <4>1. <<m>> \in Seq({m})
          OBVIOUS
        <4>2. Len(<<m>>) = 1 /\ <<m>>[1] = m
          OBVIOUS
        <4>3. QED BY <4>1, <4>2
      <3>3. \A i \in 1..Len(u) : u[i] = m
        BY <3>2
      <3>4. OwnQ(u, gaveUp)
        BY <3>1, <3>2, <3>3 DEF OwnQ
      <3>5. QED BY <3>2, <3>4
    <2>5. DOMAIN up = Workers /\ \A w \in Workers : up[w] = <<m>>
      BY <2>1, <2>3 DEF RpcInit
    <2>6. OwnInv
      BY <2>1, <2>4, <2>5 DEF RpcInit, OwnInv
    <2>7. AnswerIsOwn
      BY <2>1, Words DEF RpcInit, AnswerIsOwn
    <2>8. QED BY <2>2, <2>6, <2>7
  <1>2. ApiInv /\ OwnInv /\ AnswerIsOwn /\ [RpcNext]_rvars => (ApiInv /\ OwnInv /\ AnswerIsOwn)'
    BY ApiStep, OwnStep
  <1>3. QED BY <1>1, <1>2, PTL DEF RpcSpec
-----------------------------------------------------------------------------
(* The lists of waiting workers *)

\* A sequence of whatever; a message of a kind is in it, and at most one.
IsSeq(s) == \E S : s \in Seq(S)
Has(s, op) == \E i \in 1..Len(s) : s[i].op = op
Uniq(s, op) == \A i, j \in 1..Len(s) : s[i].op = op /\ s[j].op = op => i = j

\* A worker whose place is pc, which sent q and to which p is on the way, has one task at most: the request on the way,
\* in hand, or its reply.
Token(q, p, pc) ==
    /\ Uniq(q, "REPLY") /\ Uniq(p, "REQUEST")
    /\ Has(p, "REQUEST") => ~Has(q, "REPLY")
    /\ pc = "api" => ~Has(q, "REPLY") /\ ~Has(p, "REQUEST")

\* A task given to it after it sent the i-th message.
After(q, p, pc, i) == pc = "api" \/ Has(p, "REQUEST") \/ \E j \in 1..Len(q) : i < j /\ q[j].op = "REPLY"

\* A worker that registers again and is given a task behind its registration is known until that is read: ks are the
\* workers the dispatcher knows.
Again(ks, w, q, p, pc) == \A i \in 1..Len(q) : q[i].op = "REGISTER" /\ After(q, p, pc, i) => i = 1 /\ w \in ks

\* A connection the ROUTER has accepted has its registration first; without one nothing is on the way to the worker.
Connected(q, p, lk) == /\ lk = "up" => \A i \in 1..Len(q) : q[i].op = "REGISTER" => i = 1
                       /\ lk # "up" => p = <<>>

\* The worker is in both lists a times, and has no task if it is.
Listed(a, b, ks, w, q, p, pc) ==
    /\ a \in {0, 1} /\ b = a
    /\ a = 1 => w \in ks /\ pc # "api" /\ ~Has(q, "REPLY") /\ ~Has(p, "REQUEST")

WI(a, b, ks, w, q, p, pc, lk) ==
    IsSeq(q) /\ IsSeq(p) /\ Listed(a, b, ks, w, q, p, pc) /\ Token(q, p, pc) /\ Again(ks, w, q, p, pc) /\ Connected(q, p, lk)

\* What is known of a sequence of which the first is taken,
LEMMA SeqTail ==
    ASSUME NEW s, IsSeq(s), s # <<>>
    PROVE  /\ IsSeq(Tail(s)) /\ Head(s) = s[1] /\ 1 \in 1..Len(s) /\ Len(s) \in Nat
           /\ \A i \in 1..Len(Tail(s)) : i \in Nat /\ i + 1 \in 1..Len(s) /\ i + 1 # 1 /\ Tail(s)[i] = s[i + 1]
  <1>1. PICK S : s \in Seq(S)
    BY DEF IsSeq
  <1>2. /\ Tail(s) \in Seq(S) /\ Head(s) = s[1] /\ 1 \in 1..Len(s) /\ Len(s) \in Nat
        /\ \A i \in 1..Len(Tail(s)) : i \in Nat /\ i + 1 \in 1..Len(s) /\ i + 1 # 1 /\ Tail(s)[i] = s[i + 1]
    BY <1>1
  <1>3. QED BY <1>2 DEF IsSeq

\* to which one is added,
LEMMA SeqAdd ==
    ASSUME NEW s, IsSeq(s), NEW m
    PROVE  /\ IsSeq(Append(s, m)) /\ Len(s) \in Nat /\ Len(Append(s, m)) = Len(s) + 1
           /\ \A i \in 1..Len(s) : i < Len(s) + 1 /\ i \in 1..Len(s) + 1 /\ Append(s, m)[i] = s[i]
           /\ Append(s, m)[Len(s) + 1] = m /\ Len(s) + 1 \in 1..Len(s) + 1
           /\ \A i \in 1..Len(s) + 1 : i \in 1..Len(s) \/ i = Len(s) + 1
  <1>1. PICK S : s \in Seq(S)
    BY DEF IsSeq
  <1>2. s \in Seq(S \cup {m})
    BY <1>1
  <1>3. PICK T : s \in Seq(T) /\ m \in T
    BY <1>2
  <1>4. /\ Append(s, m) \in Seq(T) /\ Len(Append(s, m)) = Len(s) + 1 /\ Len(s) \in Nat
        /\ \A i \in 1..Len(s) : Append(s, m)[i] = s[i]
        /\ Append(s, m)[Len(s) + 1] = m
    BY <1>3
  <1>5. /\ \A i \in 1..Len(s) : i < Len(s) + 1 /\ i \in 1..Len(s) + 1
        /\ Len(s) + 1 \in 1..Len(s) + 1
        /\ \A i \in 1..Len(s) + 1 : i \in 1..Len(s) \/ i = Len(s) + 1
    BY <1>4
  <1>6. IsSeq(Append(s, m))
    BY <1>4 DEF IsSeq
  <1>7. QED BY <1>4, <1>5, <1>6

\* and of which the first are kept.
LEMMA SeqSub ==
    ASSUME NEW s, IsSeq(s), NEW k \in 0..Len(s)
    PROVE  /\ IsSeq(SubSeq(s, 1, k)) /\ Len(SubSeq(s, 1, k)) = k
           /\ \A i \in 1..k : SubSeq(s, 1, k)[i] = s[i] /\ i \in 1..Len(s)
  <1>1. PICK S : s \in Seq(S)
    BY DEF IsSeq
  <1>2. /\ SubSeq(s, 1, k) \in Seq(S) /\ Len(SubSeq(s, 1, k)) = k
        /\ \A i \in 1..k : SubSeq(s, 1, k)[i] = s[i] /\ i \in 1..Len(s)
    BY <1>1
  <1>3. QED BY <1>2 DEF IsSeq

\* The messages of a kind in what is left,
LEMMA HasTail ==
    ASSUME NEW s, IsSeq(s), s # <<>>, NEW op
    PROVE  /\ Has(Tail(s), op) => Has(s, op)
           /\ Uniq(s, op) => Uniq(Tail(s), op)
           /\ Uniq(s, op) /\ Head(s).op = op => ~Has(Tail(s), op)
           /\ Head(s).op = op => Has(s, op)
  <1>1. Has(Tail(s), op) => Has(s, op)
    BY SeqTail DEF Has
  <1>2. Uniq(s, op) => Uniq(Tail(s), op)
    <2>1. ASSUME Uniq(s, op), NEW i \in 1..Len(Tail(s)), NEW j \in 1..Len(Tail(s)), Tail(s)[i].op = op, Tail(s)[j].op = op
          PROVE  i = j
      <3>1. i + 1 = j + 1 /\ i \in Nat /\ j \in Nat
        BY <2>1, SeqTail DEF Uniq
      <3>2. QED BY <3>1
    <2>2. QED BY <2>1 DEF Uniq
  <1>3. Uniq(s, op) /\ Head(s).op = op => ~Has(Tail(s), op)
    BY SeqTail DEF Has, Uniq
  <1>4. Head(s).op = op => Has(s, op)
    BY SeqTail DEF Has
  <1>5. QED BY <1>1, <1>2, <1>3, <1>4

\* in the longer one,
LEMMA HasAdd ==
    ASSUME NEW s, IsSeq(s), NEW m, NEW op
    PROVE  /\ Has(Append(s, m), op) <=> Has(s, op) \/ m.op = op
           /\ Uniq(s, op) /\ (m.op # op \/ ~Has(s, op)) => Uniq(Append(s, m), op)
  <1> DEFINE u == Append(s, m)
  <1>1. /\ Len(u) = Len(s) + 1
        /\ \A i \in 1..Len(s) : i \in 1..Len(s) + 1 /\ u[i] = s[i]
        /\ u[Len(s) + 1] = m /\ Len(s) + 1 \in 1..Len(s) + 1
        /\ \A i \in 1..Len(s) + 1 : i \in 1..Len(s) \/ i = Len(s) + 1
    BY SeqAdd
  <1> HIDE DEF u
  <1>2. Has(u, op) <=> Has(s, op) \/ m.op = op
    BY <1>1 DEF Has
  <1>3. ASSUME Uniq(s, op), m.op # op PROVE Uniq(u, op)
    BY <1>1, <1>3 DEF Uniq
  <1>4. ASSUME Uniq(s, op), ~Has(s, op) PROVE Uniq(u, op)
    BY <1>1, <1>4 DEF Uniq, Has
  <1>5. QED BY <1>2, <1>3, <1>4 DEF u

\* in the first ones and in none.
LEMMA HasSub ==
    ASSUME NEW s, IsSeq(s), NEW k \in 0..Len(s), NEW op
    PROVE  /\ Has(SubSeq(s, 1, k), op) => Has(s, op)
           /\ Uniq(s, op) => Uniq(SubSeq(s, 1, k), op)
  BY SeqSub DEF Has, Uniq
LEMMA HasNone == IsSeq(<<>>) /\ \A op : ~Has(<<>>, op) /\ Uniq(<<>>, op)
  BY DEF IsSeq, Has, Uniq

\* A message of the worker is read: what is left holds no registration before a task, and the connection that was
\* pending is accepted at its registration.
NewLink(q, lk, lk2) == lk2 = lk \/ (lk = "pending" /\ lk2 = "up" /\ OnlyNew(Tail(q)))
LEMMA ReadOne ==
    ASSUME NEW w, NEW ks, NEW q, NEW p, NEW pc, NEW lk, NEW lk2, IsSeq(q), q # <<>>, IsSeq(p), Token(q, p, pc),
           Again(ks, w, q, p, pc), Connected(q, p, lk), NewLink(q, lk, lk2)
    PROVE  /\ IsSeq(Tail(q)) /\ Token(Tail(q), p, pc) /\ Connected(Tail(q), p, lk2)
           /\ \A ls : Again(ls, w, Tail(q), p, pc)
           /\ lk = "up" => ~Has(Tail(q), "REGISTER")
           /\ lk # "up" => p = <<>>
  <1>1. IsSeq(Tail(q))
    BY SeqTail
  <1>2. Token(Tail(q), p, pc)
    BY HasTail DEF Token
  <1>3. ASSUME NEW i \in 1..Len(Tail(q)), Tail(q)[i].op = "REGISTER", After(Tail(q), p, pc, i) PROVE FALSE
    <2>1. i + 1 \in 1..Len(q) /\ q[i + 1].op = "REGISTER" /\ i + 1 # 1 /\ i \in Nat
      BY <1>3, SeqTail
    <2>2. After(q, p, pc, i + 1)
      <3>1. CASE pc = "api" \/ Has(p, "REQUEST")
        BY <3>1 DEF After
      <3>2. CASE \E j \in 1..Len(Tail(q)) : i < j /\ Tail(q)[j].op = "REPLY"
        <4>1. PICK j \in 1..Len(Tail(q)) : i < j /\ Tail(q)[j].op = "REPLY"
          BY <3>2
        <4>2. j + 1 \in 1..Len(q) /\ q[j + 1].op = "REPLY" /\ j \in Nat
          BY <4>1, SeqTail
        <4>3. i + 1 < j + 1
          BY <2>1, <4>1, <4>2
        <4>4. QED BY <4>2, <4>3 DEF After
      <3>3. QED BY <1>3, <3>1, <3>2 DEF After
    <2>3. QED BY <2>1, <2>2 DEF Again
  <1>4. \A ls : Again(ls, w, Tail(q), p, pc)
    BY <1>3 DEF Again
  <1>5. lk = "up" => ~Has(Tail(q), "REGISTER")
    BY SeqTail DEF Has, Connected
  <1>6. Connected(Tail(q), p, lk2)
    <2>1. CASE lk2 = lk
      BY <1>5, <2>1 DEF Connected, Has
    <2>2. CASE lk = "pending" /\ lk2 = "up" /\ OnlyNew(Tail(q))
      <3>1. PICK u : u = Tail(q)
        OBVIOUS
      <3>2. \A i \in 2..Len(u) : u[i].op # "REGISTER"
        BY <2>2, <3>1 DEF OnlyNew
      <3>3. \A i \in 1..Len(u) : i = 1 \/ i \in 2..Len(u)
        <4>1. PICK S : u \in Seq(S)
          BY <1>1, <3>1 DEF IsSeq
        <4>2. Len(u) \in Nat
          BY <4>1
        <4>3. QED BY <4>2
      <3>4. QED BY <2>2, <3>1, <3>2, <3>3 DEF Connected
    <2>3. QED BY <2>1, <2>2 DEF NewLink
  <1>7. QED BY <1>1, <1>2, <1>4, <1>5, <1>6 DEF Connected

\* ... of a worker the dispatcher keeps as it is,
LEMMA ReadKept ==
    ASSUME NEW a, NEW b, NEW w, NEW ks, NEW q, NEW p, NEW pc, NEW lk, NEW lk2, WI(a, b, ks, w, q, p, pc, lk), q # <<>>,
           NewLink(q, lk, lk2)
    PROVE  WI(a, b, ks, w, Tail(q), p, pc, lk2)
  <1>1. Listed(a, b, ks, w, Tail(q), p, pc)
    BY HasTail DEF WI, Listed
  <1>2. QED BY <1>1, ReadOne DEF WI

\* ... of one that is deleted,
LEMMA ReadDeleted ==
    ASSUME NEW a, NEW b, NEW w, NEW ks, NEW q, NEW p, NEW pc, NEW lk, NEW lk2, WI(a, b, ks, w, q, p, pc, lk), q # <<>>,
           NewLink(q, lk, lk2)
    PROVE  WI(0, 0, ks \ {w}, w, Tail(q), p, pc, lk2)
  <1>1. /\ IsSeq(Tail(q)) /\ IsSeq(p) /\ Token(Tail(q), p, pc) /\ Connected(Tail(q), p, lk2)
        /\ Again(ks \ {w}, w, Tail(q), p, pc)
    BY ReadOne DEF WI
  <1>2. QED BY <1>1 DEF WI, Listed

\* ... of one that waits from now on, because it registered and was not known, or replied and was,
LEMMA ReadWaits ==
    ASSUME NEW a, NEW b, NEW w, NEW ks, NEW q, NEW p, NEW pc, NEW lk, NEW lk2, WI(a, b, ks, w, q, p, pc, lk), q # <<>>,
           NewLink(q, lk, lk2),
           \/ Head(q).op = "REGISTER" /\ w \notin ks
           \/ Head(q).op = "REPLY" /\ w \in ks
    PROVE  a = 0 /\ b = 0 /\ WI(1, 1, ks \cup {w}, w, Tail(q), p, pc, lk2)
  <1>1. /\ IsSeq(Tail(q)) /\ IsSeq(p) /\ Token(Tail(q), p, pc) /\ Connected(Tail(q), p, lk2)
        /\ Again(ks \cup {w}, w, Tail(q), p, pc)
    BY ReadOne DEF WI
  <1>2. CASE Head(q).op = "REGISTER" /\ w \notin ks
    <2>1. 1 \in 1..Len(q) /\ q[1].op = "REGISTER"
      BY <1>2, SeqTail DEF WI
    <2>2. ~After(q, p, pc, 1)
      BY <1>2, <2>1 DEF WI, Again
    <2>3. pc # "api" /\ ~Has(p, "REQUEST")
      BY <2>2 DEF After
    <2>4. ~Has(Tail(q), "REPLY")
      <3>1. SUFFICES ASSUME NEW j \in 1..Len(Tail(q)), Tail(q)[j].op = "REPLY" PROVE FALSE
        BY DEF Has
      <3>2. j + 1 \in 1..Len(q) /\ q[j + 1].op = "REPLY" /\ j \in Nat /\ j + 1 # 1
        BY <3>1, SeqTail DEF WI
      <3>3. 1 < j + 1
        BY <3>2
      <3>4. QED BY <2>2, <3>2, <3>3 DEF After
    <2>5. a = 0 /\ b = 0
      BY <1>2 DEF WI, Listed
    <2>6. QED BY <1>1, <2>3, <2>4, <2>5 DEF WI, Listed
  <1>3. CASE Head(q).op = "REPLY" /\ w \in ks
    <2>1. Has(q, "REPLY") /\ ~Has(Tail(q), "REPLY")
      BY <1>3, HasTail DEF WI, Token
    <2>2. pc # "api" /\ ~Has(p, "REQUEST") /\ a = 0 /\ b = 0
      BY <2>1 DEF WI, Token, Listed
    <2>3. QED BY <1>1, <2>1, <2>2 DEF WI, Listed
  <1>4. QED BY <1>2, <1>3

\* A worker that waits is given a request, which goes where it has a connection.
LEMMA Given ==
    ASSUME NEW w, NEW ks, NEW q, NEW p, NEW pc, NEW lk, WI(1, 1, ks, w, q, p, pc, lk),
           NEW m, m.op = "REQUEST", NEW p2, p2 = p \/ (lk = "up" /\ p2 = Append(p, m))
    PROVE  WI(0, 0, ks, w, q, p2, pc, lk)
  <1>1. IsSeq(q) /\ IsSeq(p) /\ w \in ks /\ pc # "api" /\ ~Has(q, "REPLY") /\ ~Has(p, "REQUEST")
    BY DEF WI, Listed
  <1>2. CASE p2 = p
    BY <1>2 DEF WI, Listed
  <1>3. CASE lk = "up" /\ p2 = Append(p, m)
    <2>1. IsSeq(p2) /\ Uniq(p2, "REQUEST")
      BY <1>1, <1>3, HasAdd, SeqAdd DEF WI, Token
    <2>2. Token(q, p2, pc)
      BY <1>1, <2>1 DEF WI, Token
    <2>3. Again(ks, w, q, p2, pc) /\ Connected(q, p2, lk)
      BY <1>1, <1>3 DEF WI, Again, Connected
    <2>4. QED BY <1>1, <2>1, <2>2, <2>3 DEF WI, Listed
  <1>4. QED BY <1>2, <1>3

\* A worker is told that it is not known, where it has a connection.
LEMMA Told ==
    ASSUME NEW a, NEW b, NEW w, NEW ks, NEW q, NEW p, NEW pc, NEW lk, WI(a, b, ks, w, q, p, pc, lk),
           NEW m, m.op = "DISCONNECT", NEW p2, p2 = p \/ (lk = "up" /\ p2 = Append(p, m))
    PROVE  WI(a, b, ks, w, q, p2, pc, lk)
  <1>1. CASE p2 = p
    BY <1>1
  <1>2. CASE lk = "up" /\ p2 = Append(p, m)
    <2>1. IsSeq(p2) /\ (Has(p2, "REQUEST") <=> Has(p, "REQUEST")) /\ Uniq(p2, "REQUEST")
      BY <1>2, HasAdd, SeqAdd DEF WI, Token
    <2>2. Listed(a, b, ks, w, q, p2, pc) /\ Token(q, p2, pc) /\ Again(ks, w, q, p2, pc)
      BY <2>1 DEF WI, Listed, Token, Again, After
    <2>3. Connected(q, p2, lk)
      BY <1>2 DEF WI, Connected
    <2>4. QED BY <2>1, <2>2, <2>3 DEF WI
  <1>3. QED BY <1>1, <1>2

\* A heartbeat is sent to a worker to which nothing is on the way.
LEMMA Beaten ==
    ASSUME NEW a, NEW b, NEW w, NEW ks, NEW q, NEW pc, WI(a, b, ks, w, q, <<>>, pc, "up"), NEW m, m.op = "HEARTBEAT"
    PROVE  WI(a, b, ks, w, q, <<m>>, pc, "up")
  <1>1. PICK p : p = <<m>>
    OBVIOUS
  <1>2. IsSeq(p) /\ ~Has(p, "REQUEST") /\ Uniq(p, "REQUEST")
    <2>1. p = Append(<<>>, m)
      BY <1>1
    <2>2. QED BY <2>1, HasNone, HasAdd, SeqAdd
  <1>3. ~Has(<<>>, "REQUEST")
    BY HasNone
  <1>4. Listed(a, b, ks, w, q, p, pc) /\ Token(q, p, pc)
    BY <1>2 DEF WI, Listed, Token
  <1>5. Again(ks, w, q, p, pc) /\ Connected(q, p, "up")
    BY <1>2, <1>3 DEF WI, Again, After, Connected
  <1>6. QED BY <1>1, <1>2, <1>4, <1>5 DEF WI

\* The worker moves between places that are no wait for the AP,
LEMMA WorkerMoves ==
    ASSUME NEW a, NEW b, NEW w, NEW ks, NEW q, NEW p, NEW pc, NEW lk, WI(a, b, ks, w, q, p, pc, lk), NEW pc2,
           pc2 # "api"
    PROVE  WI(a, b, ks, w, q, p, pc2, lk)
  BY DEF WI, Listed, Token, Again, After

\* ends,
LEMMA WorkerEnds ==
    ASSUME NEW a, NEW b, NEW w, NEW ks, NEW q, NEW p, NEW pc, NEW lk, WI(a, b, ks, w, q, p, pc, lk)
    PROVE  WI(a, b, ks, w, q, <<>>, "ended", "refused")
  <1>1. IsSeq(<<>>) /\ ~Has(<<>>, "REQUEST") /\ Uniq(<<>>, "REQUEST")
    BY HasNone
  <1>2. PICK n : n = <<>>
    OBVIOUS
  <1>3. Listed(a, b, ks, w, q, n, "ended") /\ Token(q, n, "ended") /\ Again(ks, w, q, n, "ended")
    BY <1>1, <1>2 DEF WI, Listed, Token, Again, After
  <1>4. QED BY <1>1, <1>2, <1>3 DEF WI, Connected

\* sends a heartbeat,
LEMMA WorkerBeats ==
    ASSUME NEW a, NEW b, NEW w, NEW ks, NEW q, NEW p, NEW pc, NEW lk, WI(a, b, ks, w, q, p, pc, lk),
           NEW m, m.op = "HEARTBEAT"
    PROVE  WI(a, b, ks, w, Append(q, m), p, pc, lk)
  <1> DEFINE u == Append(q, m)
  <1>1. IsSeq(u) /\ (Has(u, "REPLY") <=> Has(q, "REPLY")) /\ (Uniq(q, "REPLY") => Uniq(u, "REPLY"))
    BY SeqAdd, HasAdd DEF WI
  <1>2. \A i \in 1..Len(u) : u[i].op # "HEARTBEAT" => i \in 1..Len(q) /\ q[i].op = u[i].op
    BY SeqAdd DEF WI
  <1> HIDE DEF u
  <1>3. Listed(a, b, ks, w, u, p, pc) /\ Token(u, p, pc)
    BY <1>1 DEF WI, Listed, Token
  <1>4. Again(ks, w, u, p, pc)
    BY <1>2 DEF WI, Again, After
  <1>5. Connected(u, p, lk)
    BY <1>2 DEF WI, Connected
  <1>6. WI(a, b, ks, w, u, p, pc, lk)
    BY <1>1, <1>3, <1>4, <1>5 DEF WI
  <1>7. QED BY <1>6 DEF u

\* takes a message that is no request,
LEMMA WorkerHears ==
    ASSUME NEW a, NEW b, NEW w, NEW ks, NEW q, NEW p, NEW pc, NEW lk, WI(a, b, ks, w, q, p, pc, lk), p # <<>>
    PROVE  WI(a, b, ks, w, q, Tail(p), pc, lk)
  <1>1. IsSeq(Tail(p)) /\ (Has(Tail(p), "REQUEST") => Has(p, "REQUEST")) /\ Uniq(Tail(p), "REQUEST")
    BY SeqTail, HasTail DEF WI, Token
  <1>2. Listed(a, b, ks, w, q, Tail(p), pc) /\ Token(q, Tail(p), pc) /\ Again(ks, w, q, Tail(p), pc)
    BY <1>1 DEF WI, Listed, Token, Again, After
  <1>3. lk = "up"
    BY DEF WI, Connected
  <1>4. Connected(q, Tail(p), lk)
    BY <1>3 DEF WI, Connected
  <1>5. QED BY <1>1, <1>2, <1>4 DEF WI

\* takes a request and waits for the AP,
LEMMA WorkerAsks ==
    ASSUME NEW a, NEW b, NEW w, NEW ks, NEW q, NEW p, NEW pc, NEW lk, WI(a, b, ks, w, q, p, pc, lk), p # <<>>,
           Head(p).op = "REQUEST"
    PROVE  WI(a, b, ks, w, q, Tail(p), "api", lk)
  <1>1. IsSeq(Tail(p)) /\ Has(p, "REQUEST") /\ ~Has(Tail(p), "REQUEST") /\ Uniq(Tail(p), "REQUEST")
    BY SeqTail, HasTail DEF WI, Token
  <1>2. a = 0 /\ ~Has(q, "REPLY")
    BY <1>1 DEF WI, Listed, Token
  <1>3. Listed(a, b, ks, w, q, Tail(p), "api") /\ Token(q, Tail(p), "api")
    BY <1>1, <1>2 DEF WI, Listed, Token
  <1>4. Again(ks, w, q, Tail(p), "api")
    BY <1>1 DEF WI, Again, After
  <1>5. Connected(q, Tail(p), lk)
    BY DEF WI, Connected
  <1>6. QED BY <1>1, <1>3, <1>4, <1>5 DEF WI

\* and replies.
LEMMA WorkerReplies ==
    ASSUME NEW a, NEW b, NEW w, NEW ks, NEW q, NEW p, NEW lk, WI(a, b, ks, w, q, p, "api", lk),
           NEW m, m.op = "REPLY", NEW pc2, pc2 # "api"
    PROVE  WI(a, b, ks, w, Append(q, m), p, pc2, lk)
  <1> DEFINE u == Append(q, m)
  <1>1. a = 0 /\ ~Has(q, "REPLY") /\ ~Has(p, "REQUEST") /\ IsSeq(q)
    BY DEF WI, Listed, Token
  <1>2. IsSeq(u) /\ Uniq(u, "REPLY")
    BY <1>1, SeqAdd, HasAdd DEF WI, Token
  <1>3. \A i \in 1..Len(u) : u[i].op # "REPLY" => i \in 1..Len(q) /\ q[i].op = u[i].op
    BY <1>1, SeqAdd
  <1> HIDE DEF u
  <1>4. Listed(a, b, ks, w, u, p, pc2) /\ Token(u, p, pc2)
    BY <1>1, <1>2 DEF WI, Listed, Token
  <1>5. Again(ks, w, u, p, pc2)
    BY <1>3 DEF WI, Again, After
  <1>6. Connected(u, p, lk)
    BY <1>3 DEF WI, Connected
  <1>7. WI(a, b, ks, w, u, p, pc2, lk)
    BY <1>2, <1>4, <1>5, <1>6 DEF WI
  <1>8. QED BY <1>7 DEF u

\* The worker takes a new socket: the ROUTER has the first k of its messages, and refuses the registration or has it behind.
LEMMA WorkerConnects ==
    ASSUME NEW a, NEW b, NEW w, NEW ks, NEW q, NEW p, NEW pc, NEW lk, WI(a, b, ks, w, q, p, pc, lk), pc # "api",
           NEW k \in 0..Len(q), NEW m, m.op = "REGISTER", NEW lk2, NEW q2,
           \/ q2 = SubSeq(q, 1, k) /\ lk2 = "refused"
           \/ q2 = Append(SubSeq(q, 1, k), m) /\ lk2 = IF k = 0 THEN "up" ELSE "pending",
           NEW pc2, pc2 # "api"
    PROVE  WI(a, b, ks, w, q2, <<>>, pc2, lk2)
  <1>1. PICK n : n = <<>>
    OBVIOUS
  <1>2. IsSeq(n) /\ ~Has(n, "REQUEST") /\ Uniq(n, "REQUEST")
    BY <1>1, HasNone
  <1>3. PICK s : s = SubSeq(q, 1, k)
    OBVIOUS
  <1>4. /\ IsSeq(s) /\ Len(s) = k /\ \A i \in 1..k : s[i] = q[i] /\ i \in 1..Len(q)
        /\ (Has(s, "REPLY") => Has(q, "REPLY")) /\ (Uniq(q, "REPLY") => Uniq(s, "REPLY"))
    BY <1>3, SeqSub, HasSub DEF WI
  <1>5. CASE q2 = s /\ lk2 = "refused"
    <2>1. Listed(a, b, ks, w, s, n, pc2) /\ Token(s, n, pc2)
      BY <1>2, <1>4 DEF WI, Listed, Token
    <2>2. Again(ks, w, s, n, pc2)
      BY <1>2, <1>4 DEF WI, Again, After
    <2>3. QED BY <1>1, <1>2, <1>4, <1>5, <2>1, <2>2 DEF WI, Connected
  <1>6. CASE q2 = Append(s, m) /\ lk2 = IF k = 0 THEN "up" ELSE "pending"
    <2>1. /\ IsSeq(q2) /\ (Has(q2, "REPLY") => Has(s, "REPLY")) /\ (Uniq(s, "REPLY") => Uniq(q2, "REPLY"))
      BY <1>4, <1>6, SeqAdd, HasAdd
    <2>2. /\ Len(q2) = k + 1 /\ \A i \in 1..k + 1 : i \in 1..k \/ i = k + 1
          /\ \A i \in 1..k : q2[i] = s[i]
          /\ q2[k + 1] = m /\ k \in Nat
      BY <1>4, <1>6, SeqAdd
    <2>3. Listed(a, b, ks, w, q2, n, pc2) /\ Token(q2, n, pc2)
      BY <1>2, <1>4, <2>1 DEF WI, Listed, Token
    <2>4. ASSUME NEW i \in 1..Len(q2), q2[i].op = "REGISTER", After(q2, n, pc2, i) PROVE i = 1 /\ w \in ks
      <3>1. PICK j \in 1..Len(q2) : i < j /\ q2[j].op = "REPLY"
        BY <1>2, <2>4 DEF After
      <3>2. j \in 1..k
        BY <2>2, <3>1
      <3>3. i \in 1..k
        BY <2>2, <3>1, <3>2
      <3>4. q[i].op = "REGISTER" /\ q[j].op = "REPLY" /\ i \in 1..Len(q) /\ j \in 1..Len(q)
        BY <1>4, <2>2, <2>4, <3>1, <3>2, <3>3
      <3>5. After(q, p, pc, i)
        BY <3>1, <3>4 DEF After
      <3>6. QED BY <3>4, <3>5 DEF WI, Again
    <2>5. Again(ks, w, q2, n, pc2)
      BY <2>4 DEF Again
    <2>6. Connected(q2, n, lk2)
      BY <1>1, <1>6, <2>2 DEF Connected
    <2>7. QED BY <1>1, <1>2, <2>1, <2>3, <2>5, <2>6 DEF WI
  <1>7. QED BY <1>3, <1>5, <1>6
-----------------------------------------------------------------------------
(* The dispatcher's operators *)

\* What is kept of every worker is there.
Shape(x) ==
    /\ \E ks, a, b, rq, p : x = [m_workers |-> ks, m_waiting |-> a, s_waiting |-> b, s_requests |-> rq, down |-> p]
    /\ DOMAIN x.m_waiting = Workers /\ DOMAIN x.s_waiting = Workers /\ DOMAIN x.down = Workers
    /\ DOMAIN x.s_requests = Workers /\ \A w \in Workers : IsSeq(x.s_requests[w])

\* From x to y nothing changed for the other workers than w.
Only(x, y, w) ==
    /\ Shape(y)
    /\ \A v \in Workers : v # w => /\ y.m_waiting[v] = x.m_waiting[v] /\ y.s_waiting[v] = x.s_waiting[v]
                                   /\ y.down[v] = x.down[v] /\ (v \in y.m_workers <=> v \in x.m_workers)

\* m is sent to w, if it has a connection.
Sent(x, y, w, m) == y.down[w] = IF link[w] = "up" THEN Append(x.down[w], m) ELSE x.down[w]

\* The worker of a service is given nothing, or the first request when it waits.
LEMMA Dispatched ==
    ASSUME NEW x, Shape(x), NEW s \in Workers, x.s_waiting[s] \in {0, 1}, IsSeq(x.down[s]), NEW y, y = service_dispatch(x, s)
    PROVE  /\ Only(x, y, s) /\ y.m_workers = x.m_workers
           /\ \/ y.m_waiting[s] = x.m_waiting[s] /\ y.s_waiting[s] = x.s_waiting[s] /\ y.down[s] = x.down[s]
              \/ /\ x.s_waiting[s] = 1 /\ y.m_waiting[s] = 0 /\ y.s_waiting[s] = 0
                 /\ \E m : m.op = "REQUEST" /\ Sent(x, y, s, m)
  <1>1. PICK ks, a, b, rq, p : x = [m_workers |-> ks, m_waiting |-> a, s_waiting |-> b, s_requests |-> rq, down |-> p]
    BY DEF Shape
  <1>2. /\ DOMAIN a = Workers /\ DOMAIN b = Workers /\ DOMAIN p = Workers /\ DOMAIN rq = Workers
        /\ \A w \in Workers : IsSeq(rq[w])
    BY <1>1 DEF Shape
  <1>3. b[s] \in {0, 1} /\ IsSeq(p[s]) /\ IsSeq(rq[s])
    BY <1>1, <1>2
  <1> DEFINE n == IF b[s] < Len(rq[s]) THEN b[s] ELSE Len(rq[s])
             sent == [i \in 1..n |-> [op |-> "REQUEST", req |-> rq[s][i]]]
  <1>4. Len(rq[s]) \in Nat /\ n \in {0, 1} /\ n <= b[s] /\ n <= Len(rq[s])
    <2>1. PICK S : rq[s] \in Seq(S)
      BY <1>3 DEF IsSeq
    <2>2. Len(rq[s]) \in Nat
      BY <2>1
    <2>3. PICK k, l : k = b[s] /\ l = Len(rq[s])
      OBVIOUS
    <2>4. n = (IF k < l THEN k ELSE l) /\ k \in {0, 1} /\ l \in Nat
      BY <1>3, <2>2, <2>3
    <2> HIDE DEF n
    <2>5. n \in {0, 1} /\ n <= k /\ n <= l
      BY <2>4
    <2>6. QED BY <2>2, <2>3, <2>5
  <1>5. IsSeq(SubSeq(rq[s], n + 1, Len(rq[s])))
    <2>1. PICK S : rq[s] \in Seq(S)
      BY <1>3 DEF IsSeq
    <2> HIDE DEF n
    <2>2. SubSeq(rq[s], n + 1, Len(rq[s])) \in Seq(S)
      BY <1>4, <2>1
    <2>3. QED BY <2>2 DEF IsSeq
  <1>6. y = [m_workers |-> ks, m_waiting |-> [a EXCEPT ![s] = IF n = 0 THEN @ ELSE 0],
             s_waiting |-> [b EXCEPT ![s] = @ - n],
             s_requests |-> [rq EXCEPT ![s] = SubSeq(@, n + 1, Len(@))],
             down |-> [p EXCEPT ![s] = IF link[s] = "up" THEN @ \o sent ELSE @]]
    BY <1>1 DEF service_dispatch
  <1> DEFINE sr == SubSeq(rq[s], n + 1, Len(rq[s]))
             sp == IF link[s] = "up" THEN p[s] \o sent ELSE p[s]
             sa == IF n = 0 THEN a[s] ELSE 0
             sb == b[s] - n
  <1>7. y = [m_workers |-> ks, m_waiting |-> [a EXCEPT ![s] = sa], s_waiting |-> [b EXCEPT ![s] = sb],
             s_requests |-> [rq EXCEPT ![s] = sr], down |-> [p EXCEPT ![s] = sp]]
    BY <1>2, <1>6
  <1>8. n = 0 => sp = p[s]
    <2>1. PICK S : p[s] \in Seq(S)
      BY <1>3 DEF IsSeq
    <2>2. SUFFICES ASSUME n = 0 PROVE p[s] \o sent = p[s]
      OBVIOUS
    <2>3. sent = << >>
      BY <2>2
    <2> HIDE DEF sent, n
    <2>4. QED BY <2>1, <2>3
  <1>9. n = 1 => \E m : m.op = "REQUEST" /\ sp = IF link[s] = "up" THEN Append(p[s], m) ELSE p[s]
    <2>1. PICK S : p[s] \in Seq(S)
      BY <1>3 DEF IsSeq
    <2>2. SUFFICES ASSUME n = 1 PROVE \E m : m.op = "REQUEST" /\ p[s] \o sent = Append(p[s], m)
      OBVIOUS
    <2>3. PICK m : m = [op |-> "REQUEST", req |-> rq[s][1]]
      OBVIOUS
    <2>4. m.op = "REQUEST"
      BY <2>3
    <2>5. sent = [i \in 1..1 |-> [op |-> "REQUEST", req |-> rq[s][i]]]
      BY <2>2
    <2>6. sent = [i \in 1..1 |-> m]
      BY <2>3, <2>5
    <2>7. sent = <<m>>
      BY <2>6
    <2> HIDE DEF sent, n
    <2>8. p[s] \in Seq(S \cup {m}) /\ sent \in Seq(S \cup {m})
      BY <2>1, <2>7
    <2>9. p[s] \o sent = Append(p[s], m)
      BY <2>7, <2>8
    <2>10. QED BY <2>4, <2>9
  <1>10. n = 1 => b[s] = 1
    <2> HIDE DEF n
    <2>1. QED BY <1>3, <1>4
  <1>11. n = 1 => b[s] = 1 /\ sa = 0 /\ sb = 0
    <2> HIDE DEF n
    <2>1. QED BY <1>10
  <1>12. n = 0 => sa = a[s] /\ sb = b[s]
    BY <1>3
  <1>13. IsSeq(sr)
    BY <1>5
  <1> HIDE DEF sr, sp, sa, sb
  <1>14. /\ y.m_workers = ks /\ DOMAIN y.m_waiting = Workers /\ DOMAIN y.s_waiting = Workers /\ DOMAIN y.down = Workers
         /\ DOMAIN y.s_requests = Workers /\ y.m_waiting[s] = sa /\ y.s_waiting[s] = sb /\ y.down[s] = sp
         /\ y.s_requests[s] = sr
    BY <1>2, <1>7
  <1>15. \A v \in Workers : v # s => /\ y.m_waiting[v] = a[v] /\ y.s_waiting[v] = b[v]
                                     /\ y.down[v] = p[v] /\ y.s_requests[v] = rq[v]
    BY <1>2, <1>7
  <1>16. Shape(y)
    <2>1. \A w \in Workers : IsSeq(y.s_requests[w])
      BY <1>2, <1>13, <1>14, <1>15
    <2>2. QED BY <1>7, <1>14, <2>1 DEF Shape
  <1>17. Only(x, y, s) /\ y.m_workers = x.m_workers
    BY <1>1, <1>14, <1>15, <1>16 DEF Only
  <1>18. CASE n = 0
    BY <1>1, <1>8, <1>12, <1>14, <1>17, <1>18
  <1>19. CASE n = 1
    BY <1>1, <1>9, <1>11, <1>14, <1>17, <1>19 DEF Sent
  <1>20. QED BY <1>4, <1>18, <1>19

\* A worker is deleted, and told so.
LEMMA Deleted ==
    ASSUME NEW x, Shape(x), NEW w \in Workers
    PROVE  \A y : y = worker_delete(worker_require(x, w), w, TRUE) =>
              /\ Only(x, y, w) /\ y.m_workers = x.m_workers \ {w} /\ y.m_waiting[w] = 0 /\ y.s_waiting[w] = 0
              /\ \E m : m.op = "DISCONNECT" /\ Sent(x, y, w, m)
  <1>1. PICK ks, a, b, rq, p : x = [m_workers |-> ks, m_waiting |-> a, s_waiting |-> b, s_requests |-> rq, down |-> p]
    BY DEF Shape
  <1>2. /\ DOMAIN a = Workers /\ DOMAIN b = Workers /\ DOMAIN p = Workers /\ DOMAIN rq = Workers
        /\ \A v \in Workers : IsSeq(rq[v])
    BY <1>1 DEF Shape
  <1>3. PICK m : m = [op |-> "DISCONNECT"]
    OBVIOUS
  <1>4. PICK z : z = worker_require(x, w)
    OBVIOUS
  <1>5. z = [m_workers |-> ks \cup {w}, m_waiting |-> a, s_waiting |-> b, s_requests |-> rq, down |-> p]
    BY <1>1, <1>4 DEF worker_require
  <1> DEFINE y == worker_delete(worker_require(x, w), w, TRUE)
             sp == IF link[w] = "up" THEN [p EXCEPT ![w] = Append(@, m)] ELSE p
  <1>6. y = [(IF link[w] = "up" THEN [z EXCEPT !.down[w] = Append(@, m)] ELSE z)
               EXCEPT !.s_waiting[w] = 0, !.m_waiting[w] = 0, !.m_workers = @ \ {w}]
    BY <1>3, <1>4 DEF worker_delete, worker_send
  <1> HIDE DEF y
  <1>7. y = [m_workers |-> (ks \cup {w}) \ {w}, m_waiting |-> [a EXCEPT ![w] = 0], s_waiting |-> [b EXCEPT ![w] = 0],
             s_requests |-> rq, down |-> sp]
    <2>1. CASE link[w] = "up"
      BY <1>5, <1>6, <2>1
    <2>2. CASE link[w] # "up"
      BY <1>5, <1>6, <2>2
    <2>3. QED BY <2>1, <2>2
  <1>8. /\ DOMAIN sp = Workers /\ (\A v \in Workers : v # w => sp[v] = p[v])
        /\ sp[w] = IF link[w] = "up" THEN Append(p[w], m) ELSE p[w]
    BY <1>2
  <1> HIDE DEF sp
  <1>9. /\ DOMAIN y.m_waiting = Workers /\ DOMAIN y.s_waiting = Workers /\ y.down = sp /\ y.s_requests = rq
        /\ y.m_waiting[w] = 0 /\ y.s_waiting[w] = 0 /\ y.m_workers = (ks \cup {w}) \ {w}
        /\ \A v \in Workers : v # w => y.m_waiting[v] = a[v] /\ y.s_waiting[v] = b[v]
    BY <1>2, <1>7
  <1>10. Shape(y)
    BY <1>2, <1>7, <1>8, <1>9 DEF Shape
  <1>11. y.m_workers = x.m_workers \ {w}
    BY <1>1, <1>9
  <1>12. Only(x, y, w)
    BY <1>1, <1>8, <1>9, <1>10 DEF Only
  <1>13. m.op = "DISCONNECT" /\ Sent(x, y, w, m)
    BY <1>1, <1>3, <1>8, <1>9 DEF Sent
  <1>14. QED BY <1>9, <1>11, <1>12, <1>13 DEF y

\* A worker that is in no list waits: it is in both, or is given the first request.
LEMMA Waited ==
    ASSUME NEW x, Shape(x), NEW w \in Workers, x.m_waiting[w] = 0, x.s_waiting[w] = 0, IsSeq(x.down[w]),
           NEW y, y = worker_waiting(worker_require(x, w), w)
    PROVE  /\ Only(x, y, w) /\ y.m_workers = x.m_workers \cup {w}
           /\ \/ y.m_waiting[w] = 1 /\ y.s_waiting[w] = 1 /\ y.down[w] = x.down[w]
              \/ y.m_waiting[w] = 0 /\ y.s_waiting[w] = 0 /\ \E m : m.op = "REQUEST" /\ Sent(x, y, w, m)
  <1>1. PICK ks, a, b, rq, p : x = [m_workers |-> ks, m_waiting |-> a, s_waiting |-> b, s_requests |-> rq, down |-> p]
    BY DEF Shape
  <1>2. /\ DOMAIN a = Workers /\ DOMAIN b = Workers /\ DOMAIN p = Workers /\ DOMAIN rq = Workers
        /\ \A v \in Workers : IsSeq(rq[v])
    BY <1>1 DEF Shape
  <1>3. PICK r : r = worker_require(x, w)
    OBVIOUS
  <1>4. r = [m_workers |-> ks \cup {w}, m_waiting |-> a, s_waiting |-> b, s_requests |-> rq, down |-> p]
    BY <1>1, <1>3 DEF worker_require
  <1>5. PICK z : z = [r EXCEPT !.m_waiting[w] = @ + 1, !.s_waiting[w] = @ + 1]
    OBVIOUS
  <1>6. z = [m_workers |-> ks \cup {w}, m_waiting |-> [a EXCEPT ![w] = @ + 1], s_waiting |-> [b EXCEPT ![w] = @ + 1],
             s_requests |-> rq, down |-> p]
    BY <1>4, <1>5
  <1>7. a[w] = 0 /\ b[w] = 0
    BY <1>1
  <1>8. /\ DOMAIN z.m_waiting = Workers /\ DOMAIN z.s_waiting = Workers /\ z.down = p /\ z.s_requests = rq
        /\ z.m_waiting[w] = 1 /\ z.s_waiting[w] = 1 /\ z.m_workers = ks \cup {w}
        /\ \A v \in Workers : v # w => z.m_waiting[v] = a[v] /\ z.s_waiting[v] = b[v]
    BY <1>2, <1>6, <1>7
  <1>9. Shape(z)
    BY <1>2, <1>6, <1>8 DEF Shape
  <1>10. Only(x, z, w) /\ z.m_workers = x.m_workers \cup {w} /\ z.down[w] = x.down[w]
    BY <1>1, <1>8, <1>9 DEF Only
  <1>11. y = service_dispatch(z, w)
    BY <1>3, <1>5 DEF worker_waiting
  <1>12. z.s_waiting[w] \in {0, 1} /\ IsSeq(z.down[w])
    BY <1>8, <1>10
  <1>13. /\ Only(z, y, w) /\ y.m_workers = z.m_workers
         /\ \/ y.m_waiting[w] = z.m_waiting[w] /\ y.s_waiting[w] = z.s_waiting[w] /\ y.down[w] = z.down[w]
            \/ y.m_waiting[w] = 0 /\ y.s_waiting[w] = 0 /\ \E m : m.op = "REQUEST" /\ Sent(z, y, w, m)
    BY <1>9, <1>11, <1>12, Dispatched
  <1>14. Only(x, y, w)
    BY <1>10, <1>13 DEF Only
  <1>15. \A m : Sent(z, y, w, m) => Sent(x, y, w, m)
    BY <1>10 DEF Sent
  <1>16. QED BY <1>8, <1>10, <1>13, <1>14, <1>15

\* A known worker is required: nothing changes.
LEMMA Required ==
    ASSUME NEW x, Shape(x), NEW w \in Workers, w \in x.m_workers
    PROVE  worker_require(x, w) = x
  <1>1. PICK ks, a, b, rq, p : x = [m_workers |-> ks, m_waiting |-> a, s_waiting |-> b, s_requests |-> rq, down |-> p]
    BY DEF Shape
  <1>2. ks \cup {w} = ks
    BY <1>1
  <1>3. worker_require(x, w) = [m_workers |-> ks \cup {w}, m_waiting |-> a, s_waiting |-> b, s_requests |-> rq, down |-> p]
    BY <1>1 DEF worker_require
  <1>4. QED BY <1>1, <1>2, <1>3
-----------------------------------------------------------------------------
(* The steps *)

\* The invariant of the dispatcher, the links and the workers.
WaitInv == \A w \in Workers : WI(d.m_waiting[w], d.s_waiting[w], d.m_workers, w, up[w], d.down[w], wpc[w], link[w])
DispInv == Shape(d) /\ DOMAIN up = Workers /\ DOMAIN wpc = Workers /\ DOMAIN link = Workers /\ WaitInv

\* Of the workers the dispatcher knows only whether w is among them counts.
LEMMA KnownSame ==
    ASSUME NEW a, NEW b, NEW w, NEW ks, NEW q, NEW p, NEW pc, NEW lk, WI(a, b, ks, w, q, p, pc, lk), NEW ls,
           w \in ls <=> w \in ks
    PROVE  WI(a, b, ls, w, q, p, pc, lk)
  BY DEF WI, Listed, Again

\* A step that is about one worker.
LEMMA OneWorker ==
    ASSUME DispInv, NEW w \in Workers, Only(d, d', w), DOMAIN up' = Workers, DOMAIN wpc' = Workers, DOMAIN link' = Workers,
           \A v \in Workers : v # w => up'[v] = up[v] /\ wpc'[v] = wpc[v] /\ link'[v] = link[v],
           WI(d.m_waiting[w], d.s_waiting[w], d.m_workers, w, up[w], d.down[w], wpc[w], link[w])'
    PROVE  DispInv'
  <1>1. ASSUME NEW v \in Workers, v # w
        PROVE  WI(d.m_waiting[v], d.s_waiting[v], d.m_workers, v, up[v], d.down[v], wpc[v], link[v])'
    <2>1. WI(d.m_waiting[v], d.s_waiting[v], d.m_workers, v, up[v], d.down[v], wpc[v], link[v])
      BY DEF DispInv, WaitInv
    <2>2. /\ d'.m_waiting[v] = d.m_waiting[v] /\ d'.s_waiting[v] = d.s_waiting[v] /\ d'.down[v] = d.down[v]
          /\ up'[v] = up[v] /\ wpc'[v] = wpc[v] /\ link'[v] = link[v]
      BY <1>1 DEF Only
    <2>3. v \in d'.m_workers <=> v \in d.m_workers
      BY <1>1 DEF Only
    <2>4. WI(d.m_waiting[v], d.s_waiting[v], d'.m_workers, v, up[v], d.down[v], wpc[v], link[v])
      BY <2>1, <2>3, KnownSame
    <2>5. QED BY <2>2, <2>4
  <1>2. WaitInv'
    BY <1>1 DEF WaitInv
  <1>3. QED BY <1>2 DEF DispInv, Only

\* What the dispatcher does with a message of w, which holds for w what WI says.
LEMMA Commanded ==
    ASSUME NEW x, Shape(x), NEW w \in Workers, NEW q, NEW pc, NEW lk2, q # <<>>, NEW y, y = AfterCommand(x, w, Head(q).op),
           WI(x.m_waiting[w], x.s_waiting[w], x.m_workers, w, q, x.down[w], pc, link[w]), NewLink(q, link[w], lk2)
    PROVE  Only(x, y, w) /\ WI(y.m_waiting[w], y.s_waiting[w], y.m_workers, w, Tail(q), y.down[w], pc, lk2)
  <1>1. ASSUME y = worker_delete(worker_require(x, w), w, TRUE)
        PROVE  Only(x, y, w) /\ WI(y.m_waiting[w], y.s_waiting[w], y.m_workers, w, Tail(q), y.down[w], pc, lk2)
    <2>1. /\ Only(x, y, w) /\ y.m_workers = x.m_workers \ {w} /\ y.m_waiting[w] = 0 /\ y.s_waiting[w] = 0
          /\ \E m : m.op = "DISCONNECT" /\ Sent(x, y, w, m)
      BY <1>1, Deleted
    <2>2. PICK m : m.op = "DISCONNECT" /\ y.down[w] = IF link[w] = "up" THEN Append(x.down[w], m) ELSE x.down[w]
      BY <2>1 DEF Sent
    <2>3. WI(0, 0, x.m_workers \ {w}, w, Tail(q), x.down[w], pc, lk2)
      BY ReadDeleted
    <2>4. y.down[w] = x.down[w] \/ (lk2 = "up" /\ y.down[w] = Append(x.down[w], m))
      BY <2>2 DEF NewLink
    <2>5. WI(0, 0, x.m_workers \ {w}, w, Tail(q), y.down[w], pc, lk2)
      BY <2>2, <2>3, <2>4, Told
    <2>6. QED BY <2>1, <2>5
  <1>2. ASSUME y = worker_waiting(worker_require(x, w), w),
               \/ Head(q).op = "REGISTER" /\ w \notin x.m_workers
               \/ Head(q).op = "REPLY" /\ w \in x.m_workers
        PROVE  Only(x, y, w) /\ WI(y.m_waiting[w], y.s_waiting[w], y.m_workers, w, Tail(q), y.down[w], pc, lk2)
    <2>1. /\ x.m_waiting[w] = 0 /\ x.s_waiting[w] = 0
          /\ WI(1, 1, x.m_workers \cup {w}, w, Tail(q), x.down[w], pc, lk2)
      BY <1>2, ReadWaits
    <2>2. IsSeq(x.down[w])
      BY DEF WI
    <2>3. /\ Only(x, y, w) /\ y.m_workers = x.m_workers \cup {w}
          /\ \/ y.m_waiting[w] = 1 /\ y.s_waiting[w] = 1 /\ y.down[w] = x.down[w]
             \/ y.m_waiting[w] = 0 /\ y.s_waiting[w] = 0 /\ \E m : m.op = "REQUEST" /\ Sent(x, y, w, m)
      BY <1>2, <2>1, <2>2, Waited
    <2>4. CASE y.m_waiting[w] = 1 /\ y.s_waiting[w] = 1 /\ y.down[w] = x.down[w]
      BY <2>1, <2>3, <2>4
    <2>5. CASE y.m_waiting[w] = 0 /\ y.s_waiting[w] = 0 /\ \E m : m.op = "REQUEST" /\ Sent(x, y, w, m)
      <3>1. PICK m : m.op = "REQUEST" /\ y.down[w] = IF link[w] = "up" THEN Append(x.down[w], m) ELSE x.down[w]
        BY <2>5 DEF Sent
      <3>2. y.down[w] = x.down[w] \/ (lk2 = "up" /\ y.down[w] = Append(x.down[w], m))
        BY <3>1 DEF NewLink
      <3>3. WI(0, 0, x.m_workers \cup {w}, w, Tail(q), y.down[w], pc, lk2)
        BY <2>1, <3>1, <3>2, Given
      <3>4. QED BY <2>3, <2>5, <3>3
    <2>6. QED BY <2>3, <2>4, <2>5
  <1>3. ASSUME y = worker_require(x, w), w \in x.m_workers
        PROVE  Only(x, y, w) /\ WI(y.m_waiting[w], y.s_waiting[w], y.m_workers, w, Tail(q), y.down[w], pc, lk2)
    <2>1. y = x
      BY <1>3, Required
    <2>2. WI(x.m_waiting[w], x.s_waiting[w], x.m_workers, w, Tail(q), x.down[w], pc, lk2)
      BY ReadKept
    <2>3. QED BY <2>1, <2>2 DEF Only
  <1>4. CASE w \in x.m_workers
    <2>1. CASE Head(q).op = "REGISTER"
      BY <1>1, <1>4, <2>1 DEF AfterCommand
    <2>2. CASE Head(q).op = "REPLY"
      BY <1>2, <1>4, <2>2 DEF AfterCommand
    <2>3. CASE Head(q).op \notin {"REGISTER", "REPLY"}
      BY <1>3, <1>4, <2>3 DEF AfterCommand
    <2>4. QED BY <2>1, <2>2, <2>3
  <1>5. CASE w \notin x.m_workers
    <2>1. CASE Head(q).op = "REGISTER"
      BY <1>2, <1>5, <2>1 DEF AfterCommand
    <2>2. CASE Head(q).op # "REGISTER"
      BY <1>1, <1>5, <2>2 DEF AfterCommand
    <2>3. QED BY <2>1, <2>2
  <1>6. QED BY <1>4, <1>5

\* The dispatcher reads a message of a worker,
LEMMA DispReads == ASSUME DispInv, NEW w \in Workers, worker_process(w) PROVE DispInv'
  <1>1. /\ up[w] # <<>> /\ d' = AfterCommand(d, w, Head(up[w]).op) /\ up' = [up EXCEPT ![w] = Tail(@)]
        /\ link' = [link EXCEPT ![w] = IF @ = "pending" /\ OnlyNew(Tail(up[w])) THEN "up" ELSE @]
        /\ wpc' = wpc
    BY DEF worker_process, wVars
  <1>2. Shape(d) /\ DOMAIN up = Workers /\ DOMAIN wpc = Workers /\ DOMAIN link = Workers
    BY DEF DispInv
  <1>3. WI(d.m_waiting[w], d.s_waiting[w], d.m_workers, w, up[w], d.down[w], wpc[w], link[w])
    BY DEF DispInv, WaitInv
  <1>4. NewLink(up[w], link[w], link'[w])
    BY <1>1, <1>2 DEF NewLink
  <1>5. /\ Only(d, d', w)
        /\ WI(d'.m_waiting[w], d'.s_waiting[w], d'.m_workers, w, Tail(up[w]), d'.down[w], wpc[w], link'[w])
    BY <1>1, <1>2, <1>3, <1>4, Commanded
  <1>6. /\ DOMAIN up' = Workers /\ DOMAIN wpc' = Workers /\ DOMAIN link' = Workers /\ up'[w] = Tail(up[w])
        /\ \A v \in Workers : v # w => up'[v] = up[v] /\ wpc'[v] = wpc[v] /\ link'[v] = link[v]
    BY <1>1, <1>2
  <1>7. WI(d.m_waiting[w], d.s_waiting[w], d.m_workers, w, up[w], d.down[w], wpc[w], link[w])'
    BY <1>1, <1>5, <1>6
  <1>8. QED BY <1>5, <1>6, <1>7, OneWorker

\* the request of a client,
LEMMA DispTakes == ASSUME DispInv, NEW q, client_process(q) PROVE DispInv'
  <1>1. UNCHANGED <<up, wpc, link>>
    BY DEF client_process, wVars
  <1>2. Shape(d) /\ DOMAIN up = Workers /\ DOMAIN wpc = Workers /\ DOMAIN link = Workers
    BY DEF DispInv
  <1>3. CASE d' = d
    BY <1>1, <1>3 DEF DispInv, WaitInv
  <1>4. CASE /\ q.cmd.service \in Workers
             /\ d' = service_dispatch([d EXCEPT !.s_requests[q.cmd.service] = Append(@, q)], q.cmd.service)
    <2>1. PICK s \in Workers : d' = service_dispatch([d EXCEPT !.s_requests[s] = Append(@, q)], s)
      BY <1>4
    <2>2. PICK x : x = [d EXCEPT !.s_requests[s] = Append(@, q)]
      OBVIOUS
    <2>3. WI(d.m_waiting[s], d.s_waiting[s], d.m_workers, s, up[s], d.down[s], wpc[s], link[s])
      BY DEF DispInv, WaitInv
    <2>4. Only(d, x, s) /\ x.m_workers = d.m_workers /\ x.m_waiting = d.m_waiting /\ x.s_waiting = d.s_waiting /\ x.down = d.down
      <3>1. PICK ks, a, b, rq, p : d = [m_workers |-> ks, m_waiting |-> a, s_waiting |-> b, s_requests |-> rq, down |-> p]
        BY <1>2 DEF Shape
      <3>2. /\ DOMAIN a = Workers /\ DOMAIN b = Workers /\ DOMAIN p = Workers /\ DOMAIN rq = Workers
            /\ \A w \in Workers : IsSeq(rq[w])
        BY <1>2, <3>1 DEF Shape
      <3>3. PICK u : u = Append(rq[s], q)
        OBVIOUS
      <3>4. IsSeq(u)
        BY <3>2, <3>3, SeqAdd
      <3>5. x = [m_workers |-> ks, m_waiting |-> a, s_waiting |-> b, s_requests |-> [rq EXCEPT ![s] = u], down |-> p]
        BY <2>2, <3>1, <3>3
      <3>6. /\ x.m_workers = ks /\ x.m_waiting = a /\ x.s_waiting = b /\ x.down = p
            /\ DOMAIN x.s_requests = Workers /\ \A w \in Workers : IsSeq(x.s_requests[w])
        BY <3>2, <3>4, <3>5
      <3>7. Shape(x)
        BY <3>2, <3>5, <3>6 DEF Shape
      <3>8. QED BY <3>1, <3>6, <3>7 DEF Only
    <2>5. x.s_waiting[s] \in {0, 1} /\ IsSeq(x.down[s]) /\ d.m_waiting[s] = d.s_waiting[s] /\ Shape(x)
      BY <2>3, <2>4 DEF WI, Listed, Only
    <2>6. /\ Only(x, d', s) /\ d'.m_workers = x.m_workers
          /\ \/ d'.m_waiting[s] = x.m_waiting[s] /\ d'.s_waiting[s] = x.s_waiting[s] /\ d'.down[s] = x.down[s]
             \/ /\ x.s_waiting[s] = 1 /\ d'.m_waiting[s] = 0 /\ d'.s_waiting[s] = 0
                /\ \E m : m.op = "REQUEST" /\ Sent(x, d', s, m)
      <3>1. PICK y : y = d'
        OBVIOUS
      <3>2. y = service_dispatch(x, s)
        BY <2>1, <2>2, <3>1
      <3>3. /\ Only(x, y, s) /\ y.m_workers = x.m_workers
            /\ \/ y.m_waiting[s] = x.m_waiting[s] /\ y.s_waiting[s] = x.s_waiting[s] /\ y.down[s] = x.down[s]
               \/ /\ x.s_waiting[s] = 1 /\ y.m_waiting[s] = 0 /\ y.s_waiting[s] = 0
                  /\ \E m : m.op = "REQUEST" /\ Sent(x, y, s, m)
        BY <2>5, <3>2, Dispatched
      <3>4. QED BY <3>1, <3>3
    <2>7. Only(d, d', s)
      BY <2>4, <2>6 DEF Only
    <2>8. WI(d'.m_waiting[s], d'.s_waiting[s], d'.m_workers, s, up[s], d'.down[s], wpc[s], link[s])
      <3>1. CASE d'.m_waiting[s] = x.m_waiting[s] /\ d'.s_waiting[s] = x.s_waiting[s] /\ d'.down[s] = x.down[s]
        BY <2>3, <2>4, <2>6, <3>1
      <3>2. CASE /\ x.s_waiting[s] = 1 /\ d'.m_waiting[s] = 0 /\ d'.s_waiting[s] = 0
                 /\ \E m : m.op = "REQUEST" /\ Sent(x, d', s, m)
        <4>1. PICK m : m.op = "REQUEST" /\ d'.down[s] = IF link[s] = "up" THEN Append(d.down[s], m) ELSE d.down[s]
          BY <2>4, <3>2 DEF Sent
        <4>2. WI(1, 1, d.m_workers, s, up[s], d.down[s], wpc[s], link[s])
          BY <2>3, <2>4, <2>5, <3>2
        <4>3. WI(0, 0, d.m_workers, s, up[s], d'.down[s], wpc[s], link[s])
          BY <4>1, <4>2, Given
        <4>4. QED BY <2>4, <2>6, <3>2, <4>3
      <3>3. QED BY <2>6, <3>1, <3>2
    <2>9. QED BY <1>1, <1>2, <2>7, <2>8, OneWorker
  <1>5. QED BY <1>3, <1>4 DEF client_process, findService, Workers

\* sends its heartbeats,
LEMMA DispBeats == ASSUME DispInv, heartbeat PROVE DispInv'
  <1>1. UNCHANGED <<up, wpc, link>> /\ \A w \in Waits : d.down[w] = <<>>
    BY DEF heartbeat, wVars
  <1>2. PICK m : m = [op |-> "HEARTBEAT"]
    OBVIOUS
  <1>3. m.op = "HEARTBEAT"
    BY <1>2
  <1>4. PICK p2 : p2 = [w \in Workers |-> IF w \in Waits /\ link[w] = "up" THEN <<m>> ELSE d.down[w]]
    OBVIOUS
  <1>5. d' = [d EXCEPT !.down = p2]
    BY <1>2, <1>4 DEF heartbeat
  <1>6. /\ Shape(d)' /\ d'.m_workers = d.m_workers /\ d'.m_waiting = d.m_waiting /\ d'.s_waiting = d.s_waiting
        /\ d'.down = p2
    <2>1. PICK ks, a, b, rq, p : d = [m_workers |-> ks, m_waiting |-> a, s_waiting |-> b, s_requests |-> rq, down |-> p]
      BY DEF DispInv, Shape
    <2>2. /\ DOMAIN a = Workers /\ DOMAIN b = Workers /\ DOMAIN rq = Workers /\ \A w \in Workers : IsSeq(rq[w])
      BY <2>1 DEF DispInv, Shape
    <2>3. PICK y : y = d'
      OBVIOUS
    <2>4. y = [m_workers |-> ks, m_waiting |-> a, s_waiting |-> b, s_requests |-> rq, down |-> p2]
      BY <1>5, <2>1, <2>3
    <2>5. /\ y.m_workers = d.m_workers /\ y.m_waiting = d.m_waiting /\ y.s_waiting = d.s_waiting /\ y.down = p2
          /\ y.m_waiting = a /\ y.s_waiting = b /\ y.s_requests = rq
      BY <2>1, <2>4
    <2>6. DOMAIN p2 = Workers
      BY <1>4
    <2>7. Shape(y)
      BY <2>2, <2>4, <2>5, <2>6 DEF Shape
    <2>8. QED BY <2>3, <2>5, <2>7
  <1>7. ASSUME NEW w \in Workers
        PROVE  WI(d.m_waiting[w], d.s_waiting[w], d.m_workers, w, up[w], d.down[w], wpc[w], link[w])'
    <2>1. WI(d.m_waiting[w], d.s_waiting[w], d.m_workers, w, up[w], d.down[w], wpc[w], link[w])
      BY DEF DispInv, WaitInv
    <2>2. CASE w \in Waits /\ link[w] = "up"
      <3>1. p2[w] = <<m>> /\ d.down[w] = <<>>
        BY <1>1, <1>4, <2>2
      <3>2. WI(d.m_waiting[w], d.s_waiting[w], d.m_workers, w, up[w], <<m>>, wpc[w], "up")
        BY <1>3, <2>1, <2>2, <3>1, Beaten
      <3>3. QED BY <1>1, <1>6, <2>2, <3>1, <3>2
    <2>3. CASE ~(w \in Waits /\ link[w] = "up")
      <3>1. p2[w] = d.down[w]
        BY <1>4, <2>3
      <3>2. QED BY <1>1, <1>6, <2>1, <3>1
    <2>4. QED BY <2>2, <2>3
  <1>8. WaitInv'
    BY <1>7 DEF WaitInv
  <1>9. QED BY <1>1, <1>6, <1>8 DEF DispInv

\* A step of the worker, in which the dispatcher may lose or get what is on the way to it.
LEMMA DispWorks ==
    ASSUME DispInv, NEW w \in Workers, NEW p2, d' = [d EXCEPT !.down[w] = p2] \/ (d' = d /\ p2 = d.down[w]),
           NEW q2, up' = [up EXCEPT ![w] = q2] \/ (up' = up /\ q2 = up[w]), NEW pc2, wpc' = [wpc EXCEPT ![w] = pc2],
           NEW lk2, link' = [link EXCEPT ![w] = lk2] \/ (link' = link /\ lk2 = link[w]),
           WI(d.m_waiting[w], d.s_waiting[w], d.m_workers, w, q2, p2, pc2, lk2)
    PROVE  DispInv'
  <1>1. Shape(d) /\ DOMAIN up = Workers /\ DOMAIN wpc = Workers /\ DOMAIN link = Workers
    BY DEF DispInv
  <1>2. /\ Only(d, d', w) /\ d'.m_workers = d.m_workers /\ d'.m_waiting = d.m_waiting /\ d'.s_waiting = d.s_waiting
        /\ d'.down[w] = p2
    <2>1. CASE d' = d /\ p2 = d.down[w]
      BY <1>1, <2>1 DEF Only
    <2>2. CASE d' = [d EXCEPT !.down[w] = p2]
      <3>1. PICK ks, a, b, rq, p : d = [m_workers |-> ks, m_waiting |-> a, s_waiting |-> b, s_requests |-> rq, down |-> p]
        BY <1>1 DEF Shape
      <3>2. /\ DOMAIN a = Workers /\ DOMAIN b = Workers /\ DOMAIN p = Workers /\ DOMAIN rq = Workers
            /\ \A v \in Workers : IsSeq(rq[v])
        BY <1>1, <3>1 DEF Shape
      <3>3. PICK y : y = d'
        OBVIOUS
      <3>4. y = [m_workers |-> ks, m_waiting |-> a, s_waiting |-> b, s_requests |-> rq, down |-> [p EXCEPT ![w] = p2]]
        BY <2>2, <3>1, <3>3
      <3>5. /\ y.m_workers = d.m_workers /\ y.m_waiting = d.m_waiting /\ y.s_waiting = d.s_waiting
            /\ y.s_requests = rq /\ y.m_waiting = a /\ y.s_waiting = b
        BY <3>1, <3>4
      <3>6. DOMAIN y.down = Workers /\ y.down[w] = p2 /\ \A v \in Workers : v # w => y.down[v] = d.down[v]
        BY <3>1, <3>2, <3>4
      <3>7. Shape(y)
        BY <3>2, <3>4, <3>5, <3>6 DEF Shape
      <3>8. Only(d, y, w)
        BY <3>5, <3>6, <3>7 DEF Only
      <3>9. QED BY <3>3, <3>5, <3>6, <3>8
    <2>3. QED BY <2>1, <2>2
  <1>3. DOMAIN up' = Workers /\ up'[w] = q2 /\ \A v \in Workers : v # w => up'[v] = up[v]
    BY <1>1
  <1>4. DOMAIN wpc' = Workers /\ wpc'[w] = pc2 /\ \A v \in Workers : v # w => wpc'[v] = wpc[v]
    BY <1>1
  <1>5. DOMAIN link' = Workers /\ link'[w] = lk2 /\ \A v \in Workers : v # w => link'[v] = link[v]
    BY <1>1
  <1>6. WI(d.m_waiting[w], d.s_waiting[w], d.m_workers, w, up[w], d.down[w], wpc[w], link[w])'
    BY <1>2, <1>3, <1>4, <1>5
  <1>7. QED BY <1>2, <1>3, <1>4, <1>5, <1>6, OneWorker

\* A worker at the head of its loop: it ends, or goes on, with a heartbeat or without,
LEMMA DispRuns == ASSUME DispInv, NEW w \in Workers, run(w) PROVE DispInv'
  <1>1. WI(d.m_waiting[w], d.s_waiting[w], d.m_workers, w, up[w], d.down[w], wpc[w], link[w])
    BY DEF DispInv, WaitInv
  <1>2. CASE /\ wpc' = [wpc EXCEPT ![w] = "ended"] /\ link' = [link EXCEPT ![w] = "refused"]
             /\ d' = [d EXCEPT !.down[w] = <<>>] /\ up' = up
    <2>1. WI(d.m_waiting[w], d.s_waiting[w], d.m_workers, w, up[w], <<>>, "ended", "refused")
      BY <1>1, WorkerEnds
    <2>2. QED BY <1>2, <2>1, DispWorks
  <1>3. CASE wpc' = [wpc EXCEPT ![w] = "poll"] /\ link' = link /\ d' = d /\ up' = up
    <2>1. WI(d.m_waiting[w], d.s_waiting[w], d.m_workers, w, up[w], d.down[w], "poll", link[w])
      BY <1>1, WorkerMoves
    <2>2. QED BY <1>3, <2>1, DispWorks
  <1>4. CASE /\ wpc' = [wpc EXCEPT ![w] = "poll"] /\ link' = link /\ d' = d
             /\ up' = [up EXCEPT ![w] = Append(@, [op |-> "HEARTBEAT"])]
    <2>1. PICK m : m = [op |-> "HEARTBEAT"]
      OBVIOUS
    <2>2. m.op = "HEARTBEAT"
      BY <2>1
    <2>3. WI(d.m_waiting[w], d.s_waiting[w], d.m_workers, w, Append(up[w], m), d.down[w], wpc[w], link[w])
      BY <1>1, <2>2, WorkerBeats
    <2>4. WI(d.m_waiting[w], d.s_waiting[w], d.m_workers, w, Append(up[w], m), d.down[w], "poll", link[w])
      BY <2>3, WorkerMoves
    <2>5. up' = [up EXCEPT ![w] = Append(up[w], m)]
      BY <1>4, <2>1 DEF DispInv
    <2>6. QED BY <1>4, <2>4, <2>5, DispWorks
  <1>5. QED BY <1>2, <1>3, <1>4 DEF run

\* takes a message,
LEMMA DispReceives == ASSUME DispInv, NEW w \in Workers, recv(w) PROVE DispInv'
  <1>1. WI(d.m_waiting[w], d.s_waiting[w], d.m_workers, w, up[w], d.down[w], wpc[w], link[w])
    BY DEF DispInv, WaitInv
  <1>2. wpc[w] = "poll" /\ d.down[w] # <<>> /\ link' = link /\ d' = [d EXCEPT !.down[w] = Tail(@)]
    BY DEF recv
  <1>3. PICK t : t = Tail(d.down[w])
    OBVIOUS
  <1>4. d' = [d EXCEPT !.down[w] = t]
    <2>1. PICK ks, a, b, rq, p : d = [m_workers |-> ks, m_waiting |-> a, s_waiting |-> b, s_requests |-> rq, down |-> p]
      BY DEF DispInv, Shape
    <2>2. QED BY <1>2, <1>3, <2>1
  <1>5. CASE Head(d.down[w]).op # "REQUEST"
    <2>1. PICK x \in {"connect", "top"} : wpc' = [wpc EXCEPT ![w] = x] /\ up' = up
      BY <1>5 DEF recv
    <2>2. WI(d.m_waiting[w], d.s_waiting[w], d.m_workers, w, up[w], t, wpc[w], link[w])
      BY <1>1, <1>2, <1>3, WorkerHears
    <2>3. WI(d.m_waiting[w], d.s_waiting[w], d.m_workers, w, up[w], t, x, link[w])
      BY <2>2, WorkerMoves
    <2>4. QED BY <1>2, <1>4, <2>1, <2>3, DispWorks
  <1>6. CASE Head(d.down[w]).op = "REQUEST"
    <2>1. PICK q : q = Head(d.down[w]).req
      OBVIOUS
    <2>2. processCall(w, q)
      BY <1>6, <2>1 DEF recv
    <2>3. WI(d.m_waiting[w], d.s_waiting[w], d.m_workers, w, up[w], t, "api", link[w])
      BY <1>1, <1>2, <1>3, <1>6, WorkerAsks
    <2>4. CASE handleAP_API(w, q.r) /\ up' = up
      <3>1. wpc' = [wpc EXCEPT ![w] = "api"]
        BY <2>4 DEF handleAP_API
      <3>2. QED BY <1>2, <1>4, <2>3, <2>4, <3>1, DispWorks
    <2>5. CASE \E a : AnswerAtOnce(w, q.r, a)
      <3>1. PICK a : AnswerAtOnce(w, q.r, a)
        BY <2>5
      <3>2. PICK m : m = [op |-> "REPLY", r |-> q.r, answer |-> a]
        OBVIOUS
      <3>3. m.op = "REPLY"
        BY <3>2
      <3>4. up' = [up EXCEPT ![w] = Append(up[w], m)] /\ wpc' = [wpc EXCEPT ![w] = "top"]
        BY <3>1, <3>2 DEF AnswerAtOnce, Reply, DispInv
      <3>5. WI(d.m_waiting[w], d.s_waiting[w], d.m_workers, w, Append(up[w], m), t, "top", link[w])
        BY <2>3, <3>3, WorkerReplies
      <3>6. QED BY <1>2, <1>4, <3>4, <3>5, DispWorks
    <2>6. QED BY <2>2, <2>4, <2>5 DEF processCall, processCmdMsg, processCmdMsg_log
  <1>7. QED BY <1>5, <1>6

\* polls in vain or answers,
LEMMA DispPolls == ASSUME DispInv, NEW w \in Workers, poll_timeout(w) PROVE DispInv'
  <1>1. WI(d.m_waiting[w], d.s_waiting[w], d.m_workers, w, up[w], d.down[w], wpc[w], link[w])
    BY DEF DispInv, WaitInv
  <1>2. PICK x \in {"connect", "top"} : wpc' = [wpc EXCEPT ![w] = x] /\ d' = d /\ up' = up /\ link' = link
    BY DEF poll_timeout
  <1>3. WI(d.m_waiting[w], d.s_waiting[w], d.m_workers, w, up[w], d.down[w], x, link[w])
    BY <1>1, WorkerMoves
  <1>4. QED BY <1>2, <1>3, DispWorks
LEMMA DispAnswers == ASSUME DispInv, NEW w \in Workers, handleAP_API_end(w) PROVE DispInv'
  <1>1. WI(d.m_waiting[w], d.s_waiting[w], d.m_workers, w, up[w], d.down[w], wpc[w], link[w])
    BY DEF DispInv, WaitInv
  <1>2. PICK a : a = IF m_apAPIResponse # NONE THEN m_apAPIResponse ELSE "ok"
    OBVIOUS
  <1>3. PICK m : m = [op |-> "REPLY", r |-> m_reply_to[w], answer |-> a]
    OBVIOUS
  <1>4. m.op = "REPLY"
    BY <1>3
  <1>5. wpc[w] = "api" /\ wpc' = [wpc EXCEPT ![w] = "top"] /\ d' = d /\ link' = link
    BY DEF handleAP_API_end
  <1>6. up' = [up EXCEPT ![w] = Append(up[w], m)]
    BY <1>2, <1>3 DEF handleAP_API_end, Reply, DispInv
  <1>7. WI(d.m_waiting[w], d.s_waiting[w], d.m_workers, w, Append(up[w], m), d.down[w], "top", link[w])
    BY <1>1, <1>4, <1>5, WorkerReplies
  <1>8. QED BY <1>5, <1>6, <1>7, DispWorks

\* and takes a new socket.
LEMMA DispConnects == ASSUME DispInv, NEW w \in Workers, connectToServer(w) PROVE DispInv'
  <1>1. WI(d.m_waiting[w], d.s_waiting[w], d.m_workers, w, up[w], d.down[w], wpc[w], link[w])
    BY DEF DispInv, WaitInv
  <1>2. wpc[w] = "connect" /\ wpc' = [wpc EXCEPT ![w] = "top"] /\ d' = [d EXCEPT !.down[w] = <<>>]
    BY DEF connectToServer
  <1>3. PICK m : m = [op |-> "REGISTER"]
    OBVIOUS
  <1>4. m.op = "REGISTER"
    BY <1>3
  <1>5. PICK k \in 0..Len(up[w]) :
           \/ /\ link' = [link EXCEPT ![w] = IF k = 0 THEN "up" ELSE "pending"]
              /\ up' = [up EXCEPT ![w] = Append(SubSeq(@, 1, k), m)]
           \/ link' = [link EXCEPT ![w] = "refused"] /\ up' = [up EXCEPT ![w] = SubSeq(@, 1, k)]
    BY <1>3 DEF connectToServer
  <1>6. PICK q2, lk2 : /\ \/ q2 = SubSeq(up[w], 1, k) /\ lk2 = "refused"
                          \/ q2 = Append(SubSeq(up[w], 1, k), m) /\ lk2 = IF k = 0 THEN "up" ELSE "pending"
                       /\ up' = [up EXCEPT ![w] = q2] /\ link' = [link EXCEPT ![w] = lk2]
    BY <1>5 DEF DispInv
  <1>7. WI(d.m_waiting[w], d.s_waiting[w], d.m_workers, w, q2, <<>>, "top", lk2)
    BY <1>1, <1>2, <1>4, <1>6, WorkerConnects
  <1>8. QED BY <1>2, <1>6, <1>7, DispWorks

\* Every step keeps the invariant.
LEMMA DispStep == ASSUME DispInv, [RpcNext]_rvars PROVE DispInv'
  <1>1. ASSUME UNCHANGED <<d, up, link, wpc>> PROVE DispInv'
    BY <1>1 DEF DispInv, WaitInv
  <1>2. CASE \E r \in Requests : Abandon(r) \/ \E cmd \in Commands : Ask(r, cmd)
    BY <1>1, <1>2 DEF Abandon, Ask, wVars
  <1>3. CASE \E r \in Requests : handleAP_APIResponse(r) \/ APLoses(r)
    BY <1>1, <1>3 DEF handleAP_APIResponse, APLoses, wVars
  <1>4. CASE \E q \in asked : client_process(q)
    BY <1>4, DispTakes
  <1>5. CASE \E w \in Workers : worker_process(w)
    BY <1>5, DispReads
  <1>6. CASE \E w \in Workers : WorkerStep(w)
    BY <1>6, DispRuns, DispReceives, DispPolls, DispConnects, DispAnswers DEF WorkerStep
  <1>7. CASE heartbeat
    BY <1>7, DispBeats
  <1>8. CASE run_done \/ stopStep \/ UNCHANGED rvars
    BY <1>1, <1>8 DEF run_done, stopStep, rvars, wVars
  <1>9. QED BY <1>2, <1>3, <1>4, <1>5, <1>6, <1>7, <1>8 DEF RpcNext

\* The lists of waiting workers agree and hold a worker at most once, and one that waits is known and has no request on
\* the way, in hand or answered (worker_waiting, service_dispatch, worker_delete, RpcWorker::run), whatever connections
\* are lost and registrations come twice.
THEOREM ListedOnce == RpcSpec => []WaitingOnce
  <1>1. RpcInit => DispInv
    <2>1. SUFFICES ASSUME RpcInit PROVE DispInv
      OBVIOUS
    <2>2. d = NoWorkers /\ DOMAIN up = Workers /\ DOMAIN wpc = Workers /\ DOMAIN link = Workers
      BY <2>1 DEF RpcInit
    <2>3. /\ d.m_workers = {} /\ d.m_waiting = [w \in Workers |-> 0] /\ d.s_waiting = [w \in Workers |-> 0]
          /\ d.s_requests = [w \in Workers |-> <<>>] /\ d.down = [w \in Workers |-> <<>>]
      BY <2>2 DEF NoWorkers, Workers
    <2>4. Shape(d)
      <3>1. \A w \in Workers : IsSeq(d.s_requests[w])
        BY <2>3, HasNone
      <3>2. QED BY <2>2, <2>3, <3>1 DEF Shape, NoWorkers
    <2>5. ASSUME NEW w \in Workers
          PROVE  WI(d.m_waiting[w], d.s_waiting[w], d.m_workers, w, up[w], d.down[w], wpc[w], link[w])
      <3>1. PICK m : m = [op |-> "REGISTER"]
        OBVIOUS
      <3>2. m.op = "REGISTER"
        BY <3>1
      <3>3. PICK q, n : q = Append(<<>>, m) /\ n = <<>>
        OBVIOUS
      <3>4. up[w] = q /\ d.down[w] = n /\ d.m_waiting[w] = 0 /\ d.s_waiting[w] = 0 /\ wpc[w] = "top" /\ link[w] = "up"
        BY <2>1, <2>3, <3>1, <3>3 DEF RpcInit
      <3>5. IsSeq(q) /\ IsSeq(n) /\ ~Has(q, "REPLY") /\ Uniq(q, "REPLY") /\ ~Has(n, "REQUEST") /\ Uniq(n, "REQUEST")
        BY <3>2, <3>3, HasNone, HasAdd, SeqAdd
      <3>6. \A i \in 1..Len(q) : i = 1
        BY <3>3
      <3>7. Token(q, n, "top") /\ Listed(0, 0, d.m_workers, w, q, n, "top") /\ Connected(q, n, "up")
        BY <3>5, <3>6 DEF Token, Listed, Connected
      <3>8. Again(d.m_workers, w, q, n, "top")
        BY <3>5 DEF Again, After, Has
      <3>9. QED BY <3>4, <3>5, <3>7, <3>8 DEF WI
    <2>6. QED BY <2>2, <2>4, <2>5 DEF DispInv, WaitInv
  <1>2. DispInv /\ [RpcNext]_rvars => DispInv'
    BY DispStep
  <1>3. DispInv => WaitingOnce
    <2>1. SUFFICES ASSUME DispInv, NEW w \in Workers
                   PROVE  /\ d.m_waiting[w] <= 1 /\ d.s_waiting[w] = d.m_waiting[w]
                          /\ w \in Waits => /\ w \in d.m_workers
                                            /\ wpc[w] # "api" /\ ~Holds(up[w], "REPLY") /\ ~Holds(d.down[w], "REQUEST")
      BY DEF WaitingOnce
    <2>2. WI(d.m_waiting[w], d.s_waiting[w], d.m_workers, w, up[w], d.down[w], wpc[w], link[w])
      BY <2>1 DEF DispInv, WaitInv
    <2>3. IsSeq(up[w]) /\ IsSeq(d.down[w]) /\ d.m_waiting[w] \in {0, 1} /\ d.s_waiting[w] = d.m_waiting[w]
      BY <2>2 DEF WI, Listed
    <2>4. ASSUME NEW s, NEW op, IsSeq(s) PROVE Holds(s, op) <=> Has(s, op)
      <3>1. PICK S : s \in Seq(S)
        BY <2>4 DEF IsSeq
      <3>2. DOMAIN s = 1..Len(s)
        BY <3>1
      <3>3. QED BY <3>2 DEF Holds, Has
    <2>5. d.m_waiting[w] <= 1
      BY <2>3
    <2>6. w \in Waits => d.m_waiting[w] = 1
      BY <2>3 DEF Waits
    <2>7. d.m_waiting[w] = 1 => w \in d.m_workers /\ wpc[w] # "api" /\ ~Has(up[w], "REPLY") /\ ~Has(d.down[w], "REQUEST")
      BY <2>2 DEF WI, Listed
    <2>8. QED BY <2>3, <2>4, <2>5, <2>6, <2>7
  <1>4. QED BY <1>1, <1>2, <1>3, PTL DEF RpcSpec
=============================================================================
