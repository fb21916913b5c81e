-------------------------------- MODULE Rpc --------------------------------
(***************************************************************************)
(* The RPC server of the bridge: RpcServer and RpcDispatcherBase           *)
(* (rpc/RpcServer.cpp, rpc/RpcDispatcherBase.cpp), the loop of its workers *)
(* (rpc/workers/RpcWorker.cpp) and the two workers there are, of the       *)
(* services "apc" (APInterface/rpc/APCRpcWorker.cpp) and "logger"          *)
(* (logging/LogWorker.cpp).                                                *)
(*                                                                         *)
(* Every worker and the dispatcher are threads that talk over ZeroMQ: a    *)
(* worker has a DEALER socket, the dispatcher one ROUTER.  A worker that   *)
(* hears nothing for HEARTBEAT_LIVENESS polls, or is told DISCONNECT,      *)
(* takes a new socket and registers again.  A client (external) is the     *)
(* socket of one request.                                                  *)
(***************************************************************************)
EXTENDS Integers, Sequences

CONSTANTS Services,           \* of "apc" and "logger", the ones served
          Requests,           \* the clients, one request each
          Commands,           \* what they may ask: records [service, op, auth]
          HEARTBEAT_LIVENESS, \* polls in vain before a worker connects again
          MaxFaults           \* bound on heartbeats missed, overtaken or refused connections

ASSUME RpcAssumption ==
    /\ Services \subseteq {"apc", "logger"}
    /\ HEARTBEAT_LIVENESS \in Nat \ {0}
    /\ Requests \cap {"none", "idle", "waits", "gone", "ok", "denied", "refused"} = {}

Workers  == Services        \* one worker of each service, named after it
NONE     == "none"

VARIABLES d,                 \* the dispatcher: [m_workers, m_waiting and s_waiting (how often each worker
                             \* is in the list of all and in that of its service, where nobody else
                             \* is), s_requests, down: what it sent to each worker]
          dpc, d_done,       \* its thread and its m_done
          up,                \* what each worker sent to the dispatcher
          link,              \* each worker's connection at the ROUTER: "up", "pending" behind what
                             \* is left of the last one, or "refused"
          wpc, m_done, m_liveness,
          m_reply_to,        \* the request each worker is at, or NONE
          apq,               \* AP commands not answered yet
          callback,          \* the answer whose callback the io thread is in, or NONE
          m_apAPIResponse, m_isRespReceived,
          gaveUp,            \* (history) AP commands whose answer came too late or not at all
          asked,             \* requests on the way to the dispatcher: [r, cmd]
          client,            \* each client: "idle", "waits", "gone" or the answer
          mpc,               \* the thread that stops the server
          faults

apiVars  == <<apq, callback, m_apAPIResponse, m_isRespReceived, gaveUp>>
wVars    == <<wpc, m_done, m_liveness, m_reply_to>>
rvars    == <<d, dpc, d_done, up, link, wVars, apiVars, asked, client, mpc, faults>>

Fault == faults < MaxFaults /\ faults' = faults + 1
FaultUnless(b) == IF b THEN UNCHANGED faults ELSE Fault

\* RpcDispatcherBase's constructor: the services it was given, no worker.
NoWorkers == [m_workers |-> {},
              m_waiting |-> [w \in Workers |-> 0], s_waiting |-> [w \in Workers |-> 0],
              s_requests |-> [s \in Services |-> <<>>], down |-> [w \in Workers |-> <<>>]]

\* RpcServer's constructor and start(): the services are known before the dispatcher runs
\* and the registrations of the workers are in its socket.
RpcInit ==
    /\ d = NoWorkers /\ dpc = "run" /\ d_done = FALSE
    /\ up = [w \in Workers |-> <<[op |-> "REGISTER"]>>] /\ link = [w \in Workers |-> "up"]
    /\ wpc = [w \in Workers |-> "top"] /\ m_done = [w \in Workers |-> FALSE]
    /\ m_liveness = [w \in Workers |-> HEARTBEAT_LIVENESS] /\ m_reply_to = [w \in Workers |-> NONE]
    /\ apq = {} /\ callback = NONE /\ m_apAPIResponse = NONE /\ m_isRespReceived = FALSE
    /\ gaveUp = {}
    /\ asked = {} /\ client = [r \in Requests |-> "idle"]
    /\ mpc = "run" /\ faults = 0
-----------------------------------------------------------------------------
(* Clients (external). *)

Ask(r, cmd) ==
    /\ client[r] = "idle"
    /\ client' = [client EXCEPT ![r] = "waits"]
    /\ asked' = asked \cup {[r |-> r, cmd |-> cmd]}
    /\ UNCHANGED <<d, dpc, d_done, up, link, wVars, apiVars, mpc, faults>>

\* The client gives up and closes its socket.
Abandon(r) ==
    /\ client[r] = "waits"
    /\ client' = [client EXCEPT ![r] = "gone"]
    /\ UNCHANGED <<d, dpc, d_done, up, link, wVars, apiVars, asked, mpc, faults>>

\* The ROUTER drops what is for a socket that is gone.
Answered(r, a) == IF client[r] = "waits" THEN [client EXCEPT ![r] = a] ELSE client
-----------------------------------------------------------------------------
(* The dispatcher: operators from one value of d to the next. *)

\* A message to a worker that has no connection here is dropped.
worker_send(x, w, m) == IF link[w] = "up" THEN [x EXCEPT !.down[w] = Append(@, m)] ELSE x

\* The waiting workers of a service, all of them its one worker, take its requests in order; a
\* worker that gets one leaves the list of all. purge_workers only looks.
service_dispatch(x, s) ==
    LET n == IF x.s_waiting[s] < Len(x.s_requests[s]) THEN x.s_waiting[s] ELSE Len(x.s_requests[s])
        sent == [i \in 1..n |-> [op |-> "REQUEST", req |-> x.s_requests[s][i]]]
    IN  [x EXCEPT !.m_waiting[s] = IF n = 0 THEN @ ELSE 0,
                  !.s_waiting[s] = @ - n,
                  !.s_requests[s] = SubSeq(@, n + 1, Len(@)),
                  !.down[s] = IF link[s] = "up" THEN @ \o sent ELSE @]

worker_require(x, w) == [x EXCEPT !.m_workers = @ \cup {w}]

worker_delete(x, w, disconnect) ==
    LET y == IF disconnect THEN worker_send(x, w, [op |-> "DISCONNECT"]) ELSE x
    IN  [y EXCEPT !.s_waiting[w] = 0, !.m_waiting[w] = 0, !.m_workers = @ \ {w}]

\* Mutant: the requests that came meanwhile stay in the queue.
worker_waiting_noDispatch(x, w) ==
    [x EXCEPT !.m_waiting[w] = @ + 1, !.s_waiting[w] = @ + 1]

worker_waiting(x, w) ==
    service_dispatch([x EXCEPT !.m_waiting[w] = @ + 1, !.s_waiting[w] = @ + 1], w)

\* Mutant: a worker that registers again is attached again.
AfterCommand_again(x, w, op) ==
    LET worker_ready == w \in x.m_workers
        y == worker_require(x, w)
    IN  CASE op = "REGISTER" -> worker_waiting(y, w)
          [] op = "REPLY"    -> IF worker_ready THEN worker_waiting(y, w)
                                                ELSE worker_delete(y, w, TRUE)
          [] OTHER           -> IF worker_ready THEN y ELSE worker_delete(y, w, TRUE)

\* Mutant: a worker nobody knows is told nothing.
AfterCommand_silent(x, w, op) ==
    LET worker_ready == w \in x.m_workers
        y == worker_require(x, w)
    IN  CASE op = "REGISTER" -> IF worker_ready THEN worker_delete(y, w, FALSE)
                                                ELSE worker_waiting(y, w)
          [] op = "REPLY"    -> IF worker_ready THEN worker_waiting(y, w)
                                                ELSE worker_delete(y, w, FALSE)
          [] OTHER           -> y

\* The dispatcher after a command of worker w.
AfterCommand(x, w, op) ==
    LET worker_ready == w \in x.m_workers
        y == worker_require(x, w)
    IN  CASE op = "REGISTER" -> IF worker_ready THEN worker_delete(y, w, TRUE)
                                                ELSE worker_waiting(y, w)
          [] op = "REPLY"    -> IF worker_ready THEN worker_waiting(y, w)
                                                ELSE worker_delete(y, w, TRUE)
          [] OTHER           -> IF worker_ready THEN y ELSE worker_delete(y, w, TRUE)

\* Of what a worker sent, only the part from its last registration is left.
OnlyNew(q) == Head(q).op = "REGISTER" /\ \A i \in 2..Len(q) : q[i].op # "REGISTER"

\* A message of a worker. A reply goes to its client only when the worker is known.
worker_process(w) ==
    /\ dpc = "run" /\ up[w] # <<>>
    /\ d' = AfterCommand(d, w, Head(up[w]).op)
    /\ up' = [up EXCEPT ![w] = Tail(@)]
    /\ link' = [link EXCEPT ![w] = IF @ = "pending" /\ OnlyNew(Tail(up[w])) THEN "up" ELSE @]
    /\ client' = IF Head(up[w]).op = "REPLY" /\ w \in d.m_workers
                 THEN Answered(Head(up[w]).r, Head(up[w]).answer) ELSE client
    /\ UNCHANGED <<dpc, d_done, wVars, apiVars, asked, mpc, faults>>

\* Services are made (getService) before the dispatcher runs.
findService(name) == name \in Services

\* A request of a client: queued for its service, refused when there is no such service.
client_process(q) ==
    /\ dpc = "run"
    /\ asked' = asked \ {q}
    /\ IF findService(q.cmd.service)
       THEN /\ d' = service_dispatch([d EXCEPT !.s_requests[q.cmd.service] = Append(@, q)],
                                     q.cmd.service)
            /\ UNCHANGED client
       ELSE client' = Answered(q.r, "refused") /\ UNCHANGED d
    /\ UNCHANGED <<dpc, d_done, up, link, wVars, apiVars, mpc, faults>>

\* The workers in the list of all that wait.
Waits == {w \in Workers : d.m_waiting[w] > 0}

\* The heartbeat of the dispatcher, to the workers that wait. Bound: one at a time.
heartbeat ==
    /\ dpc = "run" /\ Waits # {} /\ \A w \in Waits : d.down[w] = <<>>
    /\ d' = [d EXCEPT !.down = [w \in Workers |->
                IF w \in Waits /\ link[w] = "up" THEN <<[op |-> "HEARTBEAT"]>> ELSE @[w]]]
    /\ UNCHANGED <<dpc, d_done, up, link, wVars, apiVars, asked, client, mpc, faults>>

run_done ==
    /\ dpc = "run" /\ d_done
    /\ dpc' = "ended"
    /\ UNCHANGED <<d, d_done, up, link, wVars, apiVars, asked, client, mpc, faults>>
-----------------------------------------------------------------------------
(* The loop of a worker. *)

\* validatePrivilege: what the command asks for against what the caller has.
Privilege(w) == IF w = "apc" THEN "NONE" ELSE "VIEWER"
validatePrivilege(w, auth) ==
    Privilege(w) = "NONE" \/ auth = "uninitialized" \/ auth \in {"USER", "VIEWER"}

\* A message of this kind is in the queue.
Holds(q, op) == \E i \in DOMAIN q : q[i].op = op

Reply(w, r, a) == up' = [up EXCEPT ![w] = Append(@, [op |-> "REPLY", r |-> r, answer |-> a])]

\* The head of the loop; the heartbeat of the worker belongs to the end of an iteration, and may
\* be right behind a registration or a reply. That one is sent before the dispatcher has read the
\* last is a fault: the interval is m_heartbeat.
run(w) ==
    /\ wpc[w] = "top"
    /\ \/ /\ m_done[w]
          /\ wpc' = [wpc EXCEPT ![w] = "ended"]
          /\ link' = [link EXCEPT ![w] = "refused"] /\ d' = [d EXCEPT !.down[w] = <<>>]
          /\ UNCHANGED <<up, faults>>
       \/ /\ ~m_done[w]
          /\ wpc' = [wpc EXCEPT ![w] = "poll"]
          /\ \/ UNCHANGED <<up, faults>>
             \/ /\ FaultUnless(~Holds(up[w], "HEARTBEAT"))
                /\ up' = IF link[w] = "refused" THEN up
                         ELSE [up EXCEPT ![w] = Append(@, [op |-> "HEARTBEAT"])]
          /\ UNCHANGED <<d, link>>
    /\ UNCHANGED <<dpc, d_done, m_done, m_liveness, m_reply_to, apiVars, asked, client, mpc>>

\* Mutant: the answer of the last command is not cleared.
handleAP_API_noClear(w, r) ==
    /\ m_isRespReceived' = FALSE /\ UNCHANGED m_apAPIResponse
    /\ apq' = apq \cup {r} /\ UNCHANGED <<callback, gaveUp>>
    /\ m_reply_to' = [m_reply_to EXCEPT ![w] = r]
    /\ wpc' = [wpc EXCEPT ![w] = "api"]

\* handleAP_API: registers the callback and sends the command. The connection test and the
\* queue may refuse it; then nothing will come.
handleAP_API(w, r) ==
    /\ m_isRespReceived' = FALSE /\ m_apAPIResponse' = NONE
    /\ apq' = apq \cup {r} /\ UNCHANGED <<callback, gaveUp>>
    /\ m_reply_to' = [m_reply_to EXCEPT ![w] = r]
    /\ wpc' = [wpc EXCEPT ![w] = "api"]

AnswerAtOnce(w, r, a) == /\ Reply(w, r, a)
                         /\ wpc' = [wpc EXCEPT ![w] = "top"]
                         /\ UNCHANGED <<apiVars, m_reply_to>>

\* Of the commands of the APC only AP_API waits for something.
processCmdMsg(w, q) ==
    IF q.cmd.op = "AP_API" THEN handleAP_API(w, q.r) /\ UNCHANGED up
                           ELSE AnswerAtOnce(w, q.r, "ok")

\* LogWorker: levels of log4cxx are read and set in place.
processCmdMsg_log(w, q) == AnswerAtOnce(w, q.r, "ok")

\* processCall of a request.
processCall(w, q) ==
    IF ~validatePrivilege(w, q.cmd.auth) THEN AnswerAtOnce(w, q.r, "denied")
    ELSE IF w = "apc" THEN processCmdMsg(w, q) ELSE processCmdMsg_log(w, q)

\* A message of the dispatcher.
recv(w) ==
    /\ wpc[w] = "poll" /\ d.down[w] # <<>>
    /\ d' = [d EXCEPT !.down[w] = Tail(@)]
    /\ m_liveness' = [m_liveness EXCEPT ![w] = HEARTBEAT_LIVENESS]
    /\ LET m == Head(d.down[w]) IN
       IF m.op = "REQUEST" THEN processCall(w, m.req)
       ELSE /\ wpc' = [wpc EXCEPT ![w] = IF m.op = "DISCONNECT" THEN "connect" ELSE "top"]
            /\ UNCHANGED <<up, apiVars, m_reply_to>>
    /\ UNCHANGED <<dpc, d_done, link, m_done, asked, client, mpc, faults>>

\* Nothing of the dispatcher is on its way to the worker, and nothing will come by itself.
Deaf(w) == link[w] = "refused" \/ (up[w] = <<>> /\ w \notin Waits)

\* A poll in vain; the last one is a fault unless the dispatcher had nothing to say.
poll_timeout(w) ==
    /\ wpc[w] = "poll" /\ d.down[w] = <<>>
    /\ FaultUnless(m_liveness[w] > 1 \/ Deaf(w))
    /\ m_liveness' = [m_liveness EXCEPT ![w] = @ - 1]
    /\ wpc' = [wpc EXCEPT ![w] = IF m_liveness[w] = 1 THEN "connect" ELSE "top"]
    /\ UNCHANGED <<d, dpc, d_done, up, link, m_done, m_reply_to, apiVars, asked, client, mpc>>

\* connectToServer: a new socket of the same identity. What waited in the old one is gone, except
\* what the ROUTER has already (a prefix of it). The new connection counts once that is read; or the
\* ROUTER refuses it, an identity it knows, for not having seen the end of the old one. The worker
\* ends with m_done = false.
connectToServer(w) ==
    /\ wpc[w] = "connect"
    /\ \E kept \in 0..Len(up[w]) :
          \/ /\ UNCHANGED faults
             /\ link' = [link EXCEPT ![w] = IF kept = 0 THEN "up" ELSE "pending"]
             /\ up' = [up EXCEPT ![w] = Append(SubSeq(@, 1, kept), [op |-> "REGISTER"])]
          \/ /\ Fault
             /\ link' = [link EXCEPT ![w] = "refused"]
             /\ up' = [up EXCEPT ![w] = SubSeq(@, 1, kept)]
    /\ d' = [d EXCEPT !.down[w] = <<>>]
    /\ m_done' = [m_done EXCEPT ![w] = FALSE]
    /\ m_liveness' = [m_liveness EXCEPT ![w] = HEARTBEAT_LIVENESS]
    /\ wpc' = [wpc EXCEPT ![w] = "top"]
    /\ UNCHANGED <<dpc, d_done, m_reply_to, apiVars, asked, client, mpc>>

\* The AP answers (io thread): first the answer is stored, then the flag is set under the lock.
handleAP_APIResponse(r) ==
    \/ /\ r \in apq /\ callback = NONE
       /\ apq' = apq \ {r} /\ callback' = r
       /\ m_apAPIResponse' = r
       /\ UNCHANGED <<d, dpc, d_done, up, link, wVars, m_isRespReceived, gaveUp, asked, client, mpc, faults>>
    \/ /\ callback = r
       /\ callback' = NONE /\ m_isRespReceived' = TRUE
       /\ UNCHANGED <<d, dpc, d_done, up, link, wVars, apq, m_apAPIResponse, gaveUp, asked, client, mpc, faults>>

\* No answer will come: the AP is not connected, the queue refuses the command or the AP is lost.
APLoses(r) ==
    /\ r \in apq
    /\ apq' = apq \ {r}
    /\ UNCHANGED <<d, dpc, d_done, up, link, wVars, callback, m_apAPIResponse, m_isRespReceived,
                   gaveUp, asked, client, mpc, faults>>

\* The wait is over: a command the AP has not answered is answered without it.
GivesUp(w) == gaveUp' = gaveUp \cup ({m_reply_to[w]} \cap apq)

\* Mutant: the wait has no time limit.
handleAP_API_end_untimed(w) ==
    /\ wpc[w] = "api"
    /\ m_isRespReceived
    /\ Reply(w, m_reply_to[w], IF m_apAPIResponse # NONE THEN m_apAPIResponse ELSE "ok")
    /\ GivesUp(w)
    /\ m_reply_to' = [m_reply_to EXCEPT ![w] = NONE]
    /\ wpc' = [wpc EXCEPT ![w] = "top"]
    /\ UNCHANGED <<d, dpc, d_done, link, m_done, m_liveness, apq, callback, m_apAPIResponse,
                   m_isRespReceived, asked, client, mpc, faults>>

\* The wait of handleAP_API ends, by the flag or, at any time, by AP_RESPONSE_TIMEOUT; the callback
\* stays registered.
handleAP_API_end(w) ==
    /\ wpc[w] = "api"
    /\ Reply(w, m_reply_to[w], IF m_apAPIResponse # NONE THEN m_apAPIResponse ELSE "ok")
    /\ GivesUp(w)
    /\ m_reply_to' = [m_reply_to EXCEPT ![w] = NONE]
    /\ wpc' = [wpc EXCEPT ![w] = "top"]
    /\ UNCHANGED <<d, dpc, d_done, link, m_done, m_liveness, apq, callback, m_apAPIResponse,
                   m_isRespReceived, asked, client, mpc, faults>>

WorkerStep(w) == run(w) \/ recv(w) \/ poll_timeout(w) \/ connectToServer(w) \/ handleAP_API_end(w)
-----------------------------------------------------------------------------
(* RpcServer::stop. *)

stop ==
    \/ /\ mpc = "run"
       /\ mpc' = "join" /\ m_done' = [w \in Workers |-> TRUE]
       /\ UNCHANGED d_done
    \/ /\ mpc = "join" /\ \A w \in Workers : wpc[w] = "ended"
       /\ mpc' = "joinDispatch" /\ d_done' = TRUE
       /\ UNCHANGED m_done
    \/ /\ mpc = "joinDispatch" /\ dpc = "ended"
       /\ mpc' = "stopped"
       /\ UNCHANGED <<m_done, d_done>>
stopStep ==
    /\ stop
    /\ UNCHANGED <<d, dpc, up, link, wpc, m_liveness, m_reply_to, apiVars, asked, client, faults>>

RpcNext ==
    \/ \E r \in Requests : \/ \E cmd \in Commands : Ask(r, cmd)
                           \/ Abandon(r) \/ handleAP_APIResponse(r) \/ APLoses(r)
    \/ \E q \in asked : client_process(q)
    \/ \E w \in Workers : worker_process(w) \/ WorkerStep(w)
    \/ heartbeat \/ run_done \/ stopStep

RpcSpec == RpcInit /\ [][RpcNext]_rvars

\* The threads run, the ROUTER serves every peer, the AP answers or is lost, and a stop that
\* was begun goes on. Whether and when the server is stopped is not assumed.
RpcFairness ==
    /\ \A w \in Workers : WF_rvars(WorkerStep(w)) /\ WF_rvars(worker_process(w))
    /\ \A r \in Requests :
          /\ WF_rvars(handleAP_APIResponse(r) \/ APLoses(r))
          /\ WF_rvars(\E q \in asked : q.r = r /\ client_process(q))
    /\ WF_rvars(heartbeat) /\ WF_rvars(run_done) /\ WF_rvars(mpc # "run" /\ stopStep)

FairRpcSpec == RpcSpec /\ RpcFairness
-----------------------------------------------------------------------------
(* Properties *)

\* The two lists of waiting workers (worker_waiting, service_dispatch, worker_delete) agree and
\* hold a worker at most once, whatever registrations, replies and lost connections come: a
\* worker twice in a list would be deleted twice and be given a request while it has one. One that
\* waits has no request on the way or in hand, and is known.
WaitingOnce ==
    \A w \in Workers :
       /\ d.m_waiting[w] <= 1 /\ d.s_waiting[w] = d.m_waiting[w]
       /\ w \in Waits => /\ w \in d.m_workers
                         /\ wpc[w] # "api" /\ ~Holds(up[w], "REPLY") /\ ~Holds(d.down[w], "REQUEST")

\* The answer of AP_API a client gets is the AP's answer to its own command, or to one for which
\* the worker had waited AP_RESPONSE_TIMEOUT in vain (handleAP_API, handleAP_APIResponse): the
\* callback has no request to go by.  An answer that was given to its client is never given again.
AnswerIsOwn == \A r \in Requests : client[r] \in Requests => client[r] \in {r} \cup gaveUp

\* A request is answered, unless a connection was lost or the server is stopped.
RequestAnswered ==
    \A r \in Requests : client[r] = "waits" ~> (client[r] # "waits" \/ faults > 0 \/ mpc # "run")

\* A worker that lost its connection, or that the dispatcher deleted, ends up registered for good
\* (connectToServer, worker_process), unless the server is stopped.
WorkerComesBack == \A w \in Workers : <>[](w \in d.m_workers \/ mpc # "run")

\* RpcServer::stop returns, unless a worker lost its connection.
StopReturns == (mpc # "run") ~> (mpc = "stopped" \/ faults > 0)

\* cancel() ends the work loop (RpcWorker.h:82): the workers cancelled by stop() all end.
CancelEndsLoop == (mpc = "join") ~> (\A w \in Workers : wpc[w] = "ended")
=============================================================================
