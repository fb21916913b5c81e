# Verification of the AP Bridge

The AP Bridge (APC) connects the Manager of a wireless network, over TCP, with an access point
mote (AP), over a serial line.  This directory holds TLA+ models of the bridge, the TLC runs that
check them, and machine-checked proofs.  `PROJECT.json` maps every definition to the source lines it
stands for and lists, line by line, what is hard to test in the code.

## 1. Inventory

| Component | State | Operations | Talks to |
|---|---|---|---|
| `CAPCCache` | ring of packets, 64-bit last number, fill, write position, replay cursor | `clear`, `addPacket`, `confirmedSeqNum`, `prepForGet`, `getNextPacket` | called by `CAPCClient` |
| `CAPCClient` | session state, session id, connector, reconnection timer and deadline | `start`, `stop`, `sendData` and the like, `messageReceived`, `apcStarted`, `apcConnected`, `apcDisconnected`, reconnection timer | coupler above; connectors below, through the notification thread |
| `CAPCConnector`, `CAPCKATimer` | working, connected, ring of output buffers, keep-alive timers | `start`, `connect`, `disconnect`, `stop`, `sendData`, read, write and keep-alive handlers | TCP; notification thread |
| `CAPCSerializer` | partial message | `prepMsg`, `dataReceived` | connector |
| `CAPCCtrlNotifThread` | queue of notifications | enqueue; hand on one at a time | connector to client |
| `CIOSrvThread` | the thread of the client's `io_service` | start, stop (joins) | runs reads and timers |
| `CAPMTransport` | output queue, pending flag, two packet ids, retry count, four timers, flow flags, join flags | `insertMsg`, response and notification handlers, timer handlers, `enableJoin`/`disableJoin`, boot handling | serial port; coupler, through callbacks |
| `CAPMSerializer` | count of consecutive boot events | `handleCmd`, `prepMsg` | transport, coupler |
| `CSerialPort`, `CHDLC` | pool of output buffers, partial frame | `write`, `handleRead`, open, close; encode, add a byte, checksum | transport |
| `CAPCoupler` | state machine with an event mask, AP information, clock settings, blackout | event handlers, `runStateMachine_p`, `prepareAP_p`, `handleReadyForTime`, leap check | everything |
| `CGPS` | reader thread, status, start of the stable signal | `start`, `stop`, the reader's loop | coupler; GPS daemon |
| RPC server, dispatcher, workers | lists of workers and of waiting workers, requests, heartbeats | registration, dispatch, reply, reconnection, `stop` | clients; coupler (`AP_API`, `SET_AP_CLKSRC`) |
| `IChangeNodeState`, watchdog wrapper | request to stop, mutex, condition | `stop`, `waitSignal`, signal handler | `apc_main` |
| Log publisher | queue, thread | `append`, publish, shutdown | all |
| `apc_main`, configuration | order of start and stop, configuration file | | all |

What is hard here:

* **Concurrency.** The transport has an `io_service` thread and several callers of `insertMsg`; its
  lock is held for short sections only, and flow control is done outside it.  The client has four
  threads: the coupler's, the transport's (which sends data), the io thread and the notification
  thread.  The coupler's state machine shares an event mask with three others.  Notifications are
  handled later than the facts they report.
* **Timers.** A `deadline_timer` whose handler is already queued cannot be cancelled.
* **Failure.** Bytes and frames are lost and repeated on the serial line, the AP hangs or boots at any
  time, TCP connections break with data in transit, heartbeats are lost, the process is killed.
* **Numbers.** 32 bits on the wire, 64 in the cache; one-bit packet ids on the serial line; times of
  the day around a midnight with a leap second.

What makes the parts correct: the cache finds the packet it means; commands are carried out in order
and at most once; notifications are handled once; no command is left without a transmission or a
timer; a paused Manager is resumed; the join is started; the Manager gets the packets of a session in
order, once, and misses none but those the cache overwrote; an offline client does not stay offline;
the bridge returns to service after every failure; frames and messages handed up are those sent; an
RPC client gets the answer to its own request; the AP gets no time in the blackout of a leap second;
an accepted setting survives; calls of `stop` return.

## 2. Modules

| Module | Models | Role |
|---|---|---|
| `APCWindow` | what the cache promises | abstract specification: a history and a window over it |
| `APCCache` | `CAPCCache` | every operation an action; word sizes are constants; refines `APCWindow` |
| `APCOutputProofs` | | TLAPS proofs for `APCCache` and `APCStream`: the cache and the bytes sent from it |
| `APMTransport` | `CAPMTransport`, `CAPMSerializer::handleCmd`, the coupler's reactions | component without its environment |
| `APMote`, `MCMote` | AP mote and serial line (external) | composes them with the transport; properties |
| `APMoteProofs` | | proofs for `APMote`: types, notifications, join, queue and timer; order of the commands |
| `APCChannel` | what the session promises | abstract specification: a channel that keeps order, with a bounded memory |
| `APCSession` | `CAPCClient`, `CAPCConnector`, notification and io threads; Manager and TCP external | component, environment and properties; refines `APCChannel` |
| `APCSessionProofs` | | proofs for `APCSession`: life of the connectors; delivery of the packets; refinement of `APCChannel` |
| `APCStream`, `MCStream` | `CAPCSerializer`, output buffers and keep-alive timers of `CAPCConnector` | the bytes under `APCSession` |
| `APCoupler`, `MCCoupler` | `CAPCoupler`'s state machine, with transport and client reduced to what it sees of them | composition of the two sides |
| `APCouplerProofs` | | proof for `APCoupler`: a settled bridge has a joined AP |
| `HDLC` | `CHDLC` | framing and check sequence as operators over bytes |
| `SerialPort`, `MCSerial` | `CSerialPort` | the bytes under `APMTransport` |
| `SerialPortProofs` | | proofs for `HDLC` and `SerialPort`: the pool of output buffers, the decoder, delivery on the line |
| `APTime` | `CGPS`, leap seconds, `handleReadyForTime` | the time of the AP |
| `APTimeProofs` | | proofs for `APTime`: blackout, trusted receiver |
| `Rpc`, `MCRpc` | RPC server, dispatcher, two workers; clients and ZeroMQ external | component, environment and properties |
| `RpcProofs` | | proofs for `Rpc`: answers, lists of waiting workers |
| `APCMain` | `main`, configuration, request to stop, log publisher, `SET_AP_CLKSRC` | life of the process, crashes and restarts |
| `APCMainProofs` | | proofs for `APCMain`: accepted clock source, log |

The `MC` modules hold values of constants that a `.cfg` cannot write.

### APCCache
One variable per field of the class, `ret` for the result of the last call and `history` for the
packets added since `clear()`.  `history` is not in the code; it is what the properties compare the
ring with.  The type, size and bytes of a packet are one value.  `Word` and `DWord` stand for 2^32
and 2^64; the subtraction that can wrap below zero is `Sub64`.

### APMTransport, APMote
`m_...` variables are the fields.  `m_outputTimer` has `armed` and `due`: cancelling clears `armed`
only.  A call that takes the lock several times is several actions: `insertMsg` (queue),
`insertMsg_send`, `insertMsg_mark` (test of the flow flag), `insertMsg_tell` (callback),
`insertMsg_set` (flag); `handleResponse`, `handleResponse_resume`, `handleResponse_end`.  `work[t]`
is what thread `t` has still to do, so that a handler of the io thread that inserts commands (the
coupler's answer to an event of the AP or to its request for the time) is interleaved with the
applications' inserts.  A command has a number of its own; queries have 0 because carrying them out
twice does no harm.  Statistics, logs, payloads and ages are left out; the age check is a choice
(`MayAge`).

The mote is modelled from what the transport expects: it carries out a command once per packet id
and repeats its answer for a repeated id; a NACK counts as an answer; it repeats a notification until
it is accepted, but not while the acknowledgement is still under way; after a boot it takes commands
once its boot event was acknowledged; a boot takes longer than an acknowledgement in transit.

### APCSession
`m_...` variables are the fields of the client.  The cache is the window `[last, num]`, which is what
the proofs establish for `CAPCCache`.  Connectors are numbered, 0 is `nullptr`.  Each connection has
frames in both directions; `Break` loses those in transit and swallows what is written afterwards.
`stop()` is four actions: `stop` (state, timer, DISCONNECT written), `stop_close` (the connector),
`stop_wait` (the signal, or one second), `stop_join` (the io thread).  The client's lock is held over
the first two (`Unlocked`).  The io thread runs one handler at a time (`IOFree`), but the connector
can be stopped by another thread while it hands on frames.  The Manager is modelled from the protocol
the client expects: it gives a new session an id, recognises the id of a session it knows, answers
with the last number it got, and closes older connections when a new one takes the session over.
Packets from the Manager are not modelled; a failed keep-alive is `connectionFails`, a write without a
buffer is a write that fails.  A packet that the serializer refuses ends the session instead of the
connection (`WriteErrors`); an answer of another protocol version is treated as one for another session.

### APCStream
One direction of a connection.  `sendData` copies a message into the next of the `NumOutBufs` buffers
and starts an asynchronous write; `transmit` is what the operating system takes of it, and its
completion gives a buffer back by counting.  The keep-alive timer is two steps: `handle_timer_p` looks
at `m_isWorking` under the timer's lock and re-arms, the callback (`ka_timeout_tx_p`) runs after it, so
that the connector may be stopped in between, and it waits in vain when no buffer is free because
only its own thread could free one.  `ka_timeout_rx_p` is a silence of the peer.  `dataReceived` is
given reads of every length, and messages no sender of this program makes (`Alien`).

### HDLC, SerialPort
`HDLC` has the encoder, the byte-wise decoder and the 16-bit check sequence (the table is computed from
its polynomial).  In `SerialPort` two threads are in `write()` at once: `writeAlloc` takes a buffer from
the pool under its lock, `writeGet` takes the reference, `writeFill` fills it and starts the write, all
without a lock.  The reference `writeGet` takes may be moved by another thread's `push_back` before it is used;
what is then read is undefined in C++, and the model takes the two outcomes the build can produce, the frame or
an empty one, for which the old memory is either still there or reused.  The port may fail, be closed and be opened again; the line may change a byte to a
flag or an escape.

### APCoupler
`sm`, `nt` and `io` are the places of the state machine, the notification thread and the transport's
thread; reports of the latter two are two steps, the call into the transport (join disabled) and the
noting of the event, as `sendEvent_p` has them.  `waitEvents_p` takes all events and discards those not
in the mask.  A command to the AP is carried out and answered in one step, which `APMTransport`
justifies.  The AP may hang, boot, be reset by a pulse, refuse a version or send boot events without
end; the Manager may drop the session and ask for a reset or a disconnection of the AP, and its host may be
out of reach (`reachable`), from the start or from some time on, so that every start of the client fails.
`startJoin_p` is two steps behind the look at the flags, and so are the flags of a lost AP; `late`, which is not
in the code, says that an AP was lost between the look and the end of `startJoin_p`.

### Rpc
The dispatcher's state is the record `d`; each action on it is the handling of one message
(`client_process`, `worker_process`) or of its heartbeat timer.  The waiting lists are kept by
`worker_waiting`, `service_dispatch`, `worker_delete` as in the code; a service has one worker, so what
a list holds is how often each worker is in it.  A worker has `m_liveness` and takes
a new socket when it runs out: `link` says whether the ROUTER already knows the new one or still has
the old under the same identity.  `AP_API` is a command to the AP whose answer comes on the io thread
in two steps (value, then flag), with the worker waiting for the flag.  The wait may end at any time, so the
AP may answer after it; `gaveUp`, which is not in the code, keeps the commands that were answered without the
AP.  A heartbeat of the worker may be right behind a registration or a reply; only a second one before the
dispatcher has read the first counts as a fault.

### APTime
Time goes in ticks, a day has `Day` of them and `LeapDay` ends with a leap second.  The wait of the state
machine at its start, the leap check timer and the blackout are the code's arithmetic on times of the
day.  CGPS readers are numbered by the call of `start` that made them, because the code loses one when it
starts the next; they share `m_readThreadRunning`.  `CGPS::stop` is called by the transport's thread (the AP has
another clock source) and by `CAPCoupler::stop` on `main`'s thread; a reader that is new has not set the flag yet.
`ntp_gettime` is external: it announces the leap second on its day, may still answer TIME_WAIT on later ones,
and answers TIME_ERROR whenever the clock is not synchronised; `ntpIsLeapDay` is the code's test of that answer.

### APCMain
`main`'s start and stop order, with a failure at each step that can fail.  `conf` is the configuration
file, which outlives the process; `write_ini` rewrites it in place and may be cut off by `Crash`
(`torn`).  A signal runs its handler on any thread, also on one that is in `stop()` or `waitSignal()` and holds
the mutex.  A part that was told to stop may end (`threadEnds`) and need not: other modules show parts that
hang.  Threads log while the publisher is shut down.

## 3. Runs

| Run | Checks | Bounds | States |
|---|---|---|---|
| `cache` | `IInv`, refinement `WindowSpec` | ring of 3, word 4, 9 packets: the number on the wire wraps twice, the ring three times | 145 thousand |
| `order` | `TransportTypeOK`, `InOrderAtMostOnce`, `AnsweredWasHandled`, `QueueIsServed`, `NotifiedOnce`, `PendingHasTimer` | queue of 2, 2 commands of equal priority and those a notification causes, age check, 1 retry, 1 notification or event, 2 faults, 1 refusal | 3.7 million |
| `flow` | liveness `QueueDrains` | high watermark 2, low 1, pings, 2 retries, port re-opened by the second, 1 NACK, 2 faults | 86 thousand |
| `boot` | `JoinStarted`, `InOrderAtMostOnce` | 2 boots, `APM_MAX_BOOT_EVENTS` 1, queue of 2, 2 `enableJoin`, 1 other call of the coupler, 1 retry, an AP that does not answer ends the process | 4.5 million |
| `session` | `DeliveredInOrder`, `GapsOnlyFromOverflow`, `OneConnector`, `ReplayHasConnector`, refinement `SessionIsChannel`; liveness `OfflineEnds` | cache of 2, 3 packets, 2 connections, 1 session ended by the Manager | 538 thousand |
| `coupler` | `SettledIsJoined`; liveness `ServiceReturns`, `StopReturns` | an old and a new AP, 1 reset, 1 fault or request of the Manager, a Manager out of reach at the start or later, boots without end | 473 thousand |
| `line` | `BufferHasOneHolder`, `FramesReal`, `CleanIsDelivered`, `Resynchronised` | 2 writers, 3 messages that hold a flag and an escape, 2 faults | 198 thousand |
| `stream` | `HandedUpIsSent`, `InputFits`, `BuffersAccounted` | 2 buffers, 6 messages of which two are refused, 1 keep-alive, 2 faults | 568 thousand |
| `rpc` | `WaitingOnce`, `AnswerIsOwn`; liveness `RequestAnswered`, `WorkerComesBack`, `StopReturns` | 1 service, 2 clients, 3 commands, an AP that answers late, 1 fault | 501 thousand |
| `time` | `NoTimeInBlackout`, `OnlyBlackoutRefuses`, `TimeNeedsLock`; liveness `GpsStopReturns` | 3 days, started at 4 times before, at the beginning of and in the blackout, every answer of `ntp_gettime`, 2 boots | 2.0 million |
| `main` | `AcceptedSurvives`, `LogAccounted`; liveness `StopEnds` | 2 changes of the clock source, 2 log messages, 1 signal, 1 crash, 2 starts | 243 thousand |
| `gps_doc` | `StartedReads`, violated | 2 boots | |

The bounds are small on purpose, but each run reaches what it is about: a full queue and a full ring, a
repeated command with both answers in transit, a boot in the middle of a join, a connection that breaks
during the replay of another one's packets, a worker that registers while its late reply is on the way,
a crash between the write of the file and the answer.  Every property has a mutant of the model, a
plausible slip in the code, that breaks it under the same bounds.  `CHECK_DEADLOCK FALSE` is set where the
bounds on calls let the system come to rest.  `RpcBoth.cfg` is a larger instance of `rpc` for its two
invariants: both services, two clients, 1 fault, 14 million states.  `CouplerTwo.cfg` checks the invariant of
`coupler` with two faults, 8.3 million states.

### What the code does not do
`gps_doc` shows a fault: `CGPS::start` is called at every boot of an AP on GPS time, and a second call
makes a second reader; the end of the first clears the flag both share, so that the second ends as
well and the GPS status is frozen.  `IGPS.h` says that `start` starts reading.

More configurations, kept beside the runs, have a property that says what the repository says and that
TLC refutes:

| Configuration | Module | Property | What happens |
|---|---|---|---|
| `CacheDoc.cfg` | `APCCache` | `OverflowWarnsBeforeLoss` | `APCCache.h` says the overflow answer of `addPacket` announces that the *next* write can rewrite a packet; it comes with the call that has just done so |
| `EmptyDoc.cfg` | `APCCache` | `EmptyIsNotFound` | `APCCache.h` says that `getNextPacket` answers NOTFOUND when no packet is in the cache; when a confirmation empties the cache under a replay it answers OUTBUFOVERFLOW with the slot that is written next.  The replay of the client holds its lock and does not meet this |
| `FlowDoc.cfg` | `MCMote` | `PauseEnds` | with two threads that insert, the flow flag, which `insertMsg` tests, announces and writes outside the lock, can end as NORMAL while the Manager was told PAUSE last; with the queue empty nothing resumes it |
| `PriorityDoc.cfg` | `MCMote` | `ResponseTakesLastSent` | `handleReadyForTime` and `disconnectAP` queue a command before the one on the line; the response of the latter takes the former off the queue |
| `RetryDoc.cfg` | `MCMote` | `GivesUpAfterAllRetries` | an expiry of the retry timer that is due when the response comes still spends a retry; the AP can be declared lost before all retries were sent |
| `StopDoc.cfg` | `APCSession` | `StopReturns` | `stop()` before the START notification of the connector was handled does not close it, and joins the io thread of a session that lives on |
| `LostDoc.cfg` | `MCCoupler` | `LostIsReset` | a loss of the AP reported while `synchStop_p` waits is discarded; the AP is not reset by the state machine |
| `BufferDoc.cfg` | `MCStream` | `FreeBufferIsFree` | output buffers are given back by counting; with writes served in part and in turn the next one given out may still be in use |
| `CancelDoc.cfg` | `MCRpc` | `CancelEndsLoop` | `connectToServer` clears `m_done`: a `cancel()` during a reconnection is forgotten |
| `SignalDoc.cfg` | `APCMain` | `SignalEnds` | the signal handler takes a mutex its own thread may hold (a TODO in `ChangeNodeState.cpp` asks whether it is safe) |
| `GpsStopDoc.cfg` | `APTime` | `GpsStops` | `IGPS.h` says that `stop` stops the GPS thread; `start` waits for the thread to be made, not for its first line, so a stop may clear the flag before the reader sets it, and joins a reader that goes on |
| `CouplerStopDoc.cfg` | `MCCoupler` | `StopAlwaysReturns` | the loop that starts the client looks at no event; while the Manager cannot be reached, `CAPCoupler::stop` joins a thread that goes on trying |
| `LateJoinDoc.cfg` | `MCCoupler` | `RunningIsJoined` | an AP lost between `enableJoin`'s look at the flags and the end of `startJoin_p` is marked as running; its next boot is taken for a reboot, which does not mark it as connected, and the next `enableJoin` sends no JOIN |

Observations without a line of the repository that says otherwise, each excluded by a stated condition
of a property or a bound of a run:

* a CONNECT answer that the io thread is parsing while `stop()` closes the connector is handled after
  the disconnect, and `apcConnected` uses a null connector (`ReplayHasConnector` speaks of a running
  client);
* an OFFLINE notification handled after `stop()` arms a timer that opens a second connector in the next
  session (`session` has one call of `start`);
* a bridge started in the very second the blackout begins computes a wait of 0 seconds, skips it, and
  sets the blackout of the next day (`NoTimeInBlackout` names this second; the run has it among its starts);
* a clock that is not synchronised at the check of the leap day (TIME_ERROR) gives no blackout, and one that
  still has the announcement the day after (TIME_WAIT) gives one more, where the comment of `ntpIsLeapDay` speaks
  of the next midnight (`NoTimeInBlackout` and `OnlyBlackoutRefuses` say so);
* an answer of the AP after `AP_RESPONSE_TIMEOUT` is taken for the answer to the next `AP_API` request
  (`AnswerIsOwn` allows the answer of a command that was given up, and of no other);
* `m_isRunning` is written behind the calls it speaks of, by three threads: it can be FALSE for an AP that
  has joined, whose next boot is then reported as a first one (`JoinStarted` holds of both kinds of boot);
* an AP that boots without end is declared lost but not reset by the transport; when that report is one
  that `synchStop_p` forgets (`LostDoc.cfg`), the state machine goes on with an AP it takes for connected and
  waits in its running state until the AP boots by itself (`SettledIsJoined` and `ServiceReturns` leave this
  case out);
* `SET_AP_CLKSRC` served after the coupler was stopped uses a null transport; the process dies
  (`APCMain` has it as a crash);
* a crash in the middle of the rewriting of the configuration file leaves a file cut off
  (`AcceptedSurvives` excludes it).

### Fairness
* Transport: threads inside a call go on (weak fairness); a running timer expires; handlers of the io
  thread that are ready again and again get their turn (strong fairness, since `io_service` runs handlers
  first come, first served); the mote reads its line.  Faults are bounded, so a repeated command gets
  through.
* Session: the notification thread, the io thread with its timers and the Manager run on; a read that
  can end does so in the end although the stop of another thread may disable it for a while (strong
  fairness of `handle_read_end`); a broken connection is noticed (the keep-alive timer); the deadline of
  the reconnection passes.
* Coupler: each thread goes on, also out of a wait with a time limit; an AP that was reset boots; a
  Manager that can be reached accepts connections, and connections to one that is gone end.  That the client's
  `stop` returns is not assumed (`StopDoc.cfg` shows that it need not): `ServiceReturns` and `StopReturns` name a
  state machine held in it.
* RPC: workers, dispatcher and its heartbeat run; the wait for the AP ends, with or without its answer; a
  stop that was begun goes on.
* Time: readers loop (`gps_read` has a time limit) and the join in `CGPS::stop` returns when they end.
* Main: every thread goes on, except one that waits for a serial port that is not there; that a part which
  was told to stop ends is not assumed (`StopEnds` names a part that does not).

Nobody is obliged to call `start`, `stop`, `insertMsg`, to send data or to ask a question.

## 4. Proofs

The proofs hold for every value of the constants: any number of threads, commands, packets, connections,
clients, faults, boots, crashes and restarts, where the runs have two or three.  Each component's
assumption on its constants (`CacheAssumption`, `TransportAssumption`, ...) says what kind of thing they
are; where it says more, this is noted.  Every inductive invariant was checked with TLC before it was
proved.

### The cache (`APCOutputProofs`)
`CacheAssumption`: the ring has at least one slot and is smaller than a word; the 64-bit number does not
wrap within the bound `MaxSeq`.

* `CacheInvariant`: `IInv`, the conjunction of `TypeOK`, `RingHoldsLatest` and `FillWithinSent`, always
  holds.  It is inductive and no part of it is alone: where a packet lies (`RingHoldsLatest`) depends on
  the range of the write position, and the confirmation of a reconnect, which may raise the fill, needs
  the arithmetic of the two words.
* `CacheImplementsWindow`: the ring implements `APCWindow` in every call but `Emptied` (`EmptyDoc.cfg`).  The core is the lemma `ConfirmedIsLatest`: the
  code's arithmetic on the high and low word finds the most recent packet with the confirmed low word,
  and when there is none the difference wraps and the code answers with a protocol error.  `SlotShift`
  says that a write moves every packet one place back.

### The stream of the session (`APCOutputProofs`)
`StreamAssumption`: the number of output buffers is a power of two, at most four (the code has two, and masks the index,
`APCConnector.h:22`); the input buffer has room for a header; the alien messages are ones the receiver
must refuse (`NoMessage`).  The last two of the three theorems hold for writes served in one piece
(`~PartialWrites`): two writes may be under way at once, and one served in part and in turn mixes their bytes and
hands out a buffer still in use, as `BufferDoc.cfg` shows.

* `BuffersCounted` (`BuffersAccounted`), for every order in which writes are served, needs `CountInv` alone: free
  buffers and writes under way add up to the ring.  How many buffers are free is right; which one is free is a
  matter of the order in which writes end, and that is what `BufferDoc.cfg` refutes.
* `MessagesArrive` (`HandedUpIsSent`) and `InputNeverOverflows` (`InputFits`) need `WireInv`: there is a tape on which all
  messages sent lie one behind the other (`Laid`), and two places on it.  What was taken from the buffers ends at the
  first, and the rest of the tape is what the writes under way still hold (`Writes`); the receiver is at
  the second, and the stream is the tape between the two (`At`).  So the receiver's state is a function of where it is
  on the tape, and a read of any length moves it along the tape.  Once a receiver stopped reading,
  what it has handed up and stored stays (`Left`).

`dataReceived` is a recursive function of the rounds of its loop.  What it computes is found from the well-foundedness of
the natural numbers, which the lemma `Smallest` states: if some round were wrong there would be a first one.

### Transport and AP (`APMoteProofs`)
All rest on `Inv`: types (`TypeInv`, `FlagType`); `Shape`, what the io thread can have left to do (a
response is handled alone, the acknowledgement is the last step of a notification, the boot's join comes
just before it); and `OneToken`, for a notification the frame on the line, the notification in the io
thread's hand and its acknowledgement on the line exclude each other.

| Theorem | Property | Invariant added | Conditions |
|---|---|---|---|
| `TransportTypes` | `TransportTypeOK` | | |
| `NotificationsOnce` | `NotifiedOnce` | `Notified`: the notification under way is newer than all delivered, unless its packet id is recorded or the io thread has it | |
| `JoinsStarted` | `JoinStarted` | `JoinInv`: with both sides connected a JOIN was inserted since the boot, a thread is about to insert one, or the boot event is out whose handler will start the join or disable it | |
| `QueueServed` | `QueueIsServed` | `Served`: a queue whose front is not on the line has a thread before its send or at the end of a response | the serial port is open |
| `PendingTimed` | `PendingHasTimer` | `TimerInv` | giving up is enabled; no `handleAPBoot_lost` |
| `CommandsInOrder` | `InOrderAtMostOnce` | `Abp` | `EqualPriority`; no `handleAPBoot_lost` |
| `AnsweredHandled` | `AnsweredWasHandled` | `Abp` | the same |
| `ResponsesForLastSent` | `ResponseTakesLastSent`, an action property | `Abp` | the same |

`Abp` is the alternating bit: once a response on the line carries the current packet id all behind it do, and
it answers the command on the line (`RspInv`); a request with the current id is for the front of the queue,
and what the mote carried out is older than all that is queued, except the front after it was carried out
(`ReqInv`); around a boot the mote drops requests until the acknowledgement of its boot event comes, and
nothing of before is behind it (`BootInv`); the numbers of the commands are in order (`OrderInv`).  None of
the four is inductive alone.

The conditions are conditions of the code.  `EqualPriority` (no command is queued before another, none
synchronises the ids anew): `PriorityDoc.cfg` shows what happens otherwise.  `handleAPBoot_lost`, the AP
declared lost for too many boot events in a row, does not clear the queue (`APMSerializer.cpp:154`, a listed
hazard): a command stays marked as on the line with nothing to send it again.  With giving up switched off a
command whose retries are used up has no timer.  `QueueServed` needs an open port: a thread that finds it
closed between queueing and sending leaves its command in the queue.  `PendingTimed` allows one case more than its
property: an AP that was given up and reset has booted, and its boot event, which clears the command, is
still to be handled (`BootComing`); under the bounds of `order` no such state occurs.

### Session (`APCSessionProofs`)
`SessionInv` is the life of a connector (`Life`): its START is queued, the client knows it, it works, its end
is queued and handled, the timer runs, and only then the next is opened; a connection asks the Manager once
and is answered once (`Lines`); the answer comes behind the START and before the end (`RunInv`).  From it
follow `ConnectorOne` (`OneConnector`) and `ConnectorAtReplay` (`ReplayHasConnector`).

The delivery adds three parts: there is one question and one answer under way (`Tok`); the client and the
Manager agree on what an answer means while it is under way, the session, the last packet, and that no
packet is on the line (`Agree`); the packets the Manager got and those on its line are one rising sequence
whose gaps are what the cache overwrote (`Delivery`).  Most steps are `Quiet` and keep all three by one
lemma; the others (the Manager reads a question or a packet; a reconnection; the client is
answered, sends, starts) are treated one by one.  From it follow `PacketsInOrder` (`DeliveredInOrder`) and
`GapsFromOverflow` (`GapsOnlyFromOverflow`).

`SessionImplementsChannel`: the session implements `APCChannel` (`SessionIsChannel`).  The channel sees the last number given
out, what the Manager got, and whether the Manager's session is the client's (`Owned`); a packet taken is its `ChDeliver`,
and the condition of that step is what `Delivery` says of the first packet on the line.  The Manager's new session is
`ChOpen`, of which the client learns by `ChJoin`, when neither has sent or got anything; quiet steps are stuttering or the
end of the session.  It says more than the two invariants: a packet that was got is never taken back within a session.

These five assume that `start()` is called only when the notifications of the last session are handled and
its timer is off (`AtRest`): `start()` resets the client but neither the queue of the notification thread nor
the timer (see the observations of section 3).  `FirstSession` has no such condition: a client that is started
once has all five properties.

### Coupler (`APCouplerProofs`)
`SettledJoined` (`SettledIsJoined`), for every number of faults, every failure and every setting.  `CInv` says what keeps
the running state from being the last one: an event it waits for is noted or about to be (`Wake`), or the join
is enabled (`JoinEnabled`) and the AP has joined, has the command in its queue, or is still to boot, which will
be reported (`JoinUnderWay`).  The join takes place only when the transport has the AP for connected, which the
state machine cannot see; `Found` says that it is, once the search for an AP is over: the state machine leaves it
for a boot only, a boot connects, and a loss disconnects only before a reset.  `Causes` has the two facts this
needs, that only the boot of a connected AP is a reboot, and that a loss without a reset is that of an AP that
boots without end, one case the property leaves out.  The other (`late`) is the only way in which an AP that is
not connected can be taken for running.

### Serial port (`SerialPortProofs`)
`OneHolder` (`BufferHasOneHolder`), for any number of threads.  `PoolInv` separates who holds a buffer (`OneEach`)
from how it is stored; a step gives a free buffer to a thread, passes one from a thread to a write, ends writes,
or moves the write that is served to the end of the queue, and each of these four keeps `OneEach` by one lemma.
That `alloc` finds the first free buffer rests on the well-foundedness of the natural numbers (`Smallest`).

`DecoderResynchronises` (`Resynchronised`) and `EveryMessageArrives` (`CleanIsDelivered`), for any messages of any bytes and
lengths, any number of threads, faults and closings of the port.  `SerialAssumption` asks that messages are not empty:
each has a header.  Nothing is assumed of the framing or the check sequence; the argument is:

* Words.  `Xor` is the sum of 16 bits, so `XorDigits`, `XorOnes` and `XorComplement` are facts about each
  bit.
* Check sequence.  The table of the polynomial maps the last two bytes of a frame, the complement of the sequence so far,
  to one word, which closed is the 3911 (0x0F47) of `validateChecksum`, whatever the sequence was (`Residue`).
* Decoder.  One lemma per case of a byte (`ByteRead` to `BytePadding`).  `BodyRead` says that the escaped bytes of a
  message are stored unescaped and none is taken for a flag; `FrameResets`, that a frame in one piece leaves the
  decoder as new whatever it was before, since its last byte is a flag that no escape precedes; `FrameDelivers`, that a decoder
  that is as new hands up the message and is as new again.
* Line.  `LineInv` adds to `PoolInv` what the line holds.  `WholeInv`: what is on the line ends in a frame in one
  piece, or all was read and the decoder is as new.  `CleanInv`: on an undisturbed line, the decoder that has read
  the line and the bytes still to be written has handed up all that was sent.  It is the form that a read of any length
  keeps: a read moves bytes from the line to the decoder and leaves what the decoder will have read as it is.

The loops over bytes are recursive functions of the number of bytes; `NoFirstBad` and `OneRoundMore` are the induction.

### Time (`APTimeProofs`)
`TimeAssumption`: the check of the day comes before the blackout and the blackout ends before the next day's
check, as the constants of `APCoupler.cpp` have it.

* `RefusedOnlyInBlackout` (`OnlyBlackoutRefuses`) and `BlackoutKept` (`NoTimeInBlackout`): `BlackoutInv` is about
  the next check, which comes before the blackout it would have to set or to clear.  The theorems hold for every
  answer of `ntp_gettime`; what the code makes of TIME_ERROR and TIME_WAIT, and of a start in the very second in
  which the blackout begins, is named in the properties (section 3).
* `TimeTrusted` (`TimeNeedsLock`): `GpsInv` says that a single reader never reports a signal as stable that
  was not.  The property speaks of a `CGPS` that was started once; `gps_doc` shows what a second start does.

### RPC (`RpcProofs`)
`RpcAssumption`: the names of requests are none of the words for an answer or a client's state.

* `AnswersOwn` (`AnswerIsOwn`), whenever the AP answers: only the APC's worker waits for the AP, and all that is
  under way in the io thread is for the request it is at or for one whose wait is over (`ApiInv`); every reply
  on the line carries the answer of its own request or of such a one (`OwnInv`).
* `ListedOnce` (`WaitingOnce`), without conditions: `DispInv` says of every worker that it has one task at most,
  the request on the way to it, in hand, or its reply (`Token`); that a registration with a task behind it is
  the first message and of a worker still known, so that reading it deletes the worker and never lists it
  (`Again`); that an accepted connection has its registration first (`Connected`); and that the two lists agree
  and a worker in them has no task (`Listed`).  `Again` is what makes the rest inductive: without it a worker
  that reconnects with its reply still to be read would be listed twice.

### Process (`APCMainProofs`)
`MainAssumption`: a file cut off is none of the valid files.

* `AcceptedKept` (`AcceptedSurvives`): `ClockInv` ties the file, the request the worker is at and the coupler's
  source together.
* `LogInOrder` (`LogAccounted`): `LogInv` ties what was appended, the queue and what was published together, and
  says that a thread past its loop was told to stop.

### What is only model-checked
Liveness under fairness is beyond the prover: `QueueDrains`, `OfflineEnds`, `ServiceReturns`,
`RequestAnswered`, `WorkerComesBack`, `GpsStopReturns`, `StopEnds`, the two `StopReturns`.  `FramesReal` of `line` says that
a disturbed line does not make the port hand up a message nobody sent; this is true of the few disturbances the run
allows and not of any number, since 16 bits cannot detect every change.  Every other invariant and every action
property of the passing runs is the subject of a theorem.

## 5. Plan

Session: packets from the Manager with `m_lastRxSeqNum`, and with them a channel of the other direction.

## 6. Not modelled

* `common/FmtOutput.cpp` and the helpers for logs: formatting, no state of the bridge.
* The protocol headers under `shared/include` : message layouts, no behaviour.
* Statistics and `getProperty` of connector and transport, the packet-rate timer: counters nobody decides
  on.
* The reset lines of the serial port (`SerialPort.cpp` 225-285): calls of the operating system; the
  coupler's view of a reset is in `APCoupler`.
* Options other than the clock source: passed on unchanged.
* The dispatcher's `service_internal`: never called.
* Python consoles, packaging, build files, patches of third-party libraries.
