# GBServer in TLA+

TLA+ specifications, TLC models and TLAPS proofs of GBServer: a media server
(`src/GbMediaServer`, C++ on the WebRTC thread library), a GB28181 SIP signalling
server (`src/GbSipServer`, C++ on eXosip and oatpp) and a small HTTPS file server
(`src/WebServer`, Go).

## 1. The system

### 1.1 Components

| component | state it keeps | operations | what makes it correct |
|---|---|---|---|
| `GbMediaService` (`server/gb_media_service.cpp`) | `sessions_` (name -> Session), `rtp_server_` (name -> TCP server), counters for workers and RTP ports | CreateSession, CloseSession, OpenTcpServer, OnRecv | one current session per name; a stream's port is its own |
| `Session` (`server/sessioin.cpp`) | `producer_`, `consumers_`, its worker, a 5 s timer | Set/CreateProducer, Add/RemoveConsumer, AddVideoFrame, AddAudioFrame, AddDataChannel, ConsumerRequestKeyFrame, CheckTimeOut, Clear | one producer; frames reach exactly its consumers; silent peers leave; nobody comes back |
| `RtcService` (`server/rtc_service.cpp`) | ufrag -> interface, remote address -> interface | Register/UnregisterRtcInterface, OnStun, OnDtls, OnRtp, OnRtcp (UDP and TCP) | a packet goes to the interface of its sender and to no other; what is attached can be reached and what has left cannot |
| `RtcProducer`, `RtcConsumer` (`producer/`, `consumer/`) | DTLS and SRTP state, jitter and frame buffers, statistics | SDP, DTLS callbacks, RTP/RTCP handlers, key frame requests | close tasks clean up the object they are about, and no other |
| `WebService` (`server/web_service*.cpp`) | HTTP connections and their contexts | RTC push/play, FLV, HLS, open/close RTP server, statistics | a request leaves the tables consistent on every path |
| `Gb28181Producer` | PS demultiplexer, receive buffer | OnRecv | framing does not depend on how TCP cuts the stream |
| `RtcInterface` cache, `NackGenerator` (`share/`) | sent packets by sequence number; missing sequence numbers | AddVideoPacket, RequestNack; OnReceivedPacket, GetNackBatch | a packet that was asked for and is cached is sent; a missing packet is asked for until it comes, bounded |
| `StatisticsManager`, `WsStatsService` | producers and consumers by session; connections and subscriptions | register, unregister, timers; subscribe, unsubscribe, ping, push | a report is about live objects; nobody waits for itself |
| `FileLogWriter` (`utils/`) | queue, current file, date and line count | Write, WorkerLoop, rotation, retention | no line is lost while there is room; files rotate and expire |
| `SipServer`, `StreamService` (`GbSipServer`) | registered devices, calls | REGISTER, MESSAGE, INVITE, BYE; startStream, stopStream | a stream is invited once the media server listens |
| `WebServer` | static files | HTTPS GET | - |

### 1.2 Threads and interaction

HTTP requests are parsed on a network thread of the HTTP server, which posts the
handler to the worker thread of the media service. Handlers, session timers and
every posted task run on that worker, one at a time. STUN, DTLS, RTP and RTCP
arrive on network threads of the RTC server; `RtcService` handles each under its
lock, and the interfaces post what changes a session to the worker, as closures
that hold a raw `this`. A GB28181 device sends its stream to a TCP server of its
own. The HTTP network thread also removes an FLV consumer directly when its
connection is destroyed.

`WsStatsService` has four threads: the loop of the WebSocket library, a push
thread, a ping thread, and whoever stops it. They share two mutexes.

In `GbSipServer` an HTTP thread posts the request to a worker and waits; the
worker asks the media server over HTTP to open an RTP server, with a timeout, and
posts the INVITE to the network thread and waits; the network thread is the one
that runs the SIP loop, so that it calls a device only between two rounds of
that loop.

What makes the system hard is therefore: closures that name objects which have
meanwhile been closed or replaced; tables that two threads read and change under
different locks; packets, requests and answers that are lost, late or out of
order; numbers that wrap; and threads that wait for each other.

## 2. Modules

### 2.1 `MediaSession`: sessions, routing and threads

State follows the tables of the code: `sessions`, `producer`, `consumers`,
`ufrags` (`name_rtc_interface_`), `routes` (`rtc_interfaces_`), `remote`
(`rtc_remote_address_`), `fresh` (the STUN time is recent), `dtls`, `timer` (the
delayed CheckTimeOut task), `queue` (posted tasks), `worker` (the task the worker
thread is in). Session objects are numbered in the order they are created, which
is also what selects their worker. An interface, a consumer or a GB28181
producer is one model value, used for one object.

A network handler holds the lock of its `RtcService` for its whole duration and
is one action. A worker task takes the lock of the session and that of the
`RtcService` one after the other, and has a step for each, so that packets come
between any two:

| task | steps |
|---|---|
| RTC push and play | `HandlerRtcProducer` / `HandlerRtcConsumer` attach the peer, `ProcessOfferSdp` accepts or refuses its offer and posts the answer, `RegisterOffered` enters its ufrag |
| FLV play | `HandlerFlvConsumer` fills the context of the connection, `AddFlv` adds the viewer |
| timer, producer | `TimerFires`, `TickProducer` reads the address, `TickProducerErase` unregisters, `TickProducerDetach` clears the slot |
| timer, consumers | `TickConsumers` collects them without a lock; for each `EvictNext` reads the address, `EvictErase` unregisters, `EvictRemove` removes |
| close of a producer | `CloseProducerTask` registers (section 6, item 1), `CloseProducerDetach` clears the slot |
| close of a consumer | `CloseConsumerTask` reads the address, `CloseConsumerErase` unregisters, `CloseConsumerRemove` removes |
| frame | `FanoutTask`, `FanoutDone`: the loop over `consumers_` takes no lock |

`OnDestroy` of an FLV connection is a step of the HTTP network thread and may come
between any of these. `AttachedIsReachable` therefore excludes the peer the worker
has in hand between two of its locks (`InHand`), and `LeftForGood` a viewer that is
being added (`BeingAdded`).

Undefined behaviour stops the model: `fault` names it and no further action is
enabled. A raw pointer in a posted task is dangling when no table refers to its
object any more (`PeerAlive`, `ObjAlive`).

### 2.2 `SessionDirectory`: what the service promises

An abstract specification with no threads, timers, packets or tasks: names,
sessions, slots, memberships. `MediaSession` implements it under the mapping at
its end (`ImplementsDirectory`).

### 2.3 `FileLogWriter`: the asynchronous log

Any thread is a member of `Threads` and goes through `Write` in three steps: it
reads the flags without a lock, queues under `queue_mutex_` (dropping the oldest
messages of a full queue), and notifies after it has let go of the lock. The
writer thread tests its condition, sleeps, takes the whole queue or ends (`Take`),
and writes a message per step. `Configure` sets the file's part under
`file_mutex_` and then three relaxed flags, which threads may see in any order
(`ConfigureFlag`). The choice of a file (date, part, lines, a file that cannot be
opened) is inside `WriteToFile`, because `WritePayloadLocked` does it under the
lock. Messages are numbers; a message's text is the number of its lines. `Write`
does not look at `worker_shutdown_`: a thread may queue a message after the writer
has ended, and it stays. `NothingLeft` is about the step in which the writer ends,
and `Delivered` about messages queued before it.

### 2.4 `NackGenerator` and `RtxCache`: lost packets

`NackGenerator` is the receiving end: `OnSrtpRtp` posts the number and the time of
a packet, the worker gives it to the generator (one action for each branch of
`OnReceivedPacket`) and the generator picks what to ask for (`GetNackBatch`, part
of the same action). `last_seq_raw_` is the remainder of `last_seq_unwrap` and
`initialized_` is `last_seq_unwrap # None`, so that neither is a variable. `gaps`
is a history variable: every number that was ever skipped in the stream, when, the
times it was asked for, and whether it came late or was pushed out. Times count in
units of `kProcessIntervalMs`.

`TaskSafetyAlive` says what `ToQueuedTask` does with the producer's tasks. The flag
is created inactive and never set (section 6), so the code as it stands is the
instance with FALSE, in which the generator sees nothing; the `packets` run
checks the generator as its callers mean to use it.

`RtxCache` is the sending end: the worker sends a packet and adds it to the cache,
the network thread looks up the packets of a NACK one by one under the mutex and
sends each after it has let go. A packet is its number before it is cut to 16 bits.

### 2.5 `Gb28181Framing`: packets of a GB28181 device

`Gb28181Producer::OnRecv` over a stream that TCP cuts anywhere. The stream is a
constant (`Byte`, `Start`), a step is one `memcpy`, one turn of the loop or the
`memmove` at its end. `delivered` is what `OnSrtpRtp` was called with. `Reconnect`
loses the connection and opens another to the same port: the code tells neither
producer nor buffer. If that happens in the middle of a packet, `torn` records
that no statement is made about the packets any more, and only what bounds the
buffer is; `NegativeSize` is the turn of the loop that reads a length of 32768 or
more, which the code takes as negative.

### 2.6 `VideoRelay`: video frames and key frame requests

The way of a frame from the publisher to the viewers, and of a key frame request
back. `OnSrtpRtp` gathers units until one has the marker (`gathered`) and posts a
frame task; the worker hands the frame to each consumer, which keeps the parameter
sets it sees, puts them before IDR slices (`AddVideoFrame`, with `AddNal` for each
unit), and sends the result once its DTLS is done. `Sends` is what
`RtcConsumer::OnVideoFrame` tests. A viewer that connects or sends PLI or FIR
(`AskForKeyFrame`) causes a task, that task causes another
(`ConsumerRequestKeyFrame`), and `RequestKeyFrame` sends a PLI to the publisher
unless it is `TooSoon`.

A NAL unit is one packet, and the packets of a frame come in one step, in which one
of them may be lost, may come after the marker, or may be the marker itself: nothing
but `OnSrtpRtp` looks at the buffer between two packets. `spoilt` and `picture` are
history: whether a frame is what the publisher sent, and whether a decoder that gets
what the viewer got would show it. `cut` records that the call of `SetSize` has
shortened the frame. The encoder, the network, the clock and the decoder are
external; joining and leaving, which `MediaSession` models step by step, are one
step here.

### 2.7 `StatsService`: statistics by WebSocket

The four threads with their program counters, the table of connections under
`connections_mutex_` and the two maps between handles and ids under
`hdl_map_mutex_`. A critical section that takes no second mutex is one step; one
that does (the open and close handlers, the ping thread) keeps its mutex from step
to step. A `std::mutex` that is locked again by its owner waits for ever, so that
`HandlePing`, which sends the pong under the mutex that `SendClientMessage` locks,
blocks. Clocks are abstract: a heartbeat may become late and a subscription due at
any time. A handshake accepted before stop_listening may open after it (`Open` with
the server "deaf"), and an exception while a message is built is caught, so that
nothing is sent (`BuildStats`). `Start` is the initial state, because the service is
started once, before any client; counters of messages, of which nothing is decided,
are left out.

### 2.8 `CallSetup` and `Signalling`: calling a camera

`Signalling` has the registered devices (`rows`), the events eXosip holds, the HTTP
requests (start and stop) with their way through HTTP thread, worker and network
thread, the posts to the media server and its answers, and the media server's side
of `openRtpServer` and `closeRtpServer` (`serving`, `tcp_port`, `sessions`). `GiveUp`
is the HTTP timeout: the post may still arrive, and the answer may come too late.
An event of type "other" stands for all SIP messages that change nothing that is
read: `client_map_`, which the end of a call empties entirely
(`sip_server.cpp:271`), is read by a log line only.

A REGISTER is accepted when it repeats realm and nonce of the challenge:
`response_register` compares two digests that it has computed itself, both from the
server's password, and does not read the one the camera sent (section 6, item 17).
`listed` is history: the addresses at which a device was listed by such a REGISTER or
by an operator. `response_register_short` is a REGISTER without one of the fields
that are used unchecked. `HandlerSipCallAnswered` may fail to build the ACK, which
it only logs; `acks` says for each answer handled whether the ACK went out.

`CallSetup` is what the two servers together promise: one port for a device, and at
most one call for it, with that port. `Signalling` implements it (`CalledOnce`).

## 3. Runs

All runs are listed in `PROJECT.json`.

| run | question | instance | size |
|---|---|---|---|
| `media_publish` | publishers replaced, closed, timed out, over three openings of a name | 1 name, 2 RTC publishers, 2 addresses, 3 sessions on 2 workers (the first and the third share one) | 940,000 states, a minute |
| `media_play` | viewers leaving while STUN arrives, close and reopen | 1 name, 2 RTC viewers, 1 FLV viewer, 2 addresses, 2 sessions, 1 worker | 1,360,000 states, a minute |
| `media_mixed` | RTC and FLV viewers, GB28181 publishers, two workers | 2 names, 1 RTC viewer, 1 FLV viewer, 2 GB28181 publishers, 2 workers; the build that does not evaluate LS_INFO | 538,000 states, half a minute |
| `media_live` | silent peers are evicted; frames reach viewers whole, and each viewer gets a picture | 1 name, 1 publisher, 1 viewer, 1 session; beside it 2 viewers of one publisher, 2 versions of its parameter sets, 1 fault | 71,000 states, 4 minutes |
| `log_writer` | order, drops, day, shutdown and wakeups of the log | 2 threads, 3 messages of 1 or 2 lines, a queue of 2, of 1 and without a limit, files of 2 lines, midnight once | 2 minutes |
| `packets` | NACKs, retransmissions, packets of a GB28181 device | 6 and 8 sequence numbers, 6 units of time, lists of 1, caches of 3; 4 packets in 20 bytes, 2 lost connections | 684,000 states, a minute |
| `stats_service` | tables agree, the server object outlives its users, the push thread comes to every subscriber, Stop returns | 2 clients, 1 subscription each | 90 seconds |
| `signalling` | a camera is called once, at an address it was listed at, with its own port; requests return, answers are acknowledged | 2 cameras, 2 addresses, 2 requests, 3 SIP messages, a port counter that wraps (`FirstPort` 1, `PortSpan` 2) | up to 3 minutes |
| `claim_*` | statements of the source that the code does not keep (section 6) | the smallest instance with a counterexample | seconds |

`media_live` and `packets` put together machines that belong to different objects
and share no variable (`MCMediaLive`, `MCPackets`): one of them runs while the
others rest in their initial states, so that the run asks the questions of each
without the product of their states.

### 3.1 Bounds

- `MediaSession`: names, peers and addresses are sets of model values; sessions
  are numbered up to `MaxSessions`, which allows a name to be closed and opened
  again; `MaxTasks` bounds the tasks that wait for the worker (one, beside the one the
  worker is in). Two peers of a kind are the least with which a takeover of a slot
  and two viewers of a session occur, and three sessions on two workers the least
  with which peers of two sessions meet in the tables of one worker and peers of two
  workers do not; no handler relates three of anything.
- `FileLogWriter`: three messages overflow a queue of two (`DefaultCap`) and, after
  Configure, of one; the other setting has no limit (0). Messages of one and of two
  lines fill a file of two, so that it is rotated by its lines and in the same runs
  by date, in every order with midnight.
- `NackGenerator`: with 6 numbers and `MaxReorder` 2 a number can be ahead, equal,
  late or a restart; the stream starts at 4, so that it wraps. `MaxNackAge` 4,
  `Cooldown` 2 and `MaxNackRetries` 2 make each limit the one that decides in some
  behaviour. `Span` keeps a stream shorter than a round of the numbers: in the code
  an entry lives for `kMaxNackAgeMs`, one second, in which a stream would have to
  send 65536 packets to meet its own numbers again.
- `RtxCache`: 8 numbers, a cache of 3 and 20 packets: two wraps, and both the
  numbers below and above the size of the cache.
- `Gb28181Framing`: bytes have four values and a length is negative from 8. Four
  packets, one of them empty, with payloads that look like lengths; a call brings up
  to 14 bytes, so that it can end anywhere in a packet and hold several.
- `VideoRelay`: two viewers are what it takes for one's request to fall into the
  other's 500 ms. The publisher sends IDR frames behind both parameter sets when it
  is asked, and slices behind a parameter set, and IDR slices behind other units, of
  its own accord. One
  fault spoils a frame and the one after it. `MaxWork` is the number of tasks the
  network thread finds waiting; the worker itself may add to the queue.
- `StatsService`: two connections, because one must be able to close while another
  is served; a second subscription of the same client takes the same steps.
- `Signalling`: two cameras, two addresses and two requests give every pair of
  concurrent starts and stops and a camera that moves; three SIP messages allow a
  registration of each camera and one more, or an unregistered one between them.
  Ports are counted from `FirstPort` (20000 in the code) modulo `PortSpan` (65536);
  here they start at 1 and there are two, as many as cameras, so that the second
  opening wraps. Ports of other services are not modelled.

Deadlock checking is off where a bound ends a behaviour or the modelled program
may stop (an undefined behaviour was reached, the log was shut down).

### 3.2 Fairness

- `MediaSession`: weak fairness of the worker's current task (the thread runs),
  strong fairness of taking the next task from the queue and of the timers (a
  thread with work gets to it, although other tasks may come between). Nothing is
  assumed of clients, of the network, or of arrivals.
- `FileLogWriter`: weak fairness of the writer thread when it is awake, and of a
  thread that has queued a message and is about to notify. Spurious wakeups may
  happen and are not relied on.
- `VideoRelay`: weak fairness of the worker, of the clock, and of the arrival of a
  PLI that is not lost. Strong fairness of two things that are outside of the
  server: a publisher that got a PLI sends a key frame, and a viewer without a
  picture repeats its own PLI, as browsers do. The second is needed: the server does
  not remember a request it has dropped (section 6).
- `StatsService`: weak fairness of each thread's next step and of the interval of
  each subscription. A thread that waits for a mutex is not enabled.
- `Signalling`: weak fairness of the SIP loop, of the worker's post and of the HTTP
  timeout; strong fairness of a posted call, which runs only between two rounds of
  the SIP loop. Cameras that never stop sending would keep the loop from returning
  (`sip_server.cpp:220`); the bound on their messages excludes that, and nothing is
  shown about it.

## 4. Proofs

Eight modules hold proofs. Every theorem is about all values of the constants the
named assumptions allow.

### 4.1 `MediaSession_proofs`

| theorem | what |
|---|---|
| `Invariance` | the inductive invariant `IInv` below |
| `TypeSafety`, `IsolationSafety`, `ReachabilitySafety` | `TypeOK`, `Isolation`, `AttachedIsReachable` |
| `NoGhostConsumers` | `ReachableIsAttached`, in a build that evaluates LS_INFO (`ASSUME InfoLogged`) |
| `LeavingIsFinal` | the action property `LeftForGood` |
| `TimersNeverStop` | `TimerArmed` |
| `DirectoryRefinement` | `MediaSession` implements `SessionDirectory` |

`IsolationSafety` says that the objects in the slot and the consumers of a session
were made for that session, and that an interface is only in the tables of the worker
of its session. It does not say that a packet reaches the interface of its sender:
an address keeps its first interface, and two sessions may share a worker (section 6,
item 19). `ReachabilitySafety` says that a negotiated peer that is attached can be
found by its ufrag, except between the two locks of the task that attaches or removes
it (`InHand`): then a STUN request does not find a peer that is attached.

`IInv` is `TypeOK /\ Isolation /\ AttachedIsReachable /\ CreatedFirst /\ QueuedPeers
/\ WorkerPeers /\ WorkerHalves`. `Isolation` and `AttachedIsReachable` are not inductive alone: a
task that was posted earlier, or the task the worker is in the middle of, may name
any peer, and its next step would put that peer into a table. `CreatedFirst` says
that objects that are not created have no state, `QueuedPeers` and `WorkerPeers`
that what a posted or a running task names belongs to the session it will touch.
`WorkerHalves` says what the first steps of a task leave for the later ones: the peer
to be registered is attached and negotiated, the one to be detached is unregistered,
and the session of an FLV viewer that is being added still has its name.
`NoGhostConsumers` needs in addition that Session::Clear is never completed while
consumers are attached, which is what the null dereference in its log statement
comes to, hence the assumption.

The refinement maps sessions, slots and memberships to themselves and forgets
tables, timers, tasks and threads; every step is one step of the directory or a
stutter. An FLV viewer joins at `AddFlv`, although its session was opened by
`HandlerFlvConsumer` and its connection may be gone; until then it is not `past`.
Each action has one step of the proof.

### 4.2 `FileLogWriter_proofs`

`TypesHold`, `WrittenInOrder`, `EndsOnNothing`, `NoNeedlessDrop`, `NeverAnotherDay`:
the invariants and the two action properties of `log_writer`. `InOrder` alone is not inductive, because the
queue, the batch the writer has taken and the output are three pieces of one
sequence. The invariant says that they are (`Order`), that the queue holds the
latest messages one after the other (`QueueIsLatest`) and when the writer thread has
a batch (`Working`). `EndsOnNothing`: in the step in which the writer ends, whatever
was queued so far is dropped or written. What a thread queues afterwards stays
(section 6, item 21). `NoNeedlessDrop`: a step that drops a message leaves as many
newer ones in the queue as the capacity it has read, although the capacity may have
been another when the message was queued.

Two more theorems are no run's property. `NothingVanishes`: every message that was
queued is dropped, written, in the batch or in the queue, and in one of them only
(`InOnePlace`); it is inductive together with `DroppedAreOld`, what is dropped is
older than what is queued. `NoWakeupIsLost`: the writer sleeps on a queue that is not
empty only while a thread has still to notify it, and never once the destructor has
begun. It is the safety half of `Delivered`: with it, what is left to TLC is that
fair threads take their next step. TLC confirmed both invariants on the instance of
`log_writer` before they were proved.

### 4.3 `NackGenerator_proofs`

`TypesHold`, `OnlyMissing`, `NoneForgotten`, `LimitsKept`, `ListIsBounded`: the five
invariants of the generator. The invariant `Inv` relates the
list, whose keys are cut to 16 bits, to the history of the stream (`Match`,
`Linked`): every entry is one gap that has not been filled, with the same time and
number of requests, in the window in which numbers are unique (`InWindow`). That
window is what `Span` gives. It also says what of the stream is waiting in tasks.

`ListIsBounded` needs more (`PendInv`). That the list is not longer than its limit
follows from `TrimBySize` alone: what it keeps are the entries that fewer than
`MaxPendingSeq` others outlive, and an entry for which more than that are newer
would be one of them (`FewerOutlive`, `TrimmedFew`, by the theorems on finite
sets). That only the oldest are pushed out does not follow from the list: the
entries of a later call are newer than those pushed out by an earlier one only
because tasks carry times that do not decrease and are handled in their order, so
that nothing was ever missed after the first waiting task (`Timely`).

### 4.4 `RtxCache_proofs`

`CacheStaysRecent`: a cached packet and a requested number that agree in their low
bits are of the same round (`SameRound`), because the bounds of `AddVideoPacket`
keep less than a round, also when they wrap.

### 4.5 `Gb28181Framing_proofs`

`TypesHold`, `PacketsAreExact`, `LeftoverIsBounded`, `NothingIsKept`, for every stream
whose packets are shorter than half the range of a length (`StreamAssumption`). The
invariant says that the buffer is the end of what was received, that the loop
stands at the beginning of the packet after the last one delivered (`Aligned`), and
that what waits is shorter than one packet (`Rest`).

### 4.6 `StatsService_proofs`

`TablesAgree`, `ServerIsLastToGo`, `TypesHold`. The invariant says who holds
`hdl_map_mutex_` (`Holder`), what a thread in the middle of a handler has done
(`Working`), what the tables have in common meanwhile (`Tables`, `Contents`), and
which threads have ended at each stage of Stop (`Ended`).

Two theorems say how the mutexes are waited for. `OnlyTwoCircles`: the ping thread and
the loop, each with the mutex the other wants, and the loop that locks
`connections_mutex_` twice are the only circular waits; in every other state
(`~Circle`) the thread that holds a mutex finds free the one its next step takes
(`HoldersGoOn`). So `claim_StopCompletes` shows two ways to hang, and there is no
third. `QuietIsFree`: under the condition of `Served` and `StopsWhenQuiet` neither
circle is reached, because nobody keeps `connections_mutex_` beyond a step. TLC
confirmed `HoldersGoOn` and its invariant `ConnHolder` on the instance of
`stats_service` first.

### 4.7 `Signalling_proofs`

`TypesAreKept`, `InviteesAreListed`, `PortsStayApart`, and `SetupRefined`: the two
servers implement `CallSetup`. A camera is called once because a port is given to
one request (`GivenOnce`): the request that opened it, whose answer is not lost, is
the one that goes on to the INVITE (`Posted`, `AnsweredOnce`, `Inviting`, `Invited`).

`PortsStayApart` is stated for up to `PortSpan` cameras, the number of values of the
`uint16_t` counter, which begins at 20000 and is only counted up
(`web_service_handler.cpp:849`). It holds although the counter wraps: a stream keeps
its server for ever (section 6, item 4), so that there is at most one opening for
each camera, and the counter is as far from its start as there are cameras with a
server (`PortInv`). With more cameras it is false, and so it would be if servers were
released without their ports being returned.

`WorkerNeverStrays` and `AcksFollowCalls` are the safety that `Returns` and
`AnswersAcked` rest on: the worker thread has exactly the request that waits for the
media server or for the network thread, so that it is never kept by a request that is
over, and an ACK goes only to a camera that was called. TLC confirmed both on the
instance of `signalling`; what it is left with is the fairness of the threads.

### 4.8 `VideoRelay_proofs`

`RelayTypes`, which includes that the buffer of the publisher holds units between
frames only after a packet was lost or late; `UnspoiltIsWhole`: a frame that
reaches the worker without being spoilt is one the publisher sent
(`QueuedAsPublished`); and `FramesAreWhole`, the action property `FramesGoWhole`,
for frames of any form and length, any set of viewers and whatever parameter sets
they have kept.

The last is about a fold. `FoldLeft` is defined by a recursive function on the
sets of positions, of which it has to be shown that it exists (`FoldExists`), before
`AddVideoFrame` can be taken unit by unit (`AddVideoFrameSteps`). The theorems on
induction take a predicate as parameter, which the provers here cannot instantiate;
lemma `Induction` states it of sets of numbers instead, and follows from the fact
that the finite subsets of the numbers are well-founded under strict inclusion.
`KeyFrameGoesWhole` and `OtherFrameGoesWhole` are then inductions over the units: an
IDR slice finds the buffer empty behind its own two parameter sets, and what is not
a parameter set is appended (`RestTo`).

## 5. Only model-checked

- Liveness: `SilentPeersLeave`, `Delivered`, `PictureComes`, `Served`,
  `StopsWhenQuiet`, `Returns` and `AnswersAcked`. Fairness arguments need ENABLED,
  which the prover does not reason about. Theorems state the safety that five of
  them rest on: `NoWakeupIsLost` (`Delivered`), `QuietIsFree` (`Served`,
  `StopsWhenQuiet`), `WorkerNeverStrays` (`Returns`) and `AcksFollowCalls`
  (`AnswersAcked`).
- Every safety invariant, action property and refinement of a passing run is a
  theorem. `ReachableIsAttached` is one under the assumption `InfoLogged`
  (section 4.1) and is not claimed of the other build, which is that of `media_mixed`.
- The claims: a counterexample is TLC's business.

## 6. Where code and documentation disagree

Four disagreements are shown by a run:

1. `ClosedProducerUnregistered`: the close task of a producer registers the
   interface it is meant to unregister (`producer/rtc_producer_dtls.cpp:288`).
2. `ArrivalsProcessed`: the safety flag of a producer is created inactive, so its
   NACKs and receiver reports are never sent (`producer/rtc_producer.cpp:108`).
3. `StopCompletes`: the ping thread takes the two mutexes of the statistics service
   in the opposite order of the open and close handlers, and a client's ping makes
   the loop lock a mutex it holds; Stop then waits for ever
   (`server/ws_stats_service.cpp:191`, `:540`).
4. `ClosedReleasesPort`: closing a stream leaves its TCP server listening, and every
   later opening of the stream fails (`server/gb_media_service.cpp:241`).

Others were met while modelling; the models contain what the code does.

5. An unregistered consumer keeps the routes of its earlier addresses
   (`server/rtc_service.cpp:172`).
6. Closing a session with a consumer dereferences the pointer it has just moved from
   (`server/sessioin.cpp:720`), in builds that evaluate the log statement.
7. A log file grows without limit, because every message starts the day's first part
   again (`utils/file_log_writer.cpp:346`). For the same reason (a date of eight
   characters where ten are expected) retention removes nothing (`:257`).
8. `AddVideoPacket` empties the cache while numbers are below 1000, from number 100
   on and after each wrap (`share/rtc_interface.cpp:912`).
9. `Consumer::AddVideoFrame` sets the size of its buffer to parameter sets and IDR
   slice (`consumer/consumer.cpp:191`). If an SEI or a delimiter stands before the
   slice, or a second slice follows, the end of the frame is lost; such a publisher's
   key frames never decode.
10. The comment of `RequestKeyFrame` speaks of 3 seconds, the code waits 500 ms
    (`producer/rtc_producer.cpp:1107`). A request within them is dropped, and the time
    is noted although nothing is sent before DTLS is done: a viewer who connects
    shortly after another gets a picture only because it asks again.
11. What is lost between publisher and server is hidden from the viewers by outgoing
    numbers without gaps; they see it as a frame that does not decode.
12. A camera that registers again from a new address is listed with its old one:
    `createDevice` is an INSERT, and its failure is not looked at
    (`sip_server.cpp:482`).
13. If the media server's answer to `openRtpServer` is lost or late, the stream is
    open for nobody, and every later start finds it open and fails
    (`service/StreamService.cpp:56`, `server/gb_media_service.cpp:293`). The result
    of the server's `Startup` is ignored (`:309`).
14. Stop of the statistics service closes handles that may be closing already, for
    which the library throws and nothing catches (`server/ws_stats_service.cpp:254`);
    `aborted` is that end of the process.
15. RTP that arrives before DTLS is done, or after it failed, is decrypted with a
    session that does not exist (`producer/rtc_producer.cpp:635`): fault `null_srtp`.
16. Replacing a producer destroys the old one later, and its destructor unregisters
    statistics by session name: those of its successor (`share/statistics_manager.cpp:41`).
17. The digest a camera sends with REGISTER is not compared with anything: both
    digests that are compared are computed from the server's own password
    (`sip_server.cpp:450-457`), and differ only if realm or nonce do. A REGISTER that
    repeats the challenge lists its device at the address of its Contact.
    `InviteeListed` says no more than that. A REGISTER with credentials but without
    realm, nonce, uri or a port in its Contact is read through a null pointer
    (`:462`), which ends the process: `crashed`.
18. When eXosip cannot build an ACK, the answer is logged and no ACK is sent
    (`sip_server.cpp:298`); the camera answers again.
19. `OnStun` keeps the interface an address has in the map (`server/rtc_service.cpp:304`).
    After a NAT rebinding or when a port is used again, packets of one peer go to
    another's interface, also of another session of the same worker. The model has
    this, and `Isolation` does not exclude it.
20. A peer is attached before its offer is looked at, answered before it is
    registered, and unregistered before it is detached, under two locks
    (`server/web_service_handler.cpp:196-248`, `server/sessioin.cpp:136-138` and
    `160-162`, `consumer/rtc_consumer_dtls.cpp:232-234`). A STUN request that comes
    between answer and registration finds nothing and is dropped; the peer has to
    repeat it. When an FLV connection is destroyed between the SetContext and the
    AddConsumer of `HandlerFlvConsumer` (`:530`, `:538`), `OnDestroy` removes nothing
    and the viewer is then added for ever: no timer evicts FLV viewers. `OnDestroy`
    may also race with the loops over `consumers_` (fault `race`).
21. A message queued after the writer thread of the log has ended stays in the queue
    (`utils/file_log_writer.cpp:387`): `Write` does not test `worker_shutdown_`.
22. `HandlePing` alone refreshes a heartbeat, so a client that stays has to ping or
    is closed by the ping thread; either is one of the two ways to hang (item 3). The
    condition `Quiet` of `Served` and `StopsWhenQuiet` therefore holds only until the
    first heartbeat is late: they say what works as long as neither place is reached,
    and nothing about a service with clients that stay.

## 7. Not modelled

- SDP text, STUN and DTLS bytes, SRTP, packetization and codecs: libraries, or data
  that no property tells apart. The outcome of each (accepted or refused, connected,
  closed or failed) is a choice in the model.
- `task_safety_` tasks of a producer other than its NACKs (receiver reports): they
  change no table. Retransmissions that arrive under the RTX payload type are
  ignored by the code (`producer/rtc_producer.cpp:673`).
- `SetRtt` and `Reset` of `NackGenerator`, the jitter buffer, and the RTSP and RTMP
  classes: nothing calls them. Bandwidth estimation writes to the log only.
- `StatisticsManager`: a map under one mutex; see item 16 above.
- The timer of a session that has lost its last owner, which keeps a raw pointer
  (`server/sessioin.cpp:96`); sessions of GB28181 streams are closed by
  `closeRtpServer` only, since the call of CloseSession in the timer is commented out
  (`:161`).
- PTZ, record and alarm requests of `GbSipServer`, and `updateDevice`, whose
  statement ends in a comma before WHERE and always fails: they change no state that
  the modelled operations read.
- Lifetime of connections: tasks of `OnRecv` and of the HTTP handlers carry raw
  pointers to a connection, which is taken to outlive them, and a connection is not
  destroyed before its handler has run. `OnRecv` posts a task that posts the frame;
  the model posts the frame.
- Destruction of the static log object at the end of the process, while threads may
  still call it.
- Allocation failure, and exceptions other than those a handler catches.
- Database access, configuration, screen capture, static web server.
- Vendored libraries. eXosip, osip, c-ares, nlohmann json and httplib are about nine
  tenths of the lines in the repository; they are modelled where they meet the
  code, by what it relies on (events of eXosip, states of a WebSocket connection,
  the timeout of an HTTP client).

## 8. Plan

Done: every module of section 2 with its runs and proofs. Left:

1. `StatisticsManager`, with the producers that register and unregister themselves.
2. Audio and the RTX path of `RtcProducer` in `VideoRelay`.
