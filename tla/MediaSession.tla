---------------------------- MODULE MediaSession ----------------------------
(***************************************************************************)
(* The core of GbMediaServer: the sessions of the media service, their one *)
(* producer and their consumers, the per-worker RTC demultiplexer          *)
(* (RtcService) that routes STUN, DTLS and RTP to them, and the two        *)
(* threads that touch both.                                                *)
(*                                                                         *)
(*   - The WORKER thread runs one task at a time: HTTP handlers, the five  *)
(*     second timer of every session, and the tasks the network posts.     *)
(*     The lock of the session and the lock of the RtcService are taken    *)
(*     one after the other, so a task has a step for each, and one more    *)
(*     to read an interface's address, for which it takes neither.         *)
(*   - The NETWORK threads deliver packets; each handler runs under the    *)
(*     lock of its RtcService, so it is one step.                          *)
(*                                                                         *)
(* Objects live as long as a shared_ptr to them exists: an object is alive *)
(* when one of the tables below refers to it.  A task in the queue holds a *)
(* raw pointer and keeps nothing alive.  A connection, to which tasks hold  *)
(* raw pointers too, is taken to outlive them (it belongs to libnetwork).  *)
(***************************************************************************)
EXTENDS Integers, Sequences

CONSTANTS
  Names,        \* session names "app/stream"
  Push, Play,   \* RTC interfaces: RtcProducer and RtcConsumer objects
  Flv, Gb,      \* FlvConsumer and Gb28181Producer objects
  Addrs,        \* remote transport addresses
  MaxSessions,  \* bound: Session objects ever created
  NumWorkers,   \* rtc_server.num_workers: RtcService instances
  MaxTasks,     \* bound: tasks waiting for the worker thread
  InfoLogged,   \* does the build evaluate the arguments of LS_INFO logs?
  None          \* a null pointer, or an address never set

Rtc   == Push \cup Play
Peers == Rtc \cup Flv \cup Gb

ASSUME Assumption ==
  /\ None \notin Peers \cup Addrs
  /\ Push \cap (Play \cup Flv \cup Gb) = {}
  /\ Play \cap (Flv \cup Gb) = {}
  /\ Flv \cap Gb = {}
  /\ MaxSessions \in Nat \ {0}
  /\ NumWorkers \in Nat \ {0}
  /\ MaxTasks \in Nat
  /\ InfoLogged \in BOOLEAN

Objs       == 1 .. MaxSessions
NoSession  == 0
Services   == 0 .. (NumWorkers - 1)
Service(o) == (o - 1) % NumWorkers

VARIABLES
  sessions,   \* GbMediaService::sessions_
  created,    \* rtc_service_index_: how many Session objects there have been
  timer,      \* is the CheckTimeOut task of the session pending?
  producer,   \* Session::producer_
  consumers,  \* Session::consumers_
  owner,      \* ShareResource::session_ (NoSession: the object does not exist yet)
  dtls,       \* "idle" until the offer is accepted; dtls_done_ is "done"
  remote,     \* RtcInterface::rtc_remote_address_
  fresh,      \* was the last STUN less than timeout_ms ago?
  ufrags,     \* RtcService::name_rtc_interface_ (and name_rtc_ufrag_)
  routes,     \* RtcService::rtc_interfaces_
  rtpServer,  \* GbMediaService::rtp_server_, with the producer its context holds
  flvConn,    \* the HTTP connection of an FLV consumer
  queue,      \* tasks posted to the worker thread
  worker,     \* the task the worker thread is in
  fault       \* the undefined behaviour the process has run into

svcVars  == <<ufrags, routes>>
peerVars == <<dtls, remote, fresh>>
sessVars == <<sessions, created, timer, producer, consumers, owner>>
vars == <<sessVars, peerVars, svcVars, rtpServer, flvConn, queue, worker, fault>>

-----------------------------------------------------------------------------
\* The worker at step pc of a task of session o: the peer the step is about, the
\* address it has read, and the consumers it has still to evict.
In(pc, o, p, key, todo) == [pc |-> pc, obj |-> o, peer |-> p, key |-> key, todo |-> todo]

At(pc, o) == In(pc, o, None, None, {})

Idle == At("idle", NoSession)

Running == fault = "none"
Ready   == Running /\ worker = Idle

WorkerSteps ==
  {"idle", "offer", "register", "addFlv", "tickProducer", "tickErase", "tickDetach",
   "tickConsumers", "evict", "evictErase", "evictRemove", "closeDetach", "close",
   "closeRemove", "fanout"}

WorkerStates ==
  [pc : WorkerSteps, obj : Objs \cup {NoSession}, peer : Rtc \cup Flv \cup {None},
   key : Addrs \cup {None}, todo : SUBSET Play]

Tasks == [kind : {"close", "keyframe", "fanout", "upstream"}, peer : Rtc \cup {None}, obj : Objs \cup {NoSession}]

PeerTask(k, p)    == [kind |-> k, peer |-> p, obj |-> NoSession]
SessionTask(k, o) == [kind |-> k, peer |-> None, obj |-> o]

\* Somebody holds a shared_ptr to the interface, the producer or the consumer.
PeerAlive(p) ==
  \/ \E o \in Objs : producer[o] = p \/ p \in consumers[o]
  \/ \E v \in Services : p \in ufrags[v] \/ \E a \in Addrs : routes[v][a] = p
  \/ \E n \in Names : rtpServer[n] = p
  \/ p \in Flv /\ flvConn[p] \in {"open", "closing"}
  \/ worker.peer = p

\* Every ShareResource holds a shared_ptr to its session.
ObjAlive(o) ==
  \/ \E n \in Names : sessions[n] = o
  \/ \E p \in Peers : owner[p] = o /\ PeerAlive(p)

Negotiated(p) == dtls[p] # "idle"

Init ==
  /\ sessions = [n \in Names |-> NoSession]
  /\ created = 0
  /\ timer = [o \in Objs |-> FALSE]
  /\ producer = [o \in Objs |-> None]
  /\ consumers = [o \in Objs |-> {}]
  /\ owner = [p \in Peers |-> NoSession]
  /\ dtls = [p \in Rtc |-> "idle"]
  /\ remote = [p \in Rtc |-> None]
  /\ fresh = [p \in Rtc |-> FALSE]
  /\ ufrags = [v \in Services |-> {}]
  /\ routes = [v \in Services |-> [a \in Addrs |-> None]]
  /\ rtpServer = [n \in Names |-> None]
  /\ flvConn = [f \in Flv |-> "none"]
  /\ queue = <<>>
  /\ worker = Idle
  /\ fault = "none"

-----------------------------------------------------------------------------
(* GbMediaService and Session operations, as updates of the tables.        *)

\* The object CreateSession(n) returns: the existing one or the next new one.
SessionFor_NoFind(n) == created + 1  \* slip: the map is not searched

SessionFor(n) == IF sessions[n] # NoSession THEN sessions[n] ELSE created + 1

CreateSession(n) ==
  /\ SessionFor(n) \in Objs
  /\ sessions' = [sessions EXCEPT ![n] = SessionFor(n)]
  /\ IF sessions[n] # NoSession
       THEN UNCHANGED <<created, timer>>
       ELSE /\ created' = created + 1
            /\ timer' = [timer EXCEPT ![created + 1] = TRUE]

SetProducer(o, p) == producer' = [producer EXCEPT ![o] = p]

AddConsumer(o, c) == consumers' = [consumers EXCEPT ![o] = @ \cup {c}]

RemoveConsumer(o, c) == consumers' = [consumers EXCEPT ![o] = @ \ {c}]

\* slip: the next worker's service
RegisterRtcInterface_OffByOne(v, p) ==
  ufrags' = [ufrags EXCEPT ![(v + 1) % NumWorkers] = @ \cup {p}]

RegisterRtcInterface(v, p) == ufrags' = [ufrags EXCEPT ![v] = @ \cup {p}]

\* key is the address the caller read before it took the lock.
UnregisterRtcInterface(v, p, key) ==
  /\ ufrags' = [ufrags EXCEPT ![v] = @ \ {p}]
  /\ routes' = [routes EXCEPT ![v] = [a \in Addrs |-> IF a = key THEN None ELSE @[a]]]

Post(t) ==
  /\ Len(queue) < MaxTasks
  /\ queue' = Append(queue, t)

-----------------------------------------------------------------------------
(* HTTP handlers, run by the worker thread.                                *)

\* A new peer gets the session of the name, which is made if need be.
Create(n, p) ==
  /\ Ready
  /\ owner[p] = NoSession
  /\ CreateSession(n)
  /\ owner' = [owner EXCEPT ![p] = SessionFor(n)]

\* POST /rtc/push.  The producer is attached before its offer is parsed.
HandlerRtcProducer(n, p) ==
  /\ Create(n, p)
  /\ SetProducer(SessionFor(n), p)
  /\ worker' = In("offer", SessionFor(n), p, None, {})
  /\ UNCHANGED <<consumers, peerVars, svcVars, rtpServer, flvConn, queue, fault>>

\* POST /rtc/play, with the same order of attaching and parsing.
HandlerRtcConsumer(n, c) ==
  /\ Create(n, c)
  /\ AddConsumer(SessionFor(n), c)
  /\ worker' = In("offer", SessionFor(n), c, None, {})
  /\ UNCHANGED <<producer, peerVars, svcVars, rtpServer, flvConn, queue, fault>>

\* A peer whose offer is refused stays attached and is never registered.  The
\* answer to an accepted one is posted before the peer is registered.
ProcessOfferSdp ==
  /\ Running
  /\ worker.pc = "offer"
  /\ \/ worker' = Idle /\ UNCHANGED dtls
     \/ /\ worker' = [worker EXCEPT !.pc = "register"]
        /\ dtls' = [dtls EXCEPT ![worker.peer] = "connecting"]
  /\ UNCHANGED <<sessVars, remote, fresh, svcVars, rtpServer, flvConn, queue, fault>>

RegisterOffered ==
  /\ Running
  /\ worker.pc = "register"
  /\ RegisterRtcInterface(Service(worker.obj), worker.peer)
  /\ worker' = Idle
  /\ UNCHANGED <<sessVars, peerVars, routes, rtpServer, flvConn, queue, fault>>

\* GET *.flv: the connection's context gets the consumer ...
HandlerFlvConsumer(n, f) ==
  /\ Create(n, f)
  /\ flvConn' = [flvConn EXCEPT ![f] = "open"]
  /\ worker' = In("addFlv", SessionFor(n), f, None, {})
  /\ UNCHANGED <<producer, consumers, peerVars, svcVars, rtpServer, queue, fault>>

BeingAdded(f) == worker.pc = "addFlv" /\ worker.peer = f

\* slip: the FLV consumer goes to SetProducer
AddFlv_AsProducer ==
  /\ Running
  /\ worker.pc = "addFlv"
  /\ SetProducer(worker.obj, worker.peer)
  /\ worker' = Idle
  /\ UNCHANGED <<sessions, created, timer, consumers, owner, peerVars, svcVars, rtpServer,
                 flvConn, queue, fault>>

\* ... and then the session does, although the connection may be gone by now.
AddFlv ==
  /\ Running
  /\ worker.pc = "addFlv"
  /\ AddConsumer(worker.obj, worker.peer)
  /\ worker' = Idle
  /\ UNCHANGED <<sessions, created, timer, producer, owner, peerVars, svcVars, rtpServer,
                 flvConn, queue, fault>>

\* GET *.m3u8 and *.ts look a stream up with CreateSession, and so create it.
HandlerHls(n) ==
  /\ Ready
  /\ sessions[n] = NoSession
  /\ CreateSession(n)
  /\ UNCHANGED <<producer, consumers, owner, peerVars, svcVars, rtpServer, flvConn, queue, worker, fault>>

\* POST /api/openRtpServer.  A stream whose TCP server exists gets a 404, but
\* only after its session has been created.
HandlerOpenRtpServer(n, g) ==
  /\ Ready
  /\ owner[g] = NoSession
  /\ CreateSession(n)
  /\ IF rtpServer[n] # None
       THEN UNCHANGED <<rtpServer, owner, producer>>
       ELSE /\ rtpServer' = [rtpServer EXCEPT ![n] = g]
            /\ owner' = [owner EXCEPT ![g] = SessionFor(n)]
            /\ SetProducer(SessionFor(n), g)
  /\ UNCHANGED <<consumers, peerVars, svcVars, flvConn, queue, worker, fault>>

\* POST /api/closeRtpServer: CloseSession and Session::Clear.  Clear resets a
\* copy of every consumer pointer and then logs the consumer's name through it:
\* a null dereference when the log's arguments are evaluated.
HandlerCloseRtpServer(n) ==
  /\ Ready
  /\ sessions[n] # NoSession
  /\ sessions' = [sessions EXCEPT ![n] = NoSession]
  /\ SetProducer(sessions[n], None)
  /\ IF InfoLogged /\ consumers[sessions[n]] # {}
       THEN fault' = "null_consumer" /\ UNCHANGED consumers
       ELSE consumers' = [consumers EXCEPT ![sessions[n]] = {}] /\ UNCHANGED fault
  /\ UNCHANGED <<created, timer, owner, peerVars, svcVars, rtpServer, flvConn, queue, worker>>

-----------------------------------------------------------------------------
(* Session::CheckTimeOut, one worker task in several steps.                *)

Stale(p) == p \in Rtc /\ ~fresh[p]

\* The five second task fires; it finds the producer timed out or goes on.
TimerFires(o) ==
  /\ Ready
  /\ timer[o]
  /\ ObjAlive(o)
  /\ timer' = [timer EXCEPT ![o] = FALSE]
  /\ worker' = IF producer[o] \in Push /\ Stale(producer[o])
                 THEN In("tickProducer", o, producer[o], None, {})
                 ELSE At("tickConsumers", o)
  /\ UNCHANGED <<sessions, created, producer, consumers, owner, peerVars, svcVars,
                 rtpServer, flvConn, queue, fault>>

\* UnregisterRtcInterface reads the producer's address ...
TickProducer ==
  /\ Running
  /\ worker.pc = "tickProducer"
  /\ worker' = [worker EXCEPT !.pc = "tickErase", !.key = remote[worker.peer]]
  /\ UNCHANGED <<sessVars, peerVars, svcVars, rtpServer, flvConn, queue, fault>>

\* ... and erases it under the lock of the service, ...
TickProducerErase ==
  /\ Running
  /\ worker.pc = "tickErase"
  /\ UnregisterRtcInterface(Service(worker.obj), worker.peer, worker.key)
  /\ worker' = In("tickDetach", worker.obj, worker.peer, None, {})
  /\ UNCHANGED <<sessVars, peerVars, rtpServer, flvConn, queue, fault>>

\* slip: SetProducer(nullptr) is forgotten
TickProducerDetach_KeepsSlot ==
  /\ Running
  /\ worker.pc = "tickDetach"
  /\ worker' = At("tickConsumers", worker.obj)
  /\ UNCHANGED <<sessVars, peerVars, svcVars, rtpServer, flvConn, queue, fault>>

\* ... and the slot is cleared under the lock of the session.
TickProducerDetach ==
  /\ Running
  /\ worker.pc = "tickDetach"
  /\ SetProducer(worker.obj, None)
  /\ worker' = At("tickConsumers", worker.obj)
  /\ UNCHANGED <<sessions, created, timer, consumers, owner, peerVars, svcVars, rtpServer,
                 flvConn, queue, fault>>

\* The loop that collects the consumers to evict reads consumers_ without the lock.
TickConsumers ==
  /\ Running
  /\ worker.pc = "tickConsumers"
  /\ LET late == {c \in consumers[worker.obj] : Stale(c)} IN
       IF late = {}
         THEN worker' = Idle /\ timer' = [timer EXCEPT ![worker.obj] = TRUE]
         ELSE worker' = In("evict", worker.obj, None, None, late) /\ UNCHANGED timer
  /\ UNCHANGED <<sessions, created, producer, consumers, owner, peerVars, svcVars,
                 rtpServer, flvConn, queue, fault>>

\* A late consumer goes the same way in three steps.
EvictNext(c) ==
  /\ Running
  /\ worker.pc = "evict"
  /\ c \in worker.todo
  /\ worker' = In("evictErase", worker.obj, c, remote[c], worker.todo \ {c})
  /\ UNCHANGED <<sessVars, peerVars, svcVars, rtpServer, flvConn, queue, fault>>

EvictErase ==
  /\ Running
  /\ worker.pc = "evictErase"
  /\ UnregisterRtcInterface(Service(worker.obj), worker.peer, worker.key)
  /\ worker' = In("evictRemove", worker.obj, worker.peer, None, worker.todo)
  /\ UNCHANGED <<sessVars, peerVars, rtpServer, flvConn, queue, fault>>

\* slip: after an eviction the timer is not armed again
EvictRemove_NoTimer ==
  /\ Running
  /\ worker.pc = "evictRemove"
  /\ RemoveConsumer(worker.obj, worker.peer)
  /\ worker' = IF worker.todo = {} THEN Idle
                                   ELSE In("evict", worker.obj, None, None, worker.todo)
  /\ UNCHANGED <<sessions, created, timer, producer, owner, peerVars, svcVars, rtpServer,
                 flvConn, queue, fault>>

\* The last eviction arms the timer again.
EvictRemove ==
  /\ Running
  /\ worker.pc = "evictRemove"
  /\ RemoveConsumer(worker.obj, worker.peer)
  /\ IF worker.todo = {}
       THEN worker' = Idle /\ timer' = [timer EXCEPT ![worker.obj] = TRUE]
       ELSE /\ worker' = In("evict", worker.obj, None, None, worker.todo)
            /\ UNCHANGED timer
  /\ UNCHANGED <<sessions, created, producer, owner, peerVars, svcVars, rtpServer, flvConn,
                 queue, fault>>

-----------------------------------------------------------------------------
(* Tasks the network threads post to the worker.                           *)

Take(kind) ==
  /\ Ready
  /\ queue # <<>>
  /\ Head(queue).kind = kind
  /\ queue' = Tail(queue)

\* RtcProducer::OnDtlsClosed / OnDtlsFailed: the task registers the interface
\* (its comment says unregisters) ...
CloseProducerTask(p) ==
  /\ Take("close")
  /\ Head(queue).peer = p
  /\ PeerAlive(p)
  /\ RegisterRtcInterface(Service(owner[p]), p)
  /\ worker' = In("closeDetach", owner[p], p, None, {})
  /\ UNCHANGED <<sessVars, peerVars, routes, rtpServer, flvConn, fault>>

\* slip: SetProducer is called with the producer itself
CloseProducerDetach_Reattaches ==
  /\ Running
  /\ worker.pc = "closeDetach"
  /\ SetProducer(worker.obj, worker.peer)
  /\ worker' = Idle
  /\ UNCHANGED <<sessions, created, timer, consumers, owner, peerVars, svcVars, rtpServer,
                 flvConn, queue, fault>>

\* ... and clears the session's producer slot, whoever occupies it.
CloseProducerDetach ==
  /\ Running
  /\ worker.pc = "closeDetach"
  /\ SetProducer(worker.obj, None)
  /\ worker' = Idle
  /\ UNCHANGED <<sessions, created, timer, consumers, owner, peerVars, svcVars, rtpServer,
                 flvConn, queue, fault>>

\* RtcConsumer::OnDtlsClosed / OnDtlsFailed.
CloseConsumerTask(c) ==
  /\ Take("close")
  /\ Head(queue).peer = c
  /\ PeerAlive(c)
  /\ worker' = In("close", owner[c], c, remote[c], {})
  /\ UNCHANGED <<sessVars, peerVars, svcVars, rtpServer, flvConn, fault>>

\* slip: registers where it should unregister, as the producer's task does
CloseConsumerErase_Registers ==
  /\ Running
  /\ worker.pc = "close"
  /\ RegisterRtcInterface(Service(worker.obj), worker.peer)
  /\ worker' = In("closeRemove", worker.obj, worker.peer, None, {})
  /\ UNCHANGED <<sessVars, peerVars, routes, rtpServer, flvConn, queue, fault>>

CloseConsumerErase ==
  /\ Running
  /\ worker.pc = "close"
  /\ UnregisterRtcInterface(Service(worker.obj), worker.peer, worker.key)
  /\ worker' = In("closeRemove", worker.obj, worker.peer, None, {})
  /\ UNCHANGED <<sessVars, peerVars, rtpServer, flvConn, queue, fault>>

\* slip: RemoveConsumer is forgotten
CloseConsumerRemove_Not ==
  /\ Running
  /\ worker.pc = "closeRemove"
  /\ worker' = Idle
  /\ UNCHANGED <<sessVars, peerVars, svcVars, rtpServer, flvConn, queue, fault>>

CloseConsumerRemove ==
  /\ Running
  /\ worker.pc = "closeRemove"
  /\ RemoveConsumer(worker.obj, worker.peer)
  /\ worker' = Idle
  /\ UNCHANGED <<sessions, created, timer, producer, owner, peerVars, svcVars, rtpServer,
                 flvConn, queue, fault>>

\* Session::AddVideoFrame / AddAudioFrame: the task loops over consumers_
\* without the lock, each consumer sending the frame.
FanoutTask ==
  /\ Take("fanout")
  /\ ObjAlive(Head(queue).obj)
  /\ worker' = At("fanout", Head(queue).obj)
  /\ UNCHANGED <<sessVars, peerVars, svcVars, rtpServer, flvConn, fault>>

FanoutDone ==
  /\ Running
  /\ worker.pc = "fanout"
  /\ worker' = Idle
  /\ UNCHANGED <<sessVars, peerVars, svcVars, rtpServer, flvConn, queue, fault>>

\* Session::AddDataChannel / ConsumerRequestKeyFrame: the task hands the
\* message to whatever producer the session then has.
UpstreamTask ==
  /\ Take("upstream")
  /\ ObjAlive(Head(queue).obj)
  /\ UNCHANGED <<sessVars, peerVars, svcVars, rtpServer, flvConn, worker, fault>>

\* RtcConsumer::RequestKeyFrame: the consumer's task posts the session's, if the
\* session has a producer.
KeyFrameTask ==
  /\ Ready
  /\ queue # <<>>
  /\ Head(queue).kind = "keyframe"
  /\ PeerAlive(Head(queue).peer)
  /\ LET o == owner[Head(queue).peer] IN
       queue' = IF producer[o] # None THEN Append(Tail(queue), SessionTask("upstream", o))
                                      ELSE Tail(queue)
  /\ UNCHANGED <<sessVars, peerVars, svcVars, rtpServer, flvConn, worker, fault>>

\* A task or a timer runs on a raw pointer to an object that is gone.
UseAfterFree ==
  /\ Ready
  /\ \/ \E o \in Objs : timer[o] /\ ~ObjAlive(o) /\ fault' = "dead_session"
     \/ /\ queue # <<>>
        /\ LET t == Head(queue) IN
             \/ t.peer = None /\ ~ObjAlive(t.obj) /\ fault' = "dead_session"
             \/ t.peer # None /\ ~PeerAlive(t.peer)
                /\ fault' = IF t.peer \in Push THEN "dead_producer" ELSE "dead_consumer"
  /\ UNCHANGED <<sessVars, peerVars, svcVars, rtpServer, flvConn, queue, worker>>

-----------------------------------------------------------------------------
(* Network threads: each handler holds the lock of its RtcService.         *)

\* A STUN binding request naming p's ufrag, from address a.  Only the UDP
\* version refreshes the interface's STUN time.
OnStun(v, p, a, udp) ==
  /\ Running
  /\ p \in ufrags[v]
  /\ remote' = [remote EXCEPT ![p] = a]
  /\ fresh' = [fresh EXCEPT ![p] = @ \/ udp]
  /\ routes' = [routes EXCEPT ![v][a] = IF @ = None THEN p ELSE @]
  /\ UNCHANGED <<sessVars, dtls, ufrags, rtpServer, flvConn, queue, worker, fault>>

\* timeout_ms pass without a STUN request of p.
StunTimeout(p) ==
  /\ Running
  /\ fresh[p]
  /\ fresh' = [fresh EXCEPT ![p] = FALSE]
  /\ UNCHANGED <<sessVars, dtls, remote, svcVars, rtpServer, flvConn, queue, worker, fault>>

\* The handshake of the interface a is routed to completes; a consumer asks for
\* a key frame.
OnDtlsConnected(v, a) ==
  /\ Running
  /\ routes[v][a] # None
  /\ LET p == routes[v][a] IN
       /\ dtls[p] = "connecting"
       /\ dtls' = [dtls EXCEPT ![p] = "done"]
       /\ IF p \in Play THEN Post(PeerTask("keyframe", p)) ELSE UNCHANGED queue
  /\ UNCHANGED <<sessVars, remote, fresh, svcVars, rtpServer, flvConn, worker, fault>>

\* The handshake fails, or the peer closes the connection.
OnDtlsClosed(v, a) ==
  /\ Running
  /\ routes[v][a] # None
  /\ LET p == routes[v][a] IN
       /\ dtls[p] \in {"connecting", "done"}
       /\ dtls' = [dtls EXCEPT ![p] = IF @ = "done" THEN "closed" ELSE "failed"]
       /\ Post(PeerTask("close", p))
  /\ UNCHANGED <<sessVars, remote, fresh, svcVars, rtpServer, flvConn, worker, fault>>

\* A data channel message, decrypted by the DTLS connection itself.
OnDataChannel(v, a) ==
  /\ Running
  /\ routes[v][a] # None
  /\ dtls[routes[v][a]] = "done"
  /\ Post(SessionTask("upstream", owner[routes[v][a]]))
  /\ UNCHANGED <<sessVars, peerVars, svcVars, rtpServer, flvConn, worker, fault>>

\* The pointer to the SRTP session a packet is decrypted with is not checked: it
\* is null until a handshake has succeeded.
HasSrtp(p) == dtls[p] \in {"done", "closed"}

\* RTP from a: a producer's completed frame goes to its session, dtls_done_ or
\* not; a consumer ignores RTP.
OnRtp(v, a) ==
  /\ Running
  /\ routes[v][a] \in Push
  /\ LET p == routes[v][a] IN
       IF HasSrtp(p) THEN Post(SessionTask("fanout", owner[p])) /\ UNCHANGED fault
                     ELSE fault' = "null_srtp" /\ UNCHANGED queue
  /\ UNCHANGED <<sessVars, peerVars, svcVars, rtpServer, flvConn, worker>>

\* RTCP from a: a consumer's PLI or FIR asks for a key frame.
OnRtcp(v, a) ==
  /\ Running
  /\ routes[v][a] # None
  /\ LET p == routes[v][a] IN
       IF HasSrtp(p) THEN p \in Play /\ Post(PeerTask("keyframe", p)) /\ UNCHANGED fault
                     ELSE fault' = "null_srtp" /\ UNCHANGED queue
  /\ UNCHANGED <<sessVars, peerVars, svcVars, rtpServer, flvConn, worker>>

\* PS stream data on the TCP connection of a GB28181 producer.
OnRecv(n) ==
  /\ Running
  /\ rtpServer[n] # None
  /\ Post(SessionTask("fanout", owner[rtpServer[n]]))
  /\ UNCHANGED <<sessVars, peerVars, svcVars, rtpServer, flvConn, worker, fault>>

\* The worker is at what OnDestroy changes without a common lock: in a loop over
\* consumers_, or filling the context of the connection.
Races(f) ==
  \/ /\ worker.pc \in {"fanout", "tickConsumers"}
     /\ worker.obj = owner[f]
     /\ f \in consumers[owner[f]]
  \/ BeingAdded(f)

\* WebService::OnDestroy on the HTTP network thread: RemoveConsumer at once ...
OnDestroy(f) ==
  /\ Running
  /\ flvConn[f] = "open"
  /\ RemoveConsumer(owner[f], f)
  /\ flvConn' = [flvConn EXCEPT ![f] = "closing"]
  /\ UNCHANGED fault \/ (Races(f) /\ fault' = "race")
  /\ UNCHANGED <<sessions, created, timer, producer, owner, peerVars, svcVars, rtpServer,
                 queue, worker>>

\* ... then the context is cleared on the worker.
ClearContext(f) ==
  /\ Ready
  /\ flvConn[f] = "closing"
  /\ flvConn' = [flvConn EXCEPT ![f] = "closed"]
  /\ UNCHANGED <<sessVars, peerVars, svcVars, rtpServer, queue, worker, fault>>

-----------------------------------------------------------------------------
HttpStep ==
  \E n \in Names :
    \/ \E p \in Push : HandlerRtcProducer(n, p)
    \/ \E c \in Play : HandlerRtcConsumer(n, c)
    \/ \E f \in Flv : HandlerFlvConsumer(n, f)
    \/ \E g \in Gb : HandlerOpenRtpServer(n, g)
    \/ HandlerHls(n)
    \/ HandlerCloseRtpServer(n)

\* The worker goes on with the task it is in.
TaskStep ==
  \/ ProcessOfferSdp \/ RegisterOffered
  \/ AddFlv
  \/ TickProducer \/ TickProducerErase \/ TickProducerDetach
  \/ TickConsumers
  \/ (\E c \in Play : EvictNext(c)) \/ EvictErase \/ EvictRemove
  \/ CloseProducerDetach
  \/ CloseConsumerErase \/ CloseConsumerRemove
  \/ FanoutDone

\* The worker takes the next posted task.
QueueStep ==
  \/ \E p \in Push : CloseProducerTask(p)
  \/ \E c \in Play : CloseConsumerTask(c)
  \/ FanoutTask
  \/ UpstreamTask
  \/ KeyFrameTask
  \/ UseAfterFree

NetworkStep ==
  \/ \E v \in Services, p \in Rtc, a \in Addrs, udp \in BOOLEAN : OnStun(v, p, a, udp)
  \/ \E p \in Rtc : StunTimeout(p)
  \/ \E v \in Services, a \in Addrs : \/ OnDtlsConnected(v, a)
                                      \/ OnDtlsClosed(v, a)
                                      \/ OnDataChannel(v, a)
                                      \/ OnRtp(v, a)
                                      \/ OnRtcp(v, a)
  \/ \E n \in Names : OnRecv(n)
  \/ \E f \in Flv : OnDestroy(f) \/ ClearContext(f)

Next ==
  \/ HttpStep
  \/ \E o \in Objs : TimerFires(o)
  \/ TaskStep
  \/ QueueStep
  \/ NetworkStep

Spec == Init /\ [][Next]_vars

\* The worker is an rtc::Thread: it finishes the task it is in, and runs every
\* task in its queue, delayed ones included, in the order they fall due.
Fairness ==
  /\ WF_vars(TaskStep)
  /\ SF_vars(QueueStep)
  /\ \A o \in Objs : SF_vars(TimerFires(o))

FairSpec == Spec /\ Fairness

-----------------------------------------------------------------------------
(* Properties.                                                             *)

\* Every table holds what its C++ type says: no interface of one kind in the
\* other kind's table, no address in place of an object.
TypeOK ==
  /\ sessions \in [Names -> Objs \cup {NoSession}]
  /\ created \in 0 .. MaxSessions
  /\ timer \in [Objs -> BOOLEAN]
  /\ producer \in [Objs -> Push \cup Gb \cup {None}]
  /\ consumers \in [Objs -> SUBSET (Play \cup Flv)]
  /\ owner \in [Peers -> Objs \cup {NoSession}]
  /\ dtls \in [Rtc -> {"idle", "connecting", "done", "closed", "failed"}]
  /\ remote \in [Rtc -> Addrs \cup {None}]
  /\ fresh \in [Rtc -> BOOLEAN]
  /\ ufrags \in [Services -> SUBSET Rtc]
  /\ routes \in [Services -> [Addrs -> Rtc \cup {None}]]
  /\ rtpServer \in [Names -> Gb \cup {None}]
  /\ flvConn \in [Flv -> {"none", "open", "closing", "closed"}]
  /\ queue \in Seq(Tasks)
  /\ worker \in WorkerStates
  /\ fault \in {"none", "dead_session", "dead_producer", "dead_consumer",
                "null_consumer", "null_srtp", "race"}

Attached(o, p) == producer[o] = p \/ p \in consumers[o]

Known(v, p) == p \in ufrags[v] \/ \E a \in Addrs : routes[v][a] = p

AttachedToOwner == \A o \in Objs, p \in Peers : Attached(o, p) => owner[p] = o

KnownToItsWorker ==
  \A v \in Services, p \in Rtc :
    Known(v, p) => owner[p] # NoSession /\ Service(owner[p]) = v /\ Negotiated(p)

\* However names are closed and reopened, slots taken over and peers rerouted, a
\* session's producer and consumers are objects created for that session object,
\* and an interface is only ever in the tables of the worker of its session: no
\* packet reaches a worker that did not negotiate with its peer.  (Between two
\* sessions of one worker a route kept by OnStun can go astray.)
Isolation == AttachedToOwner /\ KnownToItsWorker

\* The worker is in a handler or a clean-up of p, between the two locks.
InHand(p) ==
  /\ worker.peer = p
  /\ worker.pc \in {"register", "tickDetach", "evictRemove", "closeRemove"}

\* An RTC peer whose offer was accepted can be found by its ufrag for as long
\* as it is attached to its session, whichever of timer, close task and
\* replacement come in between: outside of the task that is attaching or
\* removing it, it is never attached but unreachable.
AttachedIsReachable ==
  \A o \in Objs, p \in Rtc :
    Attached(o, p) /\ Negotiated(p) /\ ~InHand(p) => p \in ufrags[Service(o)]

\* A consumer that can be found by its ufrag is attached to its session: one
\* that has left cannot be revived by a late STUN request.  (Clear breaks this
\* when LS_INFO is not logged: it detaches the consumers and leaves them
\* registered.)
ReachableIsAttached ==
  \A c \in Play : (\E v \in Services : c \in ufrags[v]) => c \in consumers[owner[c]]

\* CheckTimeOut never stops for a session that is alive: its task is pending,
\* or the worker is in it.
TimerArmed ==
  \A o \in Objs : o <= created =>
    \/ timer[o]
    \/ worker.obj = o /\ worker.pc \in {"tickProducer", "tickErase", "tickDetach", "tickConsumers",
                                        "evict", "evictErase", "evictRemove"}

\* A consumer that has left its session is gone for good: no later timer tick,
\* close task or packet attaches or registers it again.  (An FLV viewer whose
\* connection goes while it is being added has not left: it stays a consumer.)
LeftForGood ==
  [][\A c \in Play \cup Flv :
       owner[c] # NoSession /\ c \notin consumers[owner[c]] /\ ~BeingAdded(c) =>
         /\ c \notin consumers'[owner[c]]
         /\ \A v \in Services : c \in ufrags'[v] => c \in ufrags[v]]_vars

\* An RTC peer that stops sending STUN requests leaves its session: the timer
\* evicts it, unless the process has failed first.
SilentPeersLeave ==
  \A p \in Rtc :
    <>[](~fresh[p]) =>
      <>[](fault # "none" \/ \A o \in Objs : ~Attached(o, p))

-----------------------------------------------------------------------------
(* The media service implements the session directory.                     *)

Directory == INSTANCE SessionDirectory WITH
  Publishers <- Push \cup Gb,
  Viewers <- Play \cup Flv,
  current <- sessions,
  opened <- created,
  slot <- producer,
  members <- consumers,
  past <- {p \in Peers : owner[p] # NoSession /\ ~BeingAdded(p)},
  up <- (fault = "none")

\* With its threads, timers, lost peers and late tasks the service still does
\* to names, slots and memberships only what the directory allows.
ImplementsDirectory == Directory!DirSpec

-----------------------------------------------------------------------------
(* Statements of the source that its code does not keep.                   *)

ClosePending(p) == \E i \in 1 .. Len(queue) : queue[i] = PeerTask("close", p)

\* rtc_producer_dtls.cpp, OnDtlsClosed: the clean-up "unregisters the RTC
\* interface from the RTC service".
ClosedProducerUnregistered ==
  \A p \in Push, v \in Services :
    dtls[p] \in {"closed", "failed"} /\ ~ClosePending(p) => p \notin ufrags[v]

=============================================================================
