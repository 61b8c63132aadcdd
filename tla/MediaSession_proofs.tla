------------------------ MODULE MediaSession_proofs ------------------------
(***************************************************************************)
(* Safety of the media service for every number of names, peers, sessions, *)
(* workers and queued tasks.                                               *)
(***************************************************************************)
EXTENDS MediaSession, TLAPS

(***************************************************************************)
(* The inductive invariant.  Beside the properties it says what the task   *)
(* the worker is in, and the tasks still queued, may rely on: the peer is  *)
(* one that was negotiated for the session the task is about to change.    *)
(***************************************************************************)

\* A peer is created before its offer is accepted.
CreatedFirst == \A p \in Rtc : Negotiated(p) => owner[p] # NoSession

\* A close or key frame task is about a negotiated peer of the right kind.
QueuedPeers ==
  \A i \in 1 .. Len(queue) :
    queue[i].kind \in {"close", "keyframe"} =>
      queue[i].peer \in Rtc /\ Negotiated(queue[i].peer)

\* The peer a step of the worker is about is of the right kind and belongs to the
\* session the step changes.
PeerSteps == WorkerSteps \ {"idle", "tickConsumers", "evict", "fanout"}

WorkerPeers ==
  /\ worker.pc \in {"offer", "register"} => worker.peer \in Rtc
  /\ worker.pc = "addFlv" => worker.peer \in Flv
  /\ worker.pc \in {"tickProducer", "tickErase", "tickDetach", "closeDetach"} => worker.peer \in Push
  /\ worker.pc \in {"evictErase", "evictRemove", "close", "closeRemove"} => worker.peer \in Play
  /\ worker.pc \in PeerSteps => worker.obj \in Objs /\ owner[worker.peer] = worker.obj
  /\ worker.pc \in {"evict", "evictErase", "evictRemove"} =>
       worker.obj \in Objs /\ \A c \in worker.todo : owner[c] = worker.obj
  /\ worker.pc = "tickConsumers" => worker.obj \in Objs

\* What the first steps of a task have done still holds in the later ones: a peer
\* that is to be registered is attached and negotiated, the session of an FLV
\* viewer has its name, and a peer that is to be detached is unregistered.
WorkerHalves ==
  /\ worker.pc \in {"offer", "register"} => Attached(worker.obj, worker.peer)
  /\ worker.pc = "register" => Negotiated(worker.peer)
  /\ worker.pc = "addFlv" => \E n \in Names : sessions[n] = worker.obj
  /\ worker.pc \in {"tickDetach", "evictRemove", "closeRemove"} =>
       worker.peer \notin ufrags[Service(worker.obj)]

IInv == TypeOK /\ Isolation /\ AttachedIsReachable /\ CreatedFirst /\ QueuedPeers /\ WorkerPeers
          /\ WorkerHalves


(***************************************************************************)
(* Types.                                                                  *)
(***************************************************************************)
LEMMA ServiceType == \A o \in Objs : Service(o) \in Services
  BY Assumption DEF Service, Services, Objs

\* What the worker may be set to, and what may be posted to it.
LEMMA InType ==
  ASSUME NEW pc \in WorkerSteps,
         NEW o \in Objs \cup {NoSession}, NEW p \in Rtc \cup Flv \cup {None},
         NEW key \in Addrs \cup {None}, NEW todo \in SUBSET Play
  PROVE  In(pc, o, p, key, todo) \in WorkerStates
  BY DEF In, WorkerStates

LEMMA AtType ==
  ASSUME NEW pc \in {"idle", "tickConsumers", "fanout"}, NEW o \in Objs \cup {NoSession}
  PROVE  At(pc, o) \in WorkerStates /\ Idle \in WorkerStates
  BY InType DEF At, Idle, NoSession, WorkerSteps

LEMMA WorkerFields ==
  ASSUME TypeOK
  PROVE  /\ worker.obj \in Objs \cup {NoSession}
         /\ worker.peer \in Rtc \cup Flv \cup {None}
         /\ worker.key \in Addrs \cup {None}
         /\ worker.todo \in SUBSET Play
  BY DEF TypeOK, WorkerStates

LEMMA TaskType ==
  /\ \A k \in {"close", "keyframe"}, p \in Rtc : PeerTask(k, p) \in Tasks
  /\ \A k \in {"fanout", "upstream"}, o \in Objs \cup {NoSession} : SessionTask(k, o) \in Tasks
  BY DEF PeerTask, SessionTask, Tasks, NoSession

LEMMA QueueHead ==
  ASSUME TypeOK, queue # <<>>
  PROVE  /\ Tail(queue) \in Seq(Tasks)
         /\ Head(queue) \in Tasks
         /\ Head(queue).obj \in Objs \cup {NoSession}
<1>1. queue \in Seq(Tasks)
  BY DEF TypeOK
<1>2. Tail(queue) \in Seq(Tasks) /\ Head(queue) \in Tasks
  BY <1>1
<1>3. \A t \in Tasks : t.obj \in Objs \cup {NoSession}
  BY DEF Tasks
<1> QED
  BY <1>2, <1>3

\* A step that posts at most one task keeps the queue well typed.
LEMMA PostType ==
  ASSUME TypeOK, NEW t \in Tasks, Post(t) \/ queue' = queue
  PROVE  queue' \in Seq(Tasks)
<1>1. queue \in Seq(Tasks)
  BY DEF TypeOK
<1>2. Append(queue, t) \in Seq(Tasks)
  BY <1>1
<1> QED
  BY <1>1, <1>2 DEF Post

LEMMA CreateSessionType ==
  ASSUME TypeOK, NEW n \in Names, CreateSession(n)
  PROVE  /\ SessionFor(n) \in Objs
         /\ sessions' \in [Names -> Objs \cup {NoSession}]
         /\ created' \in 0 .. MaxSessions
         /\ timer' \in [Objs -> BOOLEAN]
<1>1. SessionFor(n) \in Objs
  BY DEF CreateSession
<1>2. sessions' \in [Names -> Objs \cup {NoSession}]
  BY <1>1 DEF TypeOK, CreateSession
<1>3. created' \in 0 .. MaxSessions
  BY <1>1, Assumption DEF TypeOK, CreateSession, SessionFor, Objs
<1>4. timer' \in [Objs -> BOOLEAN]
  BY DEF TypeOK, CreateSession
<1> QED
  BY <1>1, <1>2, <1>3, <1>4

LEMMA CreateType ==
  ASSUME TypeOK, NEW n \in Names, NEW p \in Peers, Create(n, p)
  PROVE  /\ SessionFor(n) \in Objs /\ sessions'[n] = SessionFor(n)
         /\ sessions' \in [Names -> Objs \cup {NoSession}]
         /\ created' \in 0 .. MaxSessions
         /\ timer' \in [Objs -> BOOLEAN]
         /\ owner' \in [Peers -> Objs \cup {NoSession}]
         /\ owner' = [owner EXCEPT ![p] = SessionFor(n)]
         /\ owner[p] = NoSession /\ owner'[p] = SessionFor(n)
<1>1. CreateSession(n) /\ owner' = [owner EXCEPT ![p] = SessionFor(n)] /\ owner[p] = NoSession
  BY DEF Create
<1>2. SessionFor(n) \in Objs /\ sessions' = [sessions EXCEPT ![n] = SessionFor(n)]
  BY <1>1 DEF CreateSession
<1>3. owner' \in [Peers -> Objs \cup {NoSession}] /\ owner'[p] = SessionFor(n)
  BY <1>1, <1>2 DEF TypeOK
<1>4. sessions'[n] = SessionFor(n)
  BY <1>2 DEF TypeOK
<1> QED
  BY <1>1, <1>2, <1>3, <1>4, CreateSessionType

LEMMA RegisterType ==
  ASSUME TypeOK, NEW v, NEW p \in Rtc, RegisterRtcInterface(v, p)
  PROVE  ufrags' \in [Services -> SUBSET Rtc]
  BY DEF TypeOK, RegisterRtcInterface

LEMMA UnregisterType ==
  ASSUME TypeOK, NEW v, NEW p, NEW key, UnregisterRtcInterface(v, p, key)
  PROVE  ufrags' \in [Services -> SUBSET Rtc] /\ routes' \in [Services -> [Addrs -> Rtc \cup {None}]]
<1>1. ufrags' \in [Services -> SUBSET Rtc]
  BY DEF TypeOK, UnregisterRtcInterface
<1> DEFINE R == [a \in Addrs |-> IF a = key THEN None ELSE routes[v][a]]
<1>2. routes' = [routes EXCEPT ![v] = R]
  BY DEF UnregisterRtcInterface
<1>3. ASSUME v \in Services PROVE R \in [Addrs -> Rtc \cup {None}]
  <2>1. routes[v] \in [Addrs -> Rtc \cup {None}]
    BY <1>3 DEF TypeOK
  <2> QED
    BY <2>1
<1> HIDE DEF R
<1>4. routes' \in [Services -> [Addrs -> Rtc \cup {None}]]
  BY <1>2, <1>3 DEF TypeOK
<1> QED
  BY <1>1, <1>4

LEMMA InitTypeOK == Init => TypeOK
  BY Assumption, AtType DEF Init, TypeOK, Idle, Objs, NoSession, Rtc, Peers, Services

LEMMA StepTypeOK == TypeOK /\ QueuedPeers /\ WorkerPeers /\ [Next]_vars => TypeOK'
<1> SUFFICES ASSUME TypeOK, QueuedPeers, WorkerPeers, [Next]_vars PROVE TypeOK'
  OBVIOUS
<1> USE DEF TypeOK, Peers, Rtc, NoSession
<1>0. CASE UNCHANGED vars
  BY <1>0 DEF vars, sessVars, peerVars, svcVars
<1>1. ASSUME NEW n \in Names, NEW p \in Push, HandlerRtcProducer(n, p) PROVE TypeOK'
  <2>1. Create(n, p) /\ p \in Peers
    BY <1>1 DEF HandlerRtcProducer
  <2>2. producer' \in [Objs -> Push \cup Gb \cup {None}]
    BY <1>1, <2>1, CreateType DEF HandlerRtcProducer, SetProducer
  <2>3. worker' \in WorkerStates
    BY <1>1, <2>1, CreateType, InType DEF HandlerRtcProducer, WorkerSteps
  <2> QED
    BY <1>1, <2>1, <2>2, <2>3, CreateType DEF HandlerRtcProducer, svcVars, peerVars
<1>2. ASSUME NEW n \in Names, NEW c \in Play, HandlerRtcConsumer(n, c) PROVE TypeOK'
  <2>1. Create(n, c) /\ c \in Peers
    BY <1>2 DEF HandlerRtcConsumer
  <2>2. consumers' \in [Objs -> SUBSET (Play \cup Flv)]
    BY <1>2, <2>1, CreateType DEF HandlerRtcConsumer, AddConsumer
  <2>3. worker' \in WorkerStates
    BY <1>2, <2>1, CreateType, InType DEF HandlerRtcConsumer, WorkerSteps
  <2> QED
    BY <1>2, <2>1, <2>2, <2>3, CreateType DEF HandlerRtcConsumer, svcVars, peerVars
<1>3. ASSUME NEW n \in Names, NEW f \in Flv, HandlerFlvConsumer(n, f) PROVE TypeOK'
  <2>1. Create(n, f) /\ f \in Peers
    BY <1>3 DEF HandlerFlvConsumer
  <2>2. flvConn' \in [Flv -> {"none", "open", "closing", "closed"}]
    BY <1>3 DEF HandlerFlvConsumer
  <2>3. worker' \in WorkerStates
    BY <1>3, <2>1, CreateType, InType DEF HandlerFlvConsumer, WorkerSteps
  <2> QED
    BY <1>3, <2>1, <2>2, <2>3, CreateType DEF HandlerFlvConsumer, svcVars, peerVars
<1>4. ASSUME NEW n \in Names, NEW g \in Gb, HandlerOpenRtpServer(n, g) PROVE TypeOK'
  <2>1. sessions' \in [Names -> Objs \cup {NoSession}]
    BY <1>4, CreateSessionType DEF HandlerOpenRtpServer
  <2>2. created' \in 0 .. MaxSessions
    BY <1>4, CreateSessionType DEF HandlerOpenRtpServer
  <2>3. timer' \in [Objs -> BOOLEAN]
    BY <1>4, CreateSessionType DEF HandlerOpenRtpServer
  <2>4. owner' \in [Peers -> Objs \cup {NoSession}]
    <3>1. owner' = owner \/ owner' = [owner EXCEPT ![g] = SessionFor(n)]
      BY <1>4 DEF HandlerOpenRtpServer
    <3>2. SessionFor(n) \in Objs
      BY <1>4, CreateSessionType DEF HandlerOpenRtpServer
    <3> QED
      BY <3>1, <3>2
  <2>5. producer' \in [Objs -> Push \cup Gb \cup {None}]
    BY <1>4, CreateSessionType DEF HandlerOpenRtpServer, SetProducer
  <2>6. rtpServer' \in [Names -> Gb \cup {None}]
    BY <1>4, Assumption DEF HandlerOpenRtpServer, SetProducer, CreateSession
  <2> QED
    BY <1>4, <2>1, <2>2, <2>3, <2>4, <2>5, <2>6 DEF HandlerOpenRtpServer, svcVars, peerVars
<1>5. ASSUME NEW n \in Names, HandlerHls(n) PROVE TypeOK'
  <2>1. sessions' \in [Names -> Objs \cup {NoSession}]
    BY <1>5, CreateSessionType DEF HandlerHls
  <2>2. created' \in 0 .. MaxSessions
    BY <1>5, CreateSessionType DEF HandlerHls
  <2>3. timer' \in [Objs -> BOOLEAN]
    BY <1>5, CreateSessionType DEF HandlerHls
  <2> QED
    BY <1>5, <2>1, <2>2, <2>3 DEF HandlerHls, svcVars, peerVars
<1>6. ASSUME NEW n \in Names, HandlerCloseRtpServer(n) PROVE TypeOK'
  <2>1. sessions' \in [Names -> Objs \cup {NoSession}]
    BY <1>6, Assumption DEF HandlerCloseRtpServer, SetProducer
  <2>2. producer' \in [Objs -> Push \cup Gb \cup {None}]
    BY <1>6, Assumption DEF HandlerCloseRtpServer, SetProducer
  <2>3. consumers' \in [Objs -> SUBSET (Play \cup Flv)]
    BY <1>6, Assumption DEF HandlerCloseRtpServer, SetProducer
  <2> QED
    BY <1>6, <2>1, <2>2, <2>3 DEF HandlerCloseRtpServer, svcVars, peerVars
<1>7. ASSUME NEW o \in Objs, TimerFires(o) PROVE TypeOK'
  <2>1. timer' \in [Objs -> BOOLEAN]
    BY <1>7, Assumption DEF TimerFires
  <2>2. worker' \in WorkerStates
    <3>1. CASE producer[o] \in Push /\ Stale(producer[o])
      BY <1>7, <3>1, InType DEF TimerFires, WorkerSteps
    <3>2. CASE ~(producer[o] \in Push /\ Stale(producer[o]))
      BY <1>7, <3>2, AtType DEF TimerFires
    <3> QED
      BY <3>1, <3>2
  <2> QED
    BY <1>7, <2>1, <2>2 DEF TimerFires, svcVars, peerVars
<1>8. CASE TickProducer \/ TickProducerErase \/ TickProducerDetach
  <2>0. /\ worker.obj \in Objs /\ worker.peer \in Push /\ worker.todo \in SUBSET Play
        /\ remote[worker.peer] \in Addrs \cup {None}
    BY <1>8, WorkerFields DEF TickProducer, TickProducerErase, TickProducerDetach, WorkerPeers,
       PeerSteps, WorkerSteps
  <2>1. CASE TickProducer
    <3>1. worker' \in WorkerStates
      BY <2>0, <2>1 DEF TickProducer, WorkerStates, WorkerSteps
    <3> QED
      BY <2>1, <3>1 DEF TickProducer, sessVars, svcVars, peerVars
  <2>2. CASE TickProducerErase
    <3>1. UnregisterRtcInterface(Service(worker.obj), worker.peer, worker.key)
      BY <2>2 DEF TickProducerErase
    <3>2. worker' \in WorkerStates
      BY <2>0, <2>2, InType DEF TickProducerErase, WorkerSteps
    <3> QED
      BY <2>2, <3>1, <3>2, UnregisterType DEF TickProducerErase, sessVars, peerVars
  <2>3. CASE TickProducerDetach
    <3>1. producer' \in [Objs -> Push \cup Gb \cup {None}]
      BY <2>3 DEF TickProducerDetach, SetProducer
    <3>2. worker' \in WorkerStates
      BY <2>0, <2>3, AtType DEF TickProducerDetach
    <3> QED
      BY <2>3, <3>1, <3>2 DEF TickProducerDetach, svcVars, peerVars
  <2> QED
    BY <1>8, <2>1, <2>2, <2>3
<1>9. ASSUME TickConsumers PROVE TypeOK'
  <2>1. worker' \in WorkerStates
    <3> DEFINE late == {c \in consumers[worker.obj] : Stale(c)}
    <3>1. CASE late = {}
      BY <1>9, <3>1, AtType DEF TickConsumers
    <3>2. CASE late # {}
      <4>1. worker.obj \in Objs
        BY <1>9 DEF TickConsumers, WorkerPeers
      <4>2. late \in SUBSET Play
        BY <4>1, Assumption DEF Stale
      <4>3. worker' = In("evict", worker.obj, None, None, late)
        BY <1>9, <3>2 DEF TickConsumers
      <4> HIDE DEF late
      <4> QED
        BY <4>1, <4>2, <4>3, InType DEF WorkerSteps
    <3> QED
      BY <3>1, <3>2
  <2>2. timer' \in [Objs -> BOOLEAN]
    <3>1. timer' = timer \/ timer' = [timer EXCEPT ![worker.obj] = TRUE]
      BY <1>9, Zenon DEF TickConsumers
    <3> QED
      BY <3>1
  <2> QED
    BY <1>9, <2>1, <2>2 DEF TickConsumers, svcVars, peerVars
<1>10. ASSUME NEW c \in Play, EvictNext(c) PROVE TypeOK'
  <2>1. worker' \in WorkerStates
    BY <1>10, InType, WorkerFields DEF EvictNext, WorkerSteps
  <2> QED
    BY <1>10, <2>1 DEF EvictNext, sessVars, svcVars, peerVars
<1>11. CASE EvictErase \/ CloseConsumerErase
  <2>1. UnregisterRtcInterface(Service(worker.obj), worker.peer, worker.key)
    BY <1>11 DEF EvictErase, CloseConsumerErase
  <2>2. worker' \in WorkerStates
    <3>1. CASE EvictErase
      BY <3>1, InType, WorkerFields DEF EvictErase, WorkerSteps
    <3>2. CASE CloseConsumerErase
      BY <3>2, InType, WorkerFields DEF CloseConsumerErase, WorkerSteps
    <3> QED
      BY <1>11, <3>1, <3>2
  <2> QED
    BY <1>11, <2>1, <2>2, UnregisterType DEF EvictErase, CloseConsumerErase, sessVars, peerVars
<1>12. CASE EvictRemove \/ CloseConsumerRemove
  <2>1. RemoveConsumer(worker.obj, worker.peer)
    BY <1>12 DEF EvictRemove, CloseConsumerRemove
  <2>2. consumers' \in [Objs -> SUBSET (Play \cup Flv)]
    BY <2>1 DEF RemoveConsumer
  <2>3. worker' \in WorkerStates
    <3>1. worker' = Idle \/ worker' = In("evict", worker.obj, None, None, worker.todo)
      BY <1>12 DEF EvictRemove, CloseConsumerRemove
    <3>2. In("evict", worker.obj, None, None, worker.todo) \in WorkerStates
      BY InType, WorkerFields DEF WorkerSteps
    <3> QED
      BY <3>1, <3>2, AtType
  <2>4. timer' \in [Objs -> BOOLEAN]
    BY <1>12 DEF EvictRemove, CloseConsumerRemove
  <2> QED
    BY <1>12, <2>2, <2>3, <2>4 DEF EvictRemove, CloseConsumerRemove, svcVars, peerVars
<1>13. ASSUME FanoutDone PROVE TypeOK'
  <2>1. worker' \in WorkerStates
    BY <1>13, InType, AtType, WorkerFields, QueueHead DEF FanoutDone
  <2> QED
    BY <1>13, <2>1 DEF FanoutDone, sessVars, svcVars, peerVars
<1>14. ASSUME NEW p \in Push, CloseProducerTask(p) PROVE TypeOK'
  <2>1. queue' \in Seq(Tasks)
    BY <1>14, QueueHead DEF CloseProducerTask, Take
  <2>2. ufrags' \in [Services -> SUBSET Rtc]
    BY <1>14, RegisterType DEF CloseProducerTask, Take
  <2>3. worker' \in WorkerStates
    BY <1>14, InType DEF CloseProducerTask, WorkerSteps
  <2> QED
    BY <1>14, <2>1, <2>2, <2>3 DEF CloseProducerTask, sessVars, peerVars, Take
<1>15. ASSUME NEW c \in Play, CloseConsumerTask(c) PROVE TypeOK'
  <2>1. queue' \in Seq(Tasks)
    BY <1>15, TaskType, QueueHead DEF CloseConsumerTask, Take
  <2>2. worker' \in WorkerStates
    BY <1>15, InType DEF CloseConsumerTask, Take, WorkerSteps
  <2> QED
    BY <1>15, <2>1, <2>2 DEF CloseConsumerTask, sessVars, svcVars, peerVars, Take
<1>16. ASSUME FanoutTask PROVE TypeOK'
  <2>1. queue' \in Seq(Tasks)
    BY <1>16, TaskType, QueueHead DEF FanoutTask, Take
  <2>2. worker' \in WorkerStates
    BY <1>16, InType, AtType, WorkerFields, QueueHead DEF FanoutTask, Take
  <2> QED
    BY <1>16, <2>1, <2>2 DEF FanoutTask, sessVars, svcVars, peerVars, Take
<1>17. ASSUME UpstreamTask PROVE TypeOK'
  <2>1. queue' \in Seq(Tasks)
    BY <1>17, TaskType, QueueHead DEF UpstreamTask, Take
  <2> QED
    BY <1>17, <2>1 DEF UpstreamTask, sessVars, svcVars, peerVars, Take
<1>18. ASSUME KeyFrameTask PROVE TypeOK'
  <2>1. queue' \in Seq(Tasks)
    <3>1. Head(queue) \in Tasks /\ Tail(queue) \in Seq(Tasks)
      BY <1>18, QueueHead DEF KeyFrameTask
    <3> DEFINE o == owner[Head(queue).peer]
    <3>2. CASE queue' = Tail(queue)
      BY <3>1, <3>2
    <3>3. CASE queue' = Append(Tail(queue), SessionTask("upstream", o))
      <4>1. Head(queue).peer \in Rtc
        BY <1>18 DEF KeyFrameTask, QueuedPeers
      <4>2. SessionTask("upstream", o) \in Tasks
        BY <4>1, TaskType
      <4> QED
        BY <3>1, <3>3, <4>2
    <3> QED
      BY <1>18, <3>2, <3>3 DEF KeyFrameTask
  <2> QED
    BY <1>18, <2>1 DEF KeyFrameTask, sessVars, svcVars, peerVars
<1>19. ASSUME UseAfterFree PROVE TypeOK'
  BY <1>19 DEF UseAfterFree, sessVars, svcVars, peerVars
<1>20. ASSUME NEW v \in Services, NEW p \in Rtc, NEW a \in Addrs, NEW udp \in BOOLEAN, OnStun(v, p, a, udp) PROVE TypeOK'
  <2>1. remote' \in [Rtc -> Addrs \cup {None}]
    BY <1>20, Assumption DEF OnStun
  <2>2. fresh' \in [Rtc -> BOOLEAN]
    BY <1>20, Assumption DEF OnStun
  <2>3. routes' \in [Services -> [Addrs -> Rtc \cup {None}]]
    BY <1>20, Assumption DEF OnStun
  <2> QED
    BY <1>20, <2>1, <2>2, <2>3 DEF OnStun, sessVars
<1>21. ASSUME NEW p \in Rtc, StunTimeout(p) PROVE TypeOK'
  <2>1. fresh' \in [Rtc -> BOOLEAN]
    BY <1>21, Assumption DEF StunTimeout
  <2> QED
    BY <1>21, <2>1 DEF StunTimeout, sessVars, svcVars
<1>22. ASSUME NEW v \in Services, NEW a \in Addrs, OnDtlsConnected(v, a) PROVE TypeOK'
  <2>1. dtls' \in [Rtc -> {"idle", "connecting", "done", "closed", "failed"}]
    BY <1>22, Assumption DEF OnDtlsConnected, Post
  <2>2. queue' \in Seq(Tasks)
    BY <1>22, TaskType, PostType DEF OnDtlsConnected
  <2> QED
    BY <1>22, <2>1, <2>2 DEF OnDtlsConnected, sessVars, svcVars, Post
<1>23. ASSUME NEW v \in Services, NEW a \in Addrs, OnDtlsClosed(v, a) PROVE TypeOK'
  <2>1. dtls' \in [Rtc -> {"idle", "connecting", "done", "closed", "failed"}]
    BY <1>23, Assumption DEF OnDtlsClosed, Post
  <2>2. queue' \in Seq(Tasks)
    BY <1>23, TaskType, PostType DEF OnDtlsClosed
  <2> QED
    BY <1>23, <2>1, <2>2 DEF OnDtlsClosed, sessVars, svcVars, Post
<1>24. ASSUME NEW v \in Services, NEW a \in Addrs, OnDataChannel(v, a) PROVE TypeOK'
  <2>1. queue' \in Seq(Tasks)
    BY <1>24, TaskType, PostType DEF OnDataChannel
  <2> QED
    BY <1>24, <2>1 DEF OnDataChannel, sessVars, svcVars, peerVars, Post
<1>25. ASSUME NEW v \in Services, NEW a \in Addrs, OnRtp(v, a) PROVE TypeOK'
  <2>1. queue' \in Seq(Tasks)
    BY <1>25, TaskType, PostType DEF OnRtp
  <2> QED
    BY <1>25, <2>1 DEF OnRtp, sessVars, svcVars, peerVars, Post
<1>26. ASSUME NEW v \in Services, NEW a \in Addrs, OnRtcp(v, a) PROVE TypeOK'
  <2>1. queue' \in Seq(Tasks)
    BY <1>26, TaskType, PostType DEF OnRtcp
  <2> QED
    BY <1>26, <2>1 DEF OnRtcp, sessVars, svcVars, peerVars, Post
<1>27. ASSUME NEW n \in Names, OnRecv(n) PROVE TypeOK'
  <2>1. queue' \in Seq(Tasks)
    BY <1>27, TaskType, PostType DEF OnRecv
  <2> QED
    BY <1>27, <2>1 DEF OnRecv, sessVars, svcVars, peerVars, Post
<1>28. ASSUME NEW f \in Flv, OnDestroy(f) PROVE TypeOK'
  <2>1. consumers' \in [Objs -> SUBSET (Play \cup Flv)]
    BY <1>28, Assumption DEF OnDestroy, RemoveConsumer
  <2>2. flvConn' \in [Flv -> {"none", "open", "closing", "closed"}]
    BY <1>28, Assumption DEF OnDestroy, RemoveConsumer
  <2> QED
    BY <1>28, <2>1, <2>2 DEF OnDestroy, svcVars, peerVars
<1>29. ASSUME NEW f \in Flv, ClearContext(f) PROVE TypeOK'
  <2>1. flvConn' \in [Flv -> {"none", "open", "closing", "closed"}]
    BY <1>29, Assumption DEF ClearContext
  <2> QED
    BY <1>29, <2>1 DEF ClearContext, sessVars, svcVars, peerVars
<1>30. CASE ProcessOfferSdp \/ RegisterOffered
  <2>0. worker.peer \in Rtc /\ worker.obj \in Objs
    BY <1>30 DEF ProcessOfferSdp, RegisterOffered, WorkerPeers, PeerSteps, WorkerSteps
  <2>1. CASE ProcessOfferSdp
    <3>1. worker' \in WorkerStates
      <4>1. [worker EXCEPT !.pc = "register"] \in WorkerStates
        BY DEF WorkerStates, WorkerSteps
      <4> QED
        BY <2>1, <4>1, AtType DEF ProcessOfferSdp
    <3>2. dtls' \in [Rtc -> {"idle", "connecting", "done", "closed", "failed"}]
      BY <2>1 DEF ProcessOfferSdp
    <3> QED
      BY <2>1, <3>1, <3>2 DEF ProcessOfferSdp, sessVars, svcVars
  <2>2. CASE RegisterOffered
    <3>1. ufrags' \in [Services -> SUBSET Rtc]
      BY <2>0, <2>2, RegisterType DEF RegisterOffered
    <3> QED
      BY <2>2, <3>1, AtType DEF RegisterOffered, sessVars, peerVars
  <2> QED
    BY <1>30, <2>1, <2>2
<1>31. ASSUME AddFlv PROVE TypeOK'
  <2>1. worker.peer \in Flv /\ worker' \in WorkerStates
    BY <1>31, AtType DEF AddFlv, WorkerPeers
  <2>2. consumers' \in [Objs -> SUBSET (Play \cup Flv)]
    BY <1>31, <2>1 DEF AddFlv, AddConsumer
  <2> QED
    BY <1>31, <2>1, <2>2 DEF AddFlv, svcVars, peerVars
<1>32. ASSUME CloseProducerDetach PROVE TypeOK'
  <2>1. producer' \in [Objs -> Push \cup Gb \cup {None}] /\ worker' \in WorkerStates
    BY <1>32, AtType DEF CloseProducerDetach, SetProducer
  <2> QED
    BY <1>32, <2>1 DEF CloseProducerDetach, svcVars, peerVars
<1> HIDE DEF TypeOK, Peers, Rtc, NoSession
<1> QED
  BY <1>0, <1>1, <1>2, <1>3, <1>4, <1>5, <1>6, <1>7, <1>8, <1>9, <1>10, <1>11, <1>12, <1>13, <1>14, <1>15, <1>16, <1>17, <1>18, <1>19, <1>20, <1>21, <1>22, <1>23, <1>24, <1>25, <1>26, <1>27, <1>28, <1>29, <1>30, <1>31, <1>32
  DEF Next, HttpStep, TaskStep, QueueStep, NetworkStep, Rtc

(***************************************************************************)
(* What a step leaves alone.                                               *)
(***************************************************************************)
LEMMA HttpFrame ==
  ASSUME HttpStep
  PROVE  worker = Idle /\ Ready /\ UNCHANGED <<peerVars, svcVars, queue>>
  BY DEF HttpStep, HandlerRtcProducer, HandlerRtcConsumer, HandlerFlvConsumer, HandlerOpenRtpServer,
     HandlerHls, HandlerCloseRtpServer, Create, Ready, svcVars, peerVars

LEMMA TimerFrame ==
  ASSUME NEW o \in Objs, TimerFires(o)
  PROVE  /\ worker = Idle
         /\ UNCHANGED <<sessions, created, producer, consumers, owner, peerVars, svcVars, queue, fault>>
  BY DEF TimerFires, Ready, svcVars, peerVars

LEMMA TaskFrame ==
  ASSUME TaskStep
  PROVE  /\ worker.pc \in WorkerSteps \ {"idle"} /\ Running
         /\ UNCHANGED <<sessions, created, owner, queue, fault, remote, fresh>>
<1>1. CASE ProcessOfferSdp \/ RegisterOffered \/ AddFlv
  BY <1>1 DEF ProcessOfferSdp, RegisterOffered, AddFlv, WorkerSteps, sessVars, peerVars
<1>2. CASE TickProducer \/ TickProducerErase \/ TickProducerDetach \/ TickConsumers
  BY <1>2 DEF TickProducer, TickProducerErase, TickProducerDetach, TickConsumers, WorkerSteps,
     sessVars, peerVars
<1>3. CASE (\E c \in Play : EvictNext(c)) \/ EvictErase \/ EvictRemove
  BY <1>3 DEF EvictNext, EvictErase, EvictRemove, WorkerSteps, sessVars, peerVars
<1>4. CASE CloseProducerDetach \/ CloseConsumerErase \/ CloseConsumerRemove \/ FanoutDone
  BY <1>4 DEF CloseProducerDetach, CloseConsumerErase, CloseConsumerRemove, FanoutDone, WorkerSteps,
     sessVars, peerVars
<1> QED
  BY <1>1, <1>2, <1>3, <1>4 DEF TaskStep

LEMMA QueueFrame ==
  ASSUME QueueStep
  PROVE  worker = Idle /\ Running
         /\ UNCHANGED <<sessVars, peerVars, routes>>
  BY DEF QueueStep, CloseProducerTask, CloseConsumerTask, FanoutTask, UpstreamTask, KeyFrameTask,
     UseAfterFree, Take, Ready, svcVars

LEMMA NetworkFrame ==
  ASSUME TypeOK, NetworkStep
  PROVE  /\ UNCHANGED <<sessions, created, timer, producer, owner, ufrags, worker>>
         /\ \A o \in Objs : consumers'[o] \subseteq consumers[o]
         /\ \A o \in Objs, c \in Play : c \in consumers[o] => c \in consumers'[o]
<1>1. CASE \E v \in Services, p \in Rtc, a \in Addrs, udp \in BOOLEAN : OnStun(v, p, a, udp)
  BY <1>1 DEF OnStun, sessVars
<1>2. CASE \E p \in Rtc : StunTimeout(p)
  BY <1>2 DEF StunTimeout, sessVars, svcVars
<1>3. CASE \E v \in Services, a \in Addrs : OnDtlsConnected(v, a) \/ OnDtlsClosed(v, a) \/ OnDataChannel(v, a)
  BY <1>3 DEF OnDtlsConnected, OnDtlsClosed, OnDataChannel, sessVars, svcVars
<1>4. CASE \E v \in Services, a \in Addrs : OnRtp(v, a) \/ OnRtcp(v, a)
  BY <1>4 DEF OnRtp, OnRtcp, sessVars, svcVars
<1>5. CASE (\E n \in Names : OnRecv(n)) \/ \E f \in Flv : ClearContext(f)
  BY <1>5 DEF OnRecv, ClearContext, sessVars, svcVars
<1>6. ASSUME NEW f \in Flv, OnDestroy(f)
      PROVE  /\ UNCHANGED <<sessions, created, timer, producer, owner, ufrags, worker>>
             /\ \A o \in Objs : consumers'[o] \subseteq consumers[o]
             /\ \A o \in Objs, c \in Play : c \in consumers[o] => c \in consumers'[o]
  BY <1>6, Assumption DEF OnDestroy, RemoveConsumer, svcVars, TypeOK
<1> QED
  BY <1>1, <1>2, <1>3, <1>4, <1>5, <1>6 DEF NetworkStep

\* An offer is accepted once, by the worker, and stays accepted.
LEMMA OnlyOffersNegotiate ==
  ASSUME TypeOK, [Next]_vars, NEW p \in Rtc
  PROVE  /\ Negotiated(p) => Negotiated(p)'
         /\ ~Negotiated(p) /\ Negotiated(p)' =>
              ProcessOfferSdp /\ worker.peer = p /\ worker' = [worker EXCEPT !.pc = "register"]
<1> USE DEF Negotiated, TypeOK
<1>1. CASE UNCHANGED dtls
  BY <1>1
<1>2. CASE HttpStep \/ QueueStep \/ UNCHANGED vars \/ \E o \in Objs : TimerFires(o)
  BY <1>1, <1>2, HttpFrame, QueueFrame, TimerFrame DEF vars, peerVars
<1>3. CASE TaskStep
  <2>1. CASE ProcessOfferSdp
    BY <2>1 DEF ProcessOfferSdp
  <2>2. CASE ~ProcessOfferSdp
    BY <1>1, <1>3, <2>2 DEF TaskStep, RegisterOffered, AddFlv, TickProducer, TickProducerErase,
       TickProducerDetach, TickConsumers, EvictNext, EvictErase, EvictRemove, CloseProducerDetach,
       CloseConsumerErase, CloseConsumerRemove, FanoutDone, peerVars
  <2> QED
    BY <2>1, <2>2
<1>4. CASE NetworkStep
  <2>1. ASSUME NEW v \in Services, NEW a \in Addrs, OnDtlsConnected(v, a) \/ OnDtlsClosed(v, a)
        PROVE  Negotiated(p) <=> Negotiated(p)'
    BY <2>1 DEF OnDtlsConnected, OnDtlsClosed
  <2>2. dtls' = dtls \/ \E v \in Services, a \in Addrs : OnDtlsConnected(v, a) \/ OnDtlsClosed(v, a)
    BY <1>4 DEF NetworkStep, OnStun, StunTimeout, OnDataChannel, OnRtp, OnRtcp, OnRecv, OnDestroy,
                ClearContext, peerVars
  <2> QED
    BY <1>1, <2>1, <2>2
<1> QED
  BY <1>2, <1>3, <1>4 DEF Next

\* A peer belongs to one session object for good.
LEMMA OwnerIsFixed ==
  ASSUME TypeOK, [Next]_vars, NEW p \in Peers, owner[p] # NoSession
  PROVE  owner'[p] = owner[p]
<1>1. CASE owner' = owner
  BY <1>1
<1>2. ASSUME NEW n \in Names, NEW q \in Peers, Create(n, q) PROVE owner'[p] = owner[p]
  BY <1>2 DEF Create, TypeOK
<1>3. ASSUME NEW n \in Names, NEW g \in Gb, HandlerOpenRtpServer(n, g) PROVE owner'[p] = owner[p]
  BY <1>3 DEF HandlerOpenRtpServer, TypeOK
<1>4. CASE HttpStep
  <2>1. \/ owner' = owner
        \/ \E n \in Names, q \in Peers : Create(n, q)
        \/ \E n \in Names, g \in Gb : HandlerOpenRtpServer(n, g)
    BY <1>4 DEF HttpStep, HandlerRtcProducer, HandlerRtcConsumer, HandlerFlvConsumer, HandlerHls,
       HandlerCloseRtpServer, Peers, Rtc
  <2> QED
    BY <1>1, <1>2, <1>3, <2>1
<1> QED
  BY <1>1, <1>4, TaskFrame, QueueFrame, TimerFrame, NetworkFrame DEF Next, vars, sessVars

Attaching ==
  \/ \E n \in Names :
       \/ \E p \in Push : HandlerRtcProducer(n, p)
       \/ \E c \in Play : HandlerRtcConsumer(n, c)
       \/ \E g \in Gb : HandlerOpenRtpServer(n, g)
  \/ AddFlv

\* Only the handlers attach a peer: every other step at most detaches.
LEMMA OnlyAttachingAttaches ==
  ASSUME TypeOK, [Next]_vars, ~Attaching, NEW o \in Objs
  PROVE  producer'[o] \in {producer[o], None} /\ consumers'[o] \subseteq consumers[o]
<1> USE DEF TypeOK
<1>1. CASE HttpStep
  <2>1. PICK n \in Names : \/ \E f \in Flv : HandlerFlvConsumer(n, f)
                           \/ HandlerHls(n)
                           \/ HandlerCloseRtpServer(n)
    BY <1>1 DEF HttpStep, Attaching
  <2> QED
    BY <2>1 DEF HandlerFlvConsumer, HandlerHls, HandlerCloseRtpServer, SetProducer
<1>2. CASE TaskStep
  <2>1. CASE ProcessOfferSdp \/ RegisterOffered \/ TickProducer \/ TickProducerErase \/ TickConsumers
    BY <2>1 DEF ProcessOfferSdp, RegisterOffered, TickProducer, TickProducerErase, TickConsumers, sessVars
  <2>2. CASE (\E c \in Play : EvictNext(c)) \/ EvictErase \/ CloseConsumerErase \/ FanoutDone
    BY <2>2 DEF EvictNext, EvictErase, CloseConsumerErase, FanoutDone, sessVars
  <2>3. CASE TickProducerDetach \/ CloseProducerDetach
    BY <2>3 DEF TickProducerDetach, CloseProducerDetach, SetProducer
  <2>4. CASE EvictRemove \/ CloseConsumerRemove
    BY <2>4 DEF EvictRemove, CloseConsumerRemove, RemoveConsumer
  <2> QED
    BY <1>2, <2>1, <2>2, <2>3, <2>4 DEF TaskStep, Attaching
<1> QED
  BY <1>1, <1>2, QueueFrame, TimerFrame, NetworkFrame DEF Next, vars, sessVars

(***************************************************************************)
(* The invariant is inductive: one lemma for each of its parts.            *)
(***************************************************************************)
LEMMA StepCreatedFirst == TypeOK /\ CreatedFirst /\ WorkerPeers /\ [Next]_vars => CreatedFirst'
<1> SUFFICES ASSUME TypeOK, CreatedFirst, WorkerPeers, [Next]_vars, NEW p \in Rtc, Negotiated(p)'
             PROVE  owner'[p] # NoSession
  BY DEF CreatedFirst, Negotiated
<1>1. owner[p] # NoSession
  <2>1. CASE Negotiated(p)
    BY <2>1 DEF CreatedFirst
  <2>2. CASE ~Negotiated(p)
    <3>1. worker.pc = "offer" /\ worker.peer = p
      BY <2>2, OnlyOffersNegotiate DEF ProcessOfferSdp
    <3> QED
      BY <3>1 DEF WorkerPeers, PeerSteps, WorkerSteps, Objs, NoSession
  <2> QED
    BY <2>1, <2>2
<1> QED
  BY <1>1, OwnerIsFixed DEF Peers

LEMMA StepAttachedToOwner ==
  TypeOK /\ AttachedToOwner /\ WorkerPeers /\ [Next]_vars => AttachedToOwner'
<1> SUFFICES ASSUME TypeOK, AttachedToOwner, WorkerPeers, [Next]_vars,
                    NEW o \in Objs, NEW p \in Peers, Attached(o, p)'
             PROVE  owner'[p] = o
  BY DEF AttachedToOwner, Attached
<1>1. CASE Attached(o, p)
  BY <1>1, OwnerIsFixed DEF AttachedToOwner, Objs, NoSession
<1>2. CASE ~Attached(o, p)
  <2> USE DEF Attached, TypeOK, Peers, Rtc
  <2>1. Attaching
    BY <1>2, OnlyAttachingAttaches, Assumption
  <2>2. ASSUME NEW n \in Names, NEW q \in Push, HandlerRtcProducer(n, q) PROVE owner'[p] = o
    BY <1>2, <2>2, CreateType DEF HandlerRtcProducer, SetProducer
  <2>3. ASSUME NEW n \in Names, NEW c \in Play, HandlerRtcConsumer(n, c) PROVE owner'[p] = o
    BY <1>2, <2>3, CreateType DEF HandlerRtcConsumer, AddConsumer
  <2>4. ASSUME NEW n \in Names, NEW g \in Gb, HandlerOpenRtpServer(n, g) PROVE owner'[p] = o
    <3>1. CASE rtpServer[n] # None
      BY <1>2, <2>4, <3>1 DEF HandlerOpenRtpServer
    <3>2. CASE rtpServer[n] = None
      <4>1. owner' = [owner EXCEPT ![g] = SessionFor(n)]
        BY <2>4, <3>2 DEF HandlerOpenRtpServer
      <4>2. producer' = [producer EXCEPT ![SessionFor(n)] = g] /\ consumers' = consumers
        BY <2>4, <3>2 DEF HandlerOpenRtpServer, SetProducer
      <4>3. SessionFor(n) \in Objs
        BY <2>4, CreateSessionType DEF HandlerOpenRtpServer
      <4> QED
        BY <1>2, <4>1, <4>2, <4>3
    <3> QED
      BY <3>1, <3>2
  <2>5. CASE AddFlv
    <3>1. p = worker.peer /\ o = worker.obj
      BY <1>2, <2>5 DEF AddFlv, AddConsumer
    <3>2. owner[p] = o
      BY <2>5, <3>1 DEF AddFlv, WorkerPeers, PeerSteps, WorkerSteps
    <3> QED
      BY <2>5, <3>2 DEF AddFlv
  <2> QED
    BY <2>1, <2>2, <2>3, <2>4, <2>5 DEF Attaching
<1> QED
  BY <1>1, <1>2

\* A worker gets a ufrag when a handler registers the peer whose offer it has
\* accepted, from the close task of a producer, and from nothing else.
LEMMA OnlyRegistrationsAdd ==
  ASSUME TypeOK, [Next]_vars, NEW v \in Services, NEW p \in ufrags'[v], p \notin ufrags[v]
  PROVE  \/ RegisterOffered /\ worker.peer = p /\ v = Service(worker.obj)
         \/ p \in Push /\ CloseProducerTask(p) /\ v = Service(owner[p])
<1>a. ufrags' # ufrags
  OBVIOUS
<1>b. ASSUME NEW w, NEW q, RegisterRtcInterface(w, q) PROVE q = p /\ v = w
  BY <1>b DEF RegisterRtcInterface, TypeOK
<1>u. ASSUME NEW w, NEW q, NEW key, UnregisterRtcInterface(w, q, key) PROVE FALSE
  <2>1. ufrags' = [ufrags EXCEPT ![w] = @ \ {q}]
    BY <1>u DEF UnregisterRtcInterface
  <2>2. ufrags \in [Services -> SUBSET Rtc]
    BY DEF TypeOK
  <2>3. ufrags'[v] = IF v = w THEN ufrags[v] \ {q} ELSE ufrags[v]
    BY <2>1, <2>2
  <2> QED
    BY <2>3
<1>1. CASE TaskStep
  <2>1. ~(TickProducerErase \/ EvictErase \/ CloseConsumerErase)
    BY <1>u, Zenon DEF TickProducerErase, EvictErase, CloseConsumerErase
  <2>2. RegisterOffered
    BY <1>1, <1>a, <2>1 DEF TaskStep, ProcessOfferSdp, AddFlv, TickProducer, TickProducerDetach,
       TickConsumers, EvictNext, EvictRemove, CloseProducerDetach, CloseConsumerRemove, FanoutDone, svcVars
  <2> QED
    BY <1>b, <2>2 DEF RegisterOffered
<1>2. CASE QueueStep
  <2>1. PICK q \in Push : CloseProducerTask(q)
    BY <1>2, <1>a DEF QueueStep, CloseConsumerTask, FanoutTask, UpstreamTask, KeyFrameTask,
       UseAfterFree, svcVars
  <2>2. q = p /\ v = Service(owner[q])
    BY <1>b, <2>1 DEF CloseProducerTask
  <2> QED
    BY <2>1, <2>2
<1> QED
  BY <1>1, <1>2, <1>a, HttpFrame, TimerFrame, NetworkFrame DEF Next, vars, svcVars

\* An address is routed only to a peer whose ufrag the worker knows.
LEMMA OnlyKnownAreRouted ==
  ASSUME TypeOK, [Next]_vars, NEW v \in Services, NEW a \in Addrs, NEW p \in Rtc, routes'[v][a] = p
  PROVE  routes[v][a] = p \/ p \in ufrags[v]
<1> USE DEF TypeOK
<1>1. CASE TaskStep
  <2>1. ASSUME NEW w, NEW q, NEW key, UnregisterRtcInterface(w, q, key) PROVE routes[v][a] = p
    BY <2>1, Assumption DEF UnregisterRtcInterface, Peers
  <2>2. CASE TickProducerErase \/ EvictErase \/ CloseConsumerErase
    BY <2>1, <2>2, Zenon DEF TickProducerErase, EvictErase, CloseConsumerErase
  <2>3. CASE ~(TickProducerErase \/ EvictErase \/ CloseConsumerErase)
    BY <1>1, <2>3 DEF TaskStep, ProcessOfferSdp, RegisterOffered, AddFlv, TickProducer, TickProducerDetach,
       TickConsumers, EvictNext, EvictRemove, CloseProducerDetach, CloseConsumerRemove, FanoutDone, svcVars
  <2> QED
    BY <2>2, <2>3
<1>2. ASSUME NEW w \in Services, NEW q \in Rtc, NEW b \in Addrs, NEW udp, OnStun(w, q, b, udp)
      PROVE  routes[v][a] = p \/ p \in ufrags[v]
  <2>1. routes' = [routes EXCEPT ![w][b] = IF routes[w][b] = None THEN q ELSE routes[w][b]]
    BY <1>2 DEF OnStun
  <2>2. routes'[v][a] = routes[v][a] \/ (v = w /\ routes'[v][a] = q)
    BY <2>1
  <2> QED
    BY <1>2, <2>2 DEF OnStun
<1>3. CASE NetworkStep
  BY <1>2, <1>3 DEF NetworkStep, StunTimeout, OnDtlsConnected, OnDtlsClosed, OnDataChannel,
     OnRtp, OnRtcp, OnRecv, OnDestroy, ClearContext, svcVars
<1> QED
  BY <1>1, <1>3, HttpFrame, TimerFrame, QueueFrame DEF Next, vars, svcVars

LEMMA CloseTaskPeer ==
  ASSUME TypeOK, QueuedPeers, CreatedFirst, NEW p, Take("close"), Head(queue).peer = p
  PROVE  p \in Rtc /\ Negotiated(p) /\ owner[p] \in Objs
<1>1. 1 \in 1 .. Len(queue) /\ Head(queue) = queue[1]
  BY DEF Take, TypeOK
<1>2. p \in Rtc /\ Negotiated(p)
  BY <1>1 DEF QueuedPeers, Take
<1> QED
  BY <1>2 DEF CreatedFirst, TypeOK, Peers

LEMMA StepKnownToItsWorker == IInv /\ [Next]_vars => KnownToItsWorker'
<1> SUFFICES ASSUME IInv, [Next]_vars, NEW v \in Services, NEW p \in Rtc, Known(v, p)'
             PROVE  owner'[p] # NoSession /\ Service(owner'[p]) = v /\ Negotiated(p)'
  BY DEF KnownToItsWorker, Known, Negotiated, Service
<1> USE DEF IInv
<1>1. owner[p] # NoSession /\ Service(owner[p]) = v /\ Negotiated(p)
  <2>1. CASE Known(v, p)
    BY <2>1 DEF Isolation, KnownToItsWorker
  <2>2. CASE ~Known(v, p)
    <3>1. p \in ufrags'[v] /\ p \notin ufrags[v]
      BY <2>2, OnlyKnownAreRouted DEF Known
    <3>2. CASE RegisterOffered /\ worker.peer = p /\ v = Service(worker.obj)
      BY <3>2 DEF RegisterOffered, WorkerPeers, WorkerHalves, PeerSteps, WorkerSteps, Objs, NoSession
    <3>3. CASE p \in Push /\ CloseProducerTask(p) /\ v = Service(owner[p])
      BY <3>3, CloseTaskPeer DEF CloseProducerTask, Objs, NoSession
    <3> QED
      BY <3>1, <3>2, <3>3, OnlyRegistrationsAdd
  <2> QED
    BY <2>1, <2>2
<1> QED
  BY <1>1, OwnerIsFixed, OnlyOffersNegotiate DEF Peers

\* A ufrag is forgotten only by the steps that unregister the peer.
LEMMA OnlyUnregistrationsForget ==
  ASSUME TypeOK, [Next]_vars, NEW v \in Services, NEW p \in ufrags[v], p \notin ufrags'[v]
  PROVE  (TickProducerErase \/ EvictErase \/ CloseConsumerErase) /\ worker.peer = p
<1> USE DEF TypeOK
<1>r. ASSUME NEW w, NEW q PROVE ~RegisterRtcInterface(w, q)
  <2>1. p \in [ufrags EXCEPT ![w] = @ \cup {q}][v]
    OBVIOUS
  <2> QED
    BY <2>1 DEF RegisterRtcInterface
<1>u. ~UNCHANGED ufrags
  OBVIOUS
<1>1. CASE TaskStep
  <2>1. ASSUME NEW w, NEW q, NEW k, UnregisterRtcInterface(w, q, k) PROVE q = p
    BY <2>1 DEF UnregisterRtcInterface
  <2>2. ~RegisterOffered
    BY <1>r, Zenon DEF RegisterOffered
  <2>3. TickProducerErase \/ EvictErase \/ CloseConsumerErase
    BY <1>1, <1>u, <2>2 DEF TaskStep, ProcessOfferSdp, AddFlv, TickProducer, TickProducerDetach,
       TickConsumers, EvictNext, EvictRemove, CloseProducerDetach, CloseConsumerRemove, FanoutDone, svcVars
  <2> QED
    BY <2>1, <2>3, Zenon DEF TickProducerErase, EvictErase, CloseConsumerErase
<1>2. ~QueueStep
  <2>1. ASSUME NEW q \in Push PROVE ~CloseProducerTask(q)
    BY <1>r, Zenon DEF CloseProducerTask
  <2> QED
    BY <1>u, <2>1 DEF QueueStep, CloseConsumerTask, FanoutTask, UpstreamTask, KeyFrameTask,
       UseAfterFree, svcVars
<1> QED
  BY <1>1, <1>2, <1>u, HttpFrame, TimerFrame, NetworkFrame DEF Next, vars, svcVars

\* The peer the worker is about to detach is detached by that step.
LEMMA DetachingDetaches ==
  ASSUME IInv, TickProducerDetach \/ EvictRemove \/ CloseConsumerRemove
  PROVE  producer'[worker.obj] # worker.peer /\ worker.peer \notin consumers'[worker.obj]
<1> USE DEF IInv
<1>1. TypeOK /\ worker.obj \in Objs
  BY DEF TickProducerDetach, EvictRemove, CloseConsumerRemove, WorkerPeers, PeerSteps, WorkerSteps
<1>2. CASE TickProducerDetach
  <2>1. worker.peer \in Push /\ producer'[worker.obj] = None /\ consumers' = consumers
    BY <1>1, <1>2 DEF TickProducerDetach, SetProducer, WorkerPeers, TypeOK
  <2>2. worker.peer # None /\ worker.peer \notin consumers[worker.obj]
    BY <1>1, <2>1, Assumption DEF TypeOK, Peers, Rtc
  <2> QED
    BY <2>1, <2>2
<1>3. CASE EvictRemove \/ CloseConsumerRemove
  <2>1. worker.peer \in Play /\ worker.peer \notin consumers'[worker.obj] /\ producer' = producer
    BY <1>1, <1>3 DEF EvictRemove, CloseConsumerRemove, RemoveConsumer, WorkerPeers, TypeOK
  <2>2. worker.peer # producer[worker.obj]
    BY <1>1, <2>1, Assumption DEF TypeOK, Peers, Rtc
  <2> QED
    BY <2>1, <2>2
<1> QED
  BY <1>2, <1>3

LEMMA StepAttachedIsReachable == IInv /\ [Next]_vars => AttachedIsReachable'
<1> SUFFICES ASSUME IInv, [Next]_vars, NEW o \in Objs, NEW p \in Rtc,
                    Attached(o, p)', Negotiated(p)', ~InHand(p)'
             PROVE  p \in ufrags'[Service(o)]
  BY DEF AttachedIsReachable, Attached, Negotiated, Service, InHand
<1> USE DEF IInv
<1>1. CASE Attached(o, p)
  <2>1. owner[p] = o /\ Service(o) \in Services
    BY <1>1, ServiceType DEF Isolation, AttachedToOwner, Peers
  <2>2. CASE Negotiated(p) /\ ~InHand(p)
    <3>1. p \in ufrags[Service(o)]
      BY <1>1, <2>2 DEF AttachedIsReachable
    <3>2. ASSUME p \notin ufrags'[Service(o)] PROVE FALSE
      <4>1. (TickProducerErase \/ EvictErase \/ CloseConsumerErase) /\ worker.peer = p
        BY <2>1, <3>1, <3>2, OnlyUnregistrationsForget
      <4>2. worker'.peer = p /\ worker'.pc \in {"tickDetach", "evictRemove", "closeRemove"}
        BY <4>1 DEF TickProducerErase, EvictErase, CloseConsumerErase, In
      <4> QED
        BY <4>2 DEF InHand
    <3> QED
      BY <3>2
  <2>3. CASE InHand(p)
    <3>1. worker' # worker /\ worker # Idle
      BY <2>3 DEF InHand, Idle, At, In
    <3>2. TaskStep
      BY <3>1, HttpFrame, TimerFrame, QueueFrame, NetworkFrame DEF Next, vars
    <3>3. worker.peer = p /\ worker.obj = o
      BY <2>1, <2>3 DEF InHand, WorkerPeers, PeerSteps, WorkerSteps
    <3>4. RegisterOffered \/ TickProducerDetach \/ EvictRemove \/ CloseConsumerRemove
      BY <2>3, <3>2 DEF InHand, TaskStep, ProcessOfferSdp, AddFlv, TickProducer, TickProducerErase,
         TickConsumers, EvictNext, EvictErase, CloseProducerDetach, CloseConsumerErase, FanoutDone
    <3>5. RegisterOffered
      BY <3>3, <3>4, DetachingDetaches DEF Attached
    <3> QED
      BY <2>1, <3>3, <3>5 DEF RegisterOffered, RegisterRtcInterface, TypeOK
  <2>4. CASE ~Negotiated(p)
    <3>1. worker'.pc = "register" /\ worker'.peer = p
      BY <2>4, OnlyOffersNegotiate DEF TypeOK, WorkerStates
    <3> QED
      BY <3>1 DEF InHand
  <2> QED
    BY <2>2, <2>3, <2>4
<1>2. CASE ~Attached(o, p)
  <2>1. Attaching
    BY <1>2, OnlyAttachingAttaches, Assumption DEF Attached, Peers
  <2>2. ASSUME NEW n \in Names, NEW q \in Push, HandlerRtcProducer(n, q) PROVE FALSE
    <3>1. p = q /\ owner[p] = NoSession /\ dtls' = dtls
      BY <1>2, <2>2 DEF HandlerRtcProducer, Create, SetProducer, Attached, TypeOK, peerVars
    <3> QED
      BY <3>1 DEF CreatedFirst, Negotiated
  <2>3. ASSUME NEW n \in Names, NEW c \in Play, HandlerRtcConsumer(n, c) PROVE FALSE
    <3>1. p = c /\ owner[p] = NoSession /\ dtls' = dtls
      BY <1>2, <2>3 DEF HandlerRtcConsumer, Create, AddConsumer, Attached, TypeOK, peerVars
    <3> QED
      BY <3>1 DEF CreatedFirst, Negotiated
  <2>4. ASSUME NEW n \in Names, NEW g \in Gb, HandlerOpenRtpServer(n, g) PROVE FALSE
    BY <1>2, <2>4, Assumption DEF HandlerOpenRtpServer, SetProducer, Attached, TypeOK, Peers, Rtc
  <2>5. ASSUME AddFlv PROVE FALSE
    BY <1>2, <2>5, Assumption DEF AddFlv, AddConsumer, WorkerPeers, Attached, TypeOK, Peers, Rtc
  <2> QED
    BY <2>1, <2>2, <2>3, <2>4, <2>5 DEF Attaching
<1> QED
  BY <1>1, <1>2

LEMMA StepQueuedPeers == IInv /\ [Next]_vars => QueuedPeers'
<1> SUFFICES ASSUME IInv, [Next]_vars, NEW i \in 1 .. Len(queue'), queue'[i].kind \in {"close", "keyframe"}
             PROVE  queue'[i].peer \in Rtc /\ dtls'[queue'[i].peer] # "idle"
  BY DEF QueuedPeers, Negotiated
<1> USE DEF IInv
<1>1. ASSUME NEW j \in 1 .. Len(queue), queue'[i] = queue[j]
      PROVE  queue'[i].peer \in Rtc /\ dtls'[queue'[i].peer] # "idle"
  <2>1. queue[j].peer \in Rtc /\ Negotiated(queue[j].peer)
    BY <1>1 DEF QueuedPeers
  <2> QED
    BY <1>1, <2>1, OnlyOffersNegotiate DEF Negotiated
<1>2. queue \in Seq(Tasks)
  BY DEF TypeOK
<1>3. CASE queue' = queue
  BY <1>1, <1>3
<1>4. CASE queue # <<>> /\ queue' = Tail(queue)
  <2>1. i + 1 \in 1 .. Len(queue) /\ queue'[i] = queue[i + 1]
    BY <1>2, <1>4
  <2> QED
    BY <1>1, <2>1
<1>5. ASSUME NEW t \in Tasks, queue' = Append(queue, t),
             t.kind \in {"close", "keyframe"} => t.peer \in Rtc /\ dtls'[t.peer] # "idle"
      PROVE  queue'[i].peer \in Rtc /\ dtls'[queue'[i].peer] # "idle"
  <2>1. CASE i \in 1 .. Len(queue)
    BY <1>1, <1>2, <1>5, <2>1
  <2>2. CASE i = Len(queue) + 1
    BY <1>2, <1>5, <2>2
  <2> QED
    BY <1>2, <1>5, <2>1, <2>2
<1>6. ASSUME NEW o \in Objs, Post(SessionTask("fanout", o)) \/ Post(SessionTask("upstream", o))
      PROVE  queue'[i].peer \in Rtc /\ dtls'[queue'[i].peer] # "idle"
  BY <1>5, <1>6, TaskType DEF Post, SessionTask
<1>7. ASSUME NEW v \in Services, NEW a \in Addrs, routes[v][a] # None
      PROVE  routes[v][a] \in Rtc /\ Negotiated(routes[v][a]) /\ dtls'[routes[v][a]] # "idle" /\ owner[routes[v][a]] \in Objs
  <2>1. routes[v][a] \in Rtc
    BY <1>7 DEF TypeOK
  <2>2. owner[routes[v][a]] # NoSession /\ Negotiated(routes[v][a])
    BY <2>1 DEF Isolation, KnownToItsWorker, Known
  <2>3. dtls'[routes[v][a]] # "idle"
    <3>1. \A q \in Rtc : Negotiated(q)' => dtls'[q] # "idle"
      BY DEF Negotiated
    <3>2. \A q \in Rtc : Negotiated(q) => Negotiated(q)'
      BY OnlyOffersNegotiate
    <3> QED
      BY <2>1, <2>2, <3>1, <3>2
  <2> QED
    BY <2>1, <2>2, <2>3 DEF TypeOK, Peers
<1>8. ASSUME NEW v \in Services, NEW a \in Addrs, routes[v][a] # None,
             Post(PeerTask("close", routes[v][a])) \/ Post(PeerTask("keyframe", routes[v][a]))
      PROVE  queue'[i].peer \in Rtc /\ dtls'[queue'[i].peer] # "idle"
  BY <1>5, <1>7, <1>8, TaskType DEF Post, PeerTask
<1>9. CASE QueueStep
  <2>1. CASE KeyFrameTask
    <3>1. Tail(queue) \in Seq(Tasks) /\ queue # <<>>
      BY <1>2, <2>1 DEF KeyFrameTask
    <3> DEFINE o == owner[Head(queue).peer]
    <3>2. CASE queue' = Append(Tail(queue), SessionTask("upstream", o))
      <4>1. CASE i = Len(queue)
        BY <1>2, <3>1, <3>2, <4>1 DEF SessionTask
      <4>2. CASE i \in 1 .. Len(queue) - 1
        BY <1>1, <1>2, <3>1, <3>2, <4>2
      <4> QED
        BY <1>2, <3>1, <3>2, <4>1, <4>2
    <3>3. CASE queue' = Tail(queue)
      BY <1>4, <3>1, <3>3
    <3> QED
      BY <2>1, <3>2, <3>3 DEF KeyFrameTask
  <2> QED
    BY <1>3, <1>4, <1>9, <2>1 DEF QueueStep, CloseProducerTask, CloseConsumerTask, FanoutTask,
       UpstreamTask, UseAfterFree, Take
<1>10. CASE NetworkStep
  <2>1. ASSUME NEW v \in Services, NEW a \in Addrs,
               OnDtlsConnected(v, a) \/ OnDtlsClosed(v, a) \/ OnDataChannel(v, a) \/ OnRtp(v, a) \/ OnRtcp(v, a)
        PROVE  queue'[i].peer \in Rtc /\ dtls'[queue'[i].peer] # "idle"
    <3>1. routes[v][a] # None
      BY <2>1, Assumption DEF OnDtlsConnected, OnDtlsClosed, OnDataChannel, OnRtp, OnRtcp, Peers, Rtc
    <3> QED
      BY <1>3, <1>6, <1>7, <1>8, <2>1, <3>1
      DEF OnDtlsConnected, OnDtlsClosed, OnDataChannel, OnRtp, OnRtcp
  <2>2. ASSUME NEW n \in Names, OnRecv(n)
        PROVE  queue' = queue \/ \E o \in Objs \cup {NoSession} : Post(SessionTask("fanout", o))
    BY <2>2 DEF OnRecv, TypeOK, Peers
  <2>3. ASSUME NEW o \in Objs \cup {NoSession}, Post(SessionTask("fanout", o))
        PROVE  queue'[i].peer \in Rtc /\ dtls'[queue'[i].peer] # "idle"
    BY <1>5, <2>3, TaskType DEF Post, SessionTask
  <2> QED
    BY <1>3, <1>10, <2>1, <2>2, <2>3 DEF NetworkStep, OnStun, StunTimeout, OnDestroy, ClearContext
<1> QED
  BY <1>3, <1>9, <1>10, HttpFrame, TimerFrame, TaskFrame DEF Next, vars

\* What a step does to the session, the peer and the consumers the worker has in hand.
LEMMA StepWorkerPeers == IInv /\ [Next]_vars => WorkerPeers'
<1> SUFFICES ASSUME IInv, [Next]_vars PROVE WorkerPeers'
  OBVIOUS
<1> USE DEF IInv, PeerSteps, WorkerSteps
<1>0. TypeOK /\ \A o \in Objs, p \in Peers : owner[p] = o => owner'[p] = o
  BY OwnerIsFixed DEF Objs, NoSession
<1>1. CASE worker' = worker
  <2>1. worker.todo \subseteq Peers /\ Push \subseteq Peers /\ Rtc \subseteq Peers /\ Flv \subseteq Peers
        /\ Play \subseteq Peers
    BY <1>0, WorkerFields DEF Peers, Rtc
  <2>2. worker.pc \in PeerSteps => owner'[worker.peer] = owner[worker.peer]
    BY <1>0, <2>1, WorkerFields DEF WorkerPeers, TypeOK, WorkerStates
  <2>3. worker.pc \in {"evict", "evictErase", "evictRemove"} => \A c \in worker.todo : owner'[c] = owner[c]
    BY <1>0, <2>1 DEF WorkerPeers
  <2> QED
    BY <1>1, <2>2, <2>3 DEF WorkerPeers
<1>2. CASE worker' = Idle
  BY <1>2 DEF WorkerPeers, Idle, At, In
<1>3. CASE HttpStep
  <2>1. ASSUME NEW n \in Names, NEW p \in Push, HandlerRtcProducer(n, p) PROVE WorkerPeers'
    <3>1. SessionFor(n) \in Objs /\ owner'[p] = SessionFor(n) /\ p \in Rtc
      BY <1>0, <2>1, CreateType DEF HandlerRtcProducer, Peers, Rtc
    <3> QED
      BY <2>1, <3>1 DEF HandlerRtcProducer, WorkerPeers, In
  <2>2. ASSUME NEW n \in Names, NEW c \in Play, HandlerRtcConsumer(n, c) PROVE WorkerPeers'
    <3>1. SessionFor(n) \in Objs /\ owner'[c] = SessionFor(n) /\ c \in Rtc
      BY <1>0, <2>2, CreateType DEF HandlerRtcConsumer, Peers, Rtc
    <3> QED
      BY <2>2, <3>1 DEF HandlerRtcConsumer, WorkerPeers, In
  <2>3. ASSUME NEW n \in Names, NEW f \in Flv, HandlerFlvConsumer(n, f) PROVE WorkerPeers'
    <3>1. SessionFor(n) \in Objs /\ owner'[f] = SessionFor(n)
      BY <1>0, <2>3, CreateType DEF HandlerFlvConsumer, Peers
    <3> QED
      BY <2>3, <3>1 DEF HandlerFlvConsumer, WorkerPeers, In
  <2> QED
    BY <1>1, <1>3, <2>1, <2>2, <2>3 DEF HttpStep, HandlerOpenRtpServer, HandlerHls, HandlerCloseRtpServer
<1>4. ASSUME NEW o \in Objs, TimerFires(o) PROVE WorkerPeers'
  <2>1. CASE producer[o] \in Push /\ Stale(producer[o])
    <3>1. owner'[producer[o]] = o
      BY <1>4, <2>1 DEF TimerFires, Isolation, AttachedToOwner, Attached, Peers, Rtc
    <3>2. worker' = In("tickProducer", o, producer[o], None, {})
      BY <1>4, <2>1 DEF TimerFires
    <3> QED
      BY <2>1, <3>1, <3>2 DEF WorkerPeers, In
  <2>2. CASE ~(producer[o] \in Push /\ Stale(producer[o]))
    BY <1>4, <2>2 DEF TimerFires, WorkerPeers, At, In
  <2> QED
    BY <2>1, <2>2
<1>5. CASE TaskStep
  <2>0. owner' = owner
    BY <1>5, TaskFrame
  <2>1. CASE ProcessOfferSdp
    <3>1. worker' = Idle \/ worker' = [worker EXCEPT !.pc = "register"]
      BY <2>1 DEF ProcessOfferSdp
    <3>2. CASE worker' = [worker EXCEPT !.pc = "register"]
      BY <1>0, <2>0, <2>1, <3>2 DEF ProcessOfferSdp, WorkerPeers, TypeOK, WorkerStates
    <3> QED
      BY <1>2, <3>1, <3>2
  <2>2. CASE TickProducer
    BY <1>0, <2>0, <2>2 DEF TickProducer, WorkerPeers, TypeOK, WorkerStates
  <2>3. CASE TickProducerErase
    BY <2>0, <2>3 DEF TickProducerErase, WorkerPeers, In
  <2>4. CASE TickProducerDetach
    BY <2>0, <2>4 DEF TickProducerDetach, WorkerPeers, At, In
  <2>5. CASE TickConsumers
    <3> DEFINE late == {c \in consumers[worker.obj] : Stale(c)}
    <3>1. worker.obj \in Objs
      BY <2>5 DEF TickConsumers, WorkerPeers
    <3>2. \A c \in late : owner[c] = worker.obj
      BY <3>1 DEF Isolation, AttachedToOwner, Attached, TypeOK, Peers, Rtc
    <3>3. worker' = Idle \/ worker' = In("evict", worker.obj, None, None, late)
      BY <2>5 DEF TickConsumers
    <3> HIDE DEF late
    <3> QED
      BY <1>2, <2>0, <3>1, <3>2, <3>3 DEF WorkerPeers, In
  <2>6. ASSUME NEW c \in Play, EvictNext(c) PROVE WorkerPeers'
    BY <2>0, <2>6 DEF EvictNext, WorkerPeers, In
  <2>7. CASE EvictErase
    BY <2>0, <2>7 DEF EvictErase, WorkerPeers, In
  <2>8. CASE EvictRemove
    <3>1. worker' = Idle \/ worker' = In("evict", worker.obj, None, None, worker.todo)
      BY <2>8 DEF EvictRemove
    <3> QED
      BY <1>2, <2>0, <2>8, <3>1 DEF EvictRemove, WorkerPeers, In
  <2>9. CASE CloseConsumerErase
    BY <2>0, <2>9 DEF CloseConsumerErase, WorkerPeers, In
  <2> QED
    BY <1>2, <1>5, <2>1, <2>2, <2>3, <2>4, <2>5, <2>6, <2>7, <2>8, <2>9
    DEF TaskStep, RegisterOffered, AddFlv, CloseProducerDetach, CloseConsumerRemove, FanoutDone
<1>6. CASE QueueStep
  <2>0. owner' = owner
    BY <1>6, QueueFrame DEF sessVars
  <2>1. ASSUME NEW p \in Push, CloseProducerTask(p) PROVE WorkerPeers'
    <3>1. owner[p] \in Objs
      BY <2>1, CloseTaskPeer DEF CloseProducerTask
    <3> QED
      BY <2>0, <2>1, <3>1 DEF CloseProducerTask, WorkerPeers, In
  <2>2. ASSUME NEW c \in Play, CloseConsumerTask(c) PROVE WorkerPeers'
    <3>1. owner[c] \in Objs
      BY <2>2, CloseTaskPeer DEF CloseConsumerTask
    <3> QED
      BY <2>0, <2>2, <3>1 DEF CloseConsumerTask, WorkerPeers, In
  <2>3. CASE FanoutTask
    BY <2>3 DEF FanoutTask, WorkerPeers, At, In
  <2> QED
    BY <1>1, <1>6, <2>1, <2>2, <2>3 DEF QueueStep, UpstreamTask, KeyFrameTask, UseAfterFree
<1> QED
  BY <1>1, <1>3, <1>4, <1>5, <1>6, NetworkFrame DEF Next, vars

LEMMA StepWorkerHalves == IInv /\ [Next]_vars => WorkerHalves'
<1> SUFFICES ASSUME IInv, [Next]_vars PROVE WorkerHalves'
  OBVIOUS
<1> USE DEF IInv
<1>0. TypeOK
  OBVIOUS
<1>1. CASE worker'.pc \notin {"offer", "register", "addFlv", "tickDetach", "evictRemove", "closeRemove"}
  BY <1>1 DEF WorkerHalves
<1>2. CASE UNCHANGED <<sessVars, dtls, ufrags, worker>>
  BY <1>2 DEF WorkerHalves, Attached, Negotiated, Service, sessVars
<1>3. CASE HttpStep
  <2>1. ASSUME NEW n \in Names, NEW p \in Push, HandlerRtcProducer(n, p) PROVE WorkerHalves'
    <3>1. SessionFor(n) \in Objs
      BY <1>0, <2>1, CreateType DEF HandlerRtcProducer, Peers, Rtc
    <3>2. producer'[SessionFor(n)] = p
      BY <1>0, <2>1, <3>1 DEF HandlerRtcProducer, SetProducer, TypeOK
    <3> QED
      BY <2>1, <3>2 DEF HandlerRtcProducer, WorkerHalves, Attached, In
  <2>2. ASSUME NEW n \in Names, NEW c \in Play, HandlerRtcConsumer(n, c) PROVE WorkerHalves'
    <3>1. SessionFor(n) \in Objs
      BY <1>0, <2>2, CreateType DEF HandlerRtcConsumer, Peers, Rtc
    <3>2. c \in consumers'[SessionFor(n)]
      BY <1>0, <2>2, <3>1 DEF HandlerRtcConsumer, AddConsumer, TypeOK
    <3> QED
      BY <2>2, <3>2 DEF HandlerRtcConsumer, WorkerHalves, Attached, In
  <2>3. ASSUME NEW n \in Names, NEW f \in Flv, HandlerFlvConsumer(n, f) PROVE WorkerHalves'
    <3>1. sessions'[n] = SessionFor(n)
      BY <1>0, <2>3, CreateType DEF HandlerFlvConsumer, Peers
    <3> QED
      BY <2>3, <3>1 DEF HandlerFlvConsumer, WorkerHalves, In
  <2>4. worker' = worker \/ (\E n \in Names : \/ \E p \in Push : HandlerRtcProducer(n, p)
                                              \/ \E c \in Play : HandlerRtcConsumer(n, c)
                                              \/ \E f \in Flv : HandlerFlvConsumer(n, f))
    BY <1>3 DEF HttpStep, HandlerOpenRtpServer, HandlerHls, HandlerCloseRtpServer
  <2>5. CASE worker' = worker
    BY <1>1, <1>3, <2>5, HttpFrame DEF Idle, At, In
  <2> QED
    BY <2>1, <2>2, <2>3, <2>4, <2>5
<1>4. ASSUME NEW o \in Objs, TimerFires(o) PROVE WorkerHalves'
  <2>1. worker'.pc \in {"tickProducer", "tickConsumers"}
    BY <1>4 DEF TimerFires, At, In
  <2> QED
    BY <1>1, <2>1
<1>5. CASE TaskStep
  <2>1. CASE ProcessOfferSdp
    <3>1. CASE worker' = Idle
      BY <1>1, <3>1 DEF Idle, At, In
    <3>2. CASE worker' = [worker EXCEPT !.pc = "register"] /\ dtls' = [dtls EXCEPT ![worker.peer] = "connecting"]
      <4>1. worker'.obj = worker.obj /\ worker'.peer = worker.peer /\ worker'.pc = "register"
        BY <1>0, <3>2 DEF TypeOK, WorkerStates
      <4>2. producer' = producer /\ consumers' = consumers /\ worker.peer \in Rtc /\ worker.pc = "offer"
        BY <2>1 DEF ProcessOfferSdp, WorkerPeers, sessVars
      <4>3. dtls'[worker.peer] = "connecting"
        BY <1>0, <3>2, <4>2 DEF TypeOK
      <4> QED
        BY <4>1, <4>2, <4>3 DEF WorkerHalves, Attached, Negotiated
    <3> QED
      BY <2>1, <3>1, <3>2 DEF ProcessOfferSdp
  <2>2. CASE TickProducerErase \/ EvictErase \/ CloseConsumerErase
    <3>1. /\ worker'.obj = worker.obj /\ worker'.peer = worker.peer
          /\ worker'.pc \in {"tickDetach", "evictRemove", "closeRemove"}
      BY <2>2 DEF TickProducerErase, EvictErase, CloseConsumerErase, In
    <3>2. UnregisterRtcInterface(Service(worker.obj), worker.peer, worker.key)
      BY <2>2, Zenon DEF TickProducerErase, EvictErase, CloseConsumerErase
    <3>3. worker.peer \notin ufrags'[Service(worker.obj)]
      <4>1. Service(worker.obj) \in Services
        BY <2>2, ServiceType DEF TickProducerErase, EvictErase, CloseConsumerErase, WorkerPeers,
           PeerSteps, WorkerSteps
      <4> QED
        BY <1>0, <3>2, <4>1 DEF UnregisterRtcInterface, TypeOK
    <3> QED
      BY <3>1, <3>3 DEF WorkerHalves
  <2>3. CASE RegisterOffered \/ AddFlv \/ CloseProducerDetach \/ CloseConsumerRemove \/ FanoutDone
    BY <1>1, <2>3 DEF RegisterOffered, AddFlv, CloseProducerDetach, CloseConsumerRemove, FanoutDone,
       Idle, At, In
  <2>4. CASE TickProducer
    <3>1. worker'.pc = "tickErase"
      BY <1>0, <2>4 DEF TickProducer, TypeOK, WorkerStates
    <3> QED
      BY <1>1, <3>1
  <2>5. CASE TickProducerDetach \/ TickConsumers \/ (\E c \in Play : EvictNext(c)) \/ EvictRemove
    BY <1>1, <2>5 DEF TickProducerDetach, TickConsumers, EvictNext, EvictRemove, Idle, At, In
  <2> QED
    BY <1>5, <2>1, <2>2, <2>3, <2>4, <2>5 DEF TaskStep
<1>6. CASE QueueStep
  <2>1. worker'.pc \in {"idle", "closeDetach", "close", "fanout"}
    BY <1>6, QueueFrame DEF QueueStep, CloseProducerTask, CloseConsumerTask, FanoutTask, UpstreamTask,
       KeyFrameTask, UseAfterFree, Idle, At, In
  <2> QED
    BY <1>1, <2>1
<1>7. CASE NetworkStep
  <2>0. UNCHANGED <<sessions, producer, ufrags, worker>>
    BY <1>0, <1>7, NetworkFrame
  <2>1. worker.pc \in {"offer", "register"} => worker.obj \in Objs /\ worker.peer \in Rtc
    BY DEF WorkerPeers, PeerSteps, WorkerSteps
  <2>2. worker.pc \in {"offer", "register"} =>
          producer'[worker.obj] = worker.peer \/ worker.peer \in consumers'[worker.obj]
    <3>1. ASSUME worker.pc \in {"offer", "register"}, worker.peer \in consumers[worker.obj]
          PROVE  worker.peer \in consumers'[worker.obj]
      <4>1. worker.peer \in Play
        BY <1>0, <2>1, <3>1, Assumption DEF TypeOK, Rtc
      <4> QED
        BY <1>0, <1>7, <2>1, <3>1, <4>1, NetworkFrame
    <3> QED
      BY <2>0, <3>1 DEF WorkerHalves, Attached
  <2>3. worker.pc = "register" => dtls'[worker.peer] # "idle"
    <3>1. \A p \in Rtc : Negotiated(p) => dtls'[p] # "idle"
      BY <1>0, OnlyOffersNegotiate DEF Negotiated
    <3> QED
      BY <2>1, <3>1 DEF WorkerHalves
  <2> QED
    BY <2>0, <2>2, <2>3 DEF WorkerHalves, Attached, Negotiated
<1> QED
  BY <1>2, <1>3, <1>4, <1>5, <1>6, <1>7 DEF Next, vars, peerVars, svcVars

(***************************************************************************)
(* The theorems.                                                           *)
(***************************************************************************)
LEMMA InitIInv == Init => IInv
<1> SUFFICES ASSUME Init PROVE IInv
  OBVIOUS
<1>1. TypeOK
  BY InitTypeOK
<1>2. Isolation
  BY Assumption DEF Init, Isolation, AttachedToOwner, KnownToItsWorker, Attached, Known, Peers, Rtc
<1>3. AttachedIsReachable /\ CreatedFirst
  BY DEF Init, AttachedIsReachable, CreatedFirst, Negotiated
<1>4. QueuedPeers /\ WorkerPeers /\ WorkerHalves
  BY DEF Init, QueuedPeers, WorkerPeers, WorkerHalves, PeerSteps, WorkerSteps, Idle, At, In
<1> QED
  BY <1>1, <1>2, <1>3, <1>4 DEF IInv

LEMMA StepIInv == IInv /\ [Next]_vars => IInv'
  BY StepTypeOK, StepCreatedFirst, StepAttachedToOwner, StepKnownToItsWorker,
     StepAttachedIsReachable, StepQueuedPeers, StepWorkerPeers, StepWorkerHalves
  DEF IInv, Isolation

\* The inductive invariant: the safety properties below, and what the tasks in
\* the queue and the task the worker is in the middle of may rely on.
THEOREM Invariance == Spec => []IInv
  BY InitIInv, StepIInv, PTL DEF Spec

\* The tables of the service keep their types, whatever the numbers of peers and
\* sessions and however the threads interleave.
THEOREM TypeSafety == Spec => []TypeOK
<1>1. IInv => TypeOK
  BY DEF IInv
<1> QED
  BY <1>1, Invariance, PTL

\* The slot and the consumers of a session hold objects made for it and for no
\* other, and the tables of a worker hold interfaces of that worker's sessions.
THEOREM IsolationSafety == Spec => []Isolation
<1>1. IInv => Isolation
  BY DEF IInv
<1> QED
  BY <1>1, Invariance, PTL

\* A negotiated peer that is attached to its session can be found by its ufrag,
\* except while the worker is between attaching and registering it, or between
\* unregistering and detaching it.
THEOREM ReachabilitySafety == Spec => []AttachedIsReachable
<1>1. IInv => AttachedIsReachable
  BY DEF IInv
<1> QED
  BY <1>1, Invariance, PTL

\* A consumer that has left its session never comes back to it or to a ufrag table.
THEOREM LeavingIsFinal == Spec => LeftForGood
<1>1. ASSUME IInv, [Next]_vars, NEW c \in Play \cup Flv, owner[c] # NoSession,
             c \notin consumers[owner[c]], ~BeingAdded(c)
      PROVE  /\ c \notin consumers'[owner[c]]
             /\ \A v \in Services : c \in ufrags'[v] => c \in ufrags[v]
  <2> USE DEF IInv
  <2>1. TypeOK /\ c \in Peers /\ owner[c] \in Objs
    BY <1>1 DEF TypeOK, Peers, Rtc, NoSession
  <2>2. c \notin consumers'[owner[c]]
    <3>1. CASE ~Attaching
      BY <1>1, <2>1, <3>1, OnlyAttachingAttaches
    <3>2. ASSUME NEW n \in Names, NEW d \in Play, HandlerRtcConsumer(n, d)
          PROVE  c \notin consumers'[owner[c]]
      BY <1>1, <2>1, <3>2 DEF HandlerRtcConsumer, Create, AddConsumer, TypeOK
    <3>3. CASE AddFlv
      BY <1>1, <2>1, <3>3 DEF AddFlv, AddConsumer, BeingAdded, TypeOK
    <3> QED
      BY <1>1, <3>1, <3>2, <3>3 DEF Attaching, HandlerRtcProducer, HandlerOpenRtpServer
  <2>3. ASSUME NEW v \in Services, c \in ufrags'[v], c \notin ufrags[v] PROVE FALSE
    <3>1. CASE RegisterOffered /\ worker.peer = c
      <4>1. Attached(worker.obj, c) /\ worker.obj = owner[c]
        BY <1>1, <3>1 DEF RegisterOffered, WorkerPeers, WorkerHalves, PeerSteps, WorkerSteps
      <4>2. c # producer[owner[c]]
        BY <2>1, Assumption DEF TypeOK, Peers, Rtc
      <4> QED
        BY <1>1, <4>1, <4>2 DEF Attached
    <3>2. c \notin Push
      BY Assumption
    <3> QED
      BY <1>1, <2>1, <2>3, <3>1, <3>2, OnlyRegistrationsAdd
  <2> QED
    BY <2>2, <2>3
<1>2. IInv /\ [Next]_vars =>
        [\A c \in Play \cup Flv :
           owner[c] # NoSession /\ c \notin consumers[owner[c]] /\ ~BeingAdded(c) =>
             /\ c \notin consumers'[owner[c]]
             /\ \A v \in Services : c \in ufrags'[v] => c \in ufrags[v]]_vars
  BY <1>1
<1> QED
  BY <1>2, Invariance, PTL DEF Spec, LeftForGood

\* In the build whose logs are evaluated, a consumer that can be reached is one
\* that is attached.
THEOREM NoGhostConsumers ==
  ASSUME InfoLogged
  PROVE  Spec => []ReachableIsAttached
<1> DEFINE J == IInv /\ ReachableIsAttached
<1>1. Init => J
  BY InitIInv DEF Init, ReachableIsAttached
<1>2. ASSUME J, [Next]_vars PROVE ReachableIsAttached'
  <2> SUFFICES ASSUME NEW c \in Play, NEW v \in Services, c \in ufrags'[v]
               PROVE  c \in consumers'[owner'[c]]
    BY DEF ReachableIsAttached
  <2> USE DEF IInv
  <2>1. c \in Peers /\ c \in Rtc /\ TypeOK
    BY <1>2 DEF Peers, Rtc
  <2>2. CASE c \in ufrags[v]
    <3> DEFINE o == owner[c]
    <3>1. c \in consumers[o] /\ o # NoSession /\ v = Service(o) /\ o \in Objs
      BY <1>2, <2>1, <2>2 DEF ReachableIsAttached, Isolation, KnownToItsWorker, Known, TypeOK
    <3>2. owner'[c] = o
      BY <1>2, <2>1, <3>1, OwnerIsFixed
    <3>3. SUFFICES ASSUME c \notin consumers'[o] PROVE FALSE
      BY <3>2
    <3>4. ASSUME EvictRemove \/ CloseConsumerRemove PROVE FALSE
      <4>1. worker.peer = c
        BY <2>1, <3>1, <3>3, <3>4 DEF EvictRemove, CloseConsumerRemove, RemoveConsumer, TypeOK
      <4>2. worker.obj = o /\ worker.peer \notin ufrags[Service(worker.obj)]
        BY <1>2, <3>4, <4>1 DEF WorkerPeers, WorkerHalves, PeerSteps, WorkerSteps, EvictRemove,
           CloseConsumerRemove
      <4> QED
        BY <2>2, <3>1, <4>1, <4>2
    <3> HIDE DEF o
    <3>5. ~HttpStep
      BY <2>1, <3>1, <3>3 DEF HttpStep, HandlerRtcProducer, HandlerRtcConsumer, HandlerFlvConsumer,
         HandlerOpenRtpServer, HandlerHls, HandlerCloseRtpServer, AddConsumer, TypeOK
    <3>6. ~TaskStep
      <4>1. ~(ProcessOfferSdp \/ RegisterOffered \/ TickProducer \/ TickProducerErase \/ TickProducerDetach)
        BY <3>1, <3>3 DEF ProcessOfferSdp, RegisterOffered, TickProducer, TickProducerErase,
           TickProducerDetach, sessVars
      <4>2. ~(CloseProducerDetach \/ CloseConsumerErase \/ EvictErase \/ TickConsumers \/ FanoutDone)
        BY <3>1, <3>3 DEF CloseProducerDetach, CloseConsumerErase, EvictErase, TickConsumers,
           FanoutDone, sessVars
      <4>3. ~(\E d \in Play : EvictNext(d)) /\ ~AddFlv
        BY <2>1, <3>1, <3>3 DEF EvictNext, AddFlv, AddConsumer, TypeOK, sessVars
      <4> QED
        BY <3>4, <4>1, <4>2, <4>3 DEF TaskStep
    <3> QED
      BY <1>2, <2>1, <3>1, <3>3, <3>5, <3>6, QueueFrame, TimerFrame, NetworkFrame DEF Next, vars, sessVars
  <2>3. CASE c \notin ufrags[v]
    <3>1. RegisterOffered /\ worker.peer = c
      BY <1>2, <2>1, <2>3, OnlyRegistrationsAdd, Assumption
    <3>2. Attached(worker.obj, c) /\ worker.obj = owner[c] /\ worker.obj \in Objs
      BY <1>2, <3>1 DEF RegisterOffered, WorkerPeers, WorkerHalves, PeerSteps, WorkerSteps
    <3>3. c # producer[worker.obj]
      BY <2>1, <3>2, Assumption DEF TypeOK, Peers, Rtc
    <3> QED
      BY <3>1, <3>2, <3>3 DEF RegisterOffered, Attached, sessVars
  <2> QED
    BY <2>2, <2>3
<1>3. J /\ [Next]_vars => J'
  BY <1>2, StepIInv
<1>4. J => ReachableIsAttached
  OBVIOUS
<1> QED
  BY <1>1, <1>3, <1>4, PTL DEF Spec

\* CheckTimeOut never stops: the task of every session that was created is pending
\* or running.
THEOREM TimersNeverStop == Spec => []TimerArmed
<1> DEFINE Steps == {"tickProducer", "tickErase", "tickDetach", "tickConsumers",
                     "evict", "evictErase", "evictRemove"}
           InTimer(o) == worker.obj = o /\ worker.pc \in Steps
<1>1. Init => TimerArmed
  BY DEF Init, TimerArmed, Objs
<1>2. ASSUME IInv, TimerArmed, [Next]_vars, NEW o \in Objs, o <= created'
      PROVE  timer'[o] \/ InTimer(o)'
  <2> USE DEF IInv
  <2>1. TypeOK /\ (o <= created => timer[o] \/ InTimer(o))
    BY <1>2 DEF TimerArmed
  <2>2. CASE HttpStep
    <3>1. worker.pc = "idle"
      BY <2>2, HttpFrame DEF Idle, At, In
    <3>2. ASSUME NEW n \in Names, CreateSession(n)
          PROVE  timer'[o] \/ (timer' = timer /\ created' = created) \/ (timer'[o] = timer[o] /\ o <= created)
      <4>1. CASE UNCHANGED <<created, timer>>
        BY <4>1
      <4>2. CASE created' = created + 1 /\ timer' = [timer EXCEPT ![created + 1] = TRUE]
        <5>1. created \in Int /\ o \in Int /\ timer \in [Objs -> BOOLEAN]
          BY <2>1, Assumption DEF TypeOK, Objs
        <5>2. o = created + 1 \/ (o # created + 1 /\ o <= created)
          BY <1>2, <4>2, <5>1
        <5>3. CASE o = created + 1
          BY <4>2, <5>1, <5>3
        <5>4. CASE o # created + 1 /\ o <= created
          BY <4>2, <5>1, <5>4
        <5> QED
          BY <5>2, <5>3, <5>4
      <4> QED
        BY <3>2, <4>1, <4>2 DEF CreateSession
    <3>3. (\E n \in Names : CreateSession(n)) \/ UNCHANGED <<timer, created>>
      BY <2>2 DEF HttpStep, HandlerRtcProducer, HandlerRtcConsumer, HandlerFlvConsumer,
         HandlerOpenRtpServer, HandlerHls, HandlerCloseRtpServer, Create
    <3> QED
      BY <1>2, <2>1, <3>1, <3>2, <3>3
  <2>3. ASSUME NEW s \in Objs, TimerFires(s) PROVE timer'[o] \/ InTimer(o)'
    BY <1>2, <2>1, <2>3 DEF TimerFires, Ready, Idle, At, In, TypeOK
  <2>4. CASE TaskStep
    <3>0. o <= created
      BY <1>2, <2>4, TaskFrame
    <3>1. CASE timer[o]
      <4>1. CASE timer' = timer
        BY <3>1, <4>1
      <4>2. CASE TickConsumers \/ EvictRemove
        BY <2>1, <3>1, <4>2 DEF TickConsumers, EvictRemove, TypeOK
      <4> QED
        BY <2>4, <3>1, <4>1, <4>2 DEF TaskStep, ProcessOfferSdp, RegisterOffered, AddFlv, TickProducer,
           TickProducerErase, TickProducerDetach, EvictNext, EvictErase, CloseProducerDetach,
           CloseConsumerErase, CloseConsumerRemove, FanoutDone, sessVars
    <3>2. CASE InTimer(o)
      <4>1. CASE TickProducer
        BY <2>1, <3>2, <4>1 DEF TickProducer, TypeOK, WorkerStates
      <4>2. CASE TickProducerErase \/ TickProducerDetach \/ EvictErase \/ \E c \in Play : EvictNext(c)
        BY <3>2, <4>2 DEF TickProducerErase, TickProducerDetach, EvictErase, EvictNext, At, In
      <4>3. CASE TickConsumers
        BY <2>1, <3>2, <4>3 DEF TickConsumers, TypeOK, In
      <4>4. CASE EvictRemove
        BY <2>1, <3>2, <4>4 DEF EvictRemove, TypeOK, In
      <4> QED
        BY <2>4, <3>2, <4>1, <4>2, <4>3, <4>4 DEF TaskStep, ProcessOfferSdp, RegisterOffered, AddFlv,
           CloseProducerDetach, CloseConsumerErase, CloseConsumerRemove, FanoutDone
    <3> QED
      BY <2>1, <3>0, <3>1, <3>2
  <2>5. CASE QueueStep
    BY <1>2, <2>1, <2>5, QueueFrame DEF Idle, At, In, sessVars
  <2>6. CASE NetworkStep
    BY <1>2, <2>1, <2>6, NetworkFrame
  <2>7. CASE UNCHANGED vars
    BY <1>2, <2>1, <2>7 DEF vars, sessVars
  <2> QED
    BY <1>2, <2>2, <2>3, <2>4, <2>5, <2>6, <2>7 DEF Next
<1>3. IInv /\ TimerArmed /\ [Next]_vars => TimerArmed'
  BY <1>2 DEF TimerArmed
<1> QED
  BY <1>1, <1>3, Invariance, PTL DEF Spec


(***************************************************************************)
(* The service implements the session directory.                           *)
(***************************************************************************)
Past == {p \in Peers : owner[p] # NoSession /\ ~BeingAdded(p)}

LEMMA LookupStep ==
  ASSUME TypeOK, NEW n \in Names, CreateSession(n)
  PROVE  Directory!Lookup(n) /\ sessions'[n] = SessionFor(n)
<1>1. SessionFor(n) \in Objs /\ sessions' = [sessions EXCEPT ![n] = SessionFor(n)]
  BY CreateSessionType DEF CreateSession
<1>2. CASE sessions[n] # NoSession
  <2>1. SessionFor(n) = sessions[n] /\ sessions' = sessions
    BY <1>1, <1>2 DEF SessionFor, TypeOK
  <2> QED
    BY <1>2, <2>1 DEF CreateSession, Directory!Lookup, NoSession
<1>3. CASE sessions[n] = NoSession
  <2>1. SessionFor(n) = created + 1 /\ created' = created + 1
    BY <1>3 DEF SessionFor, CreateSession
  <2>2. created < MaxSessions
    BY <1>1, <2>1, Assumption DEF Objs, TypeOK
  <2> QED
    BY <1>1, <1>3, <2>1, <2>2 DEF Directory!Lookup, NoSession, TypeOK
<1> QED
  BY <1>2, <1>3

\* A peer gets its session: it has been used.
LEMMA PastStep ==
  ASSUME TypeOK, NEW p \in Peers, NEW o \in Objs, owner' = [owner EXCEPT ![p] = o],
         worker.pc # "addFlv", worker'.pc # "addFlv"
  PROVE  Past' = Past \cup {p}
  BY DEF TypeOK, Past, BeingAdded, Objs, NoSession

\* Nobody is used by a step that gives no peer a session and adds no FLV viewer.
LEMMA PastStays ==
  ASSUME UNCHANGED owner,
         UNCHANGED worker \/ (worker.pc # "addFlv" /\ worker'.pc # "addFlv")
  PROVE  Past' = Past
  BY DEF Past, BeingAdded

LEMMA HandlersImplementDirectory ==
  ASSUME IInv, HttpStep
  PROVE  [Directory!DirNext]_(Directory!dirVars)
<1> USE DEF IInv
<1>0. /\ TypeOK /\ worker.pc = "idle" /\ worker = Idle /\ fault = "none"
      /\ Past = {p \in Peers : owner[p] # NoSession /\ ~BeingAdded(p)}
  BY HttpFrame DEF Past, Ready, Running, Idle, At, In
<1>1. ASSUME NEW n \in Names, NEW p \in Push, HandlerRtcProducer(n, p) PROVE Directory!DirNext
  <2>1. Create(n, p) /\ worker'.pc = "offer" /\ p \in Peers
    BY <1>1 DEF HandlerRtcProducer, In, Peers, Rtc
  <2>2. SessionFor(n) \in Objs /\ sessions'[n] = SessionFor(n) /\ Directory!Lookup(n)
    BY <1>0, <2>1, CreateSessionType, LookupStep DEF Create
  <2>3. Past' = Past \cup {p} /\ p \notin Past
    BY <1>0, <2>1, <2>2, PastStep DEF Create, Past
  <2>4. Directory!Publish(n, p)
    BY <1>1, <2>2, <2>3 DEF HandlerRtcProducer, SetProducer, Directory!Publish, Past
  <2> QED
    BY <1>0, <2>4 DEF Directory!DirNext
<1>2. ASSUME NEW n \in Names, NEW c \in Play, HandlerRtcConsumer(n, c) PROVE Directory!DirNext
  <2>1. Create(n, c) /\ worker'.pc = "offer" /\ c \in Peers
    BY <1>2 DEF HandlerRtcConsumer, In, Peers, Rtc
  <2>2. SessionFor(n) \in Objs /\ sessions'[n] = SessionFor(n) /\ Directory!Lookup(n)
    BY <1>0, <2>1, CreateSessionType, LookupStep DEF Create
  <2>3. Past' = Past \cup {c} /\ c \notin Past
    BY <1>0, <2>1, <2>2, PastStep DEF Create, Past
  <2>4. Directory!Join(n, c)
    BY <1>2, <2>2, <2>3 DEF HandlerRtcConsumer, AddConsumer, Directory!Join, Past
  <2> QED
    BY <1>0, <2>4 DEF Directory!DirNext
<1>3. ASSUME NEW n \in Names, UNCHANGED <<producer, consumers, fault>>, Past' = Past, CreateSession(n)
      PROVE  [Directory!DirNext]_(Directory!dirVars)
  <2>1. Directory!Lookup(n) /\ sessions'[n] = SessionFor(n)
    BY <1>0, <1>3, LookupStep
  <2>2. CASE sessions[n] = NoSession
    BY <1>0, <1>3, <2>1, <2>2 DEF Directory!Open, Directory!DirNext, NoSession, Past
  <2>3. CASE sessions[n] # NoSession
    BY <1>3, <2>1, <2>3 DEF Directory!Lookup, Directory!dirVars, NoSession, Past
  <2> QED
    BY <2>2, <2>3
<1>4. ASSUME NEW n \in Names, NEW f \in Flv, HandlerFlvConsumer(n, f)
      PROVE  [Directory!DirNext]_(Directory!dirVars)
  <2>1. Create(n, f) /\ f \in Peers /\ worker' = In("addFlv", SessionFor(n), f, None, {})
    BY <1>4 DEF HandlerFlvConsumer, Peers
  <2>2. owner' = [owner EXCEPT ![f] = SessionFor(n)] /\ owner[f] = NoSession
    BY <2>1 DEF Create
  <2>3. \A p \in Peers : BeingAdded(p)' <=> p = f
    BY <2>1 DEF BeingAdded, In
  <2>4. \A p \in Peers : ~BeingAdded(p)
    BY <1>0 DEF BeingAdded
  <2>5. Past' = Past
    BY <1>0, <2>1, <2>2, <2>3, <2>4 DEF Past, TypeOK
  <2> QED
    BY <1>3, <1>4, <2>1, <2>5 DEF HandlerFlvConsumer, Create
<1>5. ASSUME NEW n \in Names, NEW g \in Gb, HandlerOpenRtpServer(n, g)
      PROVE  [Directory!DirNext]_(Directory!dirVars)
  <2>1. CreateSession(n) /\ worker' = worker /\ UNCHANGED <<consumers, fault>>
    BY <1>5 DEF HandlerOpenRtpServer
  <2>2. CASE rtpServer[n] # None
    <3>1. UNCHANGED <<owner, producer>>
      BY <1>5, <2>2 DEF HandlerOpenRtpServer
    <3> QED
      BY <1>3, <2>1, <3>1, PastStays
  <2>3. CASE rtpServer[n] = None
    <3>1. SessionFor(n) \in Objs /\ sessions'[n] = SessionFor(n) /\ Directory!Lookup(n)
      BY <1>0, <2>1, CreateSessionType, LookupStep
    <3>2. owner' = [owner EXCEPT ![g] = SessionFor(n)] /\ SetProducer(SessionFor(n), g)
      BY <1>5, <2>3 DEF HandlerOpenRtpServer
    <3>3. Past' = Past \cup {g} /\ g \notin Past
      BY <1>0, <1>5, <2>1, <3>1, <3>2, PastStep DEF HandlerOpenRtpServer, Past, Peers
    <3>4. Directory!Publish(n, g)
      BY <2>1, <3>1, <3>2, <3>3 DEF SetProducer, Directory!Publish, Past
    <3> QED
      BY <1>0, <3>4 DEF Directory!DirNext
  <2> QED
    BY <2>2, <2>3
<1>6. ASSUME NEW n \in Names, HandlerHls(n) PROVE [Directory!DirNext]_(Directory!dirVars)
  BY <1>3, <1>6, PastStays DEF HandlerHls
<1>7. ASSUME NEW n \in Names, HandlerCloseRtpServer(n) PROVE Directory!DirNext
  <2>1. Past' = Past
    BY <1>7, PastStays DEF HandlerCloseRtpServer
  <2>2. Directory!Close(n)
    BY <1>0, <1>7, <2>1 DEF HandlerCloseRtpServer, SetProducer, Directory!Close, NoSession, Past
  <2> QED
    BY <1>0, <2>2 DEF Directory!DirNext
<1> QED
  BY <1>1, <1>2, <1>4, <1>5, <1>6, <1>7 DEF HttpStep

\* Detaching a producer or a consumer, and failing, are directory steps.
LEMMA DetachingImplementsDirectory ==
  ASSUME TypeOK, Running, UNCHANGED <<sessions, created>>, Past' = Past,
         NEW o \in Objs \cup {NoSession}
  PROVE  /\ SetProducer(o, None) /\ UNCHANGED <<consumers, fault>> => [Directory!DirNext]_(Directory!dirVars)
         /\ \A w \in Play \cup Flv :
              RemoveConsumer(o, w) /\ UNCHANGED <<producer, fault>> => [Directory!DirNext]_(Directory!dirVars)
         /\ UNCHANGED <<producer, consumers>> /\ fault' # "none" => Directory!DirNext
<1> USE DEF Past
<1>1. CASE o = NoSession
  <2>1. producer' = [producer EXCEPT ![o] = None] => producer' = producer
    BY <1>1 DEF TypeOK, Objs, NoSession
  <2>2. \A w : consumers' = [consumers EXCEPT ![o] = @ \ {w}] => consumers' = consumers
    BY <1>1 DEF TypeOK, Objs, NoSession
  <2> QED
    BY <2>1, <2>2 DEF SetProducer, RemoveConsumer, Directory!dirVars, Directory!DirNext, Directory!Fail, Running
<1>2. CASE o \in Objs
  <2>1. SetProducer(o, None) /\ UNCHANGED <<consumers, fault>> => Directory!Unpublish(o)
    BY DEF SetProducer, Directory!Unpublish
  <2>2. ASSUME NEW w \in Play \cup Flv, RemoveConsumer(o, w), UNCHANGED <<producer, fault>>
        PROVE  [Directory!DirNext]_(Directory!dirVars)
    <3>1. CASE w \in consumers[o]
      <4>1. Directory!Leave(o, w)
        BY <2>2, <3>1 DEF RemoveConsumer, Directory!Leave
      <4> QED
        BY <1>2, <4>1 DEF Directory!DirNext, Directory!Sessions, Objs, Running
    <3>2. CASE w \notin consumers[o]
      <4>1. consumers' = consumers
        BY <1>2, <2>2, <3>2 DEF RemoveConsumer, TypeOK
      <4> QED
        BY <2>2, <4>1 DEF Directory!dirVars
    <3> QED
      BY <3>1, <3>2
  <2>3. UNCHANGED <<producer, consumers>> /\ fault' # "none" => Directory!Fail
    BY DEF Directory!Fail
  <2> QED
    BY <1>2, <2>1, <2>2, <2>3 DEF Directory!DirNext, Directory!Sessions, Objs, Running
<1> QED
  BY <1>1, <1>2

\* The session of an FLV viewer keeps its name until the viewer is added to it:
\* adding it is joining the name.
LEMMA AddFlvImplementsDirectory ==
  ASSUME IInv, AddFlv
  PROVE  Directory!DirNext
<1>1. TypeOK /\ worker.pc = "addFlv" /\ worker' = Idle /\ fault = "none"
  BY DEF IInv, AddFlv, Running
<1>2. PICK f \in Flv : f = worker.peer
  BY <1>1 DEF IInv, WorkerPeers
<1>3. PICK n \in Names : sessions[n] = worker.obj
  BY <1>1 DEF IInv, WorkerHalves
<1>4. f \in Peers /\ worker.obj \in Objs /\ owner[f] = worker.obj
  BY <1>1, <1>2 DEF IInv, WorkerPeers, PeerSteps, WorkerSteps, Peers
<1>5. UNCHANGED <<sessions, created, owner, producer, fault>>
  BY DEF AddFlv
<1>6. consumers' = [consumers EXCEPT ![sessions[n]] = @ \cup {f}]
  BY <1>2, <1>3 DEF AddFlv, AddConsumer
<1>7. Past' = Past \cup {f} /\ f \notin Past
  <2>1. \A p \in Peers : (BeingAdded(p) <=> p = f) /\ ~BeingAdded(p)'
    BY <1>1, <1>2 DEF BeingAdded, Idle, At, In
  <2> QED
    BY <1>4, <1>5, <2>1 DEF Past, Objs, NoSession
<1>8. Directory!Lookup(n)
  BY <1>3, <1>4, <1>5 DEF Directory!Lookup, Objs
<1>9. Directory!Join(n, f)
  BY <1>5, <1>6, <1>7, <1>8 DEF Directory!Join, Past
<1> QED
  BY <1>1, <1>9 DEF Directory!DirNext

LEMMA TasksImplementDirectory ==
  ASSUME IInv, TaskStep \/ QueueStep
  PROVE  [Directory!DirNext]_(Directory!dirVars)
<1> USE DEF IInv
<1>0. /\ TypeOK /\ worker.obj \in Objs \cup {NoSession}
      /\ worker.pc \in {"evictRemove", "closeRemove"} => worker.peer \in Play
  BY WorkerFields DEF WorkerPeers
<1>1. CASE TickProducerDetach \/ CloseProducerDetach
  <2>1. Past' = Past /\ Running /\ UNCHANGED <<sessions, created>>
    BY <1>1, PastStays DEF TickProducerDetach, CloseProducerDetach, Idle, At, In
  <2> QED
    BY <1>0, <1>1, <2>1, DetachingImplementsDirectory DEF TickProducerDetach, CloseProducerDetach
<1>2. CASE EvictRemove \/ CloseConsumerRemove
  <2>1. Past' = Past /\ Running /\ UNCHANGED <<sessions, created>> /\ worker.peer \in Play
    BY <1>0, <1>2, PastStays DEF EvictRemove, CloseConsumerRemove, Idle, At, In
  <2> QED
    BY <1>0, <1>2, <2>1, DetachingImplementsDirectory DEF EvictRemove, CloseConsumerRemove
<1>3. CASE AddFlv
  BY <1>3, AddFlvImplementsDirectory
<1>4. CASE UseAfterFree
  <2>1. Past' = Past /\ Running /\ UNCHANGED <<sessions, created>>
    BY <1>4, PastStays DEF UseAfterFree, Ready, sessVars
  <2> QED
    BY <1>0, <1>4, <2>1, DetachingImplementsDirectory DEF UseAfterFree, sessVars
<1>5. ASSUME UNCHANGED <<sessions, created, producer, consumers, owner, fault>>,
             worker.pc # "addFlv", worker'.pc # "addFlv"
      PROVE  [Directory!DirNext]_(Directory!dirVars)
  BY <1>5, PastStays DEF Directory!dirVars, Past
<1>6. CASE ProcessOfferSdp \/ RegisterOffered \/ TickProducer
  <2>1. worker'.pc # "addFlv" /\ worker.pc # "addFlv"
    <3>1. worker \in WorkerStates
      BY <1>0 DEF TypeOK
    <3>2. CASE ProcessOfferSdp \/ RegisterOffered
      BY <3>1, <3>2 DEF ProcessOfferSdp, RegisterOffered, Idle, At, In, WorkerStates
    <3>3. CASE TickProducer
      BY <3>1, <3>3 DEF TickProducer, WorkerStates
    <3> QED
      BY <1>6, <3>2, <3>3
  <2> QED
    BY <1>5, <1>6, <2>1 DEF ProcessOfferSdp, RegisterOffered, TickProducer, sessVars
<1>7. CASE TickProducerErase \/ TickConsumers \/ (\E c \in Play : EvictNext(c)) \/ EvictErase
             \/ CloseConsumerErase \/ FanoutDone
  <2>1. worker'.pc # "addFlv" /\ worker.pc # "addFlv"
    BY <1>7 DEF TickProducerErase, TickConsumers, EvictNext, EvictErase, CloseConsumerErase, FanoutDone,
       Idle, At, In
  <2> QED
    BY <1>5, <1>7, <2>1 DEF TickProducerErase, TickConsumers, EvictNext, EvictErase,
       CloseConsumerErase, FanoutDone, sessVars
<1>8. CASE (\E p \in Push : CloseProducerTask(p)) \/ (\E c \in Play : CloseConsumerTask(c))
             \/ FanoutTask \/ UpstreamTask \/ KeyFrameTask
  <2>1. worker'.pc # "addFlv" /\ worker.pc # "addFlv"
    BY <1>8 DEF CloseProducerTask, CloseConsumerTask, FanoutTask, UpstreamTask, KeyFrameTask,
       Take, Ready, Idle, At, In
  <2> QED
    BY <1>5, <1>8, <2>1 DEF CloseProducerTask, CloseConsumerTask, FanoutTask, UpstreamTask,
       KeyFrameTask, sessVars
<1> QED
  BY <1>1, <1>2, <1>3, <1>4, <1>6, <1>7, <1>8 DEF TaskStep, QueueStep

LEMMA NetworkImplementsDirectory ==
  ASSUME IInv, NetworkStep
  PROVE  [Directory!DirNext]_(Directory!dirVars)
<1>0. TypeOK
  BY DEF IInv
<1>1. ASSUME NEW f \in Flv, OnDestroy(f) PROVE [Directory!DirNext]_(Directory!dirVars)
  <2>1. owner[f] \in Objs \cup {NoSession} /\ Running /\ RemoveConsumer(owner[f], f)
        /\ UNCHANGED <<sessions, created, producer, owner, worker>>
    BY <1>0, <1>1 DEF OnDestroy, TypeOK, Peers
  <2>2. Past' = Past
    BY <2>1, PastStays
  <2>3. CASE fault' = fault
    BY <1>0, <2>1, <2>2, <2>3, DetachingImplementsDirectory
  <2>4. CASE fault' = "race"
    <3>1. CASE owner[f] \in Objs /\ f \in consumers[owner[f]]
      <4>1. Directory!Leave(owner[f], f)
        BY <2>1, <2>2, <2>4, <3>1 DEF Directory!Leave, RemoveConsumer, Past
      <4> QED
        BY <2>1, <3>1, <4>1 DEF Directory!DirNext, Directory!Sessions, Objs, Running
    <3>2. CASE ~(owner[f] \in Objs /\ f \in consumers[owner[f]])
      <4>1. consumers' = consumers
        BY <1>0, <2>1, <3>2 DEF RemoveConsumer, TypeOK, Objs, NoSession
      <4> QED
        BY <1>0, <2>1, <2>2, <2>4, <4>1, DetachingImplementsDirectory
    <3> QED
      BY <3>1, <3>2
  <2> QED
    BY <1>1, <2>3, <2>4 DEF OnDestroy
<1>2. ASSUME NEW v \in Services, NEW a \in Addrs, OnRtp(v, a) \/ OnRtcp(v, a)
      PROVE  [Directory!DirNext]_(Directory!dirVars)
  <2>1. /\ Running /\ UNCHANGED <<sessions, created, owner, producer, consumers, worker>>
        /\ fault' = fault \/ fault' = "null_srtp"
    BY <1>2 DEF OnRtp, OnRtcp, sessVars
  <2>2. Past' = Past
    BY <2>1, PastStays
  <2>3. CASE fault' = fault
    BY <2>1, <2>2, <2>3 DEF Directory!dirVars, Past
  <2>4. CASE fault' = "null_srtp"
    BY <1>0, <2>1, <2>2, <2>4, DetachingImplementsDirectory
  <2> QED
    BY <2>1, <2>3, <2>4
<1>3. ASSUME UNCHANGED <<sessVars, worker, fault>> PROVE [Directory!DirNext]_(Directory!dirVars)
  <2>1. Past' = Past
    BY <1>3, PastStays DEF sessVars
  <2> QED
    BY <1>3, <2>1 DEF sessVars, Directory!dirVars, Past
<1> QED
  BY <1>1, <1>2, <1>3 DEF NetworkStep, OnStun, StunTimeout, OnDtlsConnected, OnDtlsClosed,
     OnDataChannel, OnRecv, ClearContext

\* What the service does to names, slots and memberships, the directory allows,
\* however the threads interleave and whatever fails.
THEOREM DirectoryRefinement == Spec => ImplementsDirectory
<1>1. Init => Directory!DirInit
  BY DEF Init, Directory!DirInit, Directory!Sessions, Objs, NoSession
<1>2. ASSUME IInv, [Next]_vars PROVE [Directory!DirNext]_(Directory!dirVars)
  <2>1. ASSUME NEW o \in Objs, TimerFires(o) PROVE [Directory!DirNext]_(Directory!dirVars)
    <3>1. Past' = Past
      BY <2>1, PastStays DEF TimerFires, Ready, Idle, At, In
    <3> QED
      BY <2>1, <3>1 DEF TimerFires, Directory!dirVars, Past
  <2>2. CASE UNCHANGED vars
    <3>1. Past' = Past
      BY <2>2, PastStays DEF vars, sessVars
    <3> QED
      BY <2>2, <3>1 DEF vars, sessVars, Directory!dirVars, Past
  <2> QED
    BY <1>2, <2>1, <2>2, HandlersImplementDirectory, TasksImplementDirectory,
       NetworkImplementsDirectory DEF Next
<1> QED
  BY <1>1, <1>2, Invariance, PTL DEF Spec, ImplementsDirectory, Directory!DirSpec

=============================================================================
