------------------------------ MODULE Signalling ------------------------------
(* GB28181 call setup over the two servers. GbSipServer registers cameras    *)
(* over SIP (sip_server.cpp, the network thread) and answers the HTTP calls  *)
(* start and stop (StreamService.cpp: HTTP threads, then the worker thread,  *)
(* then the network thread, each waiting for the next). GbMediaServer opens  *)
(* and closes the RTP server of a stream (HandlerOpenRtpServer,              *)
(* HandlerCloseRtpServer). Between them is HTTP with a timeout, and between  *)
(* the SIP server and the cameras UDP.                                       *)
EXTENDS Integers

CONSTANTS Devices,      \* the cameras, by device id
          Addrs,        \* the addresses a camera may register from
          Requests,     \* the HTTP requests to GbSipServer
          MaxInputs,    \* bound: what the cameras and the operators send
          FirstPort,    \* 20000 in the code
          PortSpan,     \* 65536: tcp_port is a uint16_t
          None

ASSUME NoneAssumption == None \notin Nat \union Addrs \union Requests \union Devices
ASSUME BoundAssumption == MaxInputs \in Nat
ASSUME PortAssumption == PortSpan \in Nat \ {0} /\ FirstPort \in 0 .. PortSpan - 1

VARIABLES rows,         \* t_device: the address of each registered device
          events,       \* the events eXosip holds for the network thread
          heard,        \* what the cameras and operators have sent
          looping,      \* the network thread is in LoopSip
          listed,       \* <<device, address>> accepted by a REGISTER or entered
                        \* by an operator, ever
          pc, req,      \* each HTTP request: where it is, what it asks
          worker,       \* the request the worker thread is busy with
          posts,        \* HTTP requests on their way to GbMediaServer
          answers,      \* its answers on their way back
          serving,      \* rtp_server_: the port that listens for each stream
          tcp_port,     \* the next port
          sessions,     \* the sessions of GbMediaService, by device
          invites,      \* the INVITEs sent
          acks,         \* the calls whose answer was attended to, and whether
                        \* its ACK could be built
          crashed       \* GbSipServer read through a null pointer and is gone

sipVars == <<rows, events, heard, looping, listed, acks, crashed>>
httpVars == <<pc, req, worker>>
mediaVars == <<serving, tcp_port, sessions>>
vars == <<rows, events, heard, looping, listed, pc, req, worker, posts,
          answers, serving, tcp_port, sessions, invites, acks, crashed>>

Ports == 0 .. PortSpan - 1
NoRequest == [op |-> "none", dev |-> None, to |-> None, port |-> None]

Init ==
    /\ rows = [d \in Devices |-> None]
    /\ events = {} /\ heard = 0 /\ listed = {}
    /\ looping = FALSE
    /\ pc = [r \in Requests |-> "idle"]
    /\ req = [r \in Requests |-> NoRequest]
    /\ worker = None
    /\ posts = {} /\ answers = {}
    /\ serving = [d \in Devices |-> None]
    /\ tcp_port = FirstPort
    /\ sessions = {} /\ invites = {} /\ acks = {}
    /\ crashed = FALSE

-----------------------------------------------------------------------------
(* The cameras, and what eXosip makes of their messages. *)

Registers == [type : {"register"}, dev : Devices, addr : Addrs,
              fields : {"ours", "others"}]
Others == [type : {"other", "short"}]
Answered == [type : {"answered"}, by : Requests]

\* A camera registers, with the fields of the challenge (realm and nonce, no
\* qop) or with others or none, or with credentials that lack a field; or it
\* sends what changes nothing that is read: a keepalive, the end of a call. A
\* message that the network loses is one that was never sent.
CameraSends(e) ==
    /\ heard < MaxInputs
    /\ events' = events \union {e}
    /\ heard' = heard + 1
    /\ UNCHANGED <<rows, looping, listed, posts, answers, invites, acks, crashed>>
    /\ UNCHANGED httpVars /\ UNCHANGED mediaVars

\* A camera answers the call it got, again as long as no ACK comes.
CameraAnswers(i) ==
    /\ <<i.by, TRUE>> \notin acks
    /\ heard < MaxInputs
    /\ events' = events \union {[type |-> "answered", by |-> i.by]}
    /\ heard' = heard + 1
    /\ UNCHANGED <<rows, looping, listed, posts, answers, invites, acks, crashed>>
    /\ UNCHANGED httpVars /\ UNCHANGED mediaVars

-----------------------------------------------------------------------------
(* The network thread of GbSipServer. *)

\* createDevice: a plain INSERT, which fails on a device that has its row.
Insert(d, a) == IF rows[d] = None THEN [rows EXCEPT ![d] = a] ELSE rows

\* slip: the row is written before the digests are compared
response_register_Slip(e) ==
    /\ e.type = "register"
    /\ rows' = Insert(e.dev, e.addr)
    /\ listed' = IF e.fields = "ours" THEN listed \union {<<e.dev, e.addr>>} ELSE listed
    /\ UNCHANGED <<acks, crashed>>

\* Both digests that are compared are computed here from the server's password,
\* one with the fields of the request and one with those of the challenge; the
\* digest that the camera sent is not read. So a REGISTER that repeats the
\* challenge lists the device at the address of its Contact, whoever sent it;
\* any other gets a 401.
response_register(e) ==
    /\ e.type = "register"
    /\ IF e.fields = "ours"
       THEN /\ rows' = Insert(e.dev, e.addr)
            /\ listed' = listed \union {<<e.dev, e.addr>>}
       ELSE UNCHANGED <<rows, listed>>
    /\ UNCHANGED <<acks, crashed>>

\* A REGISTER with credentials but without a realm, a nonce, a uri or the port of
\* its Contact: the field is read through a null pointer.
response_register_short(e) ==
    /\ e.type = "short"
    /\ crashed' = TRUE
    /\ UNCHANGED <<rows, listed, acks>>

\* A keepalive or any other MESSAGE is answered 200; the end of a call empties
\* client_map_, which only the log reads.
response_message(e) ==
    e.type = "other" /\ UNCHANGED <<rows, listed, acks, crashed>>

\* slip: the answer is logged, no ACK is built
HandlerSipCallAnswered_Slip(e) ==
    e.type = "answered" /\ UNCHANGED <<rows, listed, acks, crashed>>

\* The ACK is sent, unless eXosip cannot build it: that is only logged.
HandlerSipCallAnswered(e) ==
    /\ e.type = "answered"
    /\ \E built \in BOOLEAN : acks' = acks \union {<<e.by, built>>}
    /\ UNCHANGED <<rows, listed, crashed>>

Handle(e) ==
    /\ \/ response_register(e)
       \/ response_register_short(e)
       \/ response_message(e)
       \/ HandlerSipCallAnswered(e)
    /\ events' = events \ {e}

LoopSip ==
    /\ ~looping /\ looping' = TRUE
    /\ UNCHANGED <<rows, events, heard, listed, acks, crashed, posts, answers, invites>>
    /\ UNCHANGED httpVars /\ UNCHANGED mediaVars

LoopEvent ==
    /\ looping
    /\ \E e \in events : Handle(e)
    /\ UNCHANGED <<heard, looping, posts, answers, invites>>
    /\ UNCHANGED httpVars /\ UNCHANGED mediaVars

\* Twenty milliseconds without an event: the thread serves its other tasks.
LoopIdle ==
    /\ looping /\ events = {} /\ looping' = FALSE
    /\ UNCHANGED <<rows, events, heard, listed, acks, crashed, posts, answers, invites>>
    /\ UNCHANGED httpVars /\ UNCHANGED mediaVars

-----------------------------------------------------------------------------
(* The HTTP threads of GbSipServer. *)

\* An operator enters or removes a device (DeviceController, DeviceService).
createDevice(d, a) ==
    /\ rows[d] = None
    /\ heard < MaxInputs /\ heard' = heard + 1
    /\ rows' = Insert(d, a)
    /\ listed' = listed \union {<<d, a>>}
    /\ UNCHANGED <<events, looping, acks, crashed, posts, answers, invites>>
    /\ UNCHANGED httpVars /\ UNCHANGED mediaVars

deleteDevice(d) ==
    /\ rows[d] # None
    /\ heard < MaxInputs /\ heard' = heard + 1
    /\ rows' = [rows EXCEPT ![d] = None]
    /\ UNCHANGED <<events, looping, listed, acks, crashed, posts, answers, invites>>
    /\ UNCHANGED httpVars /\ UNCHANGED mediaVars

\* startStream, stopStream: the row is read here, and used after two waits.
Arrive(r, op, d) ==
    /\ pc[r] = "idle"
    /\ req' = [req EXCEPT ![r] = [op |-> op, dev |-> d, to |-> rows[d], port |-> None]]
    /\ pc' = [pc EXCEPT ![r] = IF rows[d] = None THEN "done" ELSE "queued"]
    /\ UNCHANGED <<worker, posts, answers, invites>>
    /\ UNCHANGED sipVars /\ UNCHANGED mediaVars

-----------------------------------------------------------------------------
(* The worker thread of GbSipServer: one request at a time. *)

Post(r) ==
    /\ worker = None /\ pc[r] = "queued"
    /\ worker' = r
    /\ pc' = [pc EXCEPT ![r] = "posted"]
    /\ posts' = posts \union {r}
    /\ UNCHANGED <<req, answers, invites>>
    /\ UNCHANGED sipVars /\ UNCHANGED mediaVars

\* slip: the worker goes on waiting for the request it returned
Return_Slip(r) ==
    /\ pc' = [pc EXCEPT ![r] = "done"]
    /\ UNCHANGED worker

\* The request returns to its HTTP thread and the worker is free.
Return(r) ==
    /\ pc' = [pc EXCEPT ![r] = "done"]
    /\ worker' = None

\* The media server cannot be reached, or its answer takes too long: then the
\* request may still be on its way, and is served later.
GiveUp(r) ==
    /\ pc[r] = "posted"
    /\ \/ r \in posts /\ posts' = posts \ {r}
       \/ UNCHANGED posts
    /\ Return(r)
    /\ UNCHANGED <<req, answers, invites>>
    /\ UNCHANGED sipVars /\ UNCHANGED mediaVars

\* An answer with a port is followed by the INVITE, on the network thread; an
\* answer to a request that gave up meets a closed connection.
GetAnswer(a) ==
    /\ answers' = answers \ {a}
    /\ IF pc[a.by] # "posted" THEN UNCHANGED httpVars
       ELSE IF a.port = None THEN Return(a.by) /\ UNCHANGED req
       ELSE /\ req' = [req EXCEPT ![a.by].port = a.port]
            /\ pc' = [pc EXCEPT ![a.by] = "invite"]
            /\ UNCHANGED worker
    /\ UNCHANGED <<posts, invites>>
    /\ UNCHANGED sipVars /\ UNCHANGED mediaVars

\* slip: the device's row is read again, without looking whether it is there
Invite_Slip(r) ==
    [by |-> r, dev |-> req[r].dev, to |-> rows[req[r].dev], port |-> req[r].port]

Invite(r) ==
    [by |-> r, dev |-> req[r].dev, to |-> req[r].to, port |-> req[r].port]

\* request_invite on the network thread, the worker waiting: the INVITE goes
\* out, unless eXosip cannot build or send it, and one pending event is
\* dispatched, unless it could not be built.
request_invite(r) ==
    /\ pc[r] = "invite" /\ ~looping
    /\ \/ /\ invites' \in {invites, invites \union {Invite(r)}}
          /\ \E e \in events : Handle(e)
       \/ /\ events = {}
          /\ invites' = invites \union {Invite(r)}
          /\ UNCHANGED <<rows, events, listed, acks, crashed>>
       \/ UNCHANGED <<invites, rows, events, listed, acks, crashed>>
    /\ Return(r)
    /\ UNCHANGED <<heard, looping, req, posts, answers>>
    /\ UNCHANGED mediaVars

-----------------------------------------------------------------------------
(* The worker thread of GbMediaServer. *)

\* slip: a stream that has its server is given a new one
OpenTcpServer_Slip(d) == TRUE

\* OpenTcpServer refuses a stream that has a server, whatever became of the
\* session.
OpenTcpServer(d) == serving[d] = None

\* slip: the counter stays
NextPort_Slip == tcp_port

NextPort == (tcp_port + 1) % PortSpan

\* The session is found or created before the server is refused.
HandlerOpenRtpServer(r) ==
    /\ r \in posts /\ req[r].op = "start"
    /\ posts' = posts \ {r}
    /\ sessions' = sessions \union {req[r].dev}
    /\ IF OpenTcpServer(req[r].dev)
       THEN /\ serving' = [serving EXCEPT ![req[r].dev] = tcp_port]
            /\ answers' = answers \union {[by |-> r, port |-> tcp_port]}
            /\ tcp_port' = NextPort
       ELSE /\ answers' = answers \union {[by |-> r, port |-> None]}
            /\ UNCHANGED <<serving, tcp_port>>
    /\ UNCHANGED invites
    /\ UNCHANGED sipVars /\ UNCHANGED httpVars

\* CloseSession: the session leaves, its RTP server stays; 200 without a port.
HandlerCloseRtpServer(r) ==
    /\ r \in posts /\ req[r].op = "stop"
    /\ posts' = posts \ {r}
    /\ sessions' = sessions \ {req[r].dev}
    /\ answers' = answers \union {[by |-> r, port |-> None]}
    /\ UNCHANGED <<serving, tcp_port, invites>>
    /\ UNCHANGED sipVars /\ UNCHANGED httpVars

-----------------------------------------------------------------------------
Network == LoopSip \/ LoopEvent \/ LoopIdle
Media(r) == HandlerOpenRtpServer(r) \/ HandlerCloseRtpServer(r)
Receive(r) == \E a \in answers : a.by = r /\ GetAnswer(a)

Next ==
    /\ ~crashed
    /\ \/ \E e \in Registers \union Others : CameraSends(e)
       \/ \E i \in invites : CameraAnswers(i)
       \/ Network
       \/ \E d \in Devices : deleteDevice(d) \/ \E a \in Addrs : createDevice(d, a)
       \/ \E r \in Requests :
            \/ \E op \in {"start", "stop"}, d \in Devices : Arrive(r, op, d)
            \/ Post(r) \/ GiveUp(r) \/ Receive(r) \/ request_invite(r) \/ Media(r)

\* The threads run. The network thread comes back to its loop, and serves the
\* calls posted to it whenever it is out of the loop; the worker takes what is
\* queued in turn, and waits for an answer no longer than the HTTP client does.
Runs(A) == ~crashed /\ A
Fairness ==
    /\ WF_vars(Runs(LoopSip)) /\ WF_vars(Runs(LoopEvent)) /\ WF_vars(Runs(LoopIdle))
    /\ \A r \in Requests : /\ WF_vars(Runs(GiveUp(r))) /\ WF_vars(Runs(Post(r)))
                           /\ SF_vars(Runs(request_invite(r)))

Spec == Init /\ [][Next]_vars /\ Fairness

-----------------------------------------------------------------------------
(* Properties. *)

Slots == Ports \union {None}

\* The types: an INVITE names a real address and a real port, whatever was
\* deleted while its request waited.
TypeOK ==
    /\ rows \in [Devices -> Addrs \union {None}]
    /\ events \subseteq Registers \union Others \union Answered
    /\ heard \in 0 .. MaxInputs /\ looping \in BOOLEAN
    /\ listed \subseteq Devices \X Addrs /\ crashed \in BOOLEAN
    /\ pc \in [Requests -> {"idle", "queued", "posted", "invite", "done"}]
    /\ req \in [Requests -> [op : {"start", "stop", "none"}, dev : Devices \union {None},
                             to : Addrs \union {None}, port : Slots]]
    /\ worker \in Requests \union {None}
    /\ posts \subseteq Requests
    /\ answers \subseteq [by : Requests, port : Slots]
    /\ serving \in [Devices -> Slots]
    /\ tcp_port \in Ports
    /\ sessions \subseteq Devices
    /\ invites \subseteq [by : Requests, dev : Devices, to : Addrs, port : Ports]
    /\ acks \subseteq Requests \X BOOLEAN

\* An INVITE goes only to an address at which that device was listed, by a
\* REGISTER that was accepted or by an operator: the row was written by
\* response_register or createDevice, read by an HTTP thread, and used after
\* the device may have been deleted and registered again from elsewhere. (That
\* a REGISTER was accepted does not show that its sender knew the password.)
InviteeListed == \A i \in invites : <<i.dev, i.to>> \in listed

\* No two streams listen at one port, so a camera that is told a port cannot
\* feed another stream: HandlerOpenRtpServer counts the port up exactly when
\* it opened one.
PortsApart ==
    \A d, e \in Devices : serving[d] = serving[e] /\ serving[d] # None => d = e

\* The INVITEs sent, as CallSetup counts them.
CallsMade == {<<i.by, i.dev, i.port>> : i \in invites}

Setup == INSTANCE CallSetup
            WITH Callers <- Requests, port <- serving, calls <- CallsMade

\* The two servers implement CallSetup: concurrent starts, stops, lost and
\* late answers never make a camera be called twice, or told a port that is
\* not its own.
CalledOnce == Setup!Spec

\* Every HTTP request returns to its caller, whatever the media server does:
\* the worker and the network thread wait for each other in one direction
\* only, and not for ever.
Returns == \A r \in Requests : pc[r] # "idle" ~> (pc[r] = "done" \/ crashed)

\* A camera that answers its call gets its ACK, unless eXosip cannot build it,
\* also when the answer is dispatched by the request_invite of another call.
Attended(r) == \E built \in BOOLEAN : <<r, built>> \in acks
AnswersAcked ==
    \A r \in Requests :
        [type |-> "answered", by |-> r] \in events ~> (Attended(r) \/ crashed)

\* What the comment of HandlerCloseRtpServer says it does: the RTP server of
\* the stream is stopped and its port released.
ClosedReleasesPort ==
    [][\A r \in Requests : HandlerCloseRtpServer(r) => serving'[req[r].dev] = None]_vars
=============================================================================
