--------------------------- MODULE Signalling_proofs ---------------------------
(***************************************************************************)
(* Proofs about Signalling, for any cameras, addresses, HTTP requests and  *)
(* number of inputs.                                                       *)
(***************************************************************************)
EXTENDS Signalling, FiniteSetTheorems, TLAPS

\* Every address in a row, waiting in a request or called was listed: by a
\* REGISTER that was accepted or by an operator.
OnlyListed ==
    /\ \A d \in Devices : rows[d] # None => <<d, rows[d]>> \in listed
    /\ \A r \in Requests : pc[r] # "idle" => req[r].dev \in Devices
    /\ \A r \in Requests : pc[r] \in {"queued", "posted", "invite"} =>
          <<req[r].dev, req[r].to>> \in listed
    /\ InviteeListed

\* A request has been posted but not answered.
Posted == \A r \in posts :
    /\ pc[r] \in {"posted", "done"}
    /\ \A a \in answers : a.by # r
    /\ \A i \in invites : i.by # r

\* A request has one answer, which names the port of its stream or none.
AnsweredOnce == \A a \in answers :
    /\ pc[a.by] \in {"posted", "done"}
    /\ a.port # None => a.port = serving[req[a.by].dev]
    /\ \A b \in answers : b.by = a.by => b = a
    /\ \A i \in invites : i.by # a.by

\* A request about to call has its answer behind it and its INVITE before it.
Inviting == \A r \in Requests : pc[r] = "invite" =>
    /\ req[r].port # None
    /\ req[r].port = serving[req[r].dev]
    /\ \A a \in answers : a.by # r
    /\ \A i \in invites : i.by # r

Invited == \A i \in invites :
    /\ pc[i.by] = "done"
    /\ i.dev = req[i.by].dev
    /\ i.port = serving[i.dev]

\* The request to which a stream's port was given.
Opener(r) ==
    \/ \E a \in answers : a.by = r /\ a.port # None
    \/ pc[r] = "invite"
    \/ \E i \in invites : i.by = r

\* A port is given once: to one request, of a stream that has a server.
GivenOnce ==
    /\ \A r \in Requests : Opener(r) => serving[req[r].dev] # None
    /\ \A r, s \in Requests :
          Opener(r) /\ Opener(s) /\ req[r].dev = req[s].dev => r = s

SetupInv ==
    /\ TypeOK /\ OnlyListed
    /\ Posted /\ AnsweredOnce /\ Inviting /\ Invited /\ GivenOnce

-----------------------------------------------------------------------------
LEMMA NoneApart ==
  /\ None \notin Nat /\ None \notin Addrs /\ None \notin Requests /\ None \notin Devices
BY NoneAssumption

\* The port counter stays a port.
LEMMA PortWraps == \A p \in Ports : (p + 1) % PortSpan \in Ports
<1>1. PortSpan \in Nat /\ PortSpan > 0  BY PortAssumption
<1>2. \A n \in Int, k \in Nat : k > 0 => n % k \in 0 .. k - 1  OBVIOUS
<1>. SUFFICES ASSUME NEW p \in Ports PROVE (p + 1) % PortSpan \in Ports  OBVIOUS
<1>3. p + 1 \in Int  BY <1>1 DEF Ports
<1>. QED  BY <1>1, <1>2, <1>3 DEF Ports

\* What the dispatch of one event may do: list the addresses of accepted
\* registrations, acknowledge calls, end the process.
LEMMA HandleStep ==
  ASSUME TypeOK, OnlyListed, NEW e \in events, Handle(e)
  PROVE  /\ rows' \in [Devices -> Addrs \union {None}]
         /\ events' \subseteq events
         /\ listed \subseteq listed' /\ listed' \subseteq Devices \X Addrs
         /\ acks' \subseteq Requests \X BOOLEAN /\ crashed' \in BOOLEAN
         /\ \A d \in Devices : rows'[d] # None => <<d, rows'[d]>> \in listed'
<1>1. e \in Registers \union Others \union Answered  BY DEF TypeOK
<1>2. events' \subseteq events  BY DEF Handle
<1>3. CASE response_register(e)
  <2>1. e.dev \in Devices /\ e.addr \in Addrs
    BY <1>1, <1>3 DEF response_register, Registers, Others, Answered
  <2>2. CASE e.fields = "ours"
    <3>1. rows' = Insert(e.dev, e.addr) /\ listed' = listed \union {<<e.dev, e.addr>>}
          /\ UNCHANGED <<acks, crashed>>
      BY <1>3, <2>2 DEF response_register
    <3>. QED  BY <1>2, <2>1, <3>1 DEF Insert, TypeOK, OnlyListed
  <2>3. CASE e.fields # "ours"
    BY <1>2, <1>3, <2>3 DEF response_register, TypeOK, OnlyListed
  <2>. QED  BY <2>2, <2>3
<1>6. CASE response_register_short(e)
  BY <1>2, <1>6 DEF response_register_short, TypeOK, OnlyListed
<1>4. CASE response_message(e)  BY <1>2, <1>4 DEF response_message, TypeOK, OnlyListed
<1>5. CASE HandlerSipCallAnswered(e)
  <2>1. e.by \in Requests
    BY <1>1, <1>5 DEF HandlerSipCallAnswered, Registers, Others, Answered
  <2>. QED  BY <1>2, <1>5, <2>1 DEF HandlerSipCallAnswered, TypeOK, OnlyListed
<1>. QED  BY <1>3, <1>4, <1>5, <1>6 DEF Handle

-----------------------------------------------------------------------------
\* What waits was listed: an address is in listed for ever.
LEMMA OnlyListedKept ==
  ASSUME TypeOK, OnlyListed, UNCHANGED <<pc, req, invites>>, listed \subseteq listed',
         \A d \in Devices : rows'[d] # None => <<d, rows'[d]>> \in listed'
  PROVE  OnlyListed'
BY DEF OnlyListed, InviteeListed

\* The cameras, the operators and the dispatch of events leave the calls alone.
LEMMA CallsKept ==
  ASSUME SetupInv, UNCHANGED <<pc, req, posts, answers, invites, serving>>
  PROVE  (Posted /\ AnsweredOnce /\ Inviting /\ Invited /\ GivenOnce)'
BY DEF SetupInv, Posted, AnsweredOnce, Inviting, Invited, GivenOnce, Opener

LEMMA InitInv == Init => SetupInv
<1>. SUFFICES ASSUME Init PROVE SetupInv  OBVIOUS
<1>. USE DEF Init
<1>1. TypeOK
  <2>1. tcp_port \in Ports  BY PortAssumption DEF Ports
  <2>2. heard \in 0 .. MaxInputs  BY BoundAssumption
  <2>3. req \in [Requests -> [op : {"start", "stop", "none"}, dev : Devices \union {None},
                              to : Addrs \union {None}, port : Slots]]
    BY DEF NoRequest, Slots
  <2>. QED  BY <2>1, <2>2, <2>3 DEF TypeOK, Slots
<1>2. OnlyListed  BY DEF OnlyListed, InviteeListed
<1>3. Posted /\ AnsweredOnce /\ Inviting /\ Invited /\ GivenOnce
  BY DEF Posted, AnsweredOnce, Inviting, Invited, GivenOnce, Opener
<1>. QED  BY <1>1, <1>2, <1>3 DEF SetupInv

\* The steps outside the setup of calls.
LEMMA OutsideStep ==
  ASSUME SetupInv,
         \/ \E e \in Registers \union Others : CameraSends(e)
         \/ \E i \in invites : CameraAnswers(i)
         \/ Network
         \/ \E d \in Devices : deleteDevice(d) \/ \E a \in Addrs : createDevice(d, a)
  PROVE  SetupInv'
<1>. USE DEF sipVars, httpVars, mediaVars
<1>. TypeOK /\ OnlyListed  BY DEF SetupInv
<1>1. UNCHANGED <<pc, req, worker, posts, answers, invites, serving, tcp_port, sessions>>
  BY DEF CameraSends, CameraAnswers, Network, LoopSip, LoopEvent, LoopIdle,
         deleteDevice, createDevice
<1>2. (Posted /\ AnsweredOnce /\ Inviting /\ Invited /\ GivenOnce)'  BY <1>1, CallsKept
<1>3. ASSUME rows' \in [Devices -> Addrs \union {None}],
             events' \subseteq Registers \union Others \union Answered,
             heard' \in 0 .. MaxInputs, looping' \in BOOLEAN,
             listed \subseteq listed', listed' \subseteq Devices \X Addrs,
             acks' \subseteq Requests \X BOOLEAN, crashed' \in BOOLEAN,
             \A d \in Devices : rows'[d] # None => <<d, rows'[d]>> \in listed'
      PROVE  SetupInv'
  <2>1. TypeOK'  BY <1>1, <1>3 DEF TypeOK
  <2>2. OnlyListed'  BY <1>1, <1>3, OnlyListedKept
  <2>. QED  BY <1>2, <2>1, <2>2 DEF SetupInv
<1>4. ASSUME NEW e \in Registers \union Others, CameraSends(e) PROVE SetupInv'
  BY <1>3, <1>4, BoundAssumption DEF CameraSends, TypeOK, OnlyListed
<1>5. ASSUME NEW i \in invites, CameraAnswers(i) PROVE SetupInv'
  <2>1. [type |-> "answered", by |-> i.by] \in Answered  BY DEF TypeOK, Answered
  <2>2. heard' \in 0 .. MaxInputs  BY <1>5, BoundAssumption DEF CameraAnswers, TypeOK
  <2>. QED  BY <1>3, <1>5, <2>1, <2>2 DEF CameraAnswers, TypeOK, OnlyListed
<1>6. CASE LoopSip  BY <1>3, <1>6 DEF LoopSip, TypeOK, OnlyListed
<1>7. CASE LoopEvent
  <2>1. PICK e \in events : Handle(e)  BY <1>7 DEF LoopEvent
  <2>2. heard' = heard /\ looping' = looping  BY <1>7 DEF LoopEvent
  <2>. QED  BY <1>3, <2>1, <2>2, HandleStep DEF TypeOK
<1>8. CASE LoopIdle  BY <1>3, <1>8 DEF LoopIdle, TypeOK, OnlyListed
<1>9. ASSUME NEW d \in Devices, deleteDevice(d) PROVE SetupInv'
  BY <1>3, <1>9, BoundAssumption DEF deleteDevice, TypeOK, OnlyListed
<1>10. ASSUME NEW d \in Devices, NEW a \in Addrs, createDevice(d, a) PROVE SetupInv'
  <2>1. rows' = [rows EXCEPT ![d] = a]  BY <1>10 DEF createDevice, Insert
  <2>2. listed' = listed \union {<<d, a>>}  BY <1>10 DEF createDevice
  <2>3. heard' \in 0 .. MaxInputs  BY <1>10, BoundAssumption DEF createDevice, TypeOK
  <2>4. events' = events /\ looping' = looping /\ acks' = acks /\ crashed' = crashed
    BY <1>10 DEF createDevice
  <2>. QED  BY <1>3, <2>1, <2>2, <2>3, <2>4 DEF TypeOK, OnlyListed
<1>. QED  BY <1>4, <1>5, <1>6, <1>7, <1>8, <1>9, <1>10 DEF Network

-----------------------------------------------------------------------------
\* The steps of a call. Each changes one request, and Opener at most of it.
LEMMA ArriveStep ==
  ASSUME SetupInv, NEW r \in Requests, NEW op \in {"start", "stop"}, NEW d \in Devices,
         Arrive(r, op, d)
  PROVE  SetupInv'
<1>. USE DEF Arrive, sipVars, mediaVars
<1>. TypeOK /\ OnlyListed  BY DEF SetupInv
<1>1. TypeOK'  BY DEF TypeOK, Slots
<1>2. OnlyListed'
  <2>1. req'[r].dev = d /\ req'[r].to = rows[d]  BY DEF TypeOK
  <2>2. pc'[r] \in {"queued", "posted", "invite"} => rows[d] # None  BY DEF TypeOK
  <2>3. \A s \in Requests \ {r} : req'[s] = req[s] /\ pc'[s] = pc[s]  BY DEF TypeOK
  <2>. QED  BY <2>1, <2>2, <2>3 DEF OnlyListed, InviteeListed
<1>3. /\ pc[r] = "idle" /\ pc'[r] \in {"done", "queued"}
      /\ \A s \in Requests \ {r} : req'[s] = req[s] /\ pc'[s] = pc[s]
      /\ answers \subseteq [by : Requests, port : Slots] /\ posts \subseteq Requests
      /\ \A i \in invites : i.by \in Requests
  BY DEF TypeOK
<1>4. /\ \A a \in answers : a.by # r
      /\ r \notin posts
      /\ \A i \in invites : i.by # r
  BY <1>3 DEF SetupInv, Posted, AnsweredOnce, Invited
<1>5. Posted'  BY <1>3, <1>4 DEF SetupInv, Posted
<1>6. AnsweredOnce'  BY <1>3, <1>4 DEF SetupInv, AnsweredOnce
<1>7. Inviting'  BY <1>3, <1>4 DEF SetupInv, Inviting
<1>8. Invited'  BY <1>3, <1>4 DEF SetupInv, Invited
<1>9. \A s \in Requests : Opener(s)' <=> Opener(s) /\ s # r
  BY <1>3, <1>4 DEF Opener
<1>10. GivenOnce'  BY <1>3, <1>9 DEF SetupInv, GivenOnce
<1>. QED  BY <1>1, <1>2, <1>5, <1>6, <1>7, <1>8, <1>10 DEF SetupInv

LEMMA PostStep ==
  ASSUME SetupInv, NEW r \in Requests, Post(r)
  PROVE  SetupInv'
<1>. USE DEF Post, sipVars, mediaVars
<1>. TypeOK /\ OnlyListed  BY DEF SetupInv
<1>1. TypeOK'  BY DEF TypeOK
<1>2. OnlyListed'  BY DEF OnlyListed, InviteeListed, TypeOK
<1>3. /\ pc[r] = "queued" /\ pc'[r] = "posted"
      /\ \A s \in Requests \ {r} : pc'[s] = pc[s]
      /\ \A a \in answers : a.by \in Requests
      /\ \A i \in invites : i.by \in Requests
      /\ posts \subseteq Requests
  BY DEF TypeOK
<1>4. /\ \A a \in answers : a.by # r
      /\ \A i \in invites : i.by # r
  BY <1>3 DEF SetupInv, AnsweredOnce, Invited
<1>5. Posted'  BY <1>3, <1>4 DEF SetupInv, Posted
<1>6. AnsweredOnce'  BY <1>3, <1>4 DEF SetupInv, AnsweredOnce
<1>7. Inviting'  BY <1>3, <1>4 DEF SetupInv, Inviting
<1>8. Invited'  BY <1>3, <1>4 DEF SetupInv, Invited
<1>9. \A s \in Requests : Opener(s)' <=> Opener(s)  BY <1>3, <1>4 DEF Opener
<1>10. GivenOnce'  BY <1>9 DEF SetupInv, GivenOnce
<1>. QED  BY <1>1, <1>2, <1>5, <1>6, <1>7, <1>8, <1>10 DEF SetupInv

LEMMA GiveUpStep ==
  ASSUME SetupInv, NEW r \in Requests, GiveUp(r)
  PROVE  SetupInv'
<1>. USE DEF GiveUp, Return, sipVars, mediaVars
<1>. TypeOK /\ OnlyListed  BY DEF SetupInv
<1>1. TypeOK'  BY DEF TypeOK
<1>2. OnlyListed'  BY DEF OnlyListed, InviteeListed, TypeOK
<1>3. /\ pc[r] = "posted" /\ pc'[r] = "done"
      /\ \A s \in Requests \ {r} : pc'[s] = pc[s]
      /\ \A a \in answers : a.by \in Requests
      /\ \A i \in invites : i.by \in Requests
      /\ posts' \subseteq posts /\ posts \subseteq Requests
  BY DEF TypeOK
<1>5. Posted'  BY <1>3 DEF SetupInv, Posted
<1>6. AnsweredOnce'  BY <1>3 DEF SetupInv, AnsweredOnce
<1>7. Inviting'  BY <1>3 DEF SetupInv, Inviting
<1>8. Invited'  BY <1>3 DEF SetupInv, Invited
<1>9. \A s \in Requests : Opener(s)' <=> Opener(s)  BY <1>3 DEF Opener
<1>10. GivenOnce'  BY <1>9 DEF SetupInv, GivenOnce
<1>. QED  BY <1>1, <1>2, <1>5, <1>6, <1>7, <1>8, <1>10 DEF SetupInv

LEMMA GetAnswerStep ==
  ASSUME SetupInv, NEW a \in answers, GetAnswer(a)
  PROVE  SetupInv'
<1>. USE DEF GetAnswer, Return, sipVars, mediaVars, httpVars
<1>. TypeOK /\ OnlyListed  BY DEF SetupInv
<1>. DEFINE r == a.by
<1>0. r \in Requests /\ a.port \in Slots  BY DEF TypeOK
<1>1. TypeOK'  BY <1>0 DEF TypeOK
<1>2. \A s \in Requests : req'[s].dev = req[s].dev /\ req'[s].to = req[s].to
  BY <1>0 DEF TypeOK
<1>3. /\ \A s \in Requests \ {r} : pc'[s] = pc[s] /\ req'[s] = req[s]
      /\ answers' = answers \ {a}
      /\ \A b \in answers : b.by \in Requests
      /\ \A i \in invites : i.by \in Requests
      /\ posts \subseteq Requests
  BY <1>0 DEF TypeOK
<1>4. \/ pc'[r] = pc[r] /\ req'[r] = req[r]
      \/ pc[r] = "posted" /\ a.port = None /\ pc'[r] = "done" /\ req'[r] = req[r]
      \/ pc[r] = "posted" /\ a.port # None /\ pc'[r] = "invite" /\ req'[r].port = a.port
  BY <1>0 DEF TypeOK
<1>5. /\ pc[r] \in {"posted", "done"}
      /\ \A b \in answers' : b.by # r
      /\ \A i \in invites : i.by # r
      /\ r \notin posts
      /\ a.port # None => a.port = serving[req[r].dev]
  BY <1>3 DEF SetupInv, AnsweredOnce, Posted
<1>6. OnlyListed'  BY <1>0, <1>2, <1>3, <1>4 DEF OnlyListed, InviteeListed
<1>7. Posted'  BY <1>3, <1>5 DEF SetupInv, Posted
<1>8. AnsweredOnce'  BY <1>2, <1>3, <1>5 DEF SetupInv, AnsweredOnce
<1>9. Inviting'  BY <1>0, <1>2, <1>3, <1>4, <1>5 DEF SetupInv, Inviting
<1>10. Invited'  BY <1>2, <1>3, <1>5 DEF SetupInv, Invited
<1>11. \A s \in Requests : Opener(s)' => Opener(s)
  <2>1. ASSUME NEW s \in Requests, s # r, Opener(s)' PROVE Opener(s)
    BY <1>3, <2>1 DEF Opener
  <2>2. Opener(r)' => Opener(r)  BY <1>0, <1>4, <1>5 DEF Opener
  <2>. QED  BY <2>1, <2>2
<1>12. GivenOnce'  BY <1>2, <1>11 DEF SetupInv, GivenOnce
<1>. QED  BY <1>1, <1>6, <1>7, <1>8, <1>9, <1>10, <1>12 DEF SetupInv

LEMMA InviteStep ==
  ASSUME SetupInv, NEW r \in Requests, request_invite(r)
  PROVE  /\ SetupInv'
         /\ invites' \in {invites, invites \union {Invite(r)}}
<1>. USE DEF mediaVars
<1>. TypeOK /\ OnlyListed  BY DEF SetupInv
<1>1. /\ pc[r] = "invite" /\ pc' = [pc EXCEPT ![r] = "done"] /\ worker' = None
      /\ invites' \in {invites, invites \union {Invite(r)}}
      /\ UNCHANGED <<heard, looping, req, posts, answers, serving, tcp_port, sessions>>
  BY DEF request_invite, Return
<1>2. /\ rows' \in [Devices -> Addrs \union {None}]
      /\ events' \subseteq events
      /\ listed \subseteq listed' /\ listed' \subseteq Devices \X Addrs
      /\ acks' \subseteq Requests \X BOOLEAN /\ crashed' \in BOOLEAN
      /\ \A d \in Devices : rows'[d] # None => <<d, rows'[d]>> \in listed'
  <2>1. CASE \E e \in events : Handle(e)  BY <2>1, HandleStep
  <2>2. CASE UNCHANGED <<rows, events, listed, acks, crashed>>
    BY <2>2 DEF TypeOK, OnlyListed
  <2>. QED  BY <2>1, <2>2 DEF request_invite
<1>3. /\ Invite(r).by = r /\ Invite(r).dev = req[r].dev
      /\ Invite(r).to = req[r].to /\ Invite(r).port = req[r].port
  BY DEF Invite
<1>4. /\ req[r].dev \in Devices /\ req[r].to \in Addrs /\ req[r].port \in Ports
      /\ <<req[r].dev, req[r].to>> \in listed
      /\ req[r].port = serving[req[r].dev]
      /\ \A a \in answers : a.by # r
      /\ \A i \in invites : i.by # r
      /\ r \notin posts
  BY <1>1 DEF SetupInv, OnlyListed, Inviting, Posted, TypeOK, Slots
<1>5. TypeOK'
  <2>1. Invite(r) \in [by : Requests, dev : Devices, to : Addrs, port : Ports]
    BY <1>4 DEF Invite
  <2>2. invites' \subseteq [by : Requests, dev : Devices, to : Addrs, port : Ports]
    BY <1>1, <2>1 DEF TypeOK
  <2>. QED  BY <1>1, <1>2, <2>2 DEF TypeOK
<1>6. /\ \A s \in Requests \ {r} : pc'[s] = pc[s]
      /\ pc'[r] = "done"
      /\ \A a \in answers : a.by \in Requests
      /\ \A i \in invites : i.by \in Requests
      /\ posts \subseteq Requests
  BY <1>1 DEF TypeOK
<1>7. OnlyListed'
  <2>1. InviteeListed'
    BY <1>1, <1>2, <1>3, <1>4 DEF OnlyListed, InviteeListed
  <2>. QED  BY <1>1, <1>2, <1>6, <2>1 DEF OnlyListed
<1>8. Posted'  BY <1>1, <1>3, <1>4, <1>6 DEF SetupInv, Posted
<1>9. AnsweredOnce'  BY <1>1, <1>3, <1>4, <1>6 DEF SetupInv, AnsweredOnce
<1>10. Inviting'  BY <1>1, <1>3, <1>6 DEF SetupInv, Inviting
<1>11. Invited'  BY <1>1, <1>3, <1>4, <1>6 DEF SetupInv, Invited
<1>12. \A s \in Requests : Opener(s)' => Opener(s)
  BY <1>1, <1>3, <1>6 DEF Opener
<1>13. GivenOnce'  BY <1>1, <1>12 DEF SetupInv, GivenOnce
<1>. QED  BY <1>1, <1>5, <1>7, <1>8, <1>9, <1>10, <1>11, <1>13 DEF SetupInv

\* A refused stream and a closed one get an answer without a port.
LEMMA NoPortStep ==
  ASSUME SetupInv, NEW r \in posts,
         posts' = posts \ {r}, answers' = answers \union {[by |-> r, port |-> None]},
         sessions' \subseteq sessions \union {req[r].dev},
         UNCHANGED <<serving, tcp_port, invites, sipVars, httpVars>>
  PROVE  SetupInv'
<1>. USE DEF sipVars, httpVars
<1>. DEFINE a == [by |-> r, port |-> None]
<1>. TypeOK /\ OnlyListed  BY DEF SetupInv
<1>1. r \in Requests /\ pc[r] \in {"posted", "done"} /\ req[r].dev \in Devices
  BY DEF SetupInv, Posted, TypeOK, OnlyListed
<1>2. TypeOK'  BY <1>1 DEF TypeOK, Slots
<1>3. OnlyListed'  BY DEF OnlyListed, InviteeListed
<1>4. /\ \A b \in answers : b.by # r
      /\ \A i \in invites : i.by # r
  BY DEF SetupInv, Posted
<1>5. a.by = r /\ a.port = None  OBVIOUS
<1>. HIDE DEF a
<1>6. answers' = answers \union {a}  BY DEF a
<1>7. Posted'  BY <1>5, <1>6 DEF SetupInv, Posted
<1>8. AnsweredOnce'  BY <1>1, <1>4, <1>5, <1>6 DEF SetupInv, AnsweredOnce
<1>9. Inviting'  BY <1>1, <1>5, <1>6 DEF SetupInv, Inviting
<1>10. Invited'  BY DEF SetupInv, Invited
<1>11. \A s \in Requests : Opener(s)' => Opener(s)  BY <1>5, <1>6 DEF Opener
<1>12. GivenOnce'  BY <1>11 DEF SetupInv, GivenOnce
<1>. QED  BY <1>2, <1>3, <1>7, <1>8, <1>9, <1>10, <1>12 DEF SetupInv

LEMMA OpenStep ==
  ASSUME SetupInv, NEW r \in Requests, HandlerOpenRtpServer(r)
  PROVE  /\ SetupInv'
         /\ \/ serving' = serving
            \/ /\ req[r].dev \in Devices
               /\ serving[req[r].dev] = None
               /\ serving' = [serving EXCEPT ![req[r].dev] = tcp_port]
<1>. USE DEF HandlerOpenRtpServer, sipVars, httpVars
<1>. TypeOK /\ OnlyListed  BY DEF SetupInv
<1>. DEFINE d == req[r].dev
            a == [by |-> r, port |-> tcp_port]
<1>1. r \in posts /\ pc[r] \in {"posted", "done"} /\ d \in Devices
  BY DEF SetupInv, Posted, OnlyListed
<1>2. CASE ~OpenTcpServer(d)
  <2>1. SetupInv'  BY <1>1, <1>2, NoPortStep
  <2>. QED  BY <1>2, <2>1
<1>3. CASE OpenTcpServer(d)
  <2>1. serving[d] = None  BY <1>3 DEF OpenTcpServer
  <2>2. /\ posts' = posts \ {r} /\ answers' = answers \union {a}
        /\ serving' = [serving EXCEPT ![d] = tcp_port]
        /\ UNCHANGED <<invites, pc, req, rows, listed>>
    BY <1>3
  <2>3. tcp_port \in Ports /\ tcp_port # None
    BY NoneApart DEF TypeOK, Ports
  <2>4. tcp_port' \in Ports
    <3>1. tcp_port' = (tcp_port + 1) % PortSpan  BY <1>3 DEF NextPort
    <3>. QED  BY <2>3, <3>1, PortWraps
  <2>5. TypeOK'  BY <1>1, <1>3, <2>3, <2>4 DEF TypeOK, Slots
  <2>6. OnlyListed'  BY <2>2 DEF OnlyListed, InviteeListed
  <2>7. /\ \A b \in answers : b.by # r
        /\ \A i \in invites : i.by # r
    BY <1>1 DEF SetupInv, Posted
  <2>8. a.by = r /\ a.port = tcp_port  OBVIOUS
  <2>. HIDE DEF a
  <2>9. /\ serving'[d] = tcp_port
        /\ \A e \in Devices \ {d} : serving'[e] = serving[e]
    BY <1>1, <2>2 DEF TypeOK
  <2>10. /\ \A b \in answers : b.by \in Requests
         /\ \A i \in invites : i.by \in Requests /\ i.dev \in Devices
         /\ posts \subseteq Requests
         /\ \A s \in Requests : pc[s] # "idle" => req[s].dev \in Devices
    BY DEF TypeOK, OnlyListed
  <2>11. \A s \in Requests : req[s].dev = d => ~Opener(s)
    BY <2>1 DEF SetupInv, GivenOnce
  <2>12. Posted'  BY <2>2, <2>8 DEF SetupInv, Posted
  <2>13. AnsweredOnce'
    <3>1. ASSUME NEW b \in answers, b.port # None
          PROVE  b.port = serving'[req[b.by].dev]
      BY <2>9, <2>10, <2>11, <3>1 DEF SetupInv, AnsweredOnce, Opener
    <3>. QED  BY <1>1, <2>2, <2>7, <2>8, <2>9, <3>1 DEF SetupInv, AnsweredOnce
  <2>14. Inviting'
    <3>1. ASSUME NEW s \in Requests, pc[s] = "invite"
          PROVE  serving'[req[s].dev] = serving[req[s].dev] /\ s # r
      BY <1>1, <2>9, <2>10, <2>11, <3>1 DEF Opener
    <3>. QED  BY <2>2, <2>8, <3>1 DEF SetupInv, Inviting
  <2>15. Invited'
    <3>1. ASSUME NEW i \in invites  PROVE serving'[i.dev] = serving[i.dev]
      BY <2>9, <2>10, <2>11, <3>1 DEF SetupInv, Invited, Opener
    <3>. QED  BY <2>2, <3>1 DEF SetupInv, Invited
  <2>16. \A s \in Requests : Opener(s)' <=> Opener(s) \/ s = r
    BY <2>2, <2>3, <2>8 DEF Opener
  <2>17. GivenOnce'
    <3>1. ASSUME NEW s \in Requests, Opener(s)' PROVE serving'[req[s].dev] # None
      <4>1. CASE req[s].dev = d  BY <2>3, <2>9, <4>1
      <4>2. CASE req[s].dev # d
        <5>1. Opener(s)  BY <2>16, <3>1, <4>2
        <5>2. req[s].dev \in Devices
          BY <2>10, <5>1 DEF SetupInv, AnsweredOnce, Invited, Opener
        <5>. QED  BY <2>9, <4>2, <5>1, <5>2 DEF SetupInv, GivenOnce
      <4>. QED  BY <4>1, <4>2
    <3>. QED  BY <2>2, <2>11, <2>16, <3>1 DEF SetupInv, GivenOnce
  <2>. QED  BY <2>1, <2>2, <1>1, <2>5, <2>6, <2>12, <2>13, <2>14, <2>15, <2>17 DEF SetupInv
<1>. QED  BY <1>2, <1>3

LEMMA CloseStep ==
  ASSUME SetupInv, NEW r \in Requests, HandlerCloseRtpServer(r)
  PROVE  SetupInv'
BY NoPortStep DEF HandlerCloseRtpServer

-----------------------------------------------------------------------------
LEMMA NextInv == SetupInv /\ [Next]_vars => SetupInv'
<1>. SUFFICES ASSUME SetupInv, [Next]_vars PROVE SetupInv'  OBVIOUS
<1>1. CASE UNCHANGED vars
  <2>1. (Posted /\ AnsweredOnce /\ Inviting /\ Invited /\ GivenOnce)'
    BY <1>1, CallsKept DEF vars
  <2>2. TypeOK'  BY <1>1 DEF SetupInv, TypeOK, vars
  <2>3. OnlyListed'  BY <1>1 DEF SetupInv, OnlyListed, InviteeListed, vars
  <2>. QED  BY <2>1, <2>2, <2>3 DEF SetupInv
<1>2. CASE Next
  <2>1. CASE \/ \E e \in Registers \union Others : CameraSends(e)
             \/ \E i \in invites : CameraAnswers(i)
             \/ Network
             \/ \E d \in Devices : deleteDevice(d) \/ \E a \in Addrs : createDevice(d, a)
    BY <2>1, OutsideStep
  <2>2. ASSUME NEW r \in Requests,
               \/ \E op \in {"start", "stop"}, d \in Devices : Arrive(r, op, d)
               \/ Post(r) \/ GiveUp(r) \/ Receive(r) \/ request_invite(r) \/ Media(r)
        PROVE  SetupInv'
    BY <2>2, ArriveStep, PostStep, GiveUpStep, GetAnswerStep, InviteStep, OpenStep, CloseStep
       DEF Receive, Media
  <2>. QED  BY <1>2, <2>1, <2>2 DEF Next
<1>. QED  BY <1>1, <1>2

THEOREM SetupInvariant == Spec => []SetupInv
<1>. QED  BY InitInv, NextInv, PTL DEF Spec

\* The types of the state, for any number of requests and cameras.
THEOREM TypesAreKept == Spec => []TypeOK
<1>1. SetupInv => TypeOK  BY DEF SetupInv
<1>. QED  BY <1>1, SetupInvariant, PTL

\* Every INVITE goes to an address at which its device was listed, by a REGISTER
\* that was accepted or by an operator, although the row is read before two waits
\* and used after them: response_register, createDevice, startStream,
\* request_invite.
THEOREM InviteesAreListed == Spec => []InviteeListed
<1>1. SetupInv => InviteeListed  BY DEF SetupInv, OnlyListed
<1>. QED  BY <1>1, SetupInvariant, PTL

\* The two servers implement CallSetup: HandlerOpenRtpServer opens a port,
\* request_invite calls, every other step leaves both alone.
THEOREM SetupRefined == Spec => CalledOnce
<1>. USE DEF sipVars, httpVars, mediaVars
<1>1. Init => Setup!Init  BY DEF Init, Setup!Init, CallsMade
<1>2. SetupInv /\ [Next]_vars => [Setup!Next]_(Setup!vars)
  <2>. SUFFICES ASSUME SetupInv, [Next]_vars PROVE [Setup!Next]_(Setup!vars)  OBVIOUS
  <2>1. CASE serving' = serving /\ invites' = invites
    BY <2>1 DEF Setup!vars, CallsMade
  <2>2. ASSUME NEW r \in Requests, HandlerOpenRtpServer(r)
        PROVE  [Setup!Next]_(Setup!vars)
    <3>. DEFINE d == req[r].dev
    <3>1. CASE serving' = serving
      BY <2>1, <2>2, <3>1 DEF HandlerOpenRtpServer
    <3>2. CASE /\ d \in Devices /\ serving[d] = None
               /\ serving' = [serving EXCEPT ![d] = tcp_port]
      <4>1. serving'[d] = tcp_port /\ tcp_port \in Nat
        BY <3>2 DEF SetupInv, TypeOK, Ports
      <4>2. CallsMade' = CallsMade  BY <2>2 DEF HandlerOpenRtpServer, CallsMade
      <4>3. Setup!Open(d)  BY <3>2, <4>1, <4>2 DEF Setup!Open
      <4>. QED  BY <3>2, <4>3 DEF Setup!Next
    <3>. QED  BY <2>2, <3>1, <3>2, OpenStep
  <2>3. ASSUME NEW r \in Requests, request_invite(r)
        PROVE  [Setup!Next]_(Setup!vars)
    <3>. DEFINE d == req[r].dev
    <3>1. serving' = serving  BY <2>3 DEF request_invite
    <3>2. CASE invites' = invites  BY <2>1, <3>1, <3>2
    <3>3. CASE invites' = invites \union {Invite(r)}
      <4>1. pc[r] = "invite"  BY <2>3 DEF request_invite
      <4>2. d \in Devices  BY <4>1 DEF SetupInv, OnlyListed
      <4>3. serving[d] # None /\ req[r].port = serving[d]
        BY <4>1 DEF SetupInv, Inviting
      <4>4. \A i \in invites : i.dev # d
        BY <4>1 DEF SetupInv, TypeOK, Inviting, Invited, GivenOnce, Opener
      <4>5. \A e \in CallsMade : e[2] # d  BY <4>4 DEF CallsMade
      <4>6. CallsMade' = CallsMade \union {<<r, d, serving[d]>>}
        <5>1. Invite(r).by = r /\ Invite(r).dev = d /\ Invite(r).port = serving[d]
          BY <4>3 DEF Invite
        <5>2. CallsMade' = CallsMade \union {<<Invite(r).by, Invite(r).dev, Invite(r).port>>}
          BY <3>3 DEF CallsMade
        <5>. QED  BY <5>1, <5>2
      <4>7. Setup!Call(r, d)  BY <3>1, <4>3, <4>5, <4>6 DEF Setup!Call
      <4>. QED  BY <4>2, <4>7 DEF Setup!Next
    <3>. QED  BY <2>3, <3>2, <3>3, InviteStep
  <2>4. CASE UNCHANGED vars  BY <2>1, <2>4 DEF vars
  <2>5. CASE \/ \E e \in Registers \union Others : CameraSends(e)
             \/ \E i \in invites : CameraAnswers(i)
             \/ Network
             \/ \E d \in Devices : deleteDevice(d) \/ \E a \in Addrs : createDevice(d, a)
    BY <2>1, <2>5 DEF CameraSends, CameraAnswers, Network, LoopSip, LoopEvent, LoopIdle,
                      deleteDevice, createDevice
  <2>6. ASSUME NEW r \in Requests,
               \/ \E op \in {"start", "stop"}, d \in Devices : Arrive(r, op, d)
               \/ Post(r) \/ GiveUp(r) \/ Receive(r) \/ HandlerCloseRtpServer(r)
        PROVE  [Setup!Next]_(Setup!vars)
    BY <2>1, <2>6 DEF Arrive, Post, GiveUp, Receive, GetAnswer, HandlerCloseRtpServer
  <2>. QED  BY <2>2, <2>3, <2>4, <2>5, <2>6 DEF Next, Media
<1>. QED  BY <1>1, <1>2, SetupInvariant, PTL DEF CalledOnce, Setup!Spec, Spec

-----------------------------------------------------------------------------
(* The ports.                                                                *)

\* The streams with a server. There are ever more of them: no step closes one.
Served == {d \in Devices : serving[d] # None}

\* How many ports were given before this one, up to the wrap of the counter.
Age(p) == (p - FirstPort) % PortSpan

PortInv ==
    /\ Age(tcp_port) = Cardinality(Served) % PortSpan
    /\ \A d \in Served : Age(serving[d]) < Cardinality(Served)
    /\ PortsApart

LEMMA PortNumbers ==
  /\ PortSpan \in Nat \ {0}
  /\ FirstPort \in Nat /\ FirstPort < PortSpan
BY PortAssumption, SMT

LEMMA Wrapped ==
  ASSUME NEW x \in Int, -PortSpan <= x, x < PortSpan + PortSpan
  PROVE  x % PortSpan = IF x < 0 THEN x + PortSpan ELSE IF x < PortSpan THEN x ELSE x - PortSpan
<1>. PortSpan \in Nat \ {0}  BY PortNumbers
<1>1. CASE x < 0  BY <1>1, SMT
<1>2. CASE 0 <= x /\ x < PortSpan  BY <1>2, SMT
<1>3. CASE PortSpan <= x  BY <1>3, SMT
<1>. QED  BY <1>1, <1>2, <1>3, SMT

LEMMA AgeIs ==
  ASSUME NEW p \in Ports
  PROVE  /\ p \in Int
         /\ Age(p) = IF p >= FirstPort THEN p - FirstPort ELSE p - FirstPort + PortSpan
         /\ Age(p) \in 0 .. PortSpan - 1
<1>. DEFINE x == p - FirstPort
<1>1. p \in Int /\ 0 <= p /\ p < PortSpan  BY PortNumbers, SMT DEF Ports
<1>2. x \in Int /\ -PortSpan <= x /\ x < PortSpan /\ x < PortSpan + PortSpan
  BY <1>1, PortNumbers, SMT
<1>3. Age(p) = x % PortSpan  BY DEF Age
<1>4. p >= FirstPort <=> ~(x < 0)  BY <1>1, PortNumbers, SMT
<1>. HIDE DEF x
<1>5. Age(p) = IF x < 0 THEN x + PortSpan ELSE x  BY <1>2, <1>3, Wrapped, SMT
<1>6. Age(p) \in 0 .. PortSpan - 1  BY <1>2, <1>5, PortNumbers, SMT
<1>. QED  BY <1>1, <1>4, <1>5, <1>6, SMT DEF x

LEMMA NextAge ==
  ASSUME NEW p \in Ports
  PROVE  Age((p + 1) % PortSpan) = (Age(p) + 1) % PortSpan
<1>. DEFINE a == Age(p)
            q == (p + 1) % PortSpan
<1>1. p \in Int /\ 0 <= p /\ p < PortSpan  BY PortNumbers, SMT DEF Ports
<1>2. /\ a = IF p >= FirstPort THEN p - FirstPort ELSE p - FirstPort + PortSpan
      /\ a \in 0 .. PortSpan - 1
  BY AgeIs
<1>3. q = IF p + 1 < PortSpan THEN p + 1 ELSE (p + 1) - PortSpan
  BY <1>1, PortNumbers, Wrapped, SMT
<1>. HIDE DEF a, q
<1>4. (a + 1) % PortSpan = IF a + 1 < PortSpan THEN a + 1 ELSE (a + 1) - PortSpan
  BY <1>2, PortNumbers, Wrapped, SMT
<1>5. q \in Ports  BY <1>1, <1>3, PortNumbers, SMT DEF Ports
<1>6. Age(q) = IF q >= FirstPort THEN q - FirstPort ELSE q - FirstPort + PortSpan
  BY <1>5, AgeIs
<1>7. Age(q) = (a + 1) % PortSpan
  BY <1>1, <1>2, <1>3, <1>4, <1>6, PortNumbers, SMT
<1>. QED  BY <1>7 DEF a, q

\* A stream opened counts one more, and its port is older than none.
LEMMA OpenedApart ==
  ASSUME IsFiniteSet(Devices), Cardinality(Devices) <= PortSpan, TypeOK, PortInv,
         NEW d \in Devices, serving[d] = None,
         serving' = [serving EXCEPT ![d] = tcp_port], tcp_port' = NextPort
  PROVE  PortInv'
<1>. DEFINE n == Cardinality(Served)
<1>1. Served \in SUBSET Devices /\ d \notin Served  BY DEF Served
<1>2. IsFiniteSet(Served) /\ n \in Nat /\ n < PortSpan
  <2>1. IsFiniteSet(Served) /\ Cardinality(Served) <= Cardinality(Devices)
        /\ Cardinality(Served) # Cardinality(Devices)
    BY <1>1, FS_Subset
  <2>2. Cardinality(Served) \in Nat /\ Cardinality(Devices) \in Nat
    BY <2>1, FS_CardinalityType
  <2>. QED  BY <2>1, <2>2, PortNumbers, SMT
<1>3. tcp_port \in Ports /\ tcp_port # None  BY NoneApart DEF TypeOK, Ports
<1>4. /\ serving'[d] = tcp_port
      /\ \A e \in Devices \ {d} : serving'[e] = serving[e]
  BY DEF TypeOK
<1>5. Served' = Served \union {d}  BY <1>3, <1>4 DEF Served
<1>6. Cardinality(Served') = n + 1  BY <1>1, <1>2, <1>5, FS_AddElement
<1>. HIDE DEF n
<1>7. Age(tcp_port) = n
  <2>1. Age(tcp_port) = n % PortSpan  BY DEF PortInv, n
  <2>2. n % PortSpan = n  BY <1>2, PortNumbers, Wrapped, SMT
  <2>. QED  BY <2>1, <2>2
<1>8. Age(tcp_port') = Cardinality(Served') % PortSpan
  <2>1. Age(tcp_port') = (Age(tcp_port) + 1) % PortSpan  BY <1>3, NextAge DEF NextPort
  <2>. QED  BY <1>6, <1>7, <2>1
<1>9. \A e \in Served : Age(serving[e]) < n /\ serving[e] \in Ports
  BY DEF PortInv, Served, TypeOK, Slots, n
<1>10. ASSUME NEW e \in Served PROVE Age(serving'[e]) < n + 1 /\ serving'[e] # tcp_port
  <2>1. serving'[e] = serving[e]  BY <1>1, <1>4
  <2>2. Age(serving[e]) \in Int /\ Age(serving[e]) < n  BY <1>9, AgeIs
  <2>3. Age(serving[e]) # Age(tcp_port) /\ Age(serving[e]) < n + 1  BY <1>2, <1>7, <2>2
  <2>. QED  BY <2>1, <2>3
<1>11. \A e \in Served' : Age(serving'[e]) < Cardinality(Served')
  <2>1. Age(serving'[d]) < n + 1  BY <1>2, <1>4, <1>7
  <2>. QED  BY <1>5, <1>6, <1>10, <2>1
<1>12. PortsApart'
  <2>. SUFFICES ASSUME NEW e \in Devices, NEW f \in Devices,
                       serving'[e] = serving'[f], serving'[e] # None
                PROVE  e = f
    BY DEF PortsApart
  <2>1. e \in Served' /\ f \in Served'  BY DEF Served
  <2>2. CASE e = d \/ f = d  BY <1>4, <1>5, <1>10, <2>1, <2>2
  <2>3. CASE e # d /\ f # d  BY <1>4, <2>3 DEF PortInv, PortsApart
  <2>. QED  BY <2>2, <2>3
<1>. QED  BY <1>8, <1>11, <1>12 DEF PortInv

\* What a step does to the streams' ports.
LEMMA PortStep ==
  ASSUME SetupInv, [Next]_vars
  PROVE  \/ UNCHANGED <<serving, tcp_port>>
         \/ \E d \in Devices : /\ serving[d] = None
                               /\ serving' = [serving EXCEPT ![d] = tcp_port]
                               /\ tcp_port' = NextPort
<1>. USE DEF sipVars, httpVars, mediaVars
<1>1. ASSUME NEW r \in Requests, HandlerOpenRtpServer(r)
      PROVE  \/ UNCHANGED <<serving, tcp_port>>
             \/ \E d \in Devices : /\ serving[d] = None
                                   /\ serving' = [serving EXCEPT ![d] = tcp_port]
                                   /\ tcp_port' = NextPort
  <2>1. req[r].dev \in Devices  BY <1>1 DEF HandlerOpenRtpServer, SetupInv, Posted, OnlyListed
  <2>. QED  BY <1>1, <2>1 DEF HandlerOpenRtpServer, OpenTcpServer
<1>2. CASE UNCHANGED vars  BY <1>2 DEF vars
<1>3. CASE \/ \E e \in Registers \union Others : CameraSends(e)
           \/ \E i \in invites : CameraAnswers(i)
           \/ Network
           \/ \E d \in Devices : deleteDevice(d) \/ \E a \in Addrs : createDevice(d, a)
  BY <1>3 DEF CameraSends, CameraAnswers, Network, LoopSip, LoopEvent, LoopIdle,
              deleteDevice, createDevice
<1>4. ASSUME NEW r \in Requests,
             \/ \E op \in {"start", "stop"}, d \in Devices : Arrive(r, op, d)
             \/ Post(r) \/ GiveUp(r) \/ Receive(r) \/ request_invite(r) \/ HandlerCloseRtpServer(r)
      PROVE  UNCHANGED <<serving, tcp_port>>
  BY <1>4 DEF Arrive, Post, GiveUp, Receive, GetAnswer, request_invite, HandlerCloseRtpServer
<1>. QED  BY <1>1, <1>2, <1>3, <1>4 DEF Next, Media

\* The streams of up to PortSpan cameras have ports of their own for ever: the
\* counter of HandlerOpenRtpServer wraps after as many servers as there are
\* ports, and OpenTcpServer opens one for each stream at most.
THEOREM PortsStayApart ==
  ASSUME IsFiniteSet(Devices), Cardinality(Devices) <= PortSpan
  PROVE  Spec => []PortsApart
<1>1. Init => PortInv
  <2>. SUFFICES ASSUME Init PROVE PortInv  OBVIOUS
  <2>1. Served = {}  BY DEF Init, Served
  <2>2. Cardinality(Served) = 0  BY <2>1, FS_EmptySet
  <2>3. Age(tcp_port) = 0 /\ 0 % PortSpan = 0
    <3>1. FirstPort - FirstPort = 0  BY PortNumbers, SMT
    <3>2. 0 % PortSpan = 0  BY PortNumbers, Wrapped, SMT
    <3>. QED  BY <3>1, <3>2 DEF Init, Age
  <2>4. PortsApart  BY DEF Init, PortsApart
  <2>. QED  BY <2>1, <2>2, <2>3, <2>4 DEF PortInv
<1>2. SetupInv /\ PortInv /\ [Next]_vars => PortInv'
  <2>. SUFFICES ASSUME SetupInv, PortInv, [Next]_vars PROVE PortInv'  OBVIOUS
  <2>1. CASE UNCHANGED <<serving, tcp_port>>
    BY <2>1 DEF PortInv, Served, PortsApart, Age
  <2>2. ASSUME NEW d \in Devices, serving[d] = None,
               serving' = [serving EXCEPT ![d] = tcp_port], tcp_port' = NextPort
        PROVE  PortInv'
    BY <2>2, OpenedApart DEF SetupInv
  <2>. QED  BY <2>1, <2>2, PortStep
<1>3. PortInv => PortsApart  BY DEF PortInv
<1>. QED  BY <1>1, <1>2, <1>3, SetupInvariant, PTL DEF Spec

-----------------------------------------------------------------------------
(* What the threads wait for. *)

\* The worker thread has the one request that waits for the media server or for
\* the network thread, and none when there is no such request.
WorkerAttends == \A r \in Requests : worker = r <=> pc[r] \in {"posted", "invite"}

\* Only calls that went out are answered and acknowledged.
NoStrayAck ==
    /\ \A k \in acks : \E i \in invites : i.by = k[1]
    /\ \A e \in events : e.type = "answered" => \E i \in invites : i.by = e.by

LEMMA AttendStep ==
  ASSUME SetupInv, WorkerAttends, [Next]_vars
  PROVE  WorkerAttends'
<1>. USE DEF sipVars, httpVars, mediaVars
<1>0. TypeOK /\ None \notin Requests  BY NoneApart DEF SetupInv
<1>1. CASE UNCHANGED <<pc, worker>>  BY <1>1 DEF WorkerAttends
<1>2. ASSUME NEW r \in Requests, NEW l \in {"queued", "done"}, pc[r] = "idle",
             pc' = [pc EXCEPT ![r] = l], UNCHANGED worker
      PROVE  WorkerAttends'
  BY <1>0, <1>2 DEF WorkerAttends, TypeOK
<1>3. ASSUME NEW r \in Requests, Post(r) PROVE WorkerAttends'
  BY <1>0, <1>3 DEF WorkerAttends, TypeOK, Post
<1>4. ASSUME NEW r \in Requests, pc[r] \in {"posted", "invite"}, Return(r) PROVE WorkerAttends'
  BY <1>0, <1>4 DEF WorkerAttends, TypeOK, Return
<1>5. ASSUME NEW r \in Requests, pc[r] = "posted", pc' = [pc EXCEPT ![r] = "invite"],
             UNCHANGED worker
      PROVE  WorkerAttends'
  BY <1>0, <1>5 DEF WorkerAttends, TypeOK
<1>6. ASSUME NEW r \in Requests, Receive(r) PROVE WorkerAttends'
  <2>. PICK a \in answers : a.by = r /\ GetAnswer(a)  BY <1>6 DEF Receive
  <2>. QED  BY <1>1, <1>4, <1>5 DEF GetAnswer
<1>7. CASE Next
  <2>1. CASE \/ \E e \in Registers \union Others : CameraSends(e)
             \/ \E i \in invites : CameraAnswers(i)
             \/ Network
             \/ \E d \in Devices : deleteDevice(d) \/ \E a \in Addrs : createDevice(d, a)
    BY <1>1, <2>1 DEF CameraSends, CameraAnswers, Network, LoopSip, LoopEvent, LoopIdle,
         deleteDevice, createDevice
  <2>2. ASSUME NEW r \in Requests,
               \/ \E op \in {"start", "stop"}, d \in Devices : Arrive(r, op, d)
               \/ Post(r) \/ GiveUp(r) \/ Receive(r) \/ request_invite(r) \/ Media(r)
        PROVE  WorkerAttends'
    <3>1. CASE \E op \in {"start", "stop"}, d \in Devices : Arrive(r, op, d)
      BY <1>2, <3>1 DEF Arrive
    <3>2. CASE GiveUp(r) \/ request_invite(r)
      BY <1>4, <3>2 DEF GiveUp, request_invite
    <3>3. CASE Media(r)
      BY <1>1, <3>3 DEF Media, HandlerOpenRtpServer, HandlerCloseRtpServer
    <3>. QED  BY <1>3, <1>6, <2>2, <3>1, <3>2, <3>3
  <2>. QED  BY <1>7, <2>1, <2>2 DEF Next
<1>. QED  BY <1>1, <1>7 DEF vars

LEMMA AckStep ==
  ASSUME SetupInv, NoStrayAck, [Next]_vars
  PROVE  NoStrayAck'
<1>. USE DEF sipVars, httpVars, mediaVars
<1>1. ASSUME NEW e \in events, Handle(e)
      PROVE  /\ events' \subseteq events
             /\ \A k \in acks' : \E i \in invites : i.by = k[1]
  BY <1>1 DEF Handle, NoStrayAck, response_register, response_register_short, response_message,
              HandlerSipCallAnswered
<1>2. CASE /\ UNCHANGED acks /\ invites \subseteq invites'
           /\ \A e \in events' : e \in events \/ e.type # "answered" \/ \E i \in invites : i.by = e.by
  BY <1>2 DEF NoStrayAck
<1>3. CASE (\E e \in events : Handle(e)) /\ invites \subseteq invites'
  BY <1>1, <1>3 DEF NoStrayAck
<1>4. CASE Next
  <2>1. ASSUME NEW e \in Registers \union Others, CameraSends(e) PROVE NoStrayAck'
    <3>1. e.type # "answered"  BY DEF Registers, Others
    <3>. QED  BY <1>2, <2>1, <3>1 DEF CameraSends
  <2>2. ASSUME NEW i \in invites, CameraAnswers(i) PROVE NoStrayAck'
    BY <1>2, <2>2 DEF CameraAnswers
  <2>3. CASE Network
    BY <1>2, <1>3, <2>3 DEF Network, LoopSip, LoopEvent, LoopIdle
  <2>4. CASE \E d \in Devices : deleteDevice(d) \/ \E a \in Addrs : createDevice(d, a)
    BY <1>2, <2>4 DEF deleteDevice, createDevice
  <2>5. ASSUME NEW r \in Requests,
               \/ \E op \in {"start", "stop"}, d \in Devices : Arrive(r, op, d)
               \/ Post(r) \/ GiveUp(r) \/ Receive(r) \/ Media(r)
        PROVE  NoStrayAck'
    BY <1>2, <2>5 DEF Arrive, Post, GiveUp, Receive, GetAnswer, Media,
         HandlerOpenRtpServer, HandlerCloseRtpServer
  <2>6. ASSUME NEW r \in Requests, request_invite(r) PROVE NoStrayAck'
    <3>1. invites \subseteq invites'  BY <2>6 DEF request_invite
    <3>2. (\E e \in events : Handle(e)) \/ UNCHANGED <<events, acks>>
      BY <2>6 DEF request_invite
    <3>. QED  BY <1>2, <1>3, <3>1, <3>2
  <2>. QED  BY <1>4, <2>1, <2>2, <2>3, <2>4, <2>5, <2>6 DEF Next
<1>. QED  BY <1>2, <1>4 DEF vars

\* The worker never waits for a request that is over, nor does a request it
\* should serve go without it: with the HTTP timeout and the network thread's
\* way back to its loop, that is why every request returns (StreamService).
THEOREM WorkerNeverStrays == Spec => []WorkerAttends
<1>1. Init => WorkerAttends  BY NoneApart DEF Init, WorkerAttends
<1>. QED  BY <1>1, AttendStep, InitInv, NextInv, PTL DEF Spec

\* An ACK goes only to a camera that was called, although the answer may be
\* handled inside the request_invite of another call.
THEOREM AcksFollowCalls == Spec => []NoStrayAck
<1>1. Init => NoStrayAck  BY DEF Init, NoStrayAck
<1>. QED  BY <1>1, AckStep, InitInv, NextInv, PTL DEF Spec
=============================================================================
