---------------------------- MODULE StatsService ----------------------------
(***************************************************************************)
(* The WebSocket service of GbMediaServer that pushes statistics           *)
(* (server/ws_stats_service.cpp).                                          *)
(*                                                                         *)
(* Four threads: the loop of the WebSocket library, which runs the open,   *)
(* close and message handlers one at a time; the push thread; the ping     *)
(* thread; and the thread that stops the service.  They share the table of *)
(* connections under connections_mutex_ and the two maps between handles   *)
(* and ids under hdl_map_mutex_.  A critical section that takes no second  *)
(* mutex is one step; one that does keeps its mutex from step to step.     *)
(* Clocks are abstracted: a subscription or a heartbeat becomes overdue at *)
(* any time, which also covers a clock read before a mutex was taken.      *)
(***************************************************************************)
EXTENDS Naturals, Sequences, FiniteSets

CONSTANTS
  Conns,    \* connections, each with the fresh id GenerateConnectionId gives it
  MaxSubs,  \* bound: subscriptions a connection has at a time
  None      \* a mutex that nobody holds, a thread that works for no connection

ASSUME Assumption == MaxSubs \in Nat \ {0}

Threads == {"ws", "push", "ping", "main"}
Kinds   == {"subscribe", "unsubscribe", "ping", "bad"}
Senders == {"ws", "push"}
Slots   == Conns \X (1 .. MaxSubs)

ASSUME NoneIsNothing == None \notin Threads \cup Conns

VARIABLES
  running,      \* running_
  server,       \* ws_server_: "up", "deaf" (stop_listening), "stopped", "reset"
  connections,  \* connections_: the subscriptions of a connection, and whether its heartbeat is late
  handles,      \* ids in hdl_to_id_ and id_to_hdl_
  socket,       \* the library's state of a connection
  connMutex,    \* owner of connections_mutex_
  hdlMutex,     \* owner of hdl_map_mutex_
  pc,           \* what a thread does next
  conn,         \* the connection the loop and the push thread work for
  tasks,        \* what the push thread has collected and not sent
  expired,      \* what the ping thread has still to close
  aborted       \* an exception left a thread: the process is gone

shared == <<running, server, connections, handles, socket>>
mutexes == <<connMutex, hdlMutex>>
vars == <<shared, mutexes, pc, conn, tasks, expired, aborted>>

NewConnection == [subs |-> <<>>, late |-> FALSE]

Init ==
  /\ running = TRUE /\ server = "up"
  /\ connections = [c \in {} |-> NewConnection] /\ handles = {}
  /\ socket = [c \in Conns |-> "new"]
  /\ connMutex = None /\ hdlMutex = None
  /\ pc = [ws |-> "idle", push |-> "loop", ping |-> "loop", main |-> "run"]
  /\ conn = [t \in Senders |-> None]
  /\ tasks = {} /\ expired = {} /\ aborted = FALSE

Listed == DOMAIN connections
Goto(t, label) == pc' = [pc EXCEPT ![t] = label]
At(t, label) == pc[t] = label
Serve(c, label) == Goto("ws", label) /\ conn' = [conn EXCEPT !["ws"] = c]
Return == Serve(None, "idle")
Without(f, S) == [x \in DOMAIN f \ S |-> f[x]]

-----------------------------------------------------------------------------
(* SendClientMessage, in the loop and in the push thread: find the handle, *)
(* send, count.  The push thread then takes its next task.                 *)

\* What follows a send: the loop's handler returns and with it goes the mutex
\* that HandlePing holds; the push thread goes on with its tasks.
Done(t) ==
  /\ Goto(t, IF t = "ws" THEN "idle" ELSE "next")
  /\ connMutex' = IF connMutex = t THEN None ELSE connMutex
  /\ conn' = [conn EXCEPT ![t] = None]

SendLookup(t) ==
  /\ At(t, "send") /\ hdlMutex = None
  /\ \/ conn[t] \in handles /\ Goto(t, "sending") /\ UNCHANGED <<connMutex, conn>>
     \/ conn[t] \notin handles /\ Done(t)
  /\ UNCHANGED <<shared, hdlMutex, tasks, expired, aborted>>

\* The library refuses when the connection is not open.
SendNow(t) ==
  /\ At(t, "sending")
  /\ \/ socket[conn[t]] = "open" /\ Goto(t, "count") /\ UNCHANGED <<connMutex, conn>>
     \/ socket[conn[t]] # "open" /\ Done(t)
  /\ UNCHANGED <<shared, hdlMutex, tasks, expired, aborted>>

\* Counting takes connections_mutex_ again, whoever holds it.
SendCount(t) ==
  /\ At(t, "count") /\ connMutex = None /\ Done(t)
  /\ UNCHANGED <<shared, hdlMutex, tasks, expired, aborted>>

-----------------------------------------------------------------------------
(* The loop: handlers of the library's events.                             *)

\* The open handler: the handle maps first, then OnOpen, all under hdl_map_mutex_.
\* A handshake accepted before stop_listening still opens after it.
Open(c) ==
  /\ At("ws", "idle") /\ server \in {"up", "deaf"} /\ socket[c] = "new" /\ hdlMutex = None
  /\ socket' = [socket EXCEPT ![c] = "open"]
  /\ handles' = handles \cup {c}
  /\ hdlMutex' = "ws"
  /\ Serve(c, "open")
  /\ UNCHANGED <<running, server, connections, connMutex, tasks, expired, aborted>>

OnOpen ==
  /\ At("ws", "open") /\ connMutex = None
  /\ connections' = [d \in Listed \cup {conn["ws"]} |-> IF d = conn["ws"] THEN NewConnection ELSE connections[d]]
  /\ hdlMutex' = None /\ Return
  /\ UNCHANGED <<running, server, handles, socket, connMutex, tasks, expired, aborted>>

\* The close handler, on whatever ends a connection: an id that Stop has
\* already removed is left alone.
Close(c) ==
  /\ At("ws", "idle") /\ server \in {"up", "deaf"} /\ socket[c] \in {"open", "closing"}
  /\ hdlMutex = None
  /\ socket' = [socket EXCEPT ![c] = "closed"]
  /\ \/ /\ c \in handles
        /\ handles' = handles \ {c} /\ hdlMutex' = "ws"
        /\ Serve(c, "close")
     \/ c \notin handles /\ UNCHANGED <<handles, hdlMutex, pc, conn>>
  /\ UNCHANGED <<running, server, connections, connMutex, tasks, expired, aborted>>

\* slip: the close handler forgets the handle only.
OnClose_Forgets ==
  /\ At("ws", "close") /\ connMutex = None
  /\ hdlMutex' = None /\ Return
  /\ UNCHANGED <<shared, connMutex, tasks, expired, aborted>>

OnClose ==
  /\ At("ws", "close") /\ connMutex = None
  /\ connections' = Without(connections, {conn["ws"]})
  /\ hdlMutex' = None /\ Return
  /\ UNCHANGED <<running, server, handles, socket, connMutex, tasks, expired, aborted>>

\* A message: its sender is looked up; what cannot be read is answered with an
\* error, and so is a subscription without a target.
OnMessage(c, kind) ==
  /\ At("ws", "idle") /\ server \in {"up", "deaf"} /\ socket[c] = "open"
  /\ hdlMutex = None
  /\ c \in handles
  /\ kind = "subscribe" /\ c \in Listed => Len(connections[c].subs) < MaxSubs
  /\ Serve(c, IF kind = "bad" THEN "send" ELSE kind)
  /\ UNCHANGED <<shared, mutexes, tasks, expired, aborted>>

\* slip: the subscription is added once for the target and once for its id.
Subscribed_Twice(c) ==
  IF c \in Listed
  THEN [connections EXCEPT ![c].subs = @ \o <<"due", "due">>]
  ELSE connections

\* A subscription starts overdue (last_push_time = 0).
Subscribed(c) ==
  IF c \in Listed
  THEN [connections EXCEPT ![c].subs = Append(@, "due")]
  ELSE connections

HandleSubscribe ==
  /\ At("ws", "subscribe") /\ connMutex = None
  /\ connections' = Subscribed(conn["ws"])
  /\ Goto("ws", "send")
  /\ UNCHANGED <<running, server, handles, socket, mutexes, conn, tasks, expired, aborted>>

HandleUnsubscribe ==
  /\ At("ws", "unsubscribe") /\ connMutex = None
  /\ connections' = [d \in Listed |-> IF d = conn["ws"] THEN [connections[d] EXCEPT !.subs = <<>>] ELSE connections[d]]
  /\ Return
  /\ UNCHANGED <<running, server, handles, socket, mutexes, tasks, expired, aborted>>

\* HandlePing keeps connections_mutex_ while it sends the pong.
HandlePing ==
  /\ At("ws", "ping") /\ connMutex = None
  /\ \/ /\ conn["ws"] \in Listed
        /\ connections' = [connections EXCEPT ![conn["ws"]].late = FALSE]
        /\ connMutex' = "ws" /\ Goto("ws", "send") /\ UNCHANGED conn
     \/ conn["ws"] \notin Listed /\ Return /\ UNCHANGED <<connections, connMutex>>
  /\ UNCHANGED <<running, server, handles, socket, hdlMutex, tasks, expired, aborted>>

-----------------------------------------------------------------------------
(* The push thread.                                                        *)

\* The test of running_, then the sleep at the end of the loop's body.
PushLoop ==
  /\ At("push", "loop")
  /\ Goto("push", IF running THEN "collect" ELSE "exited")
  /\ UNCHANGED <<shared, mutexes, conn, tasks, expired, aborted>>

Due(conns) == {s \in Slots : s[1] \in DOMAIN conns /\ s[2] \in DOMAIN conns[s[1]].subs /\ conns[s[1]].subs[s[2]] = "due"}

\* The subscriptions collected get the time of this round.
Pushed(conns, due) ==
  [c \in DOMAIN conns |->
    [conns[c] EXCEPT !.subs = [i \in DOMAIN @ |-> IF <<c, i>> \in due THEN "pushed" ELSE @[i]]]]

\* slip: everybody's time is reset when somebody is collected, as if the clock belonged to the round.
Collected_One(due) == IF due = {} THEN {} ELSE {CHOOSE s \in due : TRUE}

Collected(due) == due

\* PushStatsTimer collects under the mutex and sends after it.
PushStatsTimer ==
  /\ At("push", "collect") /\ connMutex = None
  /\ LET due == Due(connections)
     IN  /\ connections' = Pushed(connections, due)
         /\ tasks' = Collected(due)
  /\ Goto("push", IF tasks' = {} THEN "asleep" ELSE "next")
  /\ UNCHANGED <<running, server, handles, socket, mutexes, conn, expired, aborted>>

\* One task is taken,
PushStats(s) ==
  /\ At("push", "next") /\ s \in tasks
  /\ tasks' = tasks \ {s}
  /\ conn' = [conn EXCEPT !["push"] = s[1]]
  /\ Goto("push", "build")
  /\ UNCHANGED <<shared, mutexes, expired, aborted>>

\* and its message built: statistics or, when the producer or consumer is gone,
\* an error.  An exception on the way is caught and nothing is sent.
BuildStats ==
  /\ At("push", "build")
  /\ \/ Goto("push", "send") /\ UNCHANGED conn
     \/ Goto("push", "next") /\ conn' = [conn EXCEPT !["push"] = None]
  /\ UNCHANGED <<shared, mutexes, tasks, expired, aborted>>

\* The summary of a round reads the table once more.
PushSummary ==
  /\ At("push", "next") /\ tasks = {} /\ connMutex = None
  /\ Goto("push", "asleep")
  /\ UNCHANGED <<shared, mutexes, conn, tasks, expired, aborted>>

Wake(t) ==
  /\ At(t, "asleep")
  /\ Goto(t, IF t = "push" THEN "loop" ELSE "scan")
  /\ UNCHANGED <<shared, mutexes, conn, tasks, expired, aborted>>

-----------------------------------------------------------------------------
(* The ping thread: it sleeps first and looks at running_ only then.       *)

\* slip: the loop does not look at running_.
PingLoop_Forever ==
  /\ At("ping", "loop")
  /\ Goto("ping", "asleep")
  /\ UNCHANGED <<shared, mutexes, conn, tasks, expired, aborted>>

PingLoop ==
  /\ At("ping", "loop")
  /\ Goto("ping", IF running THEN "asleep" ELSE "exited")
  /\ UNCHANGED <<shared, mutexes, conn, tasks, expired, aborted>>

\* The scan keeps connections_mutex_ while it closes what is late.
PingScan ==
  /\ At("ping", "scan") /\ connMutex = None
  /\ expired' = {c \in Listed : connections[c].late}
  /\ \/ expired' = {} /\ Goto("ping", "loop") /\ UNCHANGED connMutex
     \/ expired' # {} /\ Goto("ping", "closing") /\ connMutex' = "ping"
  /\ UNCHANGED <<shared, hdlMutex, conn, tasks, aborted>>

\* websocketpp's close throws unless the connection is open.
LibraryClose(S) ==
  /\ socket' = [c \in Conns |-> IF c \in S /\ socket[c] = "open" THEN "closing" ELSE socket[c]]
  /\ aborted' = (\E c \in S : socket[c] # "open")

\* hdl_map_mutex_ is taken for each late connection, under the other mutex.
PingClose(c) ==
  /\ At("ping", "closing") /\ c \in expired /\ hdlMutex = None
  /\ expired' = expired \ {c}
  /\ IF c \in handles THEN LibraryClose({c}) ELSE UNCHANGED <<socket, aborted>>
  /\ IF expired' = {}
     THEN Goto("ping", "loop") /\ connMutex' = None
     ELSE UNCHANGED <<pc, connMutex>>
  /\ UNCHANGED <<running, server, connections, handles, hdlMutex, conn, tasks>>

-----------------------------------------------------------------------------
(* Stop, in the thread that ends the program.                              *)

Stop ==
  /\ At("main", "run")
  /\ running' = FALSE /\ Goto("main", "join push")
  /\ UNCHANGED <<server, connections, handles, socket, mutexes, conn, tasks, expired, aborted>>

\* slip: the push thread is not waited for.
JoinPush_Not ==
  /\ At("main", "join push")
  /\ Goto("main", "join ping")
  /\ UNCHANGED <<shared, mutexes, conn, tasks, expired, aborted>>

JoinPush ==
  /\ At("main", "join push") /\ At("push", "exited")
  /\ Goto("main", "join ping")
  /\ UNCHANGED <<shared, mutexes, conn, tasks, expired, aborted>>

JoinPing ==
  /\ At("main", "join ping") /\ At("ping", "exited")
  /\ Goto("main", "clear")
  /\ UNCHANGED <<shared, mutexes, conn, tasks, expired, aborted>>

ClearConnections ==
  /\ At("main", "clear") /\ connMutex = None
  /\ connections' = [c \in {} |-> NewConnection]
  /\ Goto("main", "unlisten")
  /\ UNCHANGED <<running, server, handles, socket, mutexes, conn, tasks, expired, aborted>>

StopListening ==
  /\ At("main", "unlisten")
  /\ server' = "deaf" /\ Goto("main", "close all")
  /\ UNCHANGED <<running, connections, handles, socket, mutexes, conn, tasks, expired, aborted>>

CloseAll ==
  /\ At("main", "close all") /\ hdlMutex = None
  /\ LibraryClose(handles)
  /\ handles' = {}
  /\ Goto("main", "stop server")
  /\ UNCHANGED <<running, server, connections, mutexes, conn, tasks, expired>>

StopServer ==
  /\ At("main", "stop server")
  /\ server' = "stopped" /\ Goto("main", "join ws")
  /\ UNCHANGED <<running, connections, handles, socket, mutexes, conn, tasks, expired, aborted>>

\* The loop returns after the handler it is in.
JoinWs ==
  /\ At("main", "join ws") /\ At("ws", "idle")
  /\ server' = "reset" /\ Goto("main", "stopped")
  /\ UNCHANGED <<running, connections, handles, socket, mutexes, conn, tasks, expired, aborted>>

-----------------------------------------------------------------------------
(* Time: the interval of a subscription, or ping_timeout, has passed.      *)

IntervalPasses(s) ==
  /\ s[1] \in Listed /\ s[2] \in DOMAIN connections[s[1]].subs
  /\ connections[s[1]].subs[s[2]] = "pushed"
  /\ connections' = [connections EXCEPT ![s[1]].subs[s[2]] = "due"]
  /\ UNCHANGED <<running, server, handles, socket, mutexes, pc, conn, tasks, expired, aborted>>

HeartbeatLate(c) ==
  /\ c \in Listed /\ ~connections[c].late
  /\ connections' = [connections EXCEPT ![c].late = TRUE]
  /\ UNCHANGED <<running, server, handles, socket, mutexes, pc, conn, tasks, expired, aborted>>

-----------------------------------------------------------------------------
Sending(t) == SendLookup(t) \/ SendNow(t) \/ SendCount(t)

\* What the loop does once a handler has started.
HandlerStep == OnOpen \/ OnClose \/ HandleSubscribe \/ HandleUnsubscribe \/ HandlePing \/ Sending("ws")

PushStep == PushLoop \/ PushStatsTimer \/ (\E s \in Slots : PushStats(s)) \/ BuildStats \/ PushSummary \/ Wake("push") \/ Sending("push")

PingStep == PingLoop \/ PingScan \/ (\E c \in Conns : PingClose(c)) \/ Wake("ping")

StopStep == JoinPush \/ JoinPing \/ ClearConnections \/ StopListening \/ CloseAll \/ StopServer \/ JoinWs

Event(c) == Open(c) \/ Close(c) \/ \E kind \in Kinds : OnMessage(c, kind)

Next ==
  /\ ~aborted
  /\ \/ \E c \in Conns : Event(c) \/ HeartbeatLate(c)
     \/ \E s \in Slots : IntervalPasses(s)
     \/ HandlerStep \/ PushStep \/ PingStep
     \/ Stop \/ StopStep

\* The threads run and time passes; clients and the operator owe nothing.
Fairness ==
  /\ WF_vars(~aborted /\ HandlerStep) /\ WF_vars(~aborted /\ PushStep)
  /\ WF_vars(~aborted /\ PingStep) /\ WF_vars(~aborted /\ StopStep)
  /\ \A s \in Slots : WF_vars(~aborted /\ IntervalPasses(s))

Spec == Init /\ [][Next]_vars /\ Fairness

-----------------------------------------------------------------------------
(* Properties                                                              *)

\* Every variable stays in its type; the labels are the program's.
TypeOK ==
  /\ running \in BOOLEAN /\ aborted \in BOOLEAN
  /\ server \in {"up", "deaf", "stopped", "reset"}
  /\ Listed \subseteq Conns /\ handles \subseteq Conns /\ expired \subseteq Conns
  /\ \A c \in Listed : connections[c] \in [subs : Seq({"due", "pushed"}), late : BOOLEAN] /\ Len(connections[c].subs) \leq MaxSubs
  /\ socket \in [Conns -> {"new", "open", "closing", "closed"}]
  /\ connMutex \in {None, "ws", "ping"} /\ hdlMutex \in {None, "ws"}
  /\ pc \in [ws : {"idle", "open", "close", "send", "sending", "count"} \cup (Kinds \ {"bad"}),
              push : {"loop", "collect", "next", "build", "send", "sending", "count", "asleep", "exited"},
              ping : {"loop", "scan", "closing", "asleep", "exited"},
              main : {"run", "join push", "join ping", "clear", "unlisten", "close all", "stop server", "join ws", "stopped"}]
  /\ conn \in [Senders -> Conns \cup {None}] /\ tasks \subseteq Slots

\* The table of connections and the handle maps are kept under different
\* mutexes by different functions (OnOpen and OnClose against the handlers that
\* call them): whenever no handler is at work on the maps they name the same
\* connections, until Stop starts to clear them one after the other.
ListedTogether ==
  (hdlMutex = None /\ pc["main"] \in {"run", "join push", "join ping", "clear"}) => Listed = handles

\* ws_server_ is reset by the stopping thread without a mutex: by then no other
\* thread is inside a send, a handler or a close that uses it.
ServerOutlivesUsers ==
  server = "reset" =>
    /\ At("ws", "idle") /\ At("ping", "exited")
    /\ pc["push"] \notin {"send", "sending", "count"}

\* What the next two need: no client pings and no heartbeat is late, so that
\* neither place that holds connections_mutex_ across another lock is reached.
Quiet == ~At("ws", "ping") /\ \A c \in Listed : ~connections[c].late

\* As long as that is so, the push thread comes to every connection that keeps a
\* subscription again and again, whatever other connections do.  (It takes the
\* task; whether a message goes out is up to the statistics and the library.)
HasSubscription(c) == c \in Listed /\ connections[c].subs # <<>>
Served == []Quiet => \A c \in Conns : HasSubscription(c) ~> (conn["push"] = c \/ ~HasSubscription(c) \/ ~running)

\* As long as that is so, Stop joins all three threads and returns.
StopsWhenQuiet == []Quiet => (~running ~> At("main", "stopped"))

\* What the comment of Stop lists (wait for the push thread, wait for the ping
\* thread, close all connections, stop the server): it always gets to the end,
\* or the process does.
StopCompletes == ~running ~> (At("main", "stopped") \/ aborted)

=============================================================================
