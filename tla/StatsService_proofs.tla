------------------------ MODULE StatsService_proofs ------------------------
(***************************************************************************)
(* Proofs about StatsService, for any number of connections and            *)
(* subscriptions.                                                          *)
(***************************************************************************)
EXTENDS StatsService, TLAPS

\* TypeOK, in two parts: all but the contents of the table of connections, and
\* those contents.
WsLabels   == {"idle", "open", "close", "send", "sending", "count"} \cup (Kinds \ {"bad"})
PushLabels == {"loop", "collect", "next", "build", "send", "sending", "count", "asleep", "exited"}
PingLabels == {"loop", "scan", "closing", "asleep", "exited"}
MainLabels == {"run", "join push", "join ping", "clear", "unlisten", "close all", "stop server", "join ws", "stopped"}

PcType == [ws : WsLabels, push : PushLabels, ping : PingLabels, main : MainLabels]

Types ==
  /\ pc \in PcType
  /\ running \in BOOLEAN /\ aborted \in BOOLEAN
  /\ server \in {"up", "deaf", "stopped", "reset"}
  /\ Listed \subseteq Conns /\ handles \subseteq Conns /\ expired \subseteq Conns
  /\ socket \in [Conns -> {"new", "open", "closing", "closed"}]
  /\ connMutex \in {None, "ws", "ping"} /\ hdlMutex \in {None, "ws"}
  /\ conn \in [Senders -> Conns \cup {None}] /\ tasks \subseteq Slots

\* Only the loop takes hdl_map_mutex_ beyond a step: between the two halves of
\* the open and of the close handler.
Holder == hdlMutex = IF pc["ws"] \in {"open", "close"} THEN "ws" ELSE None

\* A handler knows its connection.
Working == pc["ws"] # "idle" => conn["ws"] \in Conns

\* Between the halves the handle maps are one step ahead of the table.
Tables ==
  pc["main"] \in {"run", "join push", "join ping", "clear"} =>
    handles = CASE pc["ws"] = "open"  -> Listed \cup {conn["ws"]}
                [] pc["ws"] = "close" -> Listed \ {conn["ws"]}
                [] OTHER -> Listed

\* The stopping thread is past a join only when the thread it joined has ended,
\* and resets the server last, when the loop has returned.
Ended ==
  /\ pc["main"] \notin {"run", "join push"} => pc["push"] = "exited"
  /\ pc["main"] \notin {"run", "join push", "join ping"} => pc["ping"] = "exited"
  /\ server \in {"stopped", "reset"} => pc["main"] \in {"join ws", "stopped"}
  /\ server = "reset" => pc["ws"] = "idle" /\ pc["main"] = "stopped"

Control == Types /\ Holder /\ Working /\ Tables /\ Ended

-----------------------------------------------------------------------------
(* What a step does to pc and conn                                         *)

LEMMA WsMoves ==
  ASSUME pc \in PcType, NEW l \in WsLabels, Goto("ws", l)
  PROVE  /\ pc' \in PcType /\ pc'["ws"] = l
         /\ pc'["push"] = pc["push"] /\ pc'["ping"] = pc["ping"] /\ pc'["main"] = pc["main"]
BY DEF PcType, Goto

LEMMA PushMoves ==
  ASSUME pc \in PcType, NEW l \in PushLabels, Goto("push", l)
  PROVE  /\ pc' \in PcType /\ pc'["push"] = l
         /\ pc'["ws"] = pc["ws"] /\ pc'["ping"] = pc["ping"] /\ pc'["main"] = pc["main"]
BY DEF PcType, Goto

LEMMA PingMoves ==
  ASSUME pc \in PcType, NEW l \in PingLabels, Goto("ping", l)
  PROVE  /\ pc' \in PcType /\ pc'["ping"] = l
         /\ pc'["ws"] = pc["ws"] /\ pc'["push"] = pc["push"] /\ pc'["main"] = pc["main"]
BY DEF PcType, Goto

LEMMA MainMoves ==
  ASSUME pc \in PcType, NEW l \in MainLabels, Goto("main", l)
  PROVE  /\ pc' \in PcType /\ pc'["main"] = l
         /\ pc'["ws"] = pc["ws"] /\ pc'["push"] = pc["push"] /\ pc'["ping"] = pc["ping"]
BY DEF PcType, Goto

LEMMA Serves ==
  ASSUME conn \in [Senders -> Conns \cup {None}], NEW t \in Senders, NEW c \in Conns \cup {None},
         conn' = [conn EXCEPT ![t] = c]
  PROVE  /\ conn' \in [Senders -> Conns \cup {None}] /\ conn'[t] = c
         /\ \A u \in Senders : u # t => conn'[u] = conn[u]
OBVIOUS

\* A step that leaves the tables and the main thread alone keeps the invariant
\* if the loop does not enter or leave the open and close handlers.
LEMMA TablesUntouched ==
  ASSUME Control, Types',
         UNCHANGED <<handles, hdlMutex, server>>, Listed' = Listed,
         pc'["main"] = pc["main"],
         pc["push"] = "exited" => pc'["push"] = "exited",
         pc["ping"] = "exited" => pc'["ping"] = "exited",
         \/ pc'["ws"] = pc["ws"] /\ conn'["ws"] = conn["ws"]
         \/ /\ pc["ws"] \notin {"idle", "open", "close"} /\ pc'["ws"] \notin {"open", "close"}
            /\ pc'["ws"] = "idle" \/ conn'["ws"] = conn["ws"]
  PROVE  Control'
<1>1. Holder'
  BY DEF Control, Holder
<1>2. Working'
  BY DEF Control, Working
<1>3. Tables'
  BY DEF Control, Tables
<1>4. Ended'
  BY DEF Control, Ended
<1> QED
  BY <1>1, <1>2, <1>3, <1>4 DEF Control

LEMMA ControlInit == Init => Control
<1> SUFFICES ASSUME Init PROVE Control
  OBVIOUS
<1>1. pc \in PcType
  BY DEF Init, PcType, WsLabels, PushLabels, PingLabels, MainLabels
<1>2. Listed = {}
  BY DEF Init, Listed
<1> QED
  BY <1>1, <1>2, NoneIsNothing DEF Init, Control, Types, Holder, Working, Tables, Ended, Senders

-----------------------------------------------------------------------------
(* The steps of a send, of the loop and of the push thread                 *)

LEMMA SendSteps ==
  ASSUME Control, NEW t \in Senders, Sending(t)
  PROVE  Control'
<1>1. pc \in PcType /\ conn \in [Senders -> Conns \cup {None}] /\ t \in {"ws", "push"}
  BY DEF Control, Types, Senders
<1>2. UNCHANGED <<shared, hdlMutex, tasks, expired, aborted>> /\ Listed' = Listed
  BY DEF Sending, SendLookup, SendNow, SendCount, shared, Listed
<1>3. /\ pc[t] \in {"send", "sending", "count"}
      /\ \/ Goto(t, "sending") /\ UNCHANGED <<connMutex, conn>>
         \/ Goto(t, "count") /\ UNCHANGED <<connMutex, conn>>
         \/ Done(t)
  BY DEF Sending, SendLookup, SendNow, SendCount, At
<1>4. /\ conn' \in [Senders -> Conns \cup {None}]
      /\ \A u \in Senders : u # t => conn'[u] = conn[u]
      /\ conn'[t] = conn[t] \/ Done(t)
  BY <1>1, <1>3, Serves DEF Done
<1>5. connMutex' \in {None, "ws", "ping"}
  BY <1>3 DEF Done, Control, Types
<1>6. CASE t = "ws"
  <2>1. PICK l \in {"sending", "count", "idle"} : Goto("ws", l) /\ (Done(t) => l = "idle")
    BY <1>3, <1>6 DEF Done
  <2>2. /\ pc' \in PcType /\ pc'["ws"] = l
        /\ pc'["push"] = pc["push"] /\ pc'["ping"] = pc["ping"] /\ pc'["main"] = pc["main"]
    BY <1>1, <2>1, WsMoves DEF WsLabels
  <2>3. Types'
    BY <1>2, <1>4, <1>5, <2>2 DEF Control, Types, shared
  <2> QED
    BY <1>2, <1>3, <1>4, <1>6, <2>1, <2>2, <2>3, TablesUntouched DEF shared
<1>7. CASE t = "push"
  <2>1. PICK l \in {"sending", "count", "next"} : Goto("push", l)
    BY <1>3, <1>7 DEF Done
  <2>2. /\ pc' \in PcType /\ pc'["push"] = l
        /\ pc'["ws"] = pc["ws"] /\ pc'["ping"] = pc["ping"] /\ pc'["main"] = pc["main"]
    BY <1>1, <2>1, PushMoves DEF PushLabels
  <2>3. Types'
    BY <1>2, <1>4, <1>5, <2>2 DEF Control, Types, shared
  <2>4. conn'["ws"] = conn["ws"]
    BY <1>4, <1>7 DEF Senders
  <2> QED
    BY <1>2, <1>3, <1>7, <2>2, <2>3, <2>4, TablesUntouched DEF shared
<1> QED
  BY <1>1, <1>6, <1>7

LEMMA LoopSteps ==
  ASSUME Control, OnOpen \/ OnClose \/ HandleSubscribe \/ HandleUnsubscribe \/ HandlePing
  PROVE  Control'
<1> USE DEF shared, mutexes, At
<1>1. pc \in PcType /\ conn \in [Senders -> Conns \cup {None}] /\ "ws" \in Senders
  BY DEF Control, Types, Senders
<1>2. ASSUME Return
      PROVE  /\ pc' \in PcType /\ pc'["ws"] = "idle"
             /\ pc'["push"] = pc["push"] /\ pc'["ping"] = pc["ping"] /\ pc'["main"] = pc["main"]
             /\ conn' \in [Senders -> Conns \cup {None}]
  BY <1>1, <1>2, WsMoves, Serves DEF Return, Serve, WsLabels
<1>3. ASSUME Goto("ws", "send")
      PROVE  /\ pc' \in PcType /\ pc'["ws"] = "send"
             /\ pc'["push"] = pc["push"] /\ pc'["ping"] = pc["ping"] /\ pc'["main"] = pc["main"]
  BY <1>1, <1>3, WsMoves DEF WsLabels
<1>4. server # "reset"
  BY DEF Control, Ended, OnOpen, OnClose, HandleSubscribe, HandleUnsubscribe, HandlePing
<1>5. CASE OnOpen
  <2>1. Listed' = Listed \cup {conn["ws"]} /\ conn["ws"] \in Conns
    BY <1>5 DEF OnOpen, Listed, Control, Working
  <2>2. Types'
    BY <1>2, <1>5, <2>1 DEF OnOpen, Control, Types
  <2>3. Tables'
    BY <1>2, <1>5, <2>1 DEF OnOpen, Control, Tables
  <2> QED
    BY <1>2, <1>4, <1>5, <2>2, <2>3 DEF OnOpen, Control, Holder, Working, Ended
<1>6. CASE OnClose
  <2>1. Listed' = Listed \ {conn["ws"]}
    BY <1>6 DEF OnClose, Without, Listed
  <2>2. Types'
    BY <1>2, <1>6, <2>1 DEF OnClose, Control, Types
  <2>3. Tables'
    BY <1>2, <1>6, <2>1 DEF OnClose, Control, Tables
  <2> QED
    BY <1>2, <1>4, <1>6, <2>2, <2>3 DEF OnClose, Control, Holder, Working, Ended
<1>7. CASE HandleSubscribe
  <2>1. Listed' = Listed
    BY <1>7 DEF HandleSubscribe, Subscribed, Listed
  <2>2. Types'
    BY <1>3, <1>7, <2>1 DEF HandleSubscribe, Control, Types
  <2> QED
    BY <1>3, <1>7, <2>1, <2>2, TablesUntouched DEF HandleSubscribe
<1>8. CASE HandleUnsubscribe
  <2>1. Listed' = Listed
    BY <1>8 DEF HandleUnsubscribe, Listed
  <2>2. Types'
    BY <1>2, <1>8, <2>1 DEF HandleUnsubscribe, Control, Types
  <2> QED
    BY <1>2, <1>8, <2>1, <2>2, TablesUntouched DEF HandleUnsubscribe
<1>9. CASE HandlePing
  <2>1. Listed' = Listed
    BY <1>9 DEF HandlePing, Listed
  <2>2. CASE Return /\ UNCHANGED connMutex
    <3>1. Types'
      BY <1>2, <1>9, <2>1, <2>2 DEF HandlePing, Control, Types
    <3> QED
      BY <1>2, <1>9, <2>1, <2>2, <3>1, TablesUntouched DEF HandlePing
  <2>3. CASE connMutex' = "ws" /\ Goto("ws", "send") /\ UNCHANGED conn
    <3>1. Types'
      BY <1>3, <1>9, <2>1, <2>3 DEF HandlePing, Control, Types
    <3> QED
      BY <1>3, <1>9, <2>1, <2>3, <3>1, TablesUntouched DEF HandlePing
  <2> QED
    BY <1>9, <2>2, <2>3 DEF HandlePing
<1> QED
  BY <1>5, <1>6, <1>7, <1>8, <1>9

LEMMA EventSteps ==
  ASSUME Control, NEW c \in Conns, Event(c)
  PROVE  Control'
<1> USE DEF shared, mutexes, At
<1>1. pc \in PcType /\ conn \in [Senders -> Conns \cup {None}] /\ "ws" \in Senders
  BY DEF Control, Types, Senders
<1>2. ASSUME NEW l \in WsLabels, Serve(c, l)
      PROVE  /\ pc' \in PcType /\ pc'["ws"] = l
             /\ pc'["push"] = pc["push"] /\ pc'["ping"] = pc["ping"] /\ pc'["main"] = pc["main"]
             /\ conn' \in [Senders -> Conns \cup {None}] /\ conn'["ws"] = c
  BY <1>1, <1>2, WsMoves, Serves DEF Serve
<1>3. ASSUME Open(c) PROVE Control'
  <2>1. Serve(c, "open") /\ "open" \in WsLabels
    BY <1>3 DEF Open, WsLabels
  <2>2. Types'
    BY <1>2, <1>3, <2>1 DEF Open, Control, Types, Listed
  <2>3. Listed' = Listed
    BY <1>3 DEF Open, Listed
  <2> QED
    BY <1>2, <1>3, <2>1, <2>2, <2>3, NoneIsNothing
    DEF Open, Control, Types, Holder, Working, Tables, Ended, Threads
<1>4. ASSUME Close(c) PROVE Control'
  <2>1. Listed' = Listed
    BY <1>4 DEF Close, Listed
  <2>2. CASE Serve(c, "close") /\ c \in handles /\ handles' = handles \ {c} /\ hdlMutex' = "ws"
    <3>1. "close" \in WsLabels
      BY DEF WsLabels
    <3>2. Types'
      BY <1>2, <1>4, <2>1, <2>2, <3>1 DEF Close, Control, Types
    <3> QED
      BY <1>2, <1>4, <2>1, <2>2, <3>1, <3>2
      DEF Close, Control, Types, Holder, Working, Tables, Ended
  <2>3. CASE UNCHANGED <<handles, hdlMutex, pc, conn>>
    <3>1. Types'
      BY <1>4, <2>1, <2>3 DEF Close, Control, Types
    <3> QED
      BY <1>4, <2>1, <2>3, <3>1, TablesUntouched DEF Close
  <2> QED
    BY <1>4, <2>2, <2>3 DEF Close
<1>5. ASSUME NEW k \in Kinds, OnMessage(c, k) PROVE Control'
  <2>1. PICK l \in WsLabels : Serve(c, l) /\ l \notin {"idle", "open", "close"}
    BY <1>5 DEF OnMessage, Kinds, WsLabels
  <2>2. Types'
    BY <1>2, <1>5, <2>1 DEF OnMessage, Control, Types, Listed
  <2>3. Listed' = Listed
    BY <1>5 DEF OnMessage, Listed
  <2> QED
    BY <1>2, <1>5, <2>1, <2>2, <2>3 DEF OnMessage, Control, Types, Holder, Working, Tables, Ended
<1> QED
  BY <1>3, <1>4, <1>5 DEF Event

LEMMA PushSteps ==
  ASSUME Control, PushStep
  PROVE  Control'
<1> USE DEF shared, mutexes, At
<1>1. pc \in PcType /\ conn \in [Senders -> Conns \cup {None}]
  BY DEF Control, Types
<1>2. ASSUME NEW l \in PushLabels, Goto("push", l),
             UNCHANGED <<running, server, handles, socket, connMutex, hdlMutex, expired, aborted>>,
             Listed' = Listed, tasks' \subseteq Slots, pc["push"] # "exited",
             conn' \in [Senders -> Conns \cup {None}], conn'["ws"] = conn["ws"]
      PROVE  Control'
  <2>1. /\ pc' \in PcType
        /\ pc'["ws"] = pc["ws"] /\ pc'["ping"] = pc["ping"] /\ pc'["main"] = pc["main"]
    BY <1>1, <1>2, PushMoves
  <2>2. Types'
    BY <1>2, <2>1 DEF Control, Types
  <2> QED
    BY <1>2, <2>1, <2>2, TablesUntouched
<1>3. CASE PushLoop
  <2>1. (IF running THEN "collect" ELSE "exited") \in PushLabels
    BY DEF PushLabels
  <2> QED
    BY <1>1, <1>2, <1>3, <2>1 DEF PushLoop, Listed, Control, Types
<1>4. CASE PushStatsTimer
  <2>1. Listed' = Listed
    BY <1>4 DEF PushStatsTimer, Pushed, Listed
  <2>2. tasks' \subseteq Slots
    BY <1>4 DEF PushStatsTimer, Collected, Due
  <2>3. (IF tasks' = {} THEN "asleep" ELSE "next") \in PushLabels
    BY DEF PushLabels
  <2> QED
    BY <1>1, <1>2, <1>4, <2>1, <2>2, <2>3 DEF PushStatsTimer
<1>5. ASSUME NEW s \in Slots, PushStats(s) PROVE Control'
  <2>1. /\ conn' \in [Senders -> Conns \cup {None}] /\ conn'["ws"] = conn["ws"]
    BY <1>1, <1>5, Serves DEF PushStats, Senders, Slots
  <2> QED
    BY <1>2, <1>5, <2>1 DEF PushStats, PushLabels, Listed, Control, Types
<1>8. CASE BuildStats
  <2>1. /\ conn' \in [Senders -> Conns \cup {None}] /\ conn'["ws"] = conn["ws"]
        /\ Goto("push", "send") \/ Goto("push", "next")
    BY <1>1, <1>8, Serves DEF BuildStats, Senders
  <2> QED
    BY <1>2, <1>8, <2>1 DEF BuildStats, PushLabels, Listed, Control, Types
<1>6. CASE PushSummary
  BY <1>1, <1>2, <1>6 DEF PushSummary, PushLabels, Listed, Control, Types
<1>7. CASE Wake("push")
  BY <1>1, <1>2, <1>7 DEF Wake, PushLabels, Listed, Control, Types
<1> QED
  BY <1>3, <1>4, <1>5, <1>6, <1>7, <1>8, SendSteps DEF PushStep, Senders

LEMMA PingSteps ==
  ASSUME Control, PingStep
  PROVE  Control'
<1> USE DEF shared, mutexes, At
<1>1. pc \in PcType
  BY DEF Control, Types
<1>2. ASSUME pc' = pc \/ \E l \in PingLabels : Goto("ping", l) /\ pc["ping"] # "exited",
             UNCHANGED <<running, server, connections, handles, hdlMutex, conn, tasks>>,
             socket' \in [Conns -> {"new", "open", "closing", "closed"}],
             connMutex' \in {None, "ws", "ping"}, expired' \subseteq Conns, aborted' \in BOOLEAN
      PROVE  Control'
  <2>1. /\ pc' \in PcType
        /\ pc'["ws"] = pc["ws"] /\ pc'["push"] = pc["push"] /\ pc'["main"] = pc["main"]
        /\ pc["ping"] = "exited" => pc'["ping"] = "exited"
    BY <1>1, <1>2, PingMoves
  <2>2. Listed' = Listed
    BY <1>2 DEF Listed
  <2>3. Types'
    BY <1>2, <2>1, <2>2 DEF Control, Types
  <2> QED
    BY <1>2, <2>1, <2>2, <2>3, TablesUntouched
<1>3. CASE PingLoop
  <2>1. (IF running THEN "asleep" ELSE "exited") \in PingLabels
    BY DEF PingLabels
  <2> QED
    BY <1>2, <1>3, <2>1 DEF PingLoop, Control, Types
<1>4. CASE PingScan
  <2>1. expired' \subseteq Conns
    BY <1>4 DEF PingScan, Control, Types
  <2>2. /\ connMutex' \in {None, "ws", "ping"}
        /\ Goto("ping", "loop") \/ Goto("ping", "closing")
    BY <1>4 DEF PingScan, Control, Types
  <2> QED
    BY <1>2, <1>4, <2>1, <2>2 DEF PingScan, PingLabels, Control, Types
<1>5. ASSUME NEW c \in Conns, PingClose(c) PROVE Control'
  <2>1. socket' \in [Conns -> {"new", "open", "closing", "closed"}] /\ aborted' \in BOOLEAN
    BY <1>5 DEF PingClose, LibraryClose, Control, Types
  <2>2. /\ connMutex' \in {None, "ws", "ping"} /\ expired' \subseteq Conns
        /\ pc' = pc \/ Goto("ping", "loop")
    BY <1>5 DEF PingClose, Control, Types
  <2> QED
    BY <1>2, <1>5, <2>1, <2>2 DEF PingClose, PingLabels
<1>6. CASE Wake("ping")
  BY <1>2, <1>6 DEF Wake, PingLabels, Control, Types
<1> QED
  BY <1>3, <1>4, <1>5, <1>6 DEF PingStep

LEMMA StopSteps ==
  ASSUME Control, Stop \/ StopStep
  PROVE  Control'
<1> USE DEF shared, mutexes, At
<1>1. pc \in PcType
  BY DEF Control, Types
<1>2. ASSUME NEW l \in MainLabels, Goto("main", l),
             UNCHANGED <<hdlMutex, connMutex, conn, tasks, expired>>,
             running' \in BOOLEAN, aborted' \in BOOLEAN,
             server' \in {"up", "deaf", "stopped", "reset"},
             socket' \in [Conns -> {"new", "open", "closing", "closed"}],
             handles' \subseteq handles, Listed' \subseteq Listed,
             \/ l \notin {"run", "join push", "join ping", "clear"}
             \/ handles' = handles /\ Listed' = Listed /\ pc["main"] \in {"run", "join push", "join ping"},
             l \notin {"run", "join push"} => pc["push"] = "exited",
             l \notin {"run", "join push", "join ping"} => pc["ping"] = "exited",
             server' \in {"stopped", "reset"} => l \in {"join ws", "stopped"},
             server' = "reset" => pc["ws"] = "idle" /\ l = "stopped"
      PROVE  Control'
  <2>1. /\ pc' \in PcType /\ pc'["main"] = l
        /\ pc'["ws"] = pc["ws"] /\ pc'["push"] = pc["push"] /\ pc'["ping"] = pc["ping"]
    BY <1>1, <1>2, MainMoves
  <2>2. Types'
    BY <1>2, <2>1 DEF Control, Types
  <2>3. Holder' /\ Working'
    BY <1>2, <2>1 DEF Control, Holder, Working
  <2>4. Tables'
    BY <1>2, <2>1 DEF Control, Tables
  <2>5. Ended'
    BY <1>2, <2>1 DEF Ended
  <2> QED
    BY <2>2, <2>3, <2>4, <2>5 DEF Control
<1>3. /\ running \in BOOLEAN /\ aborted \in BOOLEAN /\ Ended
      /\ server \in {"up", "deaf", "stopped", "reset"}
      /\ socket \in [Conns -> {"new", "open", "closing", "closed"}]
  BY DEF Control, Types
<1>4. CASE Stop
  BY <1>2, <1>3, <1>4 DEF Stop, MainLabels, Listed, Ended
<1>5. CASE JoinPush
  BY <1>2, <1>3, <1>5 DEF JoinPush, MainLabels, Listed, Ended
<1>6. CASE JoinPing
  BY <1>2, <1>3, <1>6 DEF JoinPing, MainLabels, Listed, Ended
<1>7. CASE ClearConnections
  <2>1. Listed' = {}
    BY <1>7 DEF ClearConnections, Listed
  <2> QED
    BY <1>2, <1>3, <1>7, <2>1 DEF ClearConnections, MainLabels, Ended
<1>8. CASE StopListening
  BY <1>2, <1>3, <1>8 DEF StopListening, MainLabels, Listed, Ended
<1>9. CASE CloseAll
  <2>1. socket' \in [Conns -> {"new", "open", "closing", "closed"}] /\ aborted' \in BOOLEAN
    BY <1>3, <1>9 DEF CloseAll, LibraryClose
  <2> QED
    BY <1>2, <1>3, <1>9, <2>1 DEF CloseAll, MainLabels, Listed, Ended
<1>10. CASE StopServer
  BY <1>2, <1>3, <1>10 DEF StopServer, MainLabels, Listed, Ended
<1>11. CASE JoinWs
  BY <1>2, <1>3, <1>11 DEF JoinWs, MainLabels, Listed, Ended
<1> QED
  BY <1>4, <1>5, <1>6, <1>7, <1>8, <1>9, <1>10, <1>11 DEF StopStep

LEMMA ControlStep == Control /\ [Next]_vars => Control'
<1> SUFFICES ASSUME Control, [Next]_vars
             PROVE  Control'
  OBVIOUS
<1>1. ASSUME UNCHANGED <<running, server, handles, socket, mutexes, pc, conn, tasks, expired, aborted>>,
             Listed' = Listed
      PROVE  Control'
  <2>1. Types'
    BY <1>1 DEF Control, Types, mutexes
  <2> QED
    BY <1>1, <2>1, TablesUntouched DEF mutexes
<1>2. ASSUME NEW s \in Slots, IntervalPasses(s) PROVE Control'
  BY <1>1, <1>2 DEF IntervalPasses, Listed
<1>3. ASSUME NEW c \in Conns, HeartbeatLate(c) PROVE Control'
  BY <1>1, <1>3 DEF HeartbeatLate, Listed
<1>4. CASE HandlerStep
  BY <1>4, LoopSteps, SendSteps DEF HandlerStep, Senders
<1>5. CASE UNCHANGED vars
  BY <1>1, <1>5 DEF vars, shared, mutexes, Listed
<1> QED
  BY <1>2, <1>3, <1>4, <1>5, EventSteps, PushSteps, PingSteps, StopSteps DEF Next

\* The control part of the state: who holds hdl_map_mutex_, which half of a
\* handler is done, and how far Stop has come (WsStatsService).
THEOREM ControlInvariant == Spec => []Control
BY ControlInit, ControlStep, PTL DEF Spec

\* The two tables of connections, under two mutexes, name the same connections
\* whenever no handler is between them (OnOpen, OnClose and their callers).
THEOREM TablesAgree == Spec => []ListedTogether
<1>1. Control => ListedTogether
  BY NoneIsNothing DEF Control, Holder, Tables, Types, ListedTogether, Threads
<1> QED
  BY <1>1, ControlInvariant, PTL

\* When Stop resets ws_server_, which no mutex guards, no thread is inside a
\* send, a handler or a close that uses it.
THEOREM ServerIsLastToGo == Spec => []ServerOutlivesUsers
<1>1. Control => ServerOutlivesUsers
  BY DEF Control, Ended, ServerOutlivesUsers, At
<1> QED
  BY <1>1, ControlInvariant, PTL

-----------------------------------------------------------------------------
(* The contents of the table of connections                                *)

Connection == [subs : Seq({"due", "pushed"}), late : BOOLEAN]

\* A connection has room for the subscription the loop is about to add.
Contents ==
  /\ \A c \in Listed : connections[c] \in Connection /\ Len(connections[c].subs) \leq MaxSubs
  /\ pc["ws"] = "subscribe" /\ conn["ws"] \in Listed => Len(connections[conn["ws"]].subs) < MaxSubs

LEMMA ChangedAt ==
  ASSUME NEW Q, NEW q \in Seq(Q), NEW i \in DOMAIN q, NEW x \in Q
  PROVE  [q EXCEPT ![i] = x] \in Seq(Q) /\ Len([q EXCEPT ![i] = x]) = Len(q)
OBVIOUS

LEMMA MappedAll ==
  ASSUME NEW Q, NEW q \in Seq(Q), NEW r, DOMAIN r = DOMAIN q, r = [i \in DOMAIN q |-> r[i]],
         \A i \in DOMAIN q : r[i] \in Q
  PROVE  r \in Seq(Q) /\ Len(r) = Len(q)
OBVIOUS

\* A step that replaces the subscriptions of a connection by as many keeps the contents.
LEMMA SameNumber ==
  ASSUME Contents, Listed' \subseteq Listed,
         \A c \in Listed' : connections'[c] \in Connection /\ Len(connections'[c].subs) = Len(connections[c].subs),
         (pc'["ws"] = pc["ws"] /\ conn'["ws"] = conn["ws"]) \/ pc'["ws"] # "subscribe"
  PROVE  Contents'
BY DEF Contents

LEMMA ContentsStep == Control /\ Contents /\ [Next]_vars => Contents'
<1> SUFFICES ASSUME Control, Contents, [Next]_vars
             PROVE  Contents'
  OBVIOUS
<1> USE DEF shared, mutexes, At
<1>1. pc \in PcType /\ conn \in [Senders -> Conns \cup {None}] /\ "ws" \in Senders
  BY DEF Control, Types, Senders
<1>2. ASSUME UNCHANGED connections,
             (pc'["ws"] = pc["ws"] /\ conn'["ws"] = conn["ws"]) \/ pc'["ws"] # "subscribe"
      PROVE  Contents'
  BY <1>2 DEF Contents, Listed
<1>3. ASSUME NEW t \in Senders, Sending(t) PROVE Contents'
  <2>1. UNCHANGED connections
    BY <1>3 DEF Sending, SendLookup, SendNow, SendCount
  <2>2. CASE t = "ws"
    <3>1. pc'["ws"] \in {"sending", "count", "idle"}
      <4>1. PICK l \in {"sending", "count", "idle"} : Goto("ws", l)
        BY <1>3, <2>2 DEF Sending, SendLookup, SendNow, SendCount, Done
      <4> QED
        BY <1>1, <4>1, WsMoves DEF WsLabels
    <3> QED
      BY <1>2, <2>1, <3>1
  <2>3. CASE t = "push"
    <3>1. PICK l \in {"sending", "count", "next"} : Goto("push", l)
      BY <1>3, <2>3 DEF Sending, SendLookup, SendNow, SendCount, Done
    <3>2. pc'["ws"] = pc["ws"]
      BY <1>1, <3>1, PushMoves DEF PushLabels
    <3>3. conn'["ws"] = conn["ws"]
      BY <1>1, <1>3, <2>3 DEF Sending, SendLookup, SendNow, SendCount, Done, Senders
    <3> QED
      BY <1>2, <2>1, <3>2, <3>3
  <2> QED
    BY <2>2, <2>3 DEF Senders
<1>4. ASSUME Return PROVE pc'["ws"] = "idle"
  BY <1>1, <1>4, WsMoves DEF Return, Serve, WsLabels
<1>5. ASSUME Goto("ws", "send") PROVE pc'["ws"] = "send"
  BY <1>1, <1>5, WsMoves DEF WsLabels
<1>6. CASE OnOpen
  <2>1. NewConnection \in Connection /\ Len(NewConnection.subs) = 0 /\ 0 \leq MaxSubs
    BY Assumption DEF NewConnection, Connection
  <2>2. /\ Listed' = Listed \cup {conn["ws"]}
        /\ \A c \in Listed' : connections'[c] = IF c = conn["ws"] THEN NewConnection ELSE connections[c]
    BY <1>6 DEF OnOpen, Listed
  <2> QED
    BY <1>4, <1>6, <2>1, <2>2 DEF OnOpen, Contents
<1>7. CASE OnClose
  <2>1. Listed' \subseteq Listed /\ \A c \in Listed' : connections'[c] = connections[c]
    BY <1>7 DEF OnClose, Without, Listed
  <2> QED
    BY <1>4, <1>7, <2>1, SameNumber DEF OnClose, Contents
<1>8. CASE HandleSubscribe
  <2> DEFINE c == conn["ws"]
  <2>1. CASE c \notin Listed
    BY <1>2, <1>5, <1>8, <2>1 DEF HandleSubscribe, Subscribed
  <2>2. CASE c \in Listed
    <3>1. Listed' = Listed /\ \A d \in Listed : d # c => connections'[d] = connections[d]
      BY <1>8, <2>2 DEF HandleSubscribe, Subscribed, Listed
    <3>2. connections'[c] = [connections[c] EXCEPT !.subs = Append(@, "due")]
      BY <1>8, <2>2 DEF HandleSubscribe, Subscribed, Listed
    <3>3. /\ connections[c].subs \in Seq({"due", "pushed"}) /\ connections[c].late \in BOOLEAN
          /\ connections[c] \in Connection
          /\ Len(connections[c].subs) < MaxSubs
      BY <1>8, <2>2 DEF HandleSubscribe, Contents, Connection
    <3>4. /\ Append(connections[c].subs, "due") \in Seq({"due", "pushed"})
          /\ Len(Append(connections[c].subs, "due")) = Len(connections[c].subs) + 1
      BY <3>3
    <3>5. connections'[c] \in Connection /\ connections'[c].subs = Append(connections[c].subs, "due")
      BY <3>2, <3>3, <3>4 DEF Connection
    <3>6. Len(connections'[c].subs) \leq MaxSubs
      BY <3>3, <3>4, <3>5, Assumption
    <3> QED
      BY <1>5, <1>8, <2>2, <3>1, <3>5, <3>6 DEF HandleSubscribe, Contents
  <2> QED
    BY <2>1, <2>2
<1>9. CASE HandleUnsubscribe
  <2>1. Listed' = Listed
    BY <1>9 DEF HandleUnsubscribe, Listed
  <2>2. \A d \in Listed : connections'[d] = IF d = conn["ws"] THEN [connections[d] EXCEPT !.subs = <<>>] ELSE connections[d]
    BY <1>9 DEF HandleUnsubscribe, Listed
  <2>3. <<>> \in Seq({"due", "pushed"}) /\ Len(<<>>) = 0 /\ 0 \leq MaxSubs
    BY Assumption
  <2>4. \A d \in Listed : connections'[d] \in Connection /\ Len(connections'[d].subs) \leq MaxSubs
    BY <2>2, <2>3 DEF Contents, Connection
  <2> QED
    BY <1>4, <1>9, <2>1, <2>4 DEF HandleUnsubscribe, Contents
<1>10. CASE HandlePing
  <2>1. Listed' = Listed
    BY <1>10 DEF HandlePing, Listed
  <2>2. \A d \in Listed : connections'[d] \in Connection /\ connections'[d].subs = connections[d].subs
    <3>1. ASSUME connections' = [connections EXCEPT ![conn["ws"]].late = FALSE]
          PROVE  \A d \in Listed : connections'[d] \in Connection /\ connections'[d].subs = connections[d].subs
      BY <3>1 DEF Contents, Connection, Listed
    <3>2. ASSUME UNCHANGED connections
          PROVE  \A d \in Listed : connections'[d] \in Connection /\ connections'[d].subs = connections[d].subs
      BY <3>2 DEF Contents
    <3> QED
      BY <1>10, <3>1, <3>2 DEF HandlePing
  <2> QED
    BY <1>4, <1>5, <1>10, <2>1, <2>2, SameNumber DEF HandlePing
<1>11. ASSUME NEW s \in Slots, IntervalPasses(s) PROVE Contents'
  <2>1. Listed' = Listed /\ \A d \in Listed : d # s[1] => connections'[d] = connections[d]
    BY <1>11 DEF IntervalPasses, Listed
  <2>2. connections'[s[1]] = [connections[s[1]] EXCEPT !.subs = [@ EXCEPT ![s[2]] = "due"]] /\ s[1] \in Listed
    BY <1>11 DEF IntervalPasses, Listed
  <2>3. /\ connections[s[1]].subs \in Seq({"due", "pushed"}) /\ connections[s[1]].late \in BOOLEAN
        /\ connections[s[1]] \in Connection
    BY <2>2 DEF Contents, Connection
  <2>4. LET r == [connections[s[1]].subs EXCEPT ![s[2]] = "due"]
        IN  r \in Seq({"due", "pushed"}) /\ Len(r) = Len(connections[s[1]].subs)
    BY <1>11, <2>3, ChangedAt DEF IntervalPasses
  <2>5. connections'[s[1]] \in Connection /\ Len(connections'[s[1]].subs) = Len(connections[s[1]].subs)
    BY <2>2, <2>3, <2>4 DEF Connection
  <2> QED
    BY <1>11, <2>1, <2>5, SameNumber DEF IntervalPasses, Contents
<1>12. ASSUME NEW c \in Conns, HeartbeatLate(c) PROVE Contents'
  <2>1. Listed' = Listed
    BY <1>12 DEF HeartbeatLate, Listed
  <2>2. \A d \in Listed : connections'[d] \in Connection /\ connections'[d].subs = connections[d].subs
    BY <1>12 DEF HeartbeatLate, Contents, Connection, Listed
  <2> QED
    BY <1>12, <2>1, <2>2, SameNumber DEF HeartbeatLate
<1>13. CASE PushStatsTimer
  <2>1. pc'["ws"] = pc["ws"]
    <3>1. (IF tasks' = {} THEN "asleep" ELSE "next") \in PushLabels
      BY DEF PushLabels
    <3> QED
      BY <1>1, <1>13, <3>1, PushMoves DEF PushStatsTimer
  <2>2. Listed' = Listed
    BY <1>13 DEF PushStatsTimer, Pushed, Listed
  <2>3. ASSUME NEW d \in Listed
        PROVE  connections'[d] \in Connection /\ Len(connections'[d].subs) = Len(connections[d].subs)
    <3> DEFINE q == connections[d].subs
               r == [i \in DOMAIN q |-> IF <<d, i>> \in Due(connections) THEN "pushed" ELSE q[i]]
    <3>1. connections'[d] = [connections[d] EXCEPT !.subs = r]
      BY <1>13 DEF PushStatsTimer, Pushed, Listed
    <3>2. q \in Seq({"due", "pushed"}) /\ connections[d] \in Connection
      BY DEF Contents, Connection
    <3>3. r \in Seq({"due", "pushed"}) /\ Len(r) = Len(q)
      <4>1. \A i \in DOMAIN q : q[i] \in {"due", "pushed"}
        BY <3>2
      <4>2. \A i \in DOMAIN q : r[i] \in {"due", "pushed"}
        BY <4>1
      <4> QED
        <5>1. DOMAIN r = DOMAIN q /\ r = [i \in DOMAIN q |-> r[i]]
          OBVIOUS
        <5> HIDE DEF r, q
        <5> QED
          BY <3>2, <4>2, <5>1, MappedAll
    <3> QED
      BY <3>1, <3>2, <3>3 DEF Connection
  <2> QED
    BY <1>13, <2>1, <2>2, <2>3, SameNumber DEF PushStatsTimer
<1>14. CASE PushStep
  <2>1. ASSUME NEW l \in PushLabels, Goto("push", l), UNCHANGED connections, conn'["ws"] = conn["ws"]
        PROVE  Contents'
    BY <1>1, <1>2, <2>1, PushMoves
  <2>2. CASE PushLoop
    <3>1. (IF running THEN "collect" ELSE "exited") \in PushLabels
      BY DEF PushLabels
    <3> QED
      BY <2>1, <2>2, <3>1 DEF PushLoop
  <2>3. ASSUME NEW s \in Slots, PushStats(s) PROVE Contents'
    <3>1. conn'["ws"] = conn["ws"]
      BY <1>1, <2>3 DEF PushStats, Senders
    <3> QED
      BY <2>1, <2>3, <3>1 DEF PushStats, PushLabels
  <2>4. CASE PushSummary \/ Wake("push")
    BY <2>1, <2>4 DEF PushSummary, Wake, PushLabels
  <2>5. CASE BuildStats
    <3>1. conn'["ws"] = conn["ws"]
      BY <1>1, <2>5 DEF BuildStats, Senders
    <3> QED
      BY <2>1, <2>5, <3>1 DEF BuildStats, PushLabels
  <2> QED
    BY <1>3, <1>13, <1>14, <2>2, <2>3, <2>4, <2>5 DEF PushStep, Senders
<1>15. CASE PingStep
  <2>1. pc' = pc \/ \E l \in PingLabels : Goto("ping", l)
    <3>1. (IF running THEN "asleep" ELSE "exited") \in PingLabels
      BY DEF PingLabels
    <3> QED
      BY <1>15, <3>1 DEF PingStep, PingLoop, PingScan, PingClose, Wake, PingLabels
  <2>2. pc'["ws"] = pc["ws"]
    BY <1>1, <2>1, PingMoves
  <2> QED
    BY <1>2, <1>15, <2>2 DEF PingStep, PingLoop, PingScan, PingClose, Wake
<1>16. CASE Stop \/ StopStep
  <2>1. \E l \in MainLabels : Goto("main", l)
    BY <1>16 DEF Stop, StopStep, JoinPush, JoinPing, ClearConnections, StopListening, CloseAll, StopServer, JoinWs, MainLabels
  <2>2. pc'["ws"] = pc["ws"] /\ conn' = conn
    BY <1>1, <1>16, <2>1, MainMoves
    DEF Stop, StopStep, JoinPush, JoinPing, ClearConnections, StopListening, CloseAll, StopServer, JoinWs
  <2>3. CASE ClearConnections
    BY <2>3 DEF ClearConnections, Contents, Listed
  <2> QED
    BY <1>2, <1>16, <2>2, <2>3 DEF Stop, StopStep, JoinPush, JoinPing, StopListening, CloseAll, StopServer, JoinWs
<1>17. ASSUME NEW c \in Conns, Event(c) PROVE Contents'
  <2>1. UNCHANGED connections
    BY <1>17 DEF Event, Open, Close, OnMessage
  <2>2. CASE Open(c) \/ Close(c)
    <3>1. Serve(c, "open") \/ Serve(c, "close") \/ UNCHANGED <<pc, conn>>
      BY <2>2 DEF Open, Close
    <3>2. pc'["ws"] \in {"open", "close"} \/ UNCHANGED <<pc, conn>>
      BY <1>1, <3>1, WsMoves DEF Serve, WsLabels
    <3> QED
      BY <1>2, <2>1, <3>2
  <2>3. ASSUME NEW k \in Kinds, OnMessage(c, k) PROVE Contents'
    <3>1. PICK l \in WsLabels : Serve(c, l) /\ (l = "subscribe" => k = "subscribe")
      BY <2>3 DEF OnMessage, Kinds, WsLabels
    <3>2. pc'["ws"] = l /\ conn'["ws"] = c
      BY <1>1, <3>1, WsMoves, Serves DEF Serve
    <3> QED
      BY <2>1, <2>3, <3>1, <3>2 DEF OnMessage, Contents, Listed
  <2> QED
    BY <1>17, <2>2, <2>3 DEF Event
<1>18. CASE UNCHANGED vars
  BY <1>2, <1>18 DEF vars
<1> QED
  BY <1>3, <1>6, <1>7, <1>8, <1>9, <1>10, <1>11, <1>12, <1>14, <1>15, <1>16, <1>17, <1>18 DEF Next, HandlerStep, Senders

\* Every variable keeps its type, and no connection gets more subscriptions
\* than there is room for, whatever is pushed and closed meanwhile.
THEOREM TypesHold == Spec => []TypeOK
<1>1. Init => Contents
  BY DEF Init, Contents, Listed
<1>2. Control /\ Contents => TypeOK
  BY DEF Control, Types, Contents, Connection, TypeOK, PcType, WsLabels, PushLabels, PingLabels, MainLabels
<1> QED
  BY <1>1, <1>2, ControlInit, ControlStep, ContentsStep, PTL DEF Spec

-----------------------------------------------------------------------------
(* Waiting in a circle                                                     *)

\* Two circles are possible: the ping thread holds connections_mutex_ and wants
\* hdl_map_mutex_ while the loop holds that and wants the first; and the loop
\* takes connections_mutex_ twice, counting the pong it sends under it.
Circle ==
  \/ connMutex = "ping" /\ hdlMutex = "ws"
  \/ connMutex = "ws" /\ At("ws", "count")

\* In any other state the thread that holds a mutex has its next step before it,
\* and the mutex that this step takes is free.
HoldersGoOn ==
  ~Circle =>
    /\ connMutex = "ping" => At("ping", "closing") /\ expired # {} /\ hdlMutex = None
    /\ connMutex = "ws" => (At("ws", "send") /\ hdlMutex = None) \/ At("ws", "sending")
    /\ hdlMutex = "ws" => (At("ws", "open") \/ At("ws", "close")) /\ connMutex = None

\* Who holds connections_mutex_ beyond a step: the ping thread while it closes
\* what is late, the loop while it sends a pong.
ConnHolder ==
  /\ connMutex = "ping" <=> At("ping", "closing")
  /\ At("ping", "closing") => expired # {}
  /\ connMutex = "ws" => pc["ws"] \in {"send", "sending", "count"}

LEMMA ConnHolderStep ==
  ASSUME Control, ConnHolder, [Next]_vars
  PROVE  ConnHolder'
<1> USE DEF shared, mutexes, At
<1>1. pc \in PcType /\ conn \in [Senders -> Conns \cup {None}] /\ None \notin Threads
  BY NoneIsNothing DEF Control, Types
<1>2. CASE UNCHANGED vars
  BY <1>2 DEF vars, ConnHolder
<1>3. CASE \E l \in MainLabels : Goto("main", l) /\ UNCHANGED <<connMutex, expired>>
  BY <1>1, <1>3, MainMoves DEF ConnHolder
<1>4. CASE \E l \in PushLabels : Goto("push", l) /\ UNCHANGED <<connMutex, expired>>
  BY <1>1, <1>4, PushMoves DEF ConnHolder
<1>5. ASSUME NEW l \in WsLabels, Goto("ws", l), UNCHANGED <<connMutex, expired>>,
             pc["ws"] \notin {"send", "sending", "count"} \/ l \in {"send", "sending", "count"}
      PROVE  ConnHolder'
  BY <1>1, <1>5, WsMoves DEF ConnHolder
<1>6. CASE Sending("ws")
  <2>1. expired' = expired
    BY <1>6 DEF Sending, SendLookup, SendNow, SendCount
  <2>2. \/ \E l \in {"sending", "count"} : Goto("ws", l) /\ UNCHANGED connMutex
        \/ Goto("ws", "idle") /\ connMutex' = IF connMutex = "ws" THEN None ELSE connMutex
    BY <1>6 DEF Sending, SendLookup, SendNow, SendCount, Done
  <2>3. CASE Goto("ws", "idle") /\ connMutex' = IF connMutex = "ws" THEN None ELSE connMutex
    BY <1>1, <2>1, <2>3, WsMoves DEF ConnHolder, WsLabels, Threads
  <2> QED
    BY <1>5, <2>1, <2>2, <2>3 DEF WsLabels
<1>7. CASE Sending("push")
  <2>1. connMutex # "push"
    BY <1>1 DEF Control, Types, Threads
  <2> QED
    BY <1>4, <1>7, <2>1 DEF Sending, SendLookup, SendNow, SendCount, Done, PushLabels
<1>8. CASE OnOpen \/ OnClose \/ HandleSubscribe \/ HandleUnsubscribe
  BY <1>5, <1>8 DEF OnOpen, OnClose, HandleSubscribe, HandleUnsubscribe, Return, Serve, WsLabels
<1>9. CASE HandlePing
  <2>1. connMutex = None /\ pc["ws"] = "ping" /\ expired' = expired
    BY <1>9 DEF HandlePing
  <2>2. CASE Goto("ws", "send") /\ connMutex' = "ws"
    BY <1>1, <2>1, <2>2, WsMoves DEF ConnHolder, WsLabels, Threads
  <2>3. CASE Goto("ws", "idle") /\ UNCHANGED connMutex
    BY <1>5, <2>1, <2>3 DEF WsLabels
  <2> QED
    BY <1>9, <2>2, <2>3 DEF HandlePing, Return, Serve
<1>10. CASE \E c \in Conns : Event(c)
  <2> PICK c \in Conns : Event(c)
    BY <1>10
  <2>1. CASE UNCHANGED <<pc, connMutex, expired>>
    BY <2>1 DEF ConnHolder
  <2>2. CASE ~UNCHANGED pc
    <3>1. pc["ws"] = "idle" /\ UNCHANGED <<connMutex, expired>>
      BY DEF Event, Open, Close, OnMessage
    <3>2. \E l \in WsLabels : Goto("ws", l)
      BY <2>2 DEF Event, Open, Close, OnMessage, Serve, WsLabels, Kinds
    <3> QED
      BY <1>5, <3>1, <3>2
  <2> QED
    BY <2>1, <2>2 DEF Event, Open, Close, OnMessage
<1>11. CASE PushLoop \/ PushStatsTimer \/ BuildStats \/ PushSummary \/ Wake("push") \/ \E s \in Slots : PushStats(s)
  BY <1>4, <1>11 DEF PushLoop, PushStatsTimer, BuildStats, PushSummary, Wake, PushStats, PushLabels
<1>12. CASE PingLoop \/ Wake("ping")
  <2>1. UNCHANGED <<connMutex, expired>> /\ pc["ping"] # "closing"
    BY <1>12 DEF PingLoop, Wake
  <2>2. \E l \in PingLabels \ {"closing"} : Goto("ping", l)
    BY <1>12 DEF PingLoop, Wake, PingLabels
  <2> QED
    BY <1>1, <2>1, <2>2, PingMoves DEF ConnHolder
<1>13. CASE PingScan
  <2>1. connMutex = None
    BY <1>13 DEF PingScan
  <2>2. CASE Goto("ping", "loop") /\ UNCHANGED connMutex
    BY <1>1, <2>1, <2>2, PingMoves DEF ConnHolder, PingLabels, Threads
  <2>3. CASE expired' # {} /\ Goto("ping", "closing") /\ connMutex' = "ping"
    BY <1>1, <2>1, <2>3, PingMoves DEF ConnHolder, PingLabels, Threads
  <2> QED
    BY <1>13, <2>2, <2>3 DEF PingScan
<1>14. CASE \E c \in Conns : PingClose(c)
  <2>1. pc["ping"] = "closing" /\ connMutex = "ping"
    BY <1>14 DEF PingClose, ConnHolder
  <2>2. CASE expired' = {} /\ Goto("ping", "loop") /\ connMutex' = None
    BY <1>1, <2>1, <2>2, PingMoves DEF ConnHolder, PingLabels, Threads
  <2>3. CASE expired' # {} /\ UNCHANGED <<pc, connMutex>>
    BY <2>1, <2>3 DEF ConnHolder
  <2> QED
    BY <1>14, <2>2, <2>3 DEF PingClose
<1>15. CASE Stop \/ StopStep
  BY <1>3, <1>15 DEF Stop, StopStep, JoinPush, JoinPing, ClearConnections, StopListening, CloseAll, StopServer, JoinWs,
                     MainLabels
<1>16. CASE (\E c \in Conns : HeartbeatLate(c)) \/ \E s \in Slots : IntervalPasses(s)
  BY <1>16 DEF HeartbeatLate, IntervalPasses, ConnHolder
<1> QED
  BY <1>2, <1>6, <1>7, <1>8, <1>9, <1>10, <1>11, <1>12, <1>13, <1>14, <1>15, <1>16 DEF Next, HandlerStep, PushStep, PingStep

\* The two circles are the only ones: in every other state a thread that holds
\* a mutex (the halves of the open and close handlers, HandlePing, PingTimer)
\* finds free the one its next step takes.
THEOREM OnlyTwoCircles == Spec => []HoldersGoOn
<1>1. Init => ConnHolder
  BY NoneIsNothing DEF Init, ConnHolder, At, Threads
<1>2. Control /\ ConnHolder => HoldersGoOn
  BY NoneIsNothing DEF Control, Holder, Types, ConnHolder, HoldersGoOn, Circle, At, Threads
<1> QED
  BY <1>1, <1>2, ControlInit, ControlStep, ConnHolderStep, PTL DEF Spec

NobodyKeeps == connMutex = None

\* The condition of Served and StopsWhenQuiet excludes both: as long as no client
\* pings and no heartbeat is late, no thread keeps connections_mutex_ beyond a
\* step, so that no step ever waits for a thread that waits itself.
THEOREM QuietIsFree == Spec /\ []Quiet => []NobodyKeeps
<1>1. Init => NobodyKeeps
  BY DEF Init, NobodyKeeps
<1>2. Quiet /\ NobodyKeeps /\ [Next]_vars => NobodyKeeps'
  <2> SUFFICES ASSUME Quiet, connMutex = None, [Next]_vars PROVE connMutex' = None
    BY DEF NobodyKeeps
  <2>1. ~HandlePing
    BY DEF Quiet, HandlePing
  <2>2. PingScan => connMutex' = None
    BY DEF Quiet, PingScan
  <2>3. Sending("ws") \/ Sending("push") => connMutex' = None
    BY DEF Sending, SendLookup, SendNow, SendCount, Done, mutexes
  <2>4. \A c \in Conns : (Event(c) => connMutex' = None) /\ (PingClose(c) => connMutex' = None)
    BY DEF Event, Open, Close, OnMessage, PingClose, mutexes
  <2>5. HandlerStep => connMutex' = None
    BY <2>1, <2>3 DEF HandlerStep, OnOpen, OnClose, HandleSubscribe, HandleUnsubscribe, mutexes
  <2>6. PushStep => connMutex' = None
    BY <2>3 DEF PushStep, PushLoop, PushStatsTimer, PushStats, BuildStats, PushSummary, Wake, mutexes
  <2>7. PingStep => connMutex' = None
    BY <2>2, <2>4 DEF PingStep, PingLoop, Wake, mutexes
  <2>8. Stop \/ StopStep => connMutex' = None
    BY DEF Stop, StopStep, JoinPush, JoinPing, ClearConnections, StopListening, CloseAll, StopServer, JoinWs, mutexes
  <2> QED
    BY <2>4, <2>5, <2>6, <2>7, <2>8 DEF Next, vars, mutexes, HeartbeatLate, IntervalPasses
<1> QED
  BY <1>1, <1>2, PTL DEF Spec
=============================================================================
