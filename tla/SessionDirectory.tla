-------------------------- MODULE SessionDirectory --------------------------
(***************************************************************************)
(* What the media service promises about sessions, without threads, timers *)
(* or packets.  A name has at most one current session.  A session has at  *)
(* most one publisher.  A viewer joins the current session of a name once, *)
(* and leaves once.  Closing a session frees its name for a new session    *)
(* and nobody ever joins the old one.                                      *)
(***************************************************************************)
EXTENDS Integers

CONSTANTS Names, Publishers, Viewers, MaxSessions, None

VARIABLES
  current,  \* the current session of a name, or 0
  opened,   \* how many sessions there have been
  slot,     \* the publisher of a session
  members,  \* the viewers of a session
  past,     \* publishers and viewers that will not come (again)
  up        \* is the service running?

dirVars == <<current, opened, slot, members, past, up>>

Sessions == 1 .. MaxSessions

DirInit ==
  /\ current = [n \in Names |-> 0]
  /\ opened = 0
  /\ slot = [s \in Sessions |-> None]
  /\ members = [s \in Sessions |-> {}]
  /\ past = {}
  /\ up = TRUE

\* Look a name up, opening a session for it when it has none.
Lookup(n) ==
  IF current[n] # 0
    THEN UNCHANGED <<current, opened>>
    ELSE /\ opened < MaxSessions
         /\ opened' = opened + 1
         /\ current' = [current EXCEPT ![n] = opened + 1]

\* A publisher takes the slot of the current session, if need be from another.
Publish(n, p) ==
  /\ p \notin past
  /\ Lookup(n)
  /\ slot' = [slot EXCEPT ![current'[n]] = p]
  /\ past' = past \cup {p}
  /\ UNCHANGED <<members, up>>

Join(n, w) ==
  /\ w \notin past
  /\ Lookup(n)
  /\ members' = [members EXCEPT ![current'[n]] = @ \cup {w}]
  /\ past' = past \cup {w}
  /\ UNCHANGED <<slot, up>>

Open(n) ==
  /\ current[n] = 0
  /\ Lookup(n)
  /\ UNCHANGED <<slot, members, past, up>>

Unpublish(s) ==
  /\ slot' = [slot EXCEPT ![s] = None]
  /\ UNCHANGED <<current, opened, members, past, up>>

Leave(s, w) ==
  /\ w \in members[s]
  /\ members' = [members EXCEPT ![s] = @ \ {w}]
  /\ up' \in {up, FALSE}
  /\ UNCHANGED <<current, opened, slot, past>>

\* Closing empties the session, or fails when there are viewers in it.
Close(n) ==
  /\ current[n] # 0
  /\ current' = [current EXCEPT ![n] = 0]
  /\ slot' = [slot EXCEPT ![current[n]] = None]
  /\ \/ members' = [members EXCEPT ![current[n]] = {}] /\ UNCHANGED up
     \/ members[current[n]] # {} /\ up' = FALSE /\ UNCHANGED members
  /\ UNCHANGED <<opened, past>>

Fail ==
  /\ up' = FALSE
  /\ UNCHANGED <<current, opened, slot, members, past>>

DirNext ==
  /\ up
  /\ \/ \E n \in Names : \/ \E p \in Publishers : Publish(n, p)
                         \/ \E w \in Viewers : Join(n, w)
                         \/ Open(n)
                         \/ Close(n)
     \/ \E s \in Sessions : Unpublish(s) \/ \E w \in Viewers : Leave(s, w)
     \/ Fail

DirSpec == DirInit /\ [][DirNext]_dirVars

=============================================================================
