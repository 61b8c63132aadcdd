------------------------------ MODULE CallSetup ------------------------------
(* What the two servers together promise about GB28181 streams: a device     *)
(* streams to the one port that was opened for it, and is called for it at   *)
(* most once, by whoever opened the port.                                    *)
EXTENDS Naturals

CONSTANTS Devices,      \* the cameras
          Callers,      \* the requests that may call them
          None

VARIABLES port,         \* the port that listens for each device, or None
          calls         \* <<caller, device, port>> of every INVITE sent

vars == <<port, calls>>

Init == port = [d \in Devices |-> None] /\ calls = {}

\* A port is opened for a device that has none.
Open(d) ==
    /\ port[d] = None
    /\ port'[d] \in Nat
    /\ port' = [port EXCEPT ![d] = port'[d]]
    /\ UNCHANGED calls

\* A device that has a port and was not called yet is told that port.
Call(c, d) ==
    /\ port[d] # None
    /\ \A e \in calls : e[2] # d
    /\ calls' = calls \union {<<c, d, port[d]>>}
    /\ UNCHANGED port

Next == \E d \in Devices : Open(d) \/ \E c \in Callers : Call(c, d)

Spec == Init /\ [][Next]_vars
=============================================================================
