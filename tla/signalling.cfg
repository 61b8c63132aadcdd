CONSTANTS
    Devices = {d1, d2}
    Addrs = {a1, a2}
    Requests = {r1, r2}
    MaxInputs = 3
    FirstPort = 1
    PortSpan = 2
    None = None
SPECIFICATION Spec
CHECK_DEADLOCK FALSE
INVARIANTS TypeOK InviteeListed PortsApart
PROPERTIES CalledOnce Returns AnswersAcked
