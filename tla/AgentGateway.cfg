\* Two agents, two connections, a device and a command: who may answer it, whom the gateway
\* forgets, and whether the device comes back ONLINE.
CONSTANTS
    a1 = a1
    a2 = a2
    s1 = s1
    s2 = s2
    Agents = {a1, a2}
    NoAgent = NoAgent
    Gateway = Gateway
    Sockets = {s1, s2}
    NoSocket = NoSocket
    Devices = {d1}
    Corr = {c1}
SPECIFICATION FairSpec
CONSTRAINT Led
CHECK_DEADLOCK FALSE
INVARIANTS ResultFromAddressee ResultOncePerCommand ForgottenByAClosing
PROPERTIES HeartbeatRestoresOnline
