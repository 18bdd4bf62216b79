\* One job, whose agent may reconnect once and whose result may be lost once.
CONSTANTS
    j1 = j1
    d1 = d1
    Jobs = {j1}
    Devices = {d1}
    DeviceOf <- OneJob
    Agents = {a1}
    NoAgent = NoAgent
    MaxAttempts = 1
    MaxStalls = 0
    Concurrency = 1
    FaultKinds = {"bus"}
    MaxFaults = 1
    Gateway = Gateway
    Sockets = {s1, s2}
    NoSocket = NoSocket
SPECIFICATION Spec
CONSTRAINT Quiet
CHECK_DEADLOCK FALSE
PROPERTIES WorkerRefined GatewayRefined PromiseKept
