\* One job with two attempts and one stall, one fault of any kind.
CONSTANTS
    j1 = j1
    d1 = d1
    Jobs = {j1}
    Devices = {d1}
    DeviceOf <- OneJob
    Agents = {a1}
    NoAgent = NoAgent
    MaxAttempts = 2
    MaxStalls = 1
    Concurrency = 5
    FaultKinds = {"crash", "database", "publish", "lock", "bus"}
    MaxFaults = 1
SPECIFICATION FairSpec
CHECK_DEADLOCK FALSE
INVARIANTS CompletedHasSuccess RunsAccounted OverlapNeedsStall
PROPERTIES Promised JobSettles RowSettles
