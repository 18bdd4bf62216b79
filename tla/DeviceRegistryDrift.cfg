\* One scale that moves among two addresses, and a second row that comes and goes.
CONSTANTS
    k1 = k1
    k2 = k2
    a1 = a1
    a2 = a2
    Devices = {d1, d2}
    Agents = {a1}
    NoAgent = NoAgent
    Scales = {k1}
    LanOf <- OneNetwork
    Addresses = {i1, i2}
    LabelSlots = {}
    MaxSightings = 1
    MaxReports = 0
SPECIFICATION FairRegistrySpec
CHECK_DEADLOCK FALSE
PROPERTIES DriftRepaired
