\* One row that may change between two agents, whose networks use the same addresses.
CONSTANTS
    k1 = k1
    k2 = k2
    a1 = a1
    a2 = a2
    Devices = {d1}
    Agents = {a1, a2}
    NoAgent = NoAgent
    Scales = {k1, k2}
    LanOf <- EachItsOwn
    Addresses = {i1, i2}
    LabelSlots = {1, 2}
    MaxSightings = 0
    MaxReports = 1
SPECIFICATION RegistrySpec
CONSTRAINT Silent
CHECK_DEADLOCK FALSE
INVARIANTS SlotsFromOwnAgents
PROPERTIES SlotsLostToOvertaken
