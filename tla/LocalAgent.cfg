\* Two commands for one scale, with formats in a free and in a factory slot, and a third
\* one for an address outside the local network.
CONSTANTS
    c1 = c1
    c2 = c2
    c3 = c3
    c4 = c4
    ip1 = ip1
    ip9 = ip9
    Commands = {c1, c2, c4}
    Ips = {ip1}
    ForeignIps = {ip9}
    IpOf <- Addresses
    Slots = {1, 2}
    FormatsOf <- Formats
    Names = {"model", "label"}
    NameOf <- NamedSlot
    FactorySlots <- Factories
    Factory = Factory
    Empty = Empty
    Report = Report
    Ramuza = Ramuza
    Nobody = Nobody
SPECIFICATION FairSpec
CHECK_DEADLOCK FALSE
INVARIANTS OkIsStored MarkTells
PROPERTIES CommandAnswered
