\* A tab opened empty works in the store of the session, which the other tab's renewal
\* changes.
CONSTANTS
    Tabs = {t1, t2}
    Stores = {s1, s2}
    Flights = {f1, f2}
    Default = s1
    Nulo = Nulo
    MaxTokens = 2
    MaxEvents = 0
SPECIFICATION Spec
CHECK_DEADLOCK FALSE
PROPERTIES ShownStoreIsUsed
