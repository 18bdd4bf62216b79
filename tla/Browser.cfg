\* Two tabs, two stores, two requests at a time, two tokens.
CONSTANTS
    Tabs = {t1, t2}
    Stores = {s1, s2}
    Flights = {f1, f2}
    Default = s1
    Nulo = Nulo
    MaxTokens = 2
    MaxEvents = 1
SPECIFICATION Spec
SYMMETRY BrowserSymmetry
CONSTRAINT Pursued
CHECK_DEADLOCK FALSE
INVARIANTS WarningMeansSomebodyElse
PROPERTIES OwnStoreIsUsed ThrownOutForAReason
