\* Four requests of one account in any order, one failing call to Redis, one token that
\* lapses or expires.
CONSTANTS
    Requests = {r1, r2, r3, r4}
    NoToken = NoToken
    MaxFaults = 1
    MaxAged = 1
SPECIFICATION Spec
SYMMETRY SessionSymmetry
CHECK_DEADLOCK FALSE
INVARIANTS RevokedStaysOut SerialSingleSession InactivityHasReason SomeoneIsIn ReplacedOrRenewed
