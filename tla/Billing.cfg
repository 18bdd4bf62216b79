\* Four calls of any kind in any order, two bills that go through their life, one fault.
CONSTANTS
    Calls = {c1, c2, c3, c4}
    Bills = {b1, b2}
    Nulo = Nulo
    MaxFaults = 1
SPECIFICATION Spec
SYMMETRY BillingSymmetry
CONSTRAINT Apart
CHECK_DEADLOCK FALSE
INVARIANTS ChargedIsKnown FaturasAreTrue BlockedForAReason UnblockedByAnotherBill
