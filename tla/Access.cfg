\* Five requests of any kind in any order; two wrong passwords lock the account.
CONSTANTS
    Acts = {a1, a2, a3, a4, a5}
    Lojas = {l1, l2}
    MaxTentativas = 2
SPECIFICATION AccessSpec
SYMMETRY AccessSymmetry
CHECK_DEADLOCK FALSE
INVARIANTS CountedInTurn ProfileWhole
PROPERTIES LockStands
