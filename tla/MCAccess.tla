------------------------------ MODULE MCAccess ------------------------------
\* One account and one profile, on a small instance.
EXTENDS Access, TLC

AccessSymmetry == Permutations(Acts) \cup Permutations(Lojas)
=============================================================================
