------------------------------ MODULE MCBilling ------------------------------
\* The subscription of a tenant, on a small instance.
EXTENDS Billing, FiniteSets, TLC

BillingSymmetry == Permutations(Calls) \cup Permutations(Bills)

\* Nothing is asked of a state once calls have overlapped, and they stay overlapped; and
\* two bills come to something.
Apart == ~raced /\ Cardinality({b \in Bill : bill[b] # "none"}) <= 2
=============================================================================
