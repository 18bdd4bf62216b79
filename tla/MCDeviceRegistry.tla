-------------------------- MODULE MCDeviceRegistry --------------------------
(* Instances of DeviceRegistry for TLC.                                    *)
EXTENDS DeviceRegistry, TLC

CONSTANTS k1, k2, a1, a2

EachItsOwn  == [k \in Scales |-> IF k = k1 THEN a1 ELSE a2]
OneNetwork  == [k \in Scales |-> a1]

\* Bound of the run on the slots: nothing is heard, so no address is corrected by
\* the gateway; users still edit it and scales still move.
Silent == \A a \in Agents : heard[a] = {}
=============================================================================
