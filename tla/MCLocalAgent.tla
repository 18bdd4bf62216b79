---------------------------- MODULE MCLocalAgent ----------------------------
(* Instances of LocalAgent for TLC: commands for one scale, whose slot 1   *)
(* holds a factory model, with formats for both slots, for the free one    *)
(* and for none; and one for an address outside the local network. The     *)
(* first two carry versions of one format, of one name.                    *)
EXTENDS LocalAgent, TLC

CONSTANTS c1, c2, c3, c4, ip1, ip9

Addresses == [c \in Commands |-> IF c = c4 THEN ip9 ELSE ip1]
Formats   == [c \in Commands |-> IF c = c1 THEN {1, 2} ELSE IF c = c2 THEN {2} ELSE {}]
NamedSlot == [c \in Commands |-> [n \in Slots |-> IF n = 1 THEN "model" ELSE "label"]]
Factories == ip1 :> {1}
=============================================================================
