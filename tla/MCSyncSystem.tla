---------------------------- MODULE MCSyncSystem ----------------------------
(* An instance of SyncSystem for TLC.                                      *)
EXTENDS SyncSystem, TLC

CONSTANTS j1, d1

OneJob == j1 :> d1

\* Bounds of the run: heartbeats and discoveries touch neither channel nor map
\* entry of a command (AgentGateway explores them), and one status update is in
\* flight at a time.
Quiet ==
    /\ beating = {}
    /\ discovered = {}
    /\ Cardinality(dbWrites) <= 1
=============================================================================
