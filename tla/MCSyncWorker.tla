---------------------------- MODULE MCSyncWorker ----------------------------
(* An instance of SyncWorker for TLC.                                      *)
EXTENDS SyncWorker, TLC

CONSTANTS j1, d1

OneJob == j1 :> d1
=============================================================================
