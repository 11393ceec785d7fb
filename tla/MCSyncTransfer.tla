--------------------------- MODULE MCSyncTransfer ---------------------------
(* SyncTransfer for TLC; SyncTransfer.cfg gives the constants. *)
EXTENDS SyncTransfer
=============================================================================
