--------------------------- MODULE MCCleanupCoord ---------------------------
(***************************************************************************)
(* A fan-out to a few targets, and requests as model values.               *)
(***************************************************************************)
EXTENDS CleanupCoord
=============================================================================
