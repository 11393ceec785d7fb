--------------------------- MODULE MCCollabReceive --------------------------
(***************************************************************************)
(* Instances of CollabReceive.                                             *)
(***************************************************************************)
EXTENDS CollabReceive

CONSTANTS v1, v2, d1, d2

\* Two frames, each held by a device of its own.
eachItsOwn == [f \in 1 .. N |-> IF f = 1 THEN {d1} ELSE {d2}]
oneDevice == [f \in 1 .. N |-> {d1}]

everything == Kind
=============================================================================
