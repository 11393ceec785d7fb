----------------------------- MODULE MCArchive -----------------------------
(***************************************************************************)
(* One set of two moved frames and one copied; and two sets of one frame   *)
(* each whose zips have one name.                                          *)
(***************************************************************************)
EXTENDS Archive

oneSet == [s \in {"s"} |-> {1, 2, 3}]
zipNames == [f \in {1, 2, 3} |-> IF f = 2 THEN "C" ELSE "L"]

twoSets == [s \in {"s", "t"} |-> IF s = "s" THEN {1} ELSE {2}]
oneName == [f \in {1, 2} |-> "L"]
=============================================================================
