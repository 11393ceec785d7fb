------------------------------ MODULE MCFileOp ------------------------------
(***************************************************************************)
(* Small worlds for FileOp.  d1 and d4 are directories of one mount; d2 is *)
(* on their device but behind another mount (two bind mounts of a volume); *)
(* d3 is another volume.                                                   *)
(***************************************************************************)
EXTENDS FileOp

CONSTANTS c1, c2, c3

P(d, n) == <<d, n>>
Move(srcs, dir) == [srcs |-> srcs, dir |-> dir]

mcDir    == {"d1", "d2", "d3", "d4"}
mcDevice == [d \in mcDir |-> IF d = "d3" THEN 2 ELSE 1]
mcMount  == [d \in mcDir |-> CASE d = "d2" -> 2 [] d = "d3" -> 3 [] OTHER -> 1]

\* c1 and c3 agree in the three samples the hash reads.
mcDigest == [c \in Content \cup {Partial} |->
                CASE c = c2 -> "h2" [] c = Partial -> "hp" [] OTHER -> "h1"]

\* Two files of different names in one directory, both catalogued.
pairDisk  == [p \in Path |-> CASE p = P("d1", "a") -> c1 [] p = P("d1", "b") -> c2
                               [] OTHER -> NoFile]
pairRows  == <<P("d1", "a"), P("d1", "b")>>
pairMoves ==
    {Move(<<P(s, "a")>>, d) : s \in mcDir, d \in mcDir} \cup
    {Move(<<P("d1", "b")>>, "d3"), Move(<<P("d1", "a"), P("d1", "b")>>, "d3")}
outMoves  == {Move(<<P("d1", "a"), P("d1", "b")>>, d) : d \in mcDir}

\* Two files of one name and one hash in two directories; c3 is a file the
\* catalog does not know.
sameDisk  == [p \in Path |-> CASE p = P("d1", "a") -> c1 [] p = P("d2", "a") -> c3
                               [] OTHER -> NoFile]
sameRows  == <<P("d1", "a")>>
loneDisk  == [p \in Path |-> IF p = P("d1", "a") THEN c1 ELSE NoFile]
oneMoves  == {Move(<<P(s, "a")>>, d) : s \in mcDir, d \in mcDir}
bothMoves == {Move(<<P("d1", "a"), P("d2", "a")>>, "d3")}
sameMoves == oneMoves \cup bothMoves
raceMoves == {Move(<<P("d1", "a")>>, "d3"), Move(<<P("d1", "a")>>, "d4"),
              Move(<<P("d2", "a")>>, "d4")}
=============================================================================
