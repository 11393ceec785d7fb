------------------------- MODULE CleanupCoordProofs -------------------------
(***************************************************************************)
(* Proofs about CleanupCoord, for any number of targets and requests and   *)
(* any faults.                                                             *)
(***************************************************************************)
EXTENDS CleanupCoord, FiniteSetTheorems, TLAPS

\* The fan-out offers the targets in order: the rows it has not come to are
\* not there, and it has delivered no more than it offered.
FanInv ==
    /\ \A t \in Target : t >= fan.next => row[t] = "none"
    /\ fan.delivered < fan.next

\* A request under way is about a row that is there.
RequestInv ==
    \A q \in Request : req[q].pc \in {"rebuild", "fill", "arm", "reset"} =>
        req[q].to \in Target /\ row[req[q].to] # "none"

\* The gate is open only while an expected report is missing.
GateInv ==
    /\ gate.known /\ ~gate.cleaned => gate.terminal < gate.expected
    /\ gate.cleaned => gate.known

\* What the gate and the payload have to do with the ends to come, as long
\* as no request was overtaken.
CountInv ==
    ~raced =>
      /\ fan.next <= N + 1 =>
           /\ ~gate.known /\ payload = "whole"
           /\ fan.delivered >= gate.terminal + Outstanding
           /\ ~leaky => fan.delivered = gate.terminal + Outstanding
      /\ gate.known /\ ~gate.cleaned =>
           /\ gate.expected >= gate.terminal + Outstanding
           /\ ~leaky => gate.expected = gate.terminal + Outstanding
      /\ gate.cleaned => Outstanding = 0
      /\ Rows("live") # {} \/ At("reset") # {} => payload = "whole"

\* The part of the invariant that does not look at the counts.
Shape == TypeOK /\ FanInv /\ RequestInv

Inv == TypeOK /\ FanInv /\ RequestInv /\ GateInv /\ CountInv

-----------------------------------------------------------------------------
\* There are finitely many targets and requests.
LEMMA FiniteParts ==
    ASSUME NEW S, S \subseteq Target \/ S \subseteq Request
    PROVE  IsFiniteSet(S) /\ Cardinality(S) \in Nat /\ (Cardinality(S) = 0 <=> S = {})
<1>1. IsFiniteSet(Target)
  BY FS_Interval, CoordAssumption DEF Target
<1>2. IsFiniteSet(S)
  BY <1>1, CoordAssumption, FS_Subset
<1> QED
  BY <1>2, FS_CardinalityType, FS_EmptySet

\* So the rows and the requests in any state can be counted.
LEMMA Finite ==
    /\ \A st : IsFiniteSet(Rows(st)) /\ Cardinality(Rows(st)) \in Nat
    /\ \A pc : IsFiniteSet(At(pc)) /\ Cardinality(At(pc)) \in Nat
<1>1. \A st : Rows(st) \subseteq Target
  BY DEF Rows
<1>2. \A pc : At(pc) \subseteq Request
  BY DEF At
<1> QED
  BY <1>1, <1>2, FiniteParts

\* A row that becomes live is one more live row.
LEMMA RowGoesLive ==
    ASSUME TypeOK, NEW t \in Target, row' = [row EXCEPT ![t] = "live"]
    PROVE  /\ Rows("live")' = Rows("live") \cup {t}
           /\ Cardinality(Rows("live")') = Cardinality(Rows("live"))
                                           + IF row[t] = "live" THEN 0 ELSE 1
<1>1. Rows("live")' = Rows("live") \cup {t}
  BY DEF TypeOK, Rows
<1>2. t \in Rows("live") <=> row[t] = "live"
  BY DEF Rows
<1>3. IsFiniteSet(Rows("live")) /\ Cardinality(Rows("live")) \in Nat
  BY Finite
<1>4. Cardinality(Rows("live") \cup {t}) =
        IF t \in Rows("live") THEN Cardinality(Rows("live")) ELSE Cardinality(Rows("live")) + 1
  BY <1>3, FS_AddElement
<1> QED
  BY <1>1, <1>2, <1>3, <1>4

\* A row that ends is one live row less.
LEMMA RowEnds ==
    ASSUME TypeOK, NEW t \in Target, row[t] = "live", row' = [row EXCEPT ![t] = "ended"]
    PROVE  /\ Rows("live")' = Rows("live") \ {t}
           /\ Cardinality(Rows("live")') = Cardinality(Rows("live")) - 1
<1>1. Rows("live")' = Rows("live") \ {t} /\ t \in Rows("live")
  BY DEF TypeOK, Rows
<1> QED
  BY <1>1, Finite, FS_RemoveElement

\* A request moves: what becomes of the requests about to reset their row.
LEMMA RequestMoves ==
    ASSUME TypeOK, NEW q \in Request, NEW pc, NEW to,
           req' = [req EXCEPT ![q] = [pc |-> pc, to |-> to]]
    PROVE  /\ pc = "reset" =>
                /\ At("reset")' = At("reset") \cup {q}
                /\ req[q].pc # "reset" =>
                     Cardinality(At("reset")') = Cardinality(At("reset")) + 1
           /\ pc # "reset" =>
                /\ At("reset")' = At("reset") \ {q}
                /\ req[q].pc = "reset" =>
                     Cardinality(At("reset")') = Cardinality(At("reset")) - 1
                /\ req[q].pc # "reset" => At("reset")' = At("reset")
<1>1. \A p \in Request : req'[p].pc = IF p = q THEN pc ELSE req[p].pc
  BY DEF TypeOK
<1>2. q \in At("reset") <=> req[q].pc = "reset"
  BY DEF At
<1>3. IsFiniteSet(At("reset")) /\ Cardinality(At("reset")) \in Nat
  BY Finite
<1>4. ASSUME pc = "reset"
      PROVE  /\ At("reset")' = At("reset") \cup {q}
             /\ req[q].pc # "reset" =>
                  Cardinality(At("reset")') = Cardinality(At("reset")) + 1
  <2>1. At("reset")' = At("reset") \cup {q}
    BY <1>1, <1>4 DEF At
  <2> QED
    BY <1>2, <1>3, <2>1, FS_AddElement
<1>5. ASSUME pc # "reset"
      PROVE  /\ At("reset")' = At("reset") \ {q}
             /\ req[q].pc = "reset" =>
                  Cardinality(At("reset")') = Cardinality(At("reset")) - 1
             /\ req[q].pc # "reset" => At("reset")' = At("reset")
  <2>1. At("reset")' = At("reset") \ {q}
    BY <1>1, <1>5 DEF At
  <2>2. req[q].pc = "reset" =>
          Cardinality(At("reset") \ {q}) = Cardinality(At("reset")) - 1
    BY <1>2, <1>3, FS_RemoveElement
  <2>3. req[q].pc # "reset" => At("reset") \ {q} = At("reset")
    BY <1>2
  <2> QED
    BY <2>1, <2>2, <2>3
<1> QED
  BY <1>4, <1>5

\* To changes the label of one request and nothing else.
LEMMA ToMoves ==
    ASSUME TypeOK, NEW q \in Request, NEW pc, To(q, pc)
    PROVE  req' = [req EXCEPT ![q] = [pc |-> pc, to |-> req[q].to]]
<1>1. req[q] = [pc |-> req[q].pc, to |-> req[q].to]
  BY DEF TypeOK
<1>2. [req[q] EXCEPT !.pc = pc] = [pc |-> pc, to |-> req[q].to]
  BY <1>1
<1> QED
  BY <1>2 DEF To

-----------------------------------------------------------------------------
\* The states of the coordinator.
Gates == [known : BOOLEAN, expected : Nat, terminal : Nat, cleaned : BOOLEAN]

\* maybe_clean closes the gate when the reports have come in, and that is all
\* it does.
LEMMA MaybeClean ==
    ASSUME NEW g \in Gates
    PROVE  LET h == maybe_clean(g) IN
           /\ h \in Gates
           /\ h.known = g.known /\ h.expected = g.expected /\ h.terminal = g.terminal
           /\ h.cleaned <=> g.cleaned \/ (g.known /\ g.terminal >= g.expected)
BY DEF maybe_clean, Gates

\* What register leaves of a gate that nobody has registered.
LEMMA RegisterGate ==
    ASSUME NEW g \in Gates, NEW n \in Nat
    PROVE  LET h == register(g, n) IN
           /\ h \in Gates /\ h.known /\ h.terminal = g.terminal
           /\ ~g.known => h.expected = n
           /\ h.cleaned <=> g.cleaned \/ h.terminal >= h.expected
<1> DEFINE a == [g EXCEPT !.known = TRUE,
                          !.expected = IF g.known /\ g.expected > n THEN @ ELSE n]
<1>1. a \in Gates
  BY DEF Gates
<1>2. a.known /\ a.terminal = g.terminal /\ a.cleaned = g.cleaned
      /\ (~g.known => a.expected = n)
  BY DEF Gates
<1>3. register(g, n) = maybe_clean(a)
  BY DEF register
<1> HIDE DEF a
<1> QED
  BY <1>1, <1>2, <1>3, MaybeClean

\* A resend expects one report more, and opens a closed gate for that one.
LEMMA RearmGate ==
    ASSUME NEW g \in Gates
    PROVE  LET h == rearm(g, 1) IN
           /\ h \in Gates /\ h.known
           /\ g.cleaned => h.expected = 1 /\ h.terminal = 0 /\ ~h.cleaned
           /\ ~g.cleaned => /\ h.expected = g.expected + 1 /\ h.terminal = g.terminal
                            /\ h.cleaned <=> h.terminal >= h.expected
<1>1. CASE g.cleaned
  BY <1>1 DEF rearm, NoGate, Gates
<1>2. CASE ~g.cleaned
  <2> DEFINE a == [g EXCEPT !.known = TRUE, !.expected = @ + 1]
  <2>1. a \in Gates
    <3>1. g.expected + 1 \in Nat
      BY DEF Gates
    <3> QED
      BY <3>1, Zenon DEF Gates
  <2>2. a.known /\ a.terminal = g.terminal /\ a.cleaned = g.cleaned
        /\ a.expected = g.expected + 1
    BY DEF Gates
  <2>3. rearm(g, 1) = maybe_clean(a)
    BY <1>2 DEF rearm
  <2> HIDE DEF a
  <2> QED
    BY <1>2, <2>1, <2>2, <2>3, MaybeClean
<1> QED
  BY <1>1, <1>2

\* A report counts once.
LEMMA TerminalGate ==
    ASSUME NEW g \in Gates
    PROVE  LET h == on_terminal(g) IN
           /\ h \in Gates /\ h.known = g.known
           /\ h.expected = g.expected /\ h.terminal = g.terminal + 1
           /\ h.cleaned <=> g.cleaned \/ (h.known /\ h.terminal >= h.expected)
<1> DEFINE a == [g EXCEPT !.terminal = @ + 1]
<1>1. a \in Gates
  BY DEF Gates
<1>2. a.known = g.known /\ a.terminal = g.terminal + 1 /\ a.cleaned = g.cleaned
      /\ a.expected = g.expected
  BY DEF Gates
<1>3. on_terminal(g) = maybe_clean(a)
  BY DEF on_terminal
<1> HIDE DEF a
<1> QED
  BY <1>1, <1>2, <1>3, MaybeClean

\* After a restart the gate expects exactly the live rows, or knows nothing.
LEMMA ReconciledGate ==
    ASSUME TypeOK
    PROVE  LET h == Reconciled IN
           /\ h \in Gates
           /\ h.known => /\ h.expected = h.terminal + Cardinality(Rows("live"))
                         /\ h.cleaned <=> Cardinality(Rows("live")) = 0
           /\ ~h.known => ~h.cleaned
<1> DEFINE n == Cardinality(Rows("ended"))
           l == Cardinality(Rows("live"))
           a == [NoGate EXCEPT !.known = TRUE, !.terminal = n, !.expected = n + l]
<1>1. n \in Nat /\ l \in Nat
  BY Finite
<1>2. CASE Rows("live") \cup Rows("ended") = {}
  BY <1>2 DEF Reconciled, NoGate, Gates
<1>3. CASE Rows("live") \cup Rows("ended") # {}
  <2>1. Reconciled = maybe_clean(a)
    BY <1>3 DEF Reconciled
  <2>2. /\ a \in Gates /\ a.known /\ ~a.cleaned
        /\ a.terminal = n /\ a.expected = n + l
    <3>1. n + l \in Nat
      BY <1>1
    <3> HIDE DEF n, l
    <3> QED
      BY <1>1, <3>1, Zenon DEF NoGate, Gates
  <2> HIDE DEF a
  <2>3. /\ Reconciled \in Gates /\ Reconciled.known
        /\ Reconciled.terminal = n /\ Reconciled.expected = n + l
        /\ Reconciled.cleaned <=> n >= n + l
    BY <2>1, <2>2, MaybeClean
  <2> QED
    BY <1>1, <2>3
<1> QED
  BY <1>2, <1>3

-----------------------------------------------------------------------------
\* A call of the coordinator with a state of its own leaves one.
LEMMA CallType ==
    ASSUME TypeOK, NEW g \in Gates, Call(g)
    PROVE  gate' \in Gates /\ payload' \in {"none", "partial", "whole"}
BY DEF TypeOK, Call

\* A fault is one of those that may happen.
LEMMA SpendType ==
    ASSUME TypeOK, NEW k, Spend(k)
    PROVE  spent' \subseteq Possible
BY DEF TypeOK, Spend

\* The labels of a request.
Labels == {"new", "rebuild", "fill", "arm", "reset", "done"}

\* A request that moves on about the same row stays about a row that is there.
LEMMA ToType ==
    ASSUME TypeOK, RequestInv, NEW q \in Request, NEW pc \in Labels, To(q, pc),
           row' = row, req[q].pc \in {"rebuild", "fill", "arm", "reset"}
    PROVE  RequestInv' /\ req' \in [Request -> [pc : Labels, to : 0 .. N]]
<1>1. req' = [req EXCEPT ![q] = [pc |-> pc, to |-> req[q].to]]
  BY ToMoves
<1>2. req[q].to \in 0 .. N
  BY DEF TypeOK
<1> QED
  BY <1>1, <1>2 DEF TypeOK, RequestInv, Labels, Target

\* No step disturbs the types, the order of the fan-out or what requests are
\* about.
LEMMA ShapeStep == Shape /\ [Next]_vars => Shape'
<1> SUFFICES ASSUME Shape, [Next]_vars
             PROVE  Shape'
  OBVIOUS
<1> USE CoordAssumption DEF Shape
<1>0. gate \in Gates
  BY DEF TypeOK, Gates
<1>1. ASSUME NEW t \in Target, Enqueue(t) PROVE Shape'
  <2>1. fan' \in [next : 1 .. N + 2, delivered : 0 .. N] /\ fan'.next = t + 1
        /\ fan'.delivered < fan'.next
    BY <1>1 DEF Enqueue, TypeOK, FanInv, Target
  <2>2. row' \in [Target -> {"none", "live", "ended"}]
        /\ \A u \in Target : u # t => row'[u] = row[u]
    BY <1>1 DEF Enqueue, TypeOK
  <2>3. row[t] = "none"
    BY <1>1 DEF Enqueue, FanInv, Target
  <2>4. spent' \subseteq Possible
    BY <1>1, SpendType DEF Enqueue, TypeOK
  <2>5. TypeOK'
    BY <1>1, <2>1, <2>2, <2>4 DEF Enqueue, TypeOK
  <2>6. FanInv'
    BY <1>1, <2>1, <2>2 DEF Enqueue, FanInv, Target
  <2>7. RequestInv'
    BY <1>1, <2>2, <2>3 DEF Enqueue, RequestInv
  <2> QED
    BY <2>5, <2>6, <2>7
<1>2. ASSUME NEW t \in Target, End(t) PROVE Shape'
  BY <1>2 DEF End, TypeOK, FanInv, RequestInv, Target
<1>3. ASSUME Report PROVE Shape'
  <2>1. gate' \in Gates /\ payload' \in {"none", "partial", "whole"}
    BY <1>0, <1>3, TerminalGate, CallType DEF Report
  <2> QED
    BY <1>3, <2>1 DEF Report, TypeOK, FanInv, RequestInv, Gates
<1>4. ASSUME LoseReport PROVE Shape'
  <2>1. spent' \subseteq Possible
    BY <1>4, SpendType DEF LoseReport
  <2> QED
    BY <1>4, <2>1 DEF LoseReport, TypeOK, FanInv, RequestInv
<1>5. ASSUME NEW q \in Request, NEW t \in Target, Look(q, t) PROVE Shape'
  BY <1>5 DEF Look, TypeOK, FanInv, RequestInv, Target
<1>6. ASSUME NEW q \in Request, Rebuild(q) PROVE Shape'
  <2>1. RequestInv' /\ req' \in [Request -> [pc : Labels, to : 0 .. N]]
    BY <1>6, ToType DEF Rebuild, Labels
  <2> QED
    BY <1>6, <2>1 DEF Rebuild, TypeOK, FanInv, Labels
<1>7. ASSUME NEW q \in Request, RebuildFails(q) PROVE Shape'
  <2>1. RequestInv' /\ req' \in [Request -> [pc : Labels, to : 0 .. N]]
    BY <1>7, ToType DEF RebuildFails, Labels
  <2>2. spent' \subseteq Possible
    BY <1>7, SpendType DEF RebuildFails
  <2> QED
    BY <1>7, <2>1, <2>2 DEF RebuildFails, TypeOK, FanInv, Labels
<1>8. ASSUME NEW q \in Request, Fill(q) PROVE Shape'
  <2>1. RequestInv' /\ req' \in [Request -> [pc : Labels, to : 0 .. N]]
    BY <1>8, ToType DEF Fill, Labels
  <2> QED
    BY <1>8, <2>1 DEF Fill, TypeOK, FanInv, Labels
<1>9. ASSUME NEW q \in Request, Arm(q) PROVE Shape'
  <2>1. RequestInv' /\ req' \in [Request -> [pc : Labels, to : 0 .. N]]
    BY <1>9, ToType DEF Arm, Labels
  <2>2. gate' \in Gates /\ payload' \in {"none", "partial", "whole"}
    BY <1>0, <1>9, RearmGate, CallType DEF Arm
  <2> QED
    BY <1>9, <2>1, <2>2 DEF Arm, TypeOK, FanInv, Labels, Gates
<1>10. ASSUME NEW q \in Request, Reset(q) PROVE Shape'
  <2>1. req' = [req EXCEPT ![q] = [pc |-> "done", to |-> req[q].to]]
    BY <1>10, ToMoves DEF Reset
  <2>2. req[q].to \in Target /\ row[req[q].to] # "none" /\ req[q].to \in 0 .. N
    BY <1>10 DEF Reset, RequestInv, TypeOK
  <2>3. req' \in [Request -> [pc : Labels, to : 0 .. N]]
    BY <2>1, <2>2 DEF TypeOK, Labels
  <2>4. spent' \subseteq Possible
    BY <1>10, SpendType DEF Reset, TypeOK
  <2>5. row' \in [Target -> {"none", "live", "ended"}]
        /\ \A u \in Target : row'[u] = "none" <=> row[u] = "none"
    BY <1>10, <2>2 DEF Reset, TypeOK
  <2>6. leaky' \in BOOLEAN
    BY <1>10 DEF Reset, TypeOK
  <2>7. RequestInv'
    BY <2>1, <2>2, <2>5 DEF RequestInv, TypeOK
  <2> QED
    BY <1>10, <2>3, <2>4, <2>5, <2>6, <2>7 DEF Reset, TypeOK, FanInv, Labels
<1>11. ASSUME Register PROVE Shape'
  <2>1. gate' \in Gates /\ payload' \in {"none", "partial", "whole"}
    <3>1. fan.delivered \in Nat
      BY DEF TypeOK
    <3> QED
      BY <1>0, <1>11, <3>1, RegisterGate, CallType DEF Register
  <2>2. /\ fan' \in [next : 1 .. N + 2, delivered : 0 .. N]
        /\ fan'.next = N + 2 /\ fan'.delivered < fan'.next
    BY <1>11 DEF Register, TypeOK, FanInv
  <2>3. FanInv'
    BY <2>2 DEF FanInv, Target
  <2>4. TypeOK'
    BY <1>11, <2>1, <2>2 DEF Register, TypeOK, Gates
  <2> QED
    BY <1>11, <2>3, <2>4 DEF Register, RequestInv
<1>12. ASSUME Restart PROVE Shape'
  <2>1. PICK g \in {Reconciled, NoGate} :
          /\ gate' = g /\ payload' = IF g.cleaned THEN "none" ELSE payload
          /\ leaky' = ~g.known
    BY <1>12 DEF Restart
  <2>2. g \in Gates
    <3>1. NoGate \in Gates
      BY Zenon DEF NoGate, Gates
    <3> QED
      BY <2>1, <3>1, ReconciledGate
  <2>3. gate' \in Gates /\ payload' \in {"none", "partial", "whole"} /\ leaky' \in BOOLEAN
    BY <2>1, <2>2 DEF TypeOK
  <2>4. /\ req' \in [Request -> [pc : Labels, to : 0 .. N]]
        /\ \A q \in Request : req'[q].pc \in {"new", "done"}
    BY <1>12 DEF Restart, TypeOK, Labels
  <2>5. spent' \subseteq Possible
    BY <1>12, SpendType DEF Restart
  <2>6. /\ fan' \in [next : 1 .. N + 2, delivered : 0 .. N]
        /\ fan'.next = N + 2 /\ fan'.delivered < fan'.next
    BY <1>12 DEF Restart, TypeOK, FanInv
  <2>7. FanInv'
    BY <2>6 DEF FanInv, Target
  <2>8. TypeOK'
    BY <1>12, <2>3, <2>4, <2>5, <2>6 DEF Restart, TypeOK, Labels, Gates
  <2> QED
    BY <2>4, <2>7, <2>8 DEF RequestInv
<1>13. CASE UNCHANGED vars
  BY <1>13 DEF vars, TypeOK, FanInv, RequestInv
<1> QED
  BY <1>1, <1>2, <1>3, <1>4, <1>5, <1>6, <1>7, <1>8, <1>9, <1>10, <1>11, <1>12, <1>13 DEF Next

\* The package starts in order.
LEMMA InitShape == Init => Shape
<1> SUFFICES ASSUME Init PROVE Shape
  OBVIOUS
<1>1. gate \in Gates
  BY Zenon DEF Init, NoGate, Gates
<1>2. fan \in [next : 1 .. N + 2, delivered : 0 .. N] /\ fan.delivered < fan.next
  BY CoordAssumption DEF Init
<1>3. req \in [Request -> [pc : Labels, to : 0 .. N]]
  BY CoordAssumption DEF Init, Labels
<1>4. TypeOK
  BY <1>1, <1>2, <1>3 DEF Init, TypeOK, Gates, Labels
<1> QED
  BY <1>2, <1>4 DEF Init, Shape, FanInv, RequestInv

\* The coordinator's state, the rows and the requests always have their types:
\* in particular no report is counted that no end is owed for.
THEOREM TypeInvariance == Spec => []TypeOK
<1>1. Shape => TypeOK
  BY DEF Shape
<1> QED
  BY <1>1, InitShape, ShapeStep, PTL DEF Spec

-----------------------------------------------------------------------------
\* No step breaks the counts.
LEMMA CountStep == Inv /\ TypeOK' /\ [Next]_vars => GateInv' /\ CountInv'
<1> SUFFICES ASSUME Inv, TypeOK', [Next]_vars
             PROVE  GateInv' /\ CountInv'
  OBVIOUS
<1> USE CoordAssumption DEF Inv
<1> DEFINE L == Cardinality(Rows("live"))
           R == Cardinality(At("reset"))
<1>0. /\ L \in Nat /\ R \in Nat /\ owed \in Nat /\ L' \in Nat /\ R' \in Nat /\ owed' \in Nat
      /\ Outstanding = L + owed + R /\ Outstanding' = L' + owed' + R'
      /\ (L = 0 <=> Rows("live") = {}) /\ (R = 0 <=> At("reset") = {})
      /\ (L' = 0 <=> Rows("live")' = {}) /\ (R' = 0 <=> At("reset")' = {})
      /\ Outstanding \in Nat /\ Outstanding' \in Nat
      /\ gate \in Gates /\ gate' \in Gates /\ fan.delivered \in Nat /\ fan.next \in Nat
      /\ gate.terminal \in Nat /\ gate.expected \in Nat
  <2>1. /\ Rows("live") \subseteq Target /\ At("reset") \subseteq Request
        /\ Rows("live")' \subseteq Target /\ At("reset")' \subseteq Request
    BY DEF Rows, At
  <2>2. /\ L \in Nat /\ R \in Nat
        /\ (L = 0 <=> Rows("live") = {}) /\ (R = 0 <=> At("reset") = {})
    BY <2>1, FiniteParts
  <2>3. /\ L' \in Nat /\ R' \in Nat
        /\ (L' = 0 <=> Rows("live")' = {}) /\ (R' = 0 <=> At("reset")' = {})
    BY <2>1, FiniteParts
  <2>4. Outstanding = L + owed + R /\ Outstanding' = L' + owed' + R'
    BY DEF Outstanding
  <2>5. owed \in Nat /\ owed' \in Nat /\ gate \in Gates /\ gate' \in Gates
        /\ fan.delivered \in Nat /\ fan.next \in Nat
    BY DEF TypeOK, Gates
  <2>6. gate.terminal \in Nat /\ gate.expected \in Nat
    BY <2>5 DEF Gates
  <2>7. Outstanding \in Nat /\ Outstanding' \in Nat
    BY <2>2, <2>3, <2>4, <2>5
  <2> QED
    BY <2>2, <2>3, <2>4, <2>5, <2>6, <2>7
<1>n. /\ Outstanding \in Nat /\ Outstanding' \in Nat
      /\ fan.delivered \in Nat /\ fan.next \in Nat
      /\ gate.terminal \in Nat /\ gate.expected \in Nat
  BY <1>0
<1>1. (row' = row => L' = L) /\ (At("reset")' = At("reset") => R' = R)
  BY DEF Rows
<1>2. ASSUME NEW g \in Gates, Call(g)
      PROVE  /\ gate' = g
             /\ g.cleaned /\ ~gate.cleaned => payload' = "none"
             /\ ~(g.cleaned /\ ~gate.cleaned) => payload' = payload
  BY <1>2 DEF Call
<1>3. ASSUME NEW q \in Request, NEW pc, To(q, pc), pc # "reset", req[q].pc # "reset"
      PROVE  R' = R
  BY <1>3, ToMoves, RequestMoves
<1> HIDE DEF L, R
<1>4. ASSUME NEW t \in Target, Enqueue(t) PROVE GateInv' /\ CountInv'
  <2>1. fan.next = t /\ t <= N /\ row[t] = "none" /\ R' = R
    BY <1>1, <1>4 DEF Enqueue, FanInv, Target, At
  <2>2. CASE row' = [row EXCEPT ![t] = "live"] /\ fan' = [next |-> t + 1, delivered |-> fan.delivered + 1]
    <3>1. L' = L + 1
      BY <1>0, <2>1, <2>2, RowGoesLive DEF L
    <3>2. Outstanding' = Outstanding + 1
      BY <1>0, <1>4, <2>1, <3>1 DEF Enqueue
    <3>3. fan'.next = t + 1 /\ fan'.delivered = fan.delivered + 1
      BY <2>2
    <3>4. GateInv'
      BY <1>4 DEF Enqueue, GateInv
    <3>5. CountInv'
      <4>1. gate' = gate /\ payload' = payload /\ raced' = raced /\ leaky' = leaky
        BY <1>4 DEF Enqueue
      <4>2. gate.terminal \in Nat /\ t \in Nat
        BY <1>0 DEF Target
      <4> QED
        <5>1. ~raced => /\ ~gate.known /\ ~gate.cleaned /\ payload = "whole"
                        /\ fan.delivered >= gate.terminal + Outstanding
                        /\ ~leaky => fan.delivered = gate.terminal + Outstanding
          BY <1>0, <2>1, <4>2 DEF CountInv, GateInv
        <5>2. ~raced => /\ fan'.delivered >= gate.terminal + Outstanding'
                        /\ ~leaky => fan'.delivered = gate.terminal + Outstanding'
          BY <1>n, <3>2, <3>3, <5>1
        <5> QED
          BY <4>1, <5>1, <5>2 DEF CountInv
    <3> QED
      BY <3>4, <3>5
  <2>3. CASE fan' = [fan EXCEPT !.next = t + 1] /\ row' = row
    <3>1. Outstanding' = Outstanding /\ fan'.next = t + 1 /\ fan'.delivered = fan.delivered
      BY <1>0, <1>1, <1>4, <2>1, <2>3 DEF Enqueue, TypeOK
    <3> QED
      BY <1>0, <1>1, <1>4, <2>1, <2>3, <3>1 DEF Enqueue, GateInv, CountInv, Target
  <2> QED
    BY <1>4, <2>2, <2>3 DEF Enqueue
<1>5. ASSUME NEW t \in Target, End(t) PROVE GateInv' /\ CountInv'
  <2>1. L' = L - 1 /\ R' = R /\ owed' = owed + 1
    BY <1>1, <1>5, RowEnds DEF End, L, At
  <2>2. Outstanding' = Outstanding
    BY <1>0, <2>1
  <2> QED
    BY <1>0, <1>5, <2>1, <2>2 DEF End, GateInv, CountInv
<1>6. ASSUME Report PROVE GateInv' /\ CountInv'
  <2> DEFINE h == on_terminal(gate)
  <2>1. /\ h \in Gates /\ h.known = gate.known
        /\ h.expected = gate.expected /\ h.terminal = gate.terminal + 1
        /\ h.cleaned <=> gate.cleaned \/ (h.known /\ h.terminal >= h.expected)
    BY <1>0, TerminalGate
  <2>2. Call(h)
    BY <1>6 DEF Report
  <2> HIDE DEF h
  <2>3. /\ gate' = h
        /\ h.cleaned /\ ~gate.cleaned => payload' = "none"
        /\ ~(h.cleaned /\ ~gate.cleaned) => payload' = payload
    BY <1>2, <2>1, <2>2
  <2>4. L' = L /\ R' = R /\ owed > 0 /\ owed' = owed - 1
    BY <1>1, <1>6 DEF Report, At
  <2>5. Outstanding' = Outstanding - 1
    BY <1>0, <2>4
  <2>6. GateInv'
    BY <1>0, <2>1, <2>3 DEF GateInv, Gates
  <2>7. CountInv'
    BY <1>0, <1>6, <2>1, <2>3, <2>4, <2>5 DEF Report, GateInv, CountInv, Gates
  <2> QED
    BY <2>6, <2>7
<1>7. ASSUME LoseReport PROVE GateInv' /\ CountInv'
  <2>1. L' = L /\ R' = R /\ owed > 0 /\ owed' = owed - 1
    BY <1>1, <1>7 DEF LoseReport, At
  <2>2. Outstanding' = Outstanding - 1
    BY <1>0, <2>1
  <2> QED
    BY <1>0, <1>7, <2>1, <2>2 DEF LoseReport, GateInv, CountInv, Gates
<1>8. ASSUME NEW q \in Request, NEW t \in Target, Look(q, t) PROVE GateInv' /\ CountInv'
  <2>1. L' = L
    BY <1>1, <1>8 DEF Look
  <2>2. R' = R
    BY <1>1, <1>8, RequestMoves DEF Look
  <2> QED
    BY <1>0, <1>8, <2>1, <2>2 DEF Look, GateInv, CountInv
<1>9. ASSUME NEW q \in Request, Rebuild(q) PROVE GateInv' /\ CountInv'
  <2>1. L' = L /\ R' = R
    BY <1>1, <1>3, <1>9 DEF Rebuild
  <2>2. ~raced' => ~raced /\ payload = "none"
    BY <1>9 DEF Rebuild
  <2> QED
    BY <1>0, <1>9, <2>1, <2>2 DEF Rebuild, GateInv, CountInv
<1>10. ASSUME NEW q \in Request, RebuildFails(q) PROVE GateInv' /\ CountInv'
  <2>1. L' = L /\ R' = R
    BY <1>1, <1>3, <1>10 DEF RebuildFails
  <2> QED
    BY <1>0, <1>10, <2>1 DEF RebuildFails, GateInv, CountInv
<1>11. ASSUME NEW q \in Request, Fill(q) PROVE GateInv' /\ CountInv'
  <2>1. L' = L /\ R' = R
    BY <1>1, <1>3, <1>11 DEF Fill
  <2> QED
    BY <1>0, <1>11, <2>1 DEF Fill, GateInv, CountInv
<1>12. ASSUME NEW q \in Request, Arm(q) PROVE GateInv' /\ CountInv'
  <2> DEFINE h == rearm(gate, 1)
  <2>1. /\ h \in Gates /\ h.known
        /\ gate.cleaned => h.expected = 1 /\ h.terminal = 0 /\ ~h.cleaned
        /\ ~gate.cleaned => /\ h.expected = gate.expected + 1 /\ h.terminal = gate.terminal
                            /\ h.cleaned <=> h.terminal >= h.expected
    BY <1>0, RearmGate
  <2>2. Call(h)
    BY <1>12 DEF Arm
  <2> HIDE DEF h
  <2>3. /\ gate' = h
        /\ h.cleaned /\ ~gate.cleaned => payload' = "none"
        /\ ~(h.cleaned /\ ~gate.cleaned) => payload' = payload
    BY <1>2, <2>1, <2>2
  <2>4. L' = L /\ R' = R + 1 /\ owed' = owed
    BY <1>1, <1>12, ToMoves, RequestMoves DEF Arm, R
  <2>5. Outstanding' = Outstanding + 1
    BY <1>0, <2>4
  <2>6. ~raced' => ~raced /\ payload = "whole" /\ gate.known
    BY <1>12 DEF Arm
  <2>7. GateInv'
    BY <1>0, <2>1, <2>3 DEF GateInv, Gates
  <2>8. CountInv'
    BY <1>0, <1>12, <2>1, <2>3, <2>4, <2>5, <2>6 DEF Arm, GateInv, CountInv, Gates
  <2> QED
    BY <2>7, <2>8
<1>13. ASSUME NEW q \in Request, Reset(q) PROVE GateInv' /\ CountInv'
  <2>1. R' = R - 1 /\ R > 0 /\ owed' = owed
    <3>1. q \in At("reset")
      BY <1>13 DEF Reset, At
    <3> QED
      BY <1>0, <1>13, <3>1, ToMoves, RequestMoves DEF Reset, R
  <2>2. CASE /\ row' = [row EXCEPT ![req[q].to] = "live"]
             /\ leaky' = (leaky \/ row[req[q].to] = "live")
    <3>1. req[q].to \in Target
      BY <1>13 DEF Reset, RequestInv
    <3>2. L' = L + IF row[req[q].to] = "live" THEN 0 ELSE 1
      BY <2>2, <3>1, RowGoesLive DEF L
    <3>3. /\ Outstanding' <= Outstanding
          /\ ~leaky' => ~leaky /\ Outstanding' = Outstanding
      <4>1. CASE row[req[q].to] = "live"
        <5>1. leaky'
          BY <2>2, <4>1, Zenon
        <5>2. L' = L
          BY <1>0, <3>2, <4>1
        <5> QED
          BY <1>0, <2>1, <5>1, <5>2
      <4>2. CASE row[req[q].to] # "live"
        <5>1. L' = L + 1
          BY <1>0, <3>2, <4>2
        <5>2. ~leaky' => ~leaky
          BY <2>2
        <5> QED
          BY <1>0, <2>1, <5>1, <5>2
      <4> QED
        BY <4>1, <4>2
    <3>4. GateInv'
      BY <1>13 DEF Reset, GateInv
    <3>5. CountInv'
      <4>1. gate' = gate /\ payload' = payload /\ raced' = raced /\ fan' = fan
        BY <1>13 DEF Reset
      <4>2. ~raced => payload = "whole" /\ ~gate.cleaned
        BY <1>0, <2>1 DEF CountInv
      <4>3. ~raced => /\ fan.next <= N + 1 =>
                           /\ ~gate.known
                           /\ fan.delivered >= gate.terminal + Outstanding'
                           /\ ~leaky' => fan.delivered = gate.terminal + Outstanding'
                      /\ gate.known =>
                           /\ gate.expected >= gate.terminal + Outstanding'
                           /\ ~leaky' => gate.expected = gate.terminal + Outstanding'
        BY <1>n, <3>3, <4>2 DEF CountInv
      <4> QED
        BY <4>1, <4>2, <4>3 DEF CountInv
    <3> QED
      BY <3>4, <3>5
  <2>3. CASE leaky' = TRUE /\ row' = row
    <3>1. L' = L
      BY <1>1, <2>3
    <3>2. Outstanding' <= Outstanding
      BY <1>0, <2>1, <3>1
    <3> QED
      BY <1>0, <1>13, <2>1, <2>3, <3>1, <3>2 DEF Reset, GateInv, CountInv, Gates
  <2> QED
    BY <1>13, <2>2, <2>3 DEF Reset
<1>14. ASSUME Register PROVE GateInv' /\ CountInv'
  <2> DEFINE h == register(gate, fan.delivered)
  <2>1. /\ h \in Gates /\ h.known /\ h.terminal = gate.terminal
        /\ ~gate.known => h.expected = fan.delivered
        /\ h.cleaned <=> gate.cleaned \/ h.terminal >= h.expected
    BY <1>0, RegisterGate
  <2>2. Call(h)
    BY <1>14 DEF Register
  <2> HIDE DEF h
  <2>3. /\ gate' = h
        /\ h.cleaned /\ ~gate.cleaned => payload' = "none"
        /\ ~(h.cleaned /\ ~gate.cleaned) => payload' = payload
    BY <1>2, <2>1, <2>2
  <2>4. L' = L /\ R' = R /\ owed' = owed
    BY <1>1, <1>14 DEF Register, At
  <2>5. fan.next = N + 1 /\ fan'.next = N + 2
    BY <1>14 DEF Register, TypeOK
  <2>6. GateInv'
    BY <1>0, <2>1, <2>3 DEF GateInv, Gates
  <2>7. CountInv'
    <3>1. raced' = raced /\ leaky' = leaky
      BY <1>14 DEF Register
    <3>2. h.terminal \in Nat /\ h.expected \in Nat /\ Outstanding \in Nat /\ Outstanding' = Outstanding
      BY <1>0, <2>1, <2>4 DEF Gates
    <3>3. ~raced => /\ ~gate.known /\ ~gate.cleaned
                    /\ h.expected >= h.terminal + Outstanding
                    /\ ~leaky => h.expected = h.terminal + Outstanding
                    /\ payload = "whole"
      BY <2>1, <2>5 DEF CountInv, GateInv
    <3> QED
      BY <1>0, <2>1, <2>3, <2>4, <2>5, <3>1, <3>2, <3>3 DEF CountInv
  <2> QED
    BY <2>6, <2>7
<1>15. ASSUME Restart PROVE GateInv' /\ CountInv'
  <2>1. PICK g \in {Reconciled, NoGate} :
          /\ gate' = g /\ payload' = IF g.cleaned THEN "none" ELSE payload
          /\ leaky' = ~g.known
    BY <1>15 DEF Restart
  <2>2. /\ g.known => /\ g.expected = g.terminal + L
                      /\ g.cleaned <=> L = 0
        /\ ~g.known => ~g.cleaned
    BY <2>1, ReconciledGate DEF NoGate, L
  <2>3. L' = L /\ R' = 0 /\ owed' = 0 /\ fan'.next = N + 2
    <3>1. \A q \in Request : req'[q].pc # "reset"
      BY <1>15 DEF Restart, TypeOK
    <3>2. At("reset")' = {}
      BY <3>1 DEF At
    <3>3. R' = 0
      BY <1>0, <3>2
    <3> QED
      BY <1>1, <1>15, <3>3 DEF Restart, TypeOK
  <2>4. GateInv'
    BY <1>0, <2>1, <2>2 DEF GateInv, Gates
  <2>5. CountInv'
    BY <1>0, <1>15, <2>1, <2>2, <2>3 DEF Restart, CountInv, Gates
  <2> QED
    BY <2>4, <2>5
<1>16. CASE UNCHANGED vars
  BY <1>16 DEF vars, GateInv, CountInv, Outstanding, Rows, At
<1> QED
  BY <1>4, <1>5, <1>6, <1>7, <1>8, <1>9, <1>10, <1>11, <1>12, <1>13, <1>14, <1>15, <1>16
  DEF Next

\* The invariant of the coordinator and of everybody who calls it.
LEMMA Invariance == Spec => []Inv
<1>1. Init => Inv
  <2> SUFFICES ASSUME Init PROVE Inv
    OBVIOUS
  <2>1. Shape
    BY InitShape
  <2>2. Rows("live") = {} /\ At("reset") = {} /\ owed = 0
    BY DEF Init, Rows, At
  <2>3. Outstanding = 0
    BY <2>2, FS_EmptySet DEF Outstanding
  <2> QED
    BY <2>1, <2>2, <2>3 DEF Inv, Shape, GateInv, CountInv, Init, NoGate
<1>2. Inv /\ [Next]_vars => Inv'
  <2>1. Inv <=> Shape /\ GateInv /\ CountInv
    BY DEF Inv, Shape
  <2>2. Inv' <=> Shape' /\ GateInv' /\ CountInv'
    BY DEF Inv, Shape
  <2>3. Shape' => TypeOK'
    BY DEF Shape
  <2> QED
    BY <2>1, <2>2, <2>3, ShapeStep, CountStep
<1> QED
  BY <1>1, <1>2, PTL DEF Spec

\* While the gate waits, and nothing was overtaken or lost, it is short of
\* exactly the ends still to come: so it closes with the last of them, and
\* not before.
THEOREM ReportsAreAccounted == Spec => []Accounted
<1>1. Inv => Accounted
  BY DEF Inv, CountInv, Accounted
<1> QED
  BY <1>1, Invariance, PTL

\* No live row ever loses the payload it is served from, but to a request
\* that was overtaken, whatever else fails or is killed.
THEOREM PayloadIsKept == Spec => []PayloadKept
<1>1. Inv => PayloadKept
  BY DEF Inv, CountInv, PayloadKept
<1> QED
  BY <1>1, Invariance, PTL
=============================================================================
