---------------------------- MODULE CleanupCoord ----------------------------
(***************************************************************************)
(* One package directory that Perseus sends to several targets             *)
(* (crates/athenaeum-core/src/sync/cleanup_coord.rs; its callers in        *)
(* crates/perseus/src/run.rs and resend.rs; the reports of                 *)
(* crates/athenaeum-core/src/sync/engine.rs).                              *)
(*                                                                         *)
(* Every target has an engine and an outbound row of its own, but the      *)
(* payload is on disk once.  The coordinator counts how many ends it       *)
(* expects and how many were reported, and removes the payload when the    *)
(* counts meet.  The fan-out, the engines and the web requests that resend *)
(* a row are concurrent; only the calls of the coordinator exclude each    *)
(* other.                                                                  *)
(***************************************************************************)
EXTENDS Naturals, FiniteSets

CONSTANTS
    N,          \* the number of targets, which are 1 .. N
    Request,    \* the web requests to resend a row, each made at most once
    Possible,   \* the faults that may happen, each once
    MaxEvents   \* how many of them may happen in one behaviour

Kind == {"refuse", "lose", "noRebuild", "noReset", "restart"}

ASSUME CoordAssumption ==
    N \in Nat /\ IsFiniteSet(Request) /\ Possible \subseteq Kind /\ MaxEvents \in Nat

VARIABLES
    row,        \* the outbound row of each target: none, live or ended
    owed,       \* how many ends the engines have still to report
    gate,       \* the coordinator's PackageState
    payload,    \* the copies in the directory: none, partial or whole
    fan,        \* where enqueue_package_to_all is, and how many it delivered
    req,        \* where each request is in resend_in_place, and for which target
    raced,      \* history: a request was overtaken (see PayloadKept)
    leaky,      \* history: since the last restart an expected report was lost
    spent       \* the faults that have happened

vars == <<row, owed, gate, payload, fan, req, raced, leaky, spent>>

-----------------------------------------------------------------------------
Target == 1 .. N
Rows(s) == {t \in Target : row[t] = s}
At(pc) == {q \in Request : req[q].pc = pc}

\* `expected` is 0 while it is not known.
NoGate == [known |-> FALSE, expected |-> 0, terminal |-> 0, cleaned |-> FALSE]

Init ==
    /\ row = [t \in Target |-> "none"] /\ owed = 0
    /\ gate = NoGate /\ payload = "whole"
    /\ fan = [next |-> 1, delivered |-> 0]
    /\ req = [q \in Request |-> [pc |-> "new", to |-> 0]]
    /\ raced = FALSE /\ leaky = FALSE /\ spent = {}

Spend(k) ==
    /\ k \in Possible \ spent /\ Cardinality(spent) < MaxEvents
    /\ spent' = spent \cup {k}

-----------------------------------------------------------------------------
(***************************************************************************)
(* The methods of the coordinator, as functions of its state.              *)
(***************************************************************************)
maybe_clean(g) ==
    IF ~g.cleaned /\ g.known /\ g.terminal >= g.expected
      THEN [g EXCEPT !.cleaned = TRUE] ELSE g

register(g, n) ==
    maybe_clean([g EXCEPT !.known = TRUE,
                          !.expected = IF g.known /\ g.expected > n THEN @ ELSE n])

\* Mutant: a resend tells the coordinator nothing.
rearm_Skip(g, d) == g

\* Mutant: bump, which does nothing after the cleanup.
rearm_Bump(g, d) ==
    IF g.cleaned THEN g
    ELSE maybe_clean([g EXCEPT !.known = TRUE, !.expected = @ + d])

rearm(g, d) ==
    IF g.cleaned THEN [NoGate EXCEPT !.known = TRUE, !.expected = d]
    ELSE maybe_clean([g EXCEPT !.known = TRUE, !.expected = @ + d])

on_terminal(g) == maybe_clean([g EXCEPT !.terminal = @ + 1])

\* A call leaves the gate g; the payload goes when the gate closes.
Call(g) ==
    /\ gate' = g
    /\ payload' = IF g.cleaned /\ ~gate.cleaned THEN "none" ELSE payload

-----------------------------------------------------------------------------
(***************************************************************************)
(* The fan-out: the package is offered to one engine after the other, then *)
(* the number of engines that took it is registered.                       *)
(***************************************************************************)
Enqueue(t) ==
    /\ fan.next = t
    /\ \/ /\ row' = [row EXCEPT ![t] = "live"]
          /\ fan' = [next |-> t + 1, delivered |-> fan.delivered + 1]
          /\ UNCHANGED spent
       \/ Spend("refuse") /\ fan' = [fan EXCEPT !.next = t + 1] /\ UNCHANGED row
    /\ UNCHANGED <<owed, gate, payload, req, raced, leaky>>

Register ==
    /\ fan.next = N + 1
    /\ Call(register(gate, fan.delivered))
    /\ fan' = [fan EXCEPT !.next = N + 2]
    /\ UNCHANGED <<row, owed, req, raced, leaky, spent>>

(***************************************************************************)
(* An engine: its row becomes confirmed, failed or cancelled, and later    *)
(* this is reported, for a confirmed row by a detached task.  A report     *)
(* names the package, not the target, so the ends under way are a number.  *)
(***************************************************************************)
End(t) ==
    /\ row[t] = "live"
    /\ row' = [row EXCEPT ![t] = "ended"]
    /\ owed' = owed + 1
    /\ UNCHANGED <<gate, payload, fan, req, raced, leaky, spent>>

\* Mutant: the report is repeated while the row is ended.
Report_Again ==
    /\ Rows("ended") # {}
    /\ owed' = owed - 1
    /\ Call(on_terminal(gate))
    /\ UNCHANGED <<row, fan, req, raced, leaky, spent>>

Report ==
    /\ owed > 0
    /\ owed' = owed - 1
    /\ Call(on_terminal(gate))
    /\ UNCHANGED <<row, fan, req, raced, leaky, spent>>

\* The blobs could not be protected, or the history not written: no report.
LoseReport ==
    /\ owed > 0 /\ Spend("lose")
    /\ owed' = owed - 1
    /\ leaky' = TRUE
    /\ UNCHANGED <<row, gate, payload, fan, req, raced>>

(***************************************************************************)
(* resend_in_place: look whether the payload is there, else rebuild it;    *)
(* arm the gate; reset the row.  A partial payload passes for one, and the *)
(* copies of a rebuild do not ask what happened since the look.            *)
(***************************************************************************)
To(q, pc) == req' = [req EXCEPT ![q].pc = pc]

Look(q, t) ==
    /\ req[q].pc = "new" /\ row[t] = "ended"
    /\ req' = [req EXCEPT ![q] =
                  [pc |-> IF payload = "none" THEN "rebuild" ELSE "arm", to |-> t]]
    /\ UNCHANGED <<row, owed, gate, payload, fan, raced, leaky, spent>>

Rebuild(q) ==
    /\ req[q].pc = "rebuild"
    /\ payload' = "partial" /\ To(q, "fill")
    /\ raced' = (raced \/ payload # "none")
    /\ UNCHANGED <<row, owed, gate, fan, leaky, spent>>

\* Nothing can be restored, or a copy fails half-way and is left there.
RebuildFails(q) ==
    /\ req[q].pc \in {"rebuild", "fill"} /\ Spend("noRebuild")
    /\ To(q, "done")
    /\ leaky' = (leaky \/ req[q].pc = "fill")
    /\ UNCHANGED <<row, owed, gate, payload, fan, raced>>

Fill(q) ==
    /\ req[q].pc = "fill"
    /\ payload' = IF payload = "none" THEN "partial" ELSE "whole"
    /\ To(q, "arm")
    /\ UNCHANGED <<row, owed, gate, fan, raced, leaky, spent>>

Arm(q) ==
    /\ req[q].pc = "arm"
    /\ Call(rearm(gate, 1)) /\ To(q, "reset")
    /\ raced' = (raced \/ payload # "whole" \/ ~gate.known)
    /\ UNCHANGED <<row, owed, fan, leaky, spent>>

\* A row that another request made live meanwhile ends once, not twice.
Reset(q) ==
    /\ req[q].pc = "reset"
    /\ To(q, "done")
    /\ \/ row' = [row EXCEPT ![req[q].to] = "live"] /\ UNCHANGED spent
          /\ leaky' = (leaky \/ row[req[q].to] = "live")
       \/ Spend("noReset") /\ leaky' = TRUE /\ UNCHANGED row
    /\ UNCHANGED <<owed, gate, payload, fan, raced>>

-----------------------------------------------------------------------------
\* Mutant: only the rows that still have to end are expected.
Reconciled_Live ==
    LET n == Cardinality(Rows("ended")) IN
    IF Rows("live") \cup Rows("ended") = {} THEN NoGate
    ELSE maybe_clean([NoGate EXCEPT !.known = TRUE, !.terminal = n,
                                    !.expected = Cardinality(Rows("live"))])

\* reconcile_shared_cleanup: every row is expected, every ended one reported.
Reconciled ==
    LET n == Cardinality(Rows("ended")) IN
    IF Rows("live") \cup Rows("ended") = {} THEN NoGate
    ELSE maybe_clean([NoGate EXCEPT !.known = TRUE, !.terminal = n,
                                    !.expected = n + Cardinality(Rows("live"))])

\* The process is killed and started again; the rows may be unreadable then.
Restart ==
    /\ Spend("restart")
    /\ \E g \in {Reconciled, NoGate} :
         /\ gate' = g /\ payload' = IF g.cleaned THEN "none" ELSE payload
         /\ leaky' = ~g.known
    /\ owed' = 0
    /\ fan' = [fan EXCEPT !.next = N + 2]
    /\ req' = [q \in Request |->
                  IF req[q].pc = "new" THEN req[q] ELSE [req[q] EXCEPT !.pc = "done"]]
    /\ UNCHANGED <<row, raced>>

Next ==
    \/ \E t \in Target : Enqueue(t) \/ End(t)
    \/ Report \/ LoseReport
    \/ \E q \in Request : \/ \E t \in Target : Look(q, t)
                          \/ Rebuild(q) \/ RebuildFails(q) \/ Fill(q) \/ Arm(q) \/ Reset(q)
    \/ Register \/ Restart

\* What has begun goes on; nobody has to answer, and nobody to ask.
Fairness ==
    /\ \A t \in Target : WF_vars(Enqueue(t))
    /\ WF_vars(Report)
    /\ \A q \in Request : WF_vars(Rebuild(q) \/ Fill(q) \/ Arm(q) \/ Reset(q))
    /\ WF_vars(Register)

Spec == Init /\ [][Next]_vars /\ Fairness

-----------------------------------------------------------------------------
TypeOK ==
    /\ row \in [Target -> {"none", "live", "ended"}]
    /\ owed \in Nat
    /\ gate \in [known : BOOLEAN, expected : Nat, terminal : Nat, cleaned : BOOLEAN]
    /\ payload \in {"none", "partial", "whole"}
    /\ fan \in [next : 1 .. N + 2, delivered : 0 .. N]
    /\ req \in [Request -> [pc : {"new", "rebuild", "fill", "arm", "reset", "done"},
                            to : 0 .. N]]
    /\ raced \in BOOLEAN /\ leaky \in BOOLEAN /\ spent \subseteq Possible

Outstanding ==
    Cardinality(Rows("live")) + owed + Cardinality(At("reset"))

\* The gate is short of exactly the ends that are still to be reported: those
\* of the live rows, of the rows about to be live again, and the ones under way.
Accounted ==
    gate.known /\ ~gate.cleaned /\ ~raced /\ ~leaky =>
        gate.expected = gate.terminal + Outstanding

\* The payload is whole on disk as long as a row is live that is served from
\* it, unless a resend armed the gate after the payload it had seen was gone
\* or before anybody had registered the fan-out, or two rebuilt it at once.
PayloadKept == Rows("live") # {} /\ ~raced => payload = "whole"

\* Once every row has ended for good the payload does not stay on disk.
Freed ==
    <>[](/\ fan.next = N + 2 /\ Rows("live") = {}
         /\ \A q \in Request : req[q].pc \in {"new", "done"}
         /\ ~raced /\ ~leaky)
        => <>[](payload = "none")
=============================================================================
