----------------------------- MODULE SendQueue ------------------------------
(***************************************************************************)
(* When the send engine tries which package (crates/athenaeum-core/src/    *)
(* sync/engine.rs, the Worker of one peer).  What an attempt says to the   *)
(* peer, and what the peer does with it, is the subject of SyncTransfer.   *)
(*                                                                         *)
(* The worker is one task.  It sleeps until the earliest deadline, then    *)
(* works through the packages that were due at that moment, one attempt    *)
(* after the other; between such passes it takes one event or command.     *)
(* While the peer looks absent only one package, the head, has a deadline: *)
(* the others are parked for IDLE_SLEEP, an hour, and count on the head to *)
(* find the peer again.  Here that hour never ends, so that nothing may    *)
(* rely on it.                                                             *)
(***************************************************************************)
EXTENDS Naturals, FiniteSets, FiniteSetsExt

CONSTANTS
    N,          \* the number of packages; the ids of their rows are 1 .. N
    MaxRung,    \* the rung at which the backoff stops climbing
    Possible,   \* the faults and commands that may happen, each once
    MaxEvents   \* how many of them may happen in one behaviour

Kind == {"refuse", "defer", "vanish", "duplicate", "reject", "lose",
         "cancel", "resend", "kick", "kickAll", "beacon", "restart"}

ASSUME QueueAssumption == N \in Nat /\ MaxRung \in Nat \ {0}
ASSUME EventAssumption == Possible \subseteq Kind /\ MaxEvents \in Nat

VARIABLES
    q,          \* the worker's own state: pending slots and PeerReachability
    pass,       \* the due packages handle_timeouts has still to look at
    queued,     \* rows to be driven that have no slot yet
    closed,     \* rows that failed or were cancelled
    heard,      \* packages of which the peer holds an announce it will answer
    up,         \* the peer can be reached
    spent       \* the faults and commands that have happened

vars == <<q, pass, queued, closed, heard, up, spent>>

-----------------------------------------------------------------------------
Pkg == 1 .. N
None == 0

\* Deadlines: elapsed, some time ahead, or IDLE_SLEEP.
Slot == [next : {"none", "await", "retry"}, due : {"now", "later", "idle"},
         rung : 0 .. MaxRung, class : {"none", "absent", "refused"}, fresh : BOOLEAN]

NoSlot == [next |-> "none", due |-> "idle", rung |-> 0, class |-> "none", fresh |-> TRUE]
NewSlot == [NoSlot EXCEPT !.next = "retry", !.due = "now"]

Pending(s) == {p \in Pkg : s.slot[p].next # "none"}

EmptyQueue == [slot |-> [p \in Pkg |-> NoSlot], absent |-> FALSE, head |-> None,
               parked |-> {}]

Init ==
    /\ q = EmptyQueue /\ pass = {} /\ heard = {} /\ closed = {} /\ spent = {}
    /\ queued = Pkg
    /\ up \in BOOLEAN

Spend(k) ==
    /\ k \in Possible \ spent /\ Cardinality(spent) < MaxEvents
    /\ spent' = spent \cup {k}

\* Mutant: the schedule has a rung for every failure.
Climb_Unbounded(r) == r + 1

Climb(r) == IF r = MaxRung THEN r ELSE r + 1

-----------------------------------------------------------------------------
(***************************************************************************)
(* The methods of the worker that rearrange its queue, as functions of the *)
(* queue.                                                                  *)
(***************************************************************************)
\* The slot of package p in the map of pending packages.
Put(s, p, r) == [s EXCEPT !.slot[p] = r]
Drop(s, p) == Put(s, p, NoSlot)

ElectHead(s) ==
    IF s.head \in Pending(s) THEN s.head
    ELSE IF Pending(s) = {} THEN None ELSE Min(Pending(s))

NotePeerAbsent(s) == [s EXCEPT !.absent = TRUE, !.head = ElectHead(s)]

\* Mutant: the new head is elected and keeps its deadline.
EnsureHeadAlive_Asleep(s) ==
    IF ~s.absent \/ s.head \in Pending(s) THEN s ELSE [s EXCEPT !.head = ElectHead(s)]

\* Once per turn of the loop: a head that left the queue is replaced and woken.
EnsureHeadAlive(s) ==
    LET h == ElectHead(s)
    IN  IF ~s.absent \/ s.head \in Pending(s) THEN s
        ELSE IF h = None THEN [s EXCEPT !.head = None]
        ELSE Put([s EXCEPT !.head = h], h, [s.slot[h] EXCEPT !.due = "now"])

\* Mutant: a failure of another class leaves the package marked as parked.
ArmRetry_StaleMark(s, p) ==
    LET absent == s.slot[p].class = "absent"
        t == IF absent THEN NotePeerAbsent(s) ELSE s
        live == ~absent \/ t.head = p
        retry == [s.slot[p] EXCEPT !.next = "retry", !.rung = IF absent THEN @ ELSE Climb(@),
                                   !.due = IF live THEN "later" ELSE "idle"]
    IN  Put([t EXCEPT !.parked = IF live THEN @ ELSE @ \cup {p}], p, retry)

\* After a failed attempt: the class of its failure decides.
ArmRetry(s, p) ==
    LET absent == s.slot[p].class = "absent"
        t == IF absent THEN NotePeerAbsent(s) ELSE s
        live == ~absent \/ t.head = p
        retry == [s.slot[p] EXCEPT !.next = "retry", !.rung = IF absent THEN @ ELSE Climb(@),
                                   !.due = IF live THEN "later" ELSE "idle"]
    IN  Put([t EXCEPT !.parked = IF live THEN @ \ {p} ELSE @ \cup {p}], p, retry)

\* Mutant: only a beacon releases anything.
Released_BeaconOnly(s, proof) == IF proof = "beacon" THEN Pending(s) ELSE {}

\* A beacon releases everything, ordinary contact only what was parked.
Released(s, proof) == IF proof = "beacon" THEN Pending(s) ELSE s.parked

PeerReachable(s, proof) ==
    [s EXCEPT !.absent = FALSE, !.head = None, !.parked = {},
              !.slot = [p \in Pkg |->
                  IF p \in Released(s, proof) /\ s.slot[p].next = "retry"
                    THEN [s.slot[p] EXCEPT !.due = "now", !.rung = 0]
                    ELSE s.slot[p]]]

Kick(s, ps) ==
    [s EXCEPT !.slot = [p \in Pkg |->
        IF p \in ps \cap Pending(s)
          THEN [s.slot[p] EXCEPT !.due = "now", !.rung = 0, !.next = "retry"]
          ELSE s.slot[p]]]

\* A serve tick: the peer is reading, so a retry would be pointless.
NoteServeActivity(s, p) ==
    Put(s, p, [s.slot[p] EXCEPT !.due = "later", !.next = "await",
                                !.rung = IF s.slot[p].next = "retry" THEN 0 ELSE @])

\* Mutant: without an ack the package goes on waiting for it.
AckTimeout_Wait(s, p) == Put(s, p, [s.slot[p] EXCEPT !.due = "later"])

AckTimeout(s, p) ==
    Put(s, p, [s.slot[p] EXCEPT !.next = "retry", !.due = "later",
                                !.rung = IF s.slot[p].class = "absent" THEN @ ELSE Climb(@)])

-----------------------------------------------------------------------------
\* What a handler leaves, seen at the top of the loop.
Settle(s, rest) ==
    /\ pass' = rest
    /\ q' = IF rest = {} THEN EnsureHeadAlive(s) ELSE s

\* One attempt of package p in queue s, with the rest of the pass to follow.
AttemptSucceeds(s, p, rest) ==
    /\ up
    /\ heard' = heard \cup {p}
    /\ LET sent == [s.slot[p] EXCEPT !.next = "await", !.due = "later",
                                     !.class = "none", !.fresh = FALSE]
       IN  Settle(PeerReachable(Put(s, p, sent), "contact"), rest)
    /\ UNCHANGED <<closed, spent>>

AttemptFails(s, p, rest) ==
    /\ \E class \in {"absent", "refused"} :
         /\ IF class = "absent" THEN ~up /\ UNCHANGED spent ELSE up /\ Spend("refuse")
         /\ LET failed == [s.slot[p] EXCEPT !.class = class, !.fresh = FALSE]
            IN  Settle(ArmRetry(Put(s, p, failed), p), rest)
    /\ UNCHANGED <<heard, closed>>

\* The manifest cannot be read just now; the class is that of an older failure.
AttemptDefers(s, p, rest) ==
    /\ s.slot[p].fresh /\ Spend("defer")
    /\ Settle(ArmRetry(s, p), rest)
    /\ UNCHANGED <<heard, closed>>

\* The attempt ends its own package: the payload is gone from the disk, or
\* the peer, asked for the first time, has every frame already.
AttemptEnds(s, p, rest) ==
    /\ \/ Spend("vanish") /\ closed' = closed \cup {p}
       \/ up /\ s.slot[p].fresh /\ Spend("duplicate") /\ UNCHANGED closed
    /\ Settle(Drop(s, p), rest)
    /\ UNCHANGED heard

Attempt(s, p, rest) ==
    \/ AttemptSucceeds(s, p, rest) \/ AttemptFails(s, p, rest)
    \/ AttemptDefers(s, p, rest) \/ AttemptEnds(s, p, rest)

\* handle_timeouts takes the list of due packages first.
Due == {p \in Pending(q) : q.slot[p].due = "now"}

HandleTimeouts ==
    /\ pass = {} /\ Due # {}
    /\ pass' = Due
    /\ UNCHANGED <<q, queued, closed, heard, up, spent>>

HandleDue(p) ==
    /\ p \in pass
    /\ \/ /\ q.slot[p].next = "await"
          /\ Settle(AckTimeout(q, p), pass \ {p})
          /\ UNCHANGED <<closed, heard, spent>>
       \/ q.slot[p].next = "retry" /\ Attempt(q, p, pass \ {p})
    /\ UNCHANGED <<queued, up>>

\* enqueue, drive, resend or resume: a new slot and its first attempt.
StartPackage(p) ==
    /\ pass = {} /\ p \in queued
    /\ queued' = queued \ {p}
    /\ Attempt(Put(q, p, NewSlot), p, {})
    /\ UNCHANGED up

-----------------------------------------------------------------------------
(***************************************************************************)
(* Events and commands, taken between two passes.                          *)
(***************************************************************************)
\* The packages whose slot carries a minted announce, so that an answer finds it.
Announced == {p \in Pending(q) : ~q.slot[p].fresh}

\* The ack of package p: it closes the package, or rejects a frame of it.  A
\* late one, to an announce no slot carries, only shows that the peer is there.
OnAck(p) ==
    /\ pass = {} /\ up /\ p \in heard
    /\ heard' = heard \ {p}
    /\ LET s == PeerReachable(q, "contact") IN
       \/ p \in Announced /\ UNCHANGED spent /\ Settle(Drop(s, p), {})
       \/ p \in Announced /\ Spend("reject") /\ Settle(s, {})
       \/ p \notin Announced /\ UNCHANGED spent /\ Settle(s, {})
    /\ UNCHANGED <<queued, closed, up>>

\* Of the three kinds of serve ticks only the byte counter proves contact.
OnServeTick(p) ==
    /\ pass = {} /\ up /\ p \in heard \cap Announced
    /\ \E contact \in BOOLEAN :
         LET s == NoteServeActivity(q, p)
             seen == Put(s, p, [s.slot[p] EXCEPT !.class = "none"])
         IN  Settle(IF contact THEN PeerReachable(seen, "contact") ELSE s, {})
    /\ UNCHANGED <<queued, closed, heard, up, spent>>

PeerPresent ==
    /\ pass = {} /\ up /\ Spend("beacon")
    /\ Settle(PeerReachable(q, "beacon"), {})
    /\ UNCHANGED <<queued, closed, heard, up>>

KickOne(p) ==
    /\ pass = {} /\ Spend("kick")
    /\ Settle(Kick(q, {p}), {})
    /\ UNCHANGED <<queued, closed, heard, up>>

KickAll ==
    /\ pass = {} /\ Spend("kickAll")
    /\ Settle(Kick(q, Pkg), {})
    /\ UNCHANGED <<queued, closed, heard, up>>

CancelPackage(p) ==
    /\ pass = {} /\ p \in Pending(q) /\ Spend("cancel")
    /\ closed' = closed \cup {p}
    /\ Settle(Drop(q, p), {})
    /\ UNCHANGED <<queued, heard, up>>

\* A resend announces under a new wire id: answers to the old one are late.
Resend(p) ==
    /\ p \in closed /\ Spend("resend")
    /\ closed' = closed \ {p} /\ queued' = queued \cup {p} /\ heard' = heard \ {p}
    /\ UNCHANGED <<q, pass, up>>

\* The process is killed and started again, in or between passes.
Restart ==
    /\ Spend("restart")
    /\ q' = EmptyQueue /\ pass' = {}
    /\ queued' = queued \cup Pending(q)
    /\ UNCHANGED <<closed, heard, up>>

\* The clock: a deadline elapses.
Elapse(p) ==
    /\ p \in Pending(q) /\ q.slot[p].due = "later"
    /\ q' = Put(q, p, [q.slot[p] EXCEPT !.due = "now"])
    /\ UNCHANGED <<pass, queued, closed, heard, up, spent>>

\* The peer comes and goes; what it was going to answer may be lost.
PeerMoves ==
    /\ up' = ~up
    /\ UNCHANGED <<q, pass, queued, closed, heard, spent>>

LoseAnswer(p) ==
    /\ p \in heard /\ Spend("lose")
    /\ heard' = heard \ {p}
    /\ UNCHANGED <<q, pass, queued, closed, up>>

Next ==
    \/ HandleTimeouts \/ PeerPresent \/ KickAll \/ Restart \/ PeerMoves
    \/ \E p \in Pkg : \/ HandleDue(p) \/ StartPackage(p) \/ OnAck(p) \/ OnServeTick(p)
                      \/ KickOne(p) \/ CancelPackage(p) \/ Resend(p) \/ Elapse(p)
                      \/ LoseAnswer(p)

\* The loop goes on and takes every source of its select now and then; the
\* clock goes on; a peer that is there answers.
Fairness ==
    /\ WF_vars(HandleTimeouts)
    /\ \A p \in Pkg : /\ WF_vars(HandleDue(p)) /\ WF_vars(Elapse(p))
                      /\ SF_vars(StartPackage(p)) /\ SF_vars(OnAck(p))

Spec == Init /\ [][Next]_vars /\ Fairness

-----------------------------------------------------------------------------
TypeOK ==
    /\ q \in [slot : [Pkg -> Slot], absent : BOOLEAN, head : Pkg \cup {None},
               parked : SUBSET Pkg]
    /\ pass \subseteq Pkg /\ queued \subseteq Pkg /\ closed \subseteq Pkg
    /\ heard \subseteq Pkg /\ up \in BOOLEAN /\ spent \subseteq Possible

\* A package sleeps without a deadline only while the peer is known to be
\* absent, and only where the next contact finds it.
SleepersAreParked ==
    \A p \in Pending(q) : q.slot[p].due = "idle" =>
        q.absent /\ p \in q.parked /\ q.slot[p].next = "retry"

\* Contact releases exactly what the absence parked: a package whose last
\* failure was another one keeps its climbing backoff.
ParkedByAbsence == \A p \in q.parked \cap Pending(q) : q.slot[p].class = "absent"

\* While the peer looks absent somebody probes it, whatever became of the last
\* head (elect_absent_head, ensure_absent_head_alive): between two passes the
\* head is pending and has a deadline.
Probing ==
    pass = {} /\ q.absent /\ Pending(q) # {} =>
        q.head \in Pending(q) /\ q.slot[q.head].due # "idle"

\* The queue never goes silent, as long as no attempt ends its own package.
ProbingUnlessEnded == spent \cap {"vanish", "duplicate"} = {} => Probing

\* Once the peer stays reachable every package leaves the queue, without the
\* hour of IDLE_SLEEP, if the queue never went silent.
ServedIfProbing ==
    ([]Probing /\ <>[]up) => \A p \in Pkg : p \in Pending(q) ~> p \notin Pending(q)
=============================================================================
