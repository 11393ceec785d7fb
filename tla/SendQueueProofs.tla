-------------------------- MODULE SendQueueProofs ---------------------------
(***************************************************************************)
(* Proofs about SendQueue, for any number of packages and any faults.      *)
(***************************************************************************)
EXTENDS SendQueue, WellFoundedInduction, TLAPS

Queue == [slot : [Pkg -> Slot], absent : BOOLEAN, head : Pkg \cup {None}, parked : SUBSET Pkg]

(***************************************************************************)
(* The inductive invariant, as conditions on a queue.                      *)
(***************************************************************************)
Sleepers(s) == \A p \in Pending(s) : s.slot[p].due = "idle" =>
                  s.absent /\ p \in s.parked /\ s.slot[p].next = "retry"
MarkedBut(s, ps) == \A p \in (s.parked \cap Pending(s)) \ ps : s.slot[p].class = "absent"

\* An elected head has a deadline; without one everybody has.
HeadAwake(s) ==
    s.absent => IF s.head \in Pending(s) THEN s.slot[s.head].due # "idle"
                ELSE \A p \in Pending(s) : s.slot[p].due # "idle"
HeadKept(s) == s.absent /\ s.head \in Pending(s) => s.slot[s.head].due # "idle"
Elected(s) == s.absent /\ Pending(s) # {} => s.head \in Pending(s)

Good(s) == s \in Queue /\ Sleepers(s) /\ MarkedBut(s, {})

NothingEnded == spent \cap {"vanish", "duplicate"} = {}
HeadInv == NothingEnded => HeadAwake(q) /\ (pass = {} => Elected(q))

-----------------------------------------------------------------------------
\* Nobody is not a package, and the least package of a set is in it.
LEMMA MinOfPkgs ==
    ASSUME NEW S \in SUBSET Pkg, S # {}
    PROVE  Min(S) \in S
<1> DEFINE Less == {ss \in Nat \X Nat : ss[1] < ss[2]}
<1>0. IsWellFoundedOn(Less, Nat)
  BY NatLessThanWellFounded DEF OpToRel
<1>1. S \subseteq Nat
  BY QueueAssumption DEF Pkg
<1>2. PICK x \in S : \A y \in S : ~(<<y, x>> \in Less)
  BY <1>0, <1>1, WFMin
<1>3. ASSUME NEW y \in S PROVE x <= y
  <2>1. ~(<<y, x>> \in Less) /\ x \in Nat /\ y \in Nat
    BY <1>1, <1>2
  <2>2. <<y, x>> \in Nat \X Nat /\ <<y, x>>[1] = y /\ <<y, x>>[2] = x
    BY <2>1
  <2>3. ~(y < x)
    BY <2>1, <2>2
  <2> QED
    BY <2>1, <2>3
<1> QED
  BY <1>3 DEF Min

\* A slot is put into the queue; nothing else changes.
LEMMA PutIs ==
    ASSUME NEW s \in Queue, NEW p \in Pkg, NEW r \in Slot
    PROVE  /\ Put(s, p, r) \in Queue /\ Put(s, p, r).slot[p] = r
           /\ \A x \in Pkg \ {p} : Put(s, p, r).slot[x] = s.slot[x]
           /\ Put(s, p, r).absent = s.absent /\ Put(s, p, r).head = s.head
           /\ Put(s, p, r).parked = s.parked
BY Zenon DEF Queue, Put

\* A queue has a slot for every package.
LEMMA QueueIs ==
    ASSUME NEW s \in Queue
    PROVE  /\ \A p \in Pkg : s.slot[p] \in Slot
           /\ s.absent \in BOOLEAN /\ s.head \in Pkg \cup {None} /\ s.parked \in SUBSET Pkg
           /\ Pending(s) \in SUBSET Pkg
BY DEF Queue, Pending

\* A slot has its fields.
LEMMA SlotIs ==
    ASSUME NEW r \in Slot
    PROVE  /\ r.next \in {"none", "await", "retry"} /\ r.due \in {"now", "later", "idle"}
           /\ r.rung \in 0 .. MaxRung /\ r.class \in {"none", "absent", "refused"}
BY DEF Slot

LEMMA EmptySlots ==
    /\ NoSlot \in Slot /\ NoSlot.next = "none"
    /\ NewSlot \in Slot /\ NewSlot.next = "retry" /\ NewSlot.due = "now"
<1>1. 0 \in 0 .. MaxRung
  BY QueueAssumption
<1> QED
  BY <1>1, Zenon DEF NoSlot, NewSlot, Slot

LEMMA ClimbIs ==
    ASSUME NEW n \in 0 .. MaxRung
    PROVE  Climb(n) \in 0 .. MaxRung /\ 0 \in 0 .. MaxRung
BY QueueAssumption DEF Climb

\* The package elected is a pending one, if there is any.
LEMMA ElectHeadIs ==
    ASSUME NEW s \in Queue
    PROVE  /\ ElectHead(s) \in Pkg \cup {None}
           /\ Pending(s) # {} => ElectHead(s) \in Pending(s)
           /\ s.head \in Pending(s) => ElectHead(s) = s.head
           /\ ElectHead(s) = None <=> Pending(s) = {}
<1>1. None \notin Pkg
  BY QueueAssumption DEF None, Pkg
<1> QED
  BY <1>1, QueueIs, MinOfPkgs DEF ElectHead

-----------------------------------------------------------------------------
\* arm_retry, by the class of the failure.
LEMMA ArmRetryIs ==
    ASSUME NEW s \in Queue, NEW p \in Pending(s)
    PROVE  /\ ArmRetry(s, p) \in Queue
           /\ \A x \in Pkg \ {p} : ArmRetry(s, p).slot[x] = s.slot[x]
           /\ ArmRetry(s, p).slot[p].next = "retry"
           /\ ArmRetry(s, p).slot[p].class = s.slot[p].class
           /\ s.slot[p].class # "absent" =>
                /\ ArmRetry(s, p).absent = s.absent /\ ArmRetry(s, p).head = s.head
                /\ ArmRetry(s, p).parked = s.parked \ {p}
                /\ ArmRetry(s, p).slot[p].due = "later"
           /\ s.slot[p].class = "absent" =>
                /\ ArmRetry(s, p).absent /\ ArmRetry(s, p).head = ElectHead(s)
                /\ ElectHead(s) = p => ArmRetry(s, p).slot[p].due = "later"
                                       /\ ArmRetry(s, p).parked = s.parked \ {p}
                /\ ElectHead(s) # p => ArmRetry(s, p).slot[p].due = "idle"
                                       /\ ArmRetry(s, p).parked = s.parked \cup {p}
<1> DEFINE absent == s.slot[p].class = "absent"
           t == IF absent THEN NotePeerAbsent(s) ELSE s
           live == ~absent \/ t.head = p
           rung == IF absent THEN s.slot[p].rung ELSE Climb(s.slot[p].rung)
           due == IF live THEN "later" ELSE "idle"
           retry == [s.slot[p] EXCEPT !.next = "retry", !.rung = rung, !.due = due]
           parked == IF live THEN t.parked \ {p} ELSE t.parked \cup {p}
           u == [t EXCEPT !.parked = parked]
<1>0. p \in Pkg /\ s.slot[p] \in Slot /\ s.parked \in SUBSET Pkg
  BY QueueIs
<1>1. rung \in 0 .. MaxRung
  BY <1>0, SlotIs, ClimbIs
<1>2. retry \in Slot /\ retry.next = "retry" /\ retry.due = due /\ retry.class = s.slot[p].class
  <2>1. due \in {"now", "later", "idle"}
    OBVIOUS
  <2> HIDE DEF due, rung
  <2> QED
    BY <1>0, <1>1, <2>1, Zenon DEF Slot
<1>3. /\ t \in Queue /\ t.slot = s.slot /\ t.parked = s.parked
      /\ t.head = IF absent THEN ElectHead(s) ELSE s.head
      /\ absent => t.absent
      /\ ~absent => t.absent = s.absent
  <2>1. ElectHead(s) \in Pkg \cup {None}
    BY ElectHeadIs
  <2>2. CASE absent
    <3>1. t = [s EXCEPT !.absent = TRUE, !.head = ElectHead(s)]
      BY <2>2 DEF NotePeerAbsent
    <3>2. /\ [s EXCEPT !.absent = TRUE, !.head = ElectHead(s)] \in Queue
          /\ [s EXCEPT !.absent = TRUE, !.head = ElectHead(s)].slot = s.slot
          /\ [s EXCEPT !.absent = TRUE, !.head = ElectHead(s)].parked = s.parked
          /\ [s EXCEPT !.absent = TRUE, !.head = ElectHead(s)].head = ElectHead(s)
          /\ [s EXCEPT !.absent = TRUE, !.head = ElectHead(s)].absent
      BY <2>1, Zenon DEF Queue
    <3> HIDE DEF t
    <3> QED
      BY <2>2, <3>1, <3>2
  <2>3. CASE ~absent
    BY <2>3
  <2> QED
    BY <2>2, <2>3
<1>4. parked \in SUBSET Pkg
  <2> HIDE DEF t
  <2> QED
    BY <1>0, <1>3
<1>5. /\ u \in Queue /\ u.slot = t.slot /\ u.absent = t.absent /\ u.head = t.head
      /\ u.parked = parked
  <2> HIDE DEF t, parked
  <2> QED
    BY <1>3, <1>4, Zenon DEF Queue
<1>6. ArmRetry(s, p) = Put(u, p, retry)
  BY DEF ArmRetry
<1> HIDE DEF u, retry
<1>7. /\ Put(u, p, retry) \in Queue /\ Put(u, p, retry).slot[p] = retry
      /\ \A x \in Pkg \ {p} : Put(u, p, retry).slot[x] = s.slot[x]
      /\ Put(u, p, retry).absent = t.absent /\ Put(u, p, retry).head = t.head
      /\ Put(u, p, retry).parked = parked
  BY <1>0, <1>2, <1>3, <1>5, PutIs
<1> HIDE DEF t
<1> QED
  BY <1>2, <1>3, <1>6, <1>7

\* A failed attempt keeps the conditions on a queue; it is the only one that
\* parks anything.
LEMMA ArmRetryKeeps ==
    ASSUME NEW s \in Queue, NEW p \in Pending(s), Sleepers(s), MarkedBut(s, {p})
    PROVE  Good(ArmRetry(s, p)) /\ (HeadAwake(s) => HeadAwake(ArmRetry(s, p)))
<1> DEFINE u == ArmRetry(s, p)
<1>0. p \in Pkg /\ Pending(s) \in SUBSET Pkg
  BY QueueIs
<1>1. /\ u \in Queue
      /\ \A x \in Pkg \ {p} : u.slot[x] = s.slot[x]
      /\ u.slot[p].next = "retry" /\ u.slot[p].class = s.slot[p].class
  BY ArmRetryIs
<1>2. Pending(u) = Pending(s)
  <2> HIDE DEF u
  <2> QED
    BY <1>1 DEF Pending
<1>3. CASE s.slot[p].class # "absent"
  <2>1. u.absent = s.absent /\ u.head = s.head /\ u.parked = s.parked \ {p} /\ u.slot[p].due = "later"
    BY <1>3, ArmRetryIs
  <2> HIDE DEF u
  <2>2. Sleepers(u) /\ MarkedBut(u, {})
    BY <1>0, <1>1, <1>2, <2>1 DEF Sleepers, MarkedBut
  <2>3. HeadAwake(s) => HeadAwake(u)
    BY <1>0, <1>1, <1>2, <2>1 DEF HeadAwake
  <2> QED
    BY <1>1, <2>2, <2>3 DEF Good, u
<1>4. CASE s.slot[p].class = "absent"
  <2>1. /\ u.absent /\ u.head = ElectHead(s)
        /\ ElectHead(s) = p => u.slot[p].due = "later" /\ u.parked = s.parked \ {p}
        /\ ElectHead(s) # p => u.slot[p].due = "idle" /\ u.parked = s.parked \cup {p}
    BY <1>4, ArmRetryIs
  <2>2. ElectHead(s) \in Pending(s) /\ (s.head \in Pending(s) => ElectHead(s) = s.head)
    BY ElectHeadIs
  <2> HIDE DEF u
  <2>3. Sleepers(u) /\ MarkedBut(u, {})
    BY <1>0, <1>1, <1>2, <1>4, <2>1 DEF Sleepers, MarkedBut
  <2>4. HeadAwake(s) => HeadAwake(u)
    <3> SUFFICES ASSUME HeadAwake(s) PROVE u.slot[u.head].due # "idle" /\ u.head \in Pending(u)
      BY DEF HeadAwake
    <3>1. s.slot[ElectHead(s)].due # "idle"
      BY <2>2 DEF HeadAwake, Sleepers
    <3> QED
      BY <1>0, <1>1, <1>2, <2>1, <2>2, <3>1
  <2> QED
    BY <1>1, <2>3, <2>4 DEF Good, u
<1> QED
  BY <1>3, <1>4

\* ensure_absent_head_alive leaves a queue with a head that is awake.
LEMMA EnsureHeadAliveKeeps ==
    ASSUME NEW s, Good(s)
    PROVE  /\ Good(EnsureHeadAlive(s))
           /\ HeadKept(s) => HeadAwake(EnsureHeadAlive(s))
           /\ Elected(EnsureHeadAlive(s))
<1> DEFINE h == ElectHead(s)
           v == [s EXCEPT !.head = h]
<1>0. s \in Queue /\ Pending(s) \in SUBSET Pkg
  BY QueueIs DEF Good
<1>1. CASE ~s.absent \/ s.head \in Pending(s)
  <2>1. EnsureHeadAlive(s) = s
    BY <1>1 DEF EnsureHeadAlive
  <2> QED
    BY <1>1, <2>1 DEF Elected, HeadKept, HeadAwake
<1>2. CASE s.absent /\ s.head \notin Pending(s)
  <2>0. /\ h \in Pkg \cup {None} /\ (Pending(s) # {} => h \in Pending(s))
        /\ h = None <=> Pending(s) = {}
    BY <1>0, ElectHeadIs
  <2> HIDE DEF h
  <2>1. /\ v \in Queue /\ v.slot = s.slot /\ v.absent = s.absent /\ v.head = h
        /\ v.parked = s.parked
    BY <1>0, <2>0, Zenon DEF Queue
  <2>2. CASE h = None
    <3>1. EnsureHeadAlive(s) = v
      BY <1>2, <2>2 DEF EnsureHeadAlive, h
    <3> HIDE DEF v
    <3>2. Pending(v) = {}
      BY <2>0, <2>1, <2>2 DEF Pending
    <3>3. v.head \notin Pending(v)
      BY <3>2
    <3> QED
      BY <2>1, <3>1, <3>2, <3>3 DEF Good, Sleepers, MarkedBut, HeadAwake, Elected
  <2>3. CASE h # None
    <3> DEFINE r == [s.slot[h] EXCEPT !.due = "now"]
               u == Put(v, h, r)
    <3>0. h \in Pending(s) /\ h \in Pkg /\ s.slot[h] \in Slot
      BY <1>0, <2>0, <2>3, QueueIs
    <3>1. EnsureHeadAlive(s) = u
      BY <1>2, <2>3 DEF EnsureHeadAlive, h
    <3>2. r \in Slot /\ r.due = "now" /\ r.next = s.slot[h].next /\ r.class = s.slot[h].class
      BY <3>0, Zenon DEF Slot
    <3> HIDE DEF r, v
    <3>3. /\ u \in Queue /\ u.slot[h] = r /\ \A x \in Pkg \ {h} : u.slot[x] = s.slot[x]
          /\ u.absent = s.absent /\ u.head = h /\ u.parked = s.parked
      BY <2>1, <3>0, <3>2, PutIs
    <3> HIDE DEF u
    <3>4. Pending(u) = Pending(s)
      BY <3>0, <3>2, <3>3 DEF Pending
    <3>5. Sleepers(u) /\ MarkedBut(u, {})
      BY <1>0, <3>0, <3>2, <3>3, <3>4 DEF Good, Sleepers, MarkedBut
    <3>6. HeadAwake(u) /\ Elected(u)
      BY <3>0, <3>2, <3>3, <3>4 DEF HeadAwake, Elected
    <3> QED
      BY <3>1, <3>3, <3>5, <3>6 DEF Good
  <2> QED
    BY <2>2, <2>3
<1> QED
  BY <1>0, <1>1, <1>2, QueueIs

\* What a handler leaves is kept at the top of the loop.
LEMMA SettleKeeps ==
    ASSUME NEW s, NEW rest, Good(s), Settle(s, rest)
    PROVE  /\ Good(q') /\ pass' = rest
           /\ HeadAwake(s) => HeadAwake(q')
           /\ rest = {} => Elected(q') /\ (HeadKept(s) => HeadAwake(q'))
<1>1. CASE rest = {}
  <2>1. q' = EnsureHeadAlive(s) /\ pass' = rest
    BY <1>1 DEF Settle
  <2> QED
    BY <1>1, <2>1, EnsureHeadAliveKeeps DEF HeadAwake, HeadKept
<1>2. CASE rest # {}
  BY <1>2 DEF Settle
<1> QED
  BY <1>1, <1>2

\* peer_reachable wakes everybody that sleeps.
LEMMA PeerReachableKeeps ==
    ASSUME NEW s \in Queue, Sleepers(s), NEW proof \in {"contact", "beacon"}
    PROVE  Good(PeerReachable(s, proof)) /\ HeadAwake(PeerReachable(s, proof))
           /\ ~PeerReachable(s, proof).absent
<1> DEFINE f == [p \in Pkg |-> IF p \in Released(s, proof) /\ s.slot[p].next = "retry"
                                 THEN [s.slot[p] EXCEPT !.due = "now", !.rung = 0]
                                 ELSE s.slot[p]]
           u == [s EXCEPT !.absent = FALSE, !.head = None, !.parked = {}, !.slot = f]
<1>0. 0 \in 0 .. MaxRung
  BY QueueAssumption
<1>1. ASSUME NEW r \in Slot
      PROVE  /\ [r EXCEPT !.due = "now", !.rung = 0] \in Slot
             /\ [r EXCEPT !.due = "now", !.rung = 0].due = "now"
             /\ [r EXCEPT !.due = "now", !.rung = 0].next = r.next
  BY <1>0, Zenon DEF Slot
<1>2. \A p \in Pkg : f[p] \in Slot /\ f[p].next = s.slot[p].next
                     /\ (f[p].due = s.slot[p].due \/ f[p].due = "now")
                     /\ (p \in Released(s, proof) /\ s.slot[p].next = "retry" => f[p].due = "now")
  BY <1>1, QueueIs
<1>3. f \in [Pkg -> Slot]
  BY <1>2
<1>4. PeerReachable(s, proof) = u
  BY DEF PeerReachable
<1> HIDE DEF f
<1>5. u \in Queue /\ u.slot = f /\ u.absent = FALSE /\ u.parked = {}
  <2>1. None \in Pkg \cup {None} /\ {} \in SUBSET Pkg
    OBVIOUS
  <2> QED
    BY <1>3, <2>1, Zenon DEF Queue
<1> HIDE DEF u
<1>6. Pending(u) = Pending(s)
  BY <1>2, <1>5 DEF Pending
<1>7. \A p \in Pending(u) : u.slot[p].due # "idle"
  <2> SUFFICES ASSUME NEW p \in Pending(s), s.slot[p].due = "idle"
               PROVE  f[p].due = "now"
    BY <1>2, <1>5, <1>6, QueueIs
  <2>1. p \in Released(s, proof) /\ s.slot[p].next = "retry" /\ p \in Pkg
    BY QueueIs DEF Sleepers, Released
  <2> QED
    BY <1>2, <2>1
<1> QED
  BY <1>4, <1>5, <1>7 DEF Good, Sleepers, MarkedBut, HeadAwake

\* A slot is put that sleeps only if it slept before.
LEMMA PutKeeps ==
    ASSUME NEW s \in Queue, Sleepers(s), NEW ps, MarkedBut(s, ps),
           NEW p \in Pkg, NEW r \in Slot, r.next # "none",
           r.due = "idle" => p \in Pending(s) /\ s.slot[p].due = "idle" /\ r.next = s.slot[p].next
    PROVE  /\ Put(s, p, r) \in Queue /\ p \in Pending(Put(s, p, r))
           /\ Sleepers(Put(s, p, r)) /\ MarkedBut(Put(s, p, r), ps \cup {p})
           /\ p \in Pending(s) /\ r.class = s.slot[p].class => MarkedBut(Put(s, p, r), ps)
           /\ HeadAwake(s) => HeadAwake(Put(s, p, r))
<1> DEFINE u == Put(s, p, r)
<1>1. /\ u \in Queue /\ u.slot[p] = r /\ \A x \in Pkg \ {p} : u.slot[x] = s.slot[x]
      /\ u.absent = s.absent /\ u.head = s.head /\ u.parked = s.parked
  BY PutIs
<1> HIDE DEF u
<1>2. Pending(u) = Pending(s) \cup {p} /\ Pending(s) \in SUBSET Pkg
  BY <1>1 DEF Pending
<1>3. Sleepers(u)
  BY <1>1, <1>2 DEF Sleepers
<1>4. MarkedBut(u, ps \cup {p}) /\ (p \in Pending(s) /\ r.class = s.slot[p].class => MarkedBut(u, ps))
  BY <1>1, <1>2 DEF MarkedBut
<1>5. HeadAwake(s) => HeadAwake(u)
  BY <1>1, <1>2 DEF HeadAwake
<1> QED
  BY <1>1, <1>2, <1>3, <1>4, <1>5 DEF u

\* A package leaves the queue.
LEMMA DropKeeps ==
    ASSUME NEW s \in Queue, Sleepers(s), NEW p \in Pkg, MarkedBut(s, {p})
    PROVE  Good(Drop(s, p)) /\ (HeadKept(s) => HeadKept(Drop(s, p)))
           /\ Drop(s, p).absent = s.absent
<1> DEFINE u == Drop(s, p)
<1>1. /\ u \in Queue /\ u.slot[p] = NoSlot /\ \A x \in Pkg \ {p} : u.slot[x] = s.slot[x]
      /\ u.absent = s.absent /\ u.head = s.head /\ u.parked = s.parked
  BY PutIs, EmptySlots DEF Drop
<1> HIDE DEF u
<1>2. Pending(u) = Pending(s) \ {p} /\ Pending(s) \in SUBSET Pkg
  BY <1>1, EmptySlots DEF Pending
<1> QED
  BY <1>1, <1>2 DEF Good, Sleepers, MarkedBut, HeadKept, u

\* Kicked packages are due at once.
LEMMA KickKeeps ==
    ASSUME NEW s, Good(s), NEW ps \in SUBSET Pkg
    PROVE  Good(Kick(s, ps)) /\ (HeadAwake(s) => HeadAwake(Kick(s, ps)))
<1> DEFINE f == [p \in Pkg |-> IF p \in ps \cap Pending(s)
                                 THEN [s.slot[p] EXCEPT !.due = "now", !.rung = 0, !.next = "retry"]
                                 ELSE s.slot[p]]
           u == [s EXCEPT !.slot = f]
<1>0. 0 \in 0 .. MaxRung /\ s \in Queue
  BY QueueAssumption DEF Good
<1>1. ASSUME NEW r \in Slot
      PROVE  /\ [r EXCEPT !.due = "now", !.rung = 0, !.next = "retry"] \in Slot
             /\ [r EXCEPT !.due = "now", !.rung = 0, !.next = "retry"].due = "now"
             /\ [r EXCEPT !.due = "now", !.rung = 0, !.next = "retry"].next = "retry"
             /\ [r EXCEPT !.due = "now", !.rung = 0, !.next = "retry"].class = r.class
  BY <1>0, Zenon DEF Slot
<1>2. \A p \in Pkg : f[p] \in Slot /\ f[p].class = s.slot[p].class
                     /\ (\/ f[p].due = "now" /\ f[p].next = "retry" /\ p \in Pending(s)
                         \/ f[p] = s.slot[p])
  BY <1>0, <1>1, QueueIs
<1>3. f \in [Pkg -> Slot]
  BY <1>2
<1>4. Kick(s, ps) = u
  BY DEF Kick
<1> HIDE DEF f
<1>5. u \in Queue /\ u.slot = f /\ u.absent = s.absent /\ u.parked = s.parked /\ u.head = s.head
  BY <1>0, <1>3, Zenon DEF Queue
<1> HIDE DEF u
<1>6. Pending(u) = Pending(s)
  BY <1>2, <1>5 DEF Pending
<1>7. Pending(s) \in SUBSET Pkg
  BY <1>0, QueueIs
<1> QED
  BY <1>2, <1>4, <1>5, <1>6, <1>7 DEF Good, Sleepers, MarkedBut, HeadAwake

-----------------------------------------------------------------------------
\* One attempt, however it goes.
LEMMA AttemptKeeps ==
    ASSUME NEW s \in Queue, Sleepers(s), NEW p \in Pending(s), MarkedBut(s, {p}),
           NEW rest \in SUBSET Pkg, Attempt(s, p, rest)
    PROVE  /\ Good(q') /\ pass' = rest
           /\ NothingEnded' /\ HeadAwake(s) => HeadAwake(q') /\ (rest = {} => Elected(q'))
           /\ heard' \subseteq heard \cup {p} /\ closed' \subseteq closed \cup {p}
<1>0. p \in Pkg /\ s.slot[p] \in Slot /\ s.slot[p].next # "none"
  BY QueueIs DEF Pending
<1>1. CASE AttemptSucceeds(s, p, rest)
  <2> DEFINE sent == [s.slot[p] EXCEPT !.next = "await", !.due = "later",
                                       !.class = "none", !.fresh = FALSE]
             u == PeerReachable(Put(s, p, sent), "contact")
  <2>1. sent \in Slot /\ sent.next # "none" /\ sent.due # "idle"
    <3>1. sent \in Slot /\ sent.next = "await" /\ sent.due = "later"
      BY <1>0, Zenon DEF Slot
    <3> HIDE DEF sent
    <3> QED
      BY <3>1
  <2>2. Settle(u, rest) /\ heard' = heard \cup {p} /\ closed' = closed
    BY <1>1 DEF AttemptSucceeds
  <2> HIDE DEF sent
  <2>3. Put(s, p, sent) \in Queue /\ Sleepers(Put(s, p, sent))
    BY <1>0, <2>1, PutKeeps
  <2>4. Good(u) /\ HeadAwake(u)
    BY <2>3, PeerReachableKeeps
  <2> HIDE DEF u
  <2> QED
    BY <2>2, <2>4, SettleKeeps
<1>2. CASE AttemptFails(s, p, rest)
  <2>1. PICK class \in {"absent", "refused"} :
          Settle(ArmRetry(Put(s, p, [s.slot[p] EXCEPT !.class = class, !.fresh = FALSE]), p), rest)
    BY <1>2 DEF AttemptFails
  <2> DEFINE failed == [s.slot[p] EXCEPT !.class = class, !.fresh = FALSE]
             t == Put(s, p, failed)
  <2>2. failed \in Slot /\ failed.next = s.slot[p].next /\ failed.due = s.slot[p].due
    <3>1. class \in {"none", "absent", "refused"}
      OBVIOUS
    <3> QED
      BY <1>0, <3>1, Zenon DEF Slot
  <2>3. Settle(ArmRetry(t, p), rest)
    BY <2>1
  <2> HIDE DEF failed
  <2>4. /\ t \in Queue /\ p \in Pending(t) /\ Sleepers(t) /\ MarkedBut(t, {p} \cup {p})
        /\ HeadAwake(s) => HeadAwake(t)
    BY <1>0, <2>2, PutKeeps
  <2> HIDE DEF t
  <2>5. MarkedBut(t, {p})
    BY <2>4 DEF MarkedBut
  <2>6. Good(ArmRetry(t, p)) /\ (HeadAwake(t) => HeadAwake(ArmRetry(t, p)))
    BY <2>4, <2>5, ArmRetryKeeps
  <2> QED
    BY <1>2, <2>3, <2>4, <2>6, SettleKeeps DEF AttemptFails
<1>3. CASE AttemptDefers(s, p, rest)
  <2>1. Good(ArmRetry(s, p)) /\ (HeadAwake(s) => HeadAwake(ArmRetry(s, p)))
    BY ArmRetryKeeps
  <2>2. Settle(ArmRetry(s, p), rest) /\ UNCHANGED <<heard, closed>>
    BY <1>3 DEF AttemptDefers
  <2> QED
    BY <2>1, <2>2, SettleKeeps
<1>4. CASE AttemptEnds(s, p, rest)
  <2>1. Good(Drop(s, p))
    BY <1>0, DropKeeps
  <2>2. ~NothingEnded'
    BY <1>4 DEF AttemptEnds, Spend, NothingEnded
  <2>3. Settle(Drop(s, p), rest) /\ heard' = heard /\ closed' \subseteq closed \cup {p}
    BY <1>4 DEF AttemptEnds
  <2> QED
    BY <2>1, <2>2, <2>3, SettleKeeps
<1> QED
  BY <1>1, <1>2, <1>3, <1>4 DEF Attempt

-----------------------------------------------------------------------------
\* The sets of packages, and the whole invariant.
SetsOK == /\ pass \subseteq Pkg /\ queued \subseteq Pkg /\ closed \subseteq Pkg
          /\ heard \subseteq Pkg /\ up \in BOOLEAN /\ spent \subseteq Possible
Inv == Good(q) /\ SetsOK /\ HeadInv

\* A fault stays spent.
LEMMA SpendIs ==
    ASSUME NEW k, Spend(k), spent \subseteq Possible
    PROVE  spent' \subseteq Possible /\ spent \subseteq spent'
BY DEF Spend

\* The worker's turns, and what the world does to it, keep the invariant.
LEMMA InvStep == Inv /\ [Next]_vars => Inv'
<1> SUFFICES ASSUME Inv, [Next]_vars PROVE Inv'
  OBVIOUS
<1>0. /\ q \in Queue /\ Sleepers(q) /\ MarkedBut(q, {}) /\ Good(q) /\ SetsOK
      /\ Pending(q) \in SUBSET Pkg
  BY QueueIs DEF Inv, Good
<1>k. HeadAwake(q) => HeadKept(q)
  BY DEF HeadAwake, HeadKept
<1>m. \A p \in Pkg : MarkedBut(q, {p}) /\ MarkedBut(q, {} \cup {p})
  BY <1>0 DEF MarkedBut
\* A step that settles a good queue.
<1>s. ASSUME NEW s, Good(s), Settle(s, {}), HeadKept(q) => HeadKept(s) \/ HeadAwake(s),
             SetsOK', spent \subseteq spent'
      PROVE  Inv'
  <2>1. HeadAwake(s) => HeadKept(s)
    BY DEF HeadAwake, HeadKept
  <2>2. /\ Good(q') /\ Elected(q')
        /\ HeadKept(s) => HeadAwake(q')
    BY <1>s, SettleKeeps
  <2>3. NothingEnded' => HeadKept(s)
    BY <1>k, <1>s, <2>1 DEF Inv, HeadInv, NothingEnded
  <2> QED
    BY <1>s, <2>2, <2>3 DEF Inv, HeadInv
<1>1. CASE HandleTimeouts
  BY <1>0, <1>1 DEF HandleTimeouts, Due, Inv, HeadInv, SetsOK, NothingEnded
<1>2. CASE PeerPresent
  <2>1. Good(PeerReachable(q, "beacon")) /\ HeadAwake(PeerReachable(q, "beacon"))
    BY <1>0, PeerReachableKeeps
  <2>2. Settle(PeerReachable(q, "beacon"), {}) /\ Spend("beacon")
        /\ pass' = {} /\ UNCHANGED <<queued, closed, heard, up>>
    BY <1>2 DEF PeerPresent, Settle
  <2>3. SetsOK' /\ spent \subseteq spent'
    BY <1>0, <2>2, SpendIs DEF SetsOK
  <2> QED
    BY <1>s, <2>1, <2>2, <2>3
<1>3. ASSUME NEW ps \in SUBSET Pkg, Settle(Kick(q, ps), {}), spent' \subseteq Possible,
             spent \subseteq spent', UNCHANGED <<queued, closed, heard, up>>
      PROVE  Inv'
  <2>1. Good(Kick(q, ps)) /\ (HeadAwake(q) => HeadAwake(Kick(q, ps)))
    BY <1>0, KickKeeps
  <2>2. pass' = {} /\ Good(q') /\ Elected(q') /\ (HeadAwake(Kick(q, ps)) => HeadAwake(q'))
    BY <1>3, <2>1, SettleKeeps
  <2>3. SetsOK'
    BY <1>0, <1>3, <2>2 DEF SetsOK
  <2>4. NothingEnded' => HeadAwake(q)
    BY <1>3 DEF Inv, HeadInv, NothingEnded
  <2> QED
    BY <2>1, <2>2, <2>3, <2>4 DEF Inv, HeadInv
<1>4. CASE KickAll
  BY <1>0, <1>3, <1>4, SpendIs DEF KickAll, SetsOK
<1>5. ASSUME NEW p \in Pkg, KickOne(p) PROVE Inv'
  <2>1. {p} \in SUBSET Pkg
    OBVIOUS
  <2> QED
    BY <1>0, <1>3, <1>5, <2>1, SpendIs DEF KickOne, SetsOK
<1>6. CASE Restart
  <2>1. EmptyQueue \in Queue /\ EmptyQueue.absent = FALSE /\ Pending(EmptyQueue) = {}
    <3>1. [p \in Pkg |-> NoSlot] \in [Pkg -> Slot] /\ {} \in SUBSET Pkg /\ None \in Pkg \cup {None}
      BY EmptySlots
    <3>2. EmptyQueue \in Queue /\ EmptyQueue.slot = [p \in Pkg |-> NoSlot] /\ EmptyQueue.absent = FALSE
      BY <3>1, Zenon DEF EmptyQueue, Queue
    <3> QED
      BY <3>2, EmptySlots DEF Pending
  <2>2. q' = EmptyQueue /\ pass' = {} /\ queued' = queued \cup Pending(q)
        /\ UNCHANGED <<closed, heard, up>> /\ Spend("restart")
    BY <1>6 DEF Restart
  <2>3. SetsOK'
    BY <1>0, <2>2, SpendIs DEF SetsOK
  <2>4. Good(EmptyQueue) /\ HeadAwake(EmptyQueue) /\ Elected(EmptyQueue)
    BY <2>1 DEF Good, Sleepers, MarkedBut, HeadAwake, Elected
  <2> QED
    BY <2>2, <2>3, <2>4 DEF Inv, HeadInv
<1>7. CASE PeerMoves
  BY <1>0, <1>7 DEF PeerMoves, Inv, HeadInv, SetsOK, NothingEnded
<1>8. ASSUME NEW p \in Pkg, HandleDue(p) PROVE Inv'
  <2>0. pass \ {p} \in SUBSET Pkg /\ q.slot[p] \in Slot
    BY <1>0, QueueIs DEF SetsOK
  <2>1. CASE q.slot[p].next = "await"
    <3> DEFINE r == [q.slot[p] EXCEPT !.next = "retry", !.due = "later",
                        !.rung = IF q.slot[p].class = "absent" THEN @ ELSE Climb(@)]
               t == Put(q, p, r)
    <3>1. Settle(t, pass \ {p}) /\ UNCHANGED <<queued, up, closed, heard, spent>>
      <4>1. q.slot[p].next # "retry"
        BY <2>1
      <4> QED
        BY <1>8, <4>1 DEF HandleDue, AckTimeout
    <3>2. r \in Slot /\ r.next = "retry" /\ r.due = "later" /\ r.class = q.slot[p].class
      <4>1. q.slot[p].rung \in 0 .. MaxRung /\ Climb(q.slot[p].rung) \in 0 .. MaxRung
        BY <2>0, SlotIs, ClimbIs
      <4> QED
        BY <2>0, <4>1, Zenon DEF Slot
    <3> HIDE DEF r
    <3>3. p \in Pending(q)
      BY <2>1 DEF Pending
    <3>4. Good(t) /\ (HeadAwake(q) => HeadAwake(t))
      BY <1>0, <3>2, <3>3, PutKeeps DEF Good
    <3> HIDE DEF t
    <3>5. pass' = pass \ {p} /\ Good(q') /\ (HeadAwake(t) => HeadAwake(q'))
          /\ (pass' = {} => Elected(q'))
      BY <3>1, <3>4, SettleKeeps
    <3> QED
      BY <1>0, <3>1, <3>4, <3>5 DEF Inv, HeadInv, SetsOK, NothingEnded
  <2>2. CASE q.slot[p].next = "retry"
    <3>1. Attempt(q, p, pass \ {p}) /\ UNCHANGED <<queued, up>>
      BY <1>8, <2>2 DEF HandleDue
    <3>2. p \in Pending(q)
      BY <2>2 DEF Pending
    <3>3. /\ Good(q') /\ pass' = pass \ {p}
          /\ NothingEnded' /\ HeadAwake(q) => HeadAwake(q') /\ (pass \ {p} = {} => Elected(q'))
          /\ heard' \subseteq heard \cup {p} /\ closed' \subseteq closed \cup {p}
      BY <1>0, <1>m, <2>0, <3>1, <3>2, AttemptKeeps
    <3>4. spent \subseteq spent' /\ spent' \subseteq Possible
      BY <1>0, <3>1, SpendIs DEF Attempt, AttemptSucceeds, AttemptFails, AttemptDefers,
         AttemptEnds, SetsOK
    <3>5. NothingEnded' => HeadAwake(q)
      BY <3>4 DEF Inv, HeadInv, NothingEnded
    <3> QED
      BY <1>0, <3>1, <3>3, <3>4, <3>5 DEF Inv, HeadInv, SetsOK
  <2> QED
    BY <1>8, <2>1, <2>2 DEF HandleDue
<1>9. ASSUME NEW p \in Pkg, StartPackage(p) PROVE Inv'
  <2> DEFINE t == Put(q, p, NewSlot)
  <2>1. Attempt(t, p, {}) /\ up' = up /\ queued' = queued \ {p}
    BY <1>9 DEF StartPackage
  <2>2. NewSlot \in Slot /\ NewSlot.next # "none" /\ NewSlot.due # "idle"
    BY EmptySlots
  <2>3. /\ t \in Queue /\ p \in Pending(t) /\ Sleepers(t) /\ MarkedBut(t, {} \cup {p})
        /\ HeadAwake(q) => HeadAwake(t)
    BY <1>0, <2>2, PutKeeps
  <2> HIDE DEF t
  <2>4. MarkedBut(t, {p}) /\ {} \in SUBSET Pkg
    BY <2>3 DEF MarkedBut
  <2>5. /\ Good(q') /\ pass' = {}
        /\ NothingEnded' /\ HeadAwake(t) => HeadAwake(q') /\ Elected(q')
        /\ heard' \subseteq heard \cup {p} /\ closed' \subseteq closed \cup {p}
    BY <2>1, <2>3, <2>4, AttemptKeeps
  <2>6. spent \subseteq spent' /\ spent' \subseteq Possible
    BY <1>0, <2>1, SpendIs DEF Attempt, AttemptSucceeds, AttemptFails, AttemptDefers,
       AttemptEnds, SetsOK
  <2>7. NothingEnded' => HeadAwake(q)
    BY <2>6 DEF Inv, HeadInv, NothingEnded
  <2> QED
    BY <1>0, <2>1, <2>3, <2>5, <2>6, <2>7 DEF Inv, HeadInv, SetsOK
<1>10. ASSUME NEW p \in Pkg, OnAck(p) PROVE Inv'
  <2> DEFINE t == PeerReachable(q, "contact")
  <2>1. Good(t) /\ HeadAwake(t) /\ ~t.absent
    BY <1>0, PeerReachableKeeps
  <2>2. /\ heard' = heard \ {p} /\ UNCHANGED <<queued, closed, up>>
        /\ \/ UNCHANGED spent /\ Settle(Drop(t, p), {})
           \/ Spend("reject") /\ Settle(t, {})
           \/ UNCHANGED spent /\ Settle(t, {})
    BY <1>10 DEF OnAck
  <2> HIDE DEF t
  <2>3. Good(Drop(t, p)) /\ HeadAwake(Drop(t, p))
    <3>1. t \in Queue /\ Sleepers(t) /\ MarkedBut(t, {p})
      BY <2>1 DEF Good, MarkedBut
    <3>2. Good(Drop(t, p)) /\ Drop(t, p).absent = t.absent
      BY <3>1, DropKeeps
    <3> QED
      BY <2>1, <3>2 DEF HeadAwake
  <2>4. SetsOK' /\ spent \subseteq spent'
    BY <1>0, <2>2, SpendIs DEF SetsOK, Settle
  <2> QED
    BY <1>s, <2>1, <2>2, <2>3, <2>4
<1>11. ASSUME NEW p \in Pkg, OnServeTick(p) PROVE Inv'
  <2> DEFINE r == [q.slot[p] EXCEPT !.due = "later", !.next = "await",
                      !.rung = IF q.slot[p].next = "retry" THEN 0 ELSE @]
             s == Put(q, p, r)
             c == [s.slot[p] EXCEPT !.class = "none"]
  <2>0. q.slot[p] \in Slot /\ p \in Pending(q)
    BY <1>0, <1>11, QueueIs DEF OnServeTick, Announced
  <2>1. r \in Slot /\ r.next = "await" /\ r.due = "later" /\ r.class = q.slot[p].class
    <3>1. q.slot[p].rung \in 0 .. MaxRung /\ 0 \in 0 .. MaxRung
      BY <2>0, SlotIs, ClimbIs
    <3> QED
      BY <2>0, <3>1, Zenon DEF Slot
  <2>2. \E contact \in BOOLEAN :
          Settle(IF contact THEN PeerReachable(Put(s, p, c), "contact") ELSE s, {})
    BY <1>11 DEF OnServeTick, NoteServeActivity
  <2> HIDE DEF r
  <2>3. Good(s) /\ (HeadAwake(q) => HeadAwake(s)) /\ s.slot[p] = r
    <3>1. p \in Pkg /\ s.slot[p] = r
      BY <1>0, <2>1, PutIs
    <3>2. /\ s \in Queue /\ Sleepers(s) /\ MarkedBut(s, {}) /\ (HeadAwake(q) => HeadAwake(s))
      BY <1>0, <2>0, <2>1, PutKeeps
    <3> QED
      BY <3>1, <3>2 DEF Good
  <2>4. c \in Slot /\ c.next = "await" /\ c.due = "later"
    BY <2>1, <2>3, Zenon DEF Slot
  <2> HIDE DEF s, c
  <2>5. Put(s, p, c) \in Queue /\ Sleepers(Put(s, p, c))
    BY <2>3, <2>4, PutKeeps DEF Good
  <2>6. Good(PeerReachable(Put(s, p, c), "contact")) /\ HeadAwake(PeerReachable(Put(s, p, c), "contact"))
    BY <2>5, PeerReachableKeeps
  <2>7. SetsOK' /\ spent' = spent
    BY <1>0, <1>11 DEF SetsOK, Settle, OnServeTick
  <2>8. CASE Settle(PeerReachable(Put(s, p, c), "contact"), {})
    BY <1>s, <2>6, <2>7, <2>8
  <2>9. CASE Settle(s, {})
    <3>1. Good(q') /\ Elected(q') /\ (HeadAwake(s) => HeadAwake(q'))
      BY <2>3, <2>9, SettleKeeps
    <3> QED
      BY <2>3, <2>7, <3>1 DEF Inv, HeadInv, NothingEnded
  <2> QED
    BY <2>2, <2>8, <2>9
<1>12. ASSUME NEW p \in Pkg, CancelPackage(p) PROVE Inv'
  <2>1. Good(Drop(q, p)) /\ (HeadKept(q) => HeadKept(Drop(q, p)))
    BY <1>0, <1>m, DropKeeps
  <2>2. SetsOK' /\ spent \subseteq spent'
    BY <1>0, <1>12, SpendIs DEF SetsOK, Settle, CancelPackage
  <2> QED
    BY <1>s, <1>12, <2>1, <2>2 DEF CancelPackage
<1>13. ASSUME NEW p \in Pkg, Resend(p) \/ LoseAnswer(p) PROVE Inv'
  <2>1. SetsOK' /\ spent \subseteq spent'
    BY <1>0, <1>13, SpendIs DEF SetsOK, Resend, LoseAnswer
  <2>2. UNCHANGED <<q, pass>>
    BY <1>13 DEF Resend, LoseAnswer
  <2> QED
    BY <2>1, <2>2 DEF Inv, HeadInv, NothingEnded
<1>14. ASSUME NEW p \in Pkg, Elapse(p) PROVE Inv'
  <2> DEFINE r == [q.slot[p] EXCEPT !.due = "now"]
  <2>1. p \in Pending(q) /\ q' = Put(q, p, r) /\ UNCHANGED <<pass, queued, closed, heard, up, spent>>
    BY <1>14 DEF Elapse
  <2>2. r \in Slot /\ r.due = "now" /\ r.next = q.slot[p].next /\ r.class = q.slot[p].class
    <3>1. q.slot[p] \in Slot
      BY <1>0, QueueIs
    <3> QED
      BY <3>1, Zenon DEF Slot
  <2>3. q.slot[p].next # "none"
    BY <2>1 DEF Pending
  <2> HIDE DEF r
  <2>4. Good(q') /\ (HeadAwake(q) => HeadAwake(q'))
    BY <1>0, <2>1, <2>2, <2>3, PutKeeps DEF Good
  <2>5. Elected(q) => Elected(q')
    <3>1. /\ q'.absent = q.absent /\ q'.head = q.head /\ q'.slot[p] = r
          /\ \A x \in Pkg \ {p} : q'.slot[x] = q.slot[x]
      BY <1>0, <2>1, <2>2, PutIs
    <3>2. Pending(q') = Pending(q)
      BY <2>2, <3>1 DEF Pending
    <3> QED
      BY <3>1, <3>2 DEF Elected
  <2> QED
    BY <1>0, <2>1, <2>4, <2>5 DEF Inv, HeadInv, NothingEnded, SetsOK
<1>15. CASE UNCHANGED vars
  BY <1>0, <1>15 DEF vars, Inv, HeadInv, SetsOK, NothingEnded
<1> QED
  BY <1>1, <1>2, <1>4, <1>5, <1>6, <1>7, <1>8, <1>9, <1>10, <1>11, <1>12, <1>13, <1>14, <1>15
  DEF Next

\* The invariant of the queue, from its start.
LEMMA Invariance == Spec => []Inv
<1>1. Init => Inv
  <2> SUFFICES ASSUME Init PROVE Inv
    OBVIOUS
  <2>1. [p \in Pkg |-> NoSlot] \in [Pkg -> Slot] /\ {} \in SUBSET Pkg /\ None \in Pkg \cup {None}
    BY EmptySlots
  <2>2. q \in Queue /\ q.slot = [p \in Pkg |-> NoSlot] /\ q.absent = FALSE
    BY <2>1, Zenon DEF Init, EmptyQueue, Queue
  <2>3. Pending(q) = {}
    BY <2>2, EmptySlots DEF Pending
  <2>4. Good(q) /\ HeadAwake(q) /\ Elected(q)
    BY <2>2, <2>3 DEF Good, Sleepers, MarkedBut, HeadAwake, Elected
  <2> QED
    BY <2>4 DEF Init, Inv, HeadInv, SetsOK
<1> QED
  BY <1>1, InvStep, PTL DEF Spec

\* The queue keeps its types: the backoff never climbs past its last rung and
\* elect_absent_head names a package.
THEOREM TypeInvariance == Spec => []TypeOK
<1>1. Inv => TypeOK
  BY DEF Inv, Good, SetsOK, TypeOK, Queue
<1> QED
  BY <1>1, Invariance, PTL

\* No package sleeps for IDLE_SLEEP where the next contact would not find it.
THEOREM NobodyOversleeps == Spec => []SleepersAreParked
<1>1. Inv => SleepersAreParked
  BY DEF Inv, Good, Sleepers, SleepersAreParked
<1> QED
  BY <1>1, Invariance, PTL

\* What a contact releases was parked by an absence, whatever came between.
THEOREM ContactReleasesTheParked == Spec => []ParkedByAbsence
<1>1. Inv => ParkedByAbsence
  BY DEF Inv, Good, MarkedBut, ParkedByAbsence
<1> QED
  BY <1>1, Invariance, PTL

\* A queue whose peer looks absent always has a head with a deadline between
\* two passes, if no attempt of a head has ended its own package.
THEOREM SomebodyProbes == Spec => []ProbingUnlessEnded
<1>1. Inv => ProbingUnlessEnded
  BY DEF Inv, HeadInv, NothingEnded, HeadAwake, Elected, ProbingUnlessEnded, Probing
<1> QED
  BY <1>1, Invariance, PTL
=============================================================================
