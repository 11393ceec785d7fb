------------------------- MODULE ComputeQueueProofs -------------------------
(***************************************************************************)
(* Proofs about ComputeQueue, for any set of jobs and any limits.          *)
(***************************************************************************)
EXTENDS ComputeQueue, FiniteSetTheorems, TLAPS

\* Waking the parked threads gives a control state again, with nobody parked.
LEMMA WokenType ==
    ASSUME pc \in [Job -> Labels]
    PROVE  /\ Woken \in [Job -> Labels \ {"parked"}]
           /\ Woken \in [Job -> Labels]
           /\ \A j \in Job : pc[j] # "parked" => Woken[j] = pc[j]
           /\ \A j \in Job : pc[j] = "parked" => Woken[j] = "trying"
BY DEF Woken, Labels

\* Removing a ticket leaves a sequence of tickets.
LEMMA WithoutType ==
    ASSUME waiting \in Seq(Job), NEW i \in DOMAIN waiting
    PROVE  /\ Without(i) \in Seq(Job)
           /\ Len(Without(i)) = Len(waiting) - 1
           /\ \A k \in 1..(Len(waiting) - 1) :
                 Without(i)[k] = IF k < i THEN waiting[k] ELSE waiting[k + 1]
<1>1. Len(waiting) \in Nat /\ Len(waiting) > 0 /\ i \in 1..Len(waiting)
  OBVIOUS
<1>2. Without(i) \in [1..(Len(waiting) - 1) -> Job]
  BY <1>1 DEF Without
<1> QED
  BY <1>1, <1>2 DEF Without

\* Every critical section leaves the queue's state well formed.
LEMMA TypeStep == TypeOK /\ [Next]_vars => TypeOK'
<1> SUFFICES ASSUME TypeOK, [Next]_vars
             PROVE  TypeOK'
  OBVIOUS
<1> USE JobAssumption, LimitAssumption DEF TypeOK, Entries, Thread
<1>1. ASSUME NEW j \in Job, Enqueue(j) PROVE TypeOK'
  BY <1>1 DEF Enqueue, Owe, Labels
<1>2. ASSUME NEW j \in Job, Refuse(j) PROVE TypeOK'
  <2>1. PICK i \in DOMAIN waiting : waiting' = Without(i)
    BY <1>2 DEF Refuse
  <2>2. waiting' \in Seq(Job)
    BY <2>1, WithoutType
  <2>3. pc' \in [Job -> Labels]
    BY <1>2, WokenType DEF Refuse, Labels
  <2> QED
    BY <1>2, <2>2, <2>3 DEF Refuse, Owe
<1>3. ASSUME NEW j \in Job, Admit(j) PROVE TypeOK'
  <2>1. pc' \in [Job -> Labels]
    BY <1>3, WokenType DEF Admit, Labels
  <2>2. waiting' \in Seq(Job)
    BY <1>3 DEF Admit, IsFront
  <2> QED
    BY <1>3, <2>1, <2>2 DEF Admit, Owe
<1>4. ASSUME NEW j \in Job, Park(j) PROVE TypeOK'
  BY <1>4 DEF Park, Labels, queue, notes
<1>5. ASSUME NEW j \in Job, TimeOut(j) PROVE TypeOK'
  BY <1>5 DEF TimeOut, Labels, queue, notes
<1>6. ASSUME NEW j \in Job, Release(j) PROVE TypeOK'
  <2>1. pc' \in [Job -> Labels]
    BY <1>6, WokenType DEF Release, Labels
  <2> QED
    BY <1>6, <2>1 DEF Release, Owe
<1>7. ASSUME NEW j \in Job, cancel(j) PROVE TypeOK'
  BY <1>7, WokenType DEF cancel, Owe, queue
<1>8. ASSUME NEW j \in Job, CancelDirectly(j) PROVE TypeOK'
  BY <1>8 DEF CancelDirectly, queue, notes
<1>9. ASSUME NEW n \in Limits, set_max_concurrent(n) PROVE TypeOK'
  <2>1. n \in Nat
    OBVIOUS
  <2>2. max' \in Nat \ {0}
    BY <1>9, <2>1 DEF set_max_concurrent
  <2> QED
    BY <1>9, <2>2, WokenType DEF set_max_concurrent, queue, notes
<1>10. ASSUME NEW t \in Thread, TakeSnapshot(t) PROVE TypeOK'
  BY <1>10 DEF TakeSnapshot, queue
<1>11. ASSUME NEW t \in Thread, Deliver(t) PROVE TypeOK'
  BY <1>11 DEF Deliver, queue, NoEntries
<1>12. CASE UNCHANGED vars
  BY <1>12 DEF vars, queue, notes
<1> QED
  BY <1>1, <1>2, <1>3, <1>4, <1>5, <1>6, <1>7, <1>8, <1>9, <1>10, <1>11, <1>12
  DEF Next, Wait, Notify

\* The state of the queue always has its type; in particular the limit is
\* never zero, whatever set_max_concurrent is given.
THEOREM TypeInvariance == Spec => []TypeOK
<1>1. Init => TypeOK
  BY DEF Init, TypeOK, Labels, Entries, NoEntries, Thread
<1> QED
  BY <1>1, TypeStep, PTL DEF Spec, HungSpec

-----------------------------------------------------------------------------
\* A transition that wakes everybody leaves nobody parked.
LEMMA WakeStep ==
    ASSUME TypeOK, TypeOK', NoLostWakeup, [Next]_vars
    PROVE  NoLostWakeup'
<1> USE DEF TypeOK
<1>1. ASSUME NEW j \in Job, Enqueue(j) PROVE NoLostWakeup'
  <2> SUFFICES ASSUME NEW k \in Job, pc'[k] = "parked"
               PROVE  (k \in flag' => DirectCancel) /\ ~(IsFront(k)' /\ Free')
    BY DEF NoLostWakeup
  <2>1. k # j /\ pc[k] = "parked"
    BY <1>1 DEF Enqueue
  <2>2. (k \in flag => DirectCancel) /\ ~(IsFront(k) /\ Free)
    BY <2>1 DEF NoLostWakeup
  <2>3. waiting' # <<>> /\ Head(waiting') = IF waiting = <<>> THEN j ELSE Head(waiting)
    BY <1>1 DEF Enqueue
  <2> QED
    BY <1>1, <2>1, <2>2, <2>3 DEF Enqueue, IsFront, Free
<1>2. ASSUME NEW j \in Job, Refuse(j) \/ Admit(j) \/ Release(j) PROVE NoLostWakeup'
  <2>1. \A k \in Job : pc'[k] # "parked"
    BY <1>2, WokenType DEF Refuse, Admit, Release, Labels
  <2> QED
    BY <2>1 DEF NoLostWakeup
<1>3. ASSUME NEW j \in Job, Park(j) PROVE NoLostWakeup'
  BY <1>3 DEF Park, NoLostWakeup, IsFront, Free, queue, notes
<1>4. ASSUME NEW j \in Job, TimeOut(j) PROVE NoLostWakeup'
  BY <1>4 DEF TimeOut, NoLostWakeup, IsFront, Free, queue, notes
<1>5. ASSUME NEW j \in Job, cancel(j) PROVE NoLostWakeup'
  <2>1. \A k \in Job : pc'[k] # "parked"
    BY <1>5, WokenType DEF cancel, Labels
  <2> QED
    BY <2>1 DEF NoLostWakeup
<1>6. ASSUME NEW n \in Limits, set_max_concurrent(n) PROVE NoLostWakeup'
  <2>1. \A k \in Job : pc'[k] # "parked"
    BY <1>6, WokenType DEF set_max_concurrent, Labels
  <2> QED
    BY <2>1 DEF NoLostWakeup
<1>7. ASSUME NEW t \in Thread, Notify(t) PROVE NoLostWakeup'
  BY <1>7 DEF Notify, TakeSnapshot, Deliver, NoLostWakeup, IsFront, Free, queue
<1>8. CASE UNCHANGED vars
  BY <1>8 DEF vars, queue, notes, NoLostWakeup, IsFront, Free
<1>9. ASSUME NEW j \in Job, CancelDirectly(j) PROVE NoLostWakeup'
  BY <1>9 DEF CancelDirectly, NoLostWakeup, IsFront, Free, queue, notes
<1> QED
  BY <1>1, <1>2, <1>3, <1>4, <1>5, <1>6, <1>7, <1>8, <1>9 DEF Next, Wait

\* No wake-up of the queue's is ever lost, with or without the timeout: a
\* parked thread has nothing to do, but for a flag a host sets on its own.
THEOREM WakeupsAreNeverLost == Spec => []NoLostWakeup
<1>1. Init => NoLostWakeup
  BY DEF Init, NoLostWakeup
<1>2. TypeOK /\ TypeOK' /\ NoLostWakeup /\ [Next]_vars => NoLostWakeup'
  BY WakeStep
<1> QED
  BY <1>1, <1>2, TypeInvariance, PTL DEF Spec, HungSpec

-----------------------------------------------------------------------------
\* The sets of jobs that hold permits are finite, so counting them is safe.
LEMMA HoldersFinite == IsFiniteSet(Holders) /\ IsFiniteSet(Holders')
<1>1. Holders \subseteq Job /\ Holders' \subseteq Job
  BY DEF Holders
<1> QED
  BY <1>1, FS_Subset, JobAssumption

\* The three parts of NothingLeaks, each preserved with the help of the type.
LEMMA LeakStep ==
    ASSUME TypeOK, TypeOK', NothingLeaks, [Next]_vars
    PROVE  NothingLeaks'
<1> USE DEF TypeOK
<1> DEFINE Once == \A i, k \in DOMAIN waiting : waiting[i] = waiting[k] => i = k
<1>0. Tickets = Waiters /\ Once /\ running = Cardinality(Holders)
  BY DEF NothingLeaks
<1>1. ASSUME NEW j \in Job, Enqueue(j) PROVE NothingLeaks'
  <2>1. pc[j] = "new" /\ pc' = [pc EXCEPT ![j] = "trying"]
    BY <1>1 DEF Enqueue
  <2>2. j \notin Tickets
    BY <1>0, <2>1 DEF Waiters
  <2>3. waiting' = Append(waiting, j) /\ Len(waiting') = Len(waiting) + 1
        /\ \A i \in DOMAIN waiting' :
              waiting'[i] = IF i = Len(waiting) + 1 THEN j ELSE waiting[i]
    BY <1>1 DEF Enqueue
  <2>4. Tickets' = Tickets \cup {j}
    BY <2>3 DEF Tickets
  <2>5. Waiters' = Waiters \cup {j}
    BY <2>1 DEF Waiters
  <2>6. Once'
    BY <1>0, <2>2, <2>3 DEF Tickets
  <2>7. Holders' = Holders /\ running' = running
    BY <1>1, <2>1 DEF Holders, Enqueue
  <2> QED
    BY <1>0, <2>4, <2>5, <2>6, <2>7 DEF NothingLeaks
<1>2. ASSUME NEW j \in Job, Refuse(j) PROVE NothingLeaks'
  <2>1. PICK i \in DOMAIN waiting : waiting[i] = j /\ waiting' = Without(i)
    BY <1>2 DEF Refuse
  <2>2. Len(waiting) \in Nat /\ i \in 1..Len(waiting) /\ DOMAIN waiting = 1..Len(waiting)
    OBVIOUS
  <2>3. /\ DOMAIN waiting' = 1..(Len(waiting) - 1)
        /\ \A k \in DOMAIN waiting' :
              waiting'[k] = IF k < i THEN waiting[k] ELSE waiting[k + 1]
    BY <2>1, <2>2 DEF Without
  <2>4. Tickets' = Tickets \ {j}
    <3>1. ASSUME NEW x \in Tickets, x # j PROVE x \in Tickets'
      <4>1. PICK m \in DOMAIN waiting : waiting[m] = x
        BY <3>1 DEF Tickets
      <4>2. m # i
        BY <2>1, <3>1, <4>1
      <4>3. CASE m < i
        BY <4>1, <4>3, <2>2, <2>3 DEF Tickets
      <4>4. CASE m > i
        <5>1. m - 1 \in DOMAIN waiting' /\ waiting'[m - 1] = waiting[m]
          BY <4>4, <2>2, <2>3
        <5> QED
          BY <5>1, <4>1 DEF Tickets
      <4> QED
        BY <4>2, <4>3, <4>4, <2>2
    <3>2. ASSUME NEW x \in Tickets' PROVE x \in Tickets /\ x # j
      <4>1. PICK m \in DOMAIN waiting' : waiting'[m] = x
        BY <3>2 DEF Tickets
      <4> DEFINE n == IF m < i THEN m ELSE m + 1
      <4>2. n \in DOMAIN waiting /\ n # i /\ waiting[n] = x
        BY <4>1, <2>2, <2>3
      <4> QED
        BY <4>2, <2>1, <1>0 DEF Tickets
    <3> QED
      BY <3>1, <3>2
  <2>5. Once'
    <3> SUFFICES ASSUME NEW m \in DOMAIN waiting', NEW n \in DOMAIN waiting',
                        waiting'[m] = waiting'[n]
                 PROVE  m = n
      OBVIOUS
    <3> DEFINE old(k) == IF k < i THEN k ELSE k + 1
    <3>1. old(m) \in DOMAIN waiting /\ old(n) \in DOMAIN waiting
          /\ waiting[old(m)] = waiting[old(n)]
      BY <2>2, <2>3
    <3>2. old(m) = old(n)
      BY <3>1, <1>0
    <3> QED
      BY <3>2, <2>2, <2>3
  <2>6. /\ \A k \in Job : k # j => pc'[k] = Woken[k]
        /\ pc[j] = "trying" /\ pc'[j] = "refused"
    BY <1>2, WokenType DEF Refuse
  <2>7. Waiters' = Waiters \ {j}
    BY <2>6, WokenType DEF Waiters
  <2>8. Holders' = Holders /\ running' = running
    BY <1>2, <2>6, WokenType DEF Holders, Refuse
  <2> QED
    BY <1>0, <2>4, <2>5, <2>7, <2>8 DEF NothingLeaks
<1>3. ASSUME NEW j \in Job, Admit(j) PROVE NothingLeaks'
  <2>1. waiting # <<>> /\ waiting[1] = j /\ waiting' = Tail(waiting)
    BY <1>3 DEF Admit, IsFront
  <2>2. /\ Len(waiting) \in Nat /\ Len(waiting) > 0 /\ DOMAIN waiting = 1..Len(waiting)
        /\ DOMAIN waiting' = 1..(Len(waiting) - 1)
        /\ \A k \in DOMAIN waiting' : waiting'[k] = waiting[k + 1]
    BY <2>1
  <2>3. Tickets' = Tickets \ {j}
    <3>1. ASSUME NEW x \in Tickets, x # j PROVE x \in Tickets'
      <4>1. PICK m \in DOMAIN waiting : waiting[m] = x
        BY <3>1 DEF Tickets
      <4>2. m # 1
        BY <2>1, <3>1, <4>1
      <4>3. m - 1 \in DOMAIN waiting' /\ waiting'[m - 1] = waiting[m]
        <5>1. m \in 1..Len(waiting)
          BY <2>2
        <5>2. m - 1 \in 1..(Len(waiting) - 1) /\ (m - 1) + 1 = m
          BY <4>2, <5>1, <2>2
        <5> QED
          BY <5>2, <2>2
      <4> QED
        BY <4>3, <4>1 DEF Tickets
    <3>2. ASSUME NEW x \in Tickets' PROVE x \in Tickets /\ x # j
      <4>1. PICK m \in DOMAIN waiting' : waiting'[m] = x
        BY <3>2 DEF Tickets
      <4>2. m + 1 \in DOMAIN waiting /\ m + 1 # 1 /\ waiting[m + 1] = x /\ 1 \in DOMAIN waiting
        BY <4>1, <2>2
      <4> QED
        BY <4>2, <2>1, <1>0 DEF Tickets
    <3> QED
      BY <3>1, <3>2
  <2>4. Once'
    <3> SUFFICES ASSUME NEW m \in DOMAIN waiting', NEW n \in DOMAIN waiting',
                        waiting'[m] = waiting'[n]
                 PROVE  m = n
      OBVIOUS
    <3>1. m + 1 \in DOMAIN waiting /\ n + 1 \in DOMAIN waiting
          /\ waiting[m + 1] = waiting[n + 1]
      BY <2>2
    <3>2. m + 1 = n + 1
      BY <3>1, <1>0
    <3> QED
      BY <3>2, <2>2
  <2>5. /\ \A k \in Job : k # j => pc'[k] = Woken[k]
        /\ pc[j] = "trying" /\ pc'[j] = "running" /\ running' = running + 1
    BY <1>3, WokenType DEF Admit
  <2>6. Waiters' = Waiters \ {j}
    BY <2>5, WokenType DEF Waiters
  <2>7. Holders' = Holders \cup {j} /\ j \notin Holders
    BY <2>5, WokenType DEF Holders
  <2>8. Cardinality(Holders') = Cardinality(Holders) + 1
    BY <2>7, HoldersFinite, FS_AddElement
  <2> QED
    BY <1>0, <2>3, <2>4, <2>5, <2>6, <2>8 DEF NothingLeaks
<1>4. ASSUME NEW j \in Job, Release(j) PROVE NothingLeaks'
  <2>1. /\ \A k \in Job : k # j => pc'[k] = Woken[k]
        /\ pc[j] = "running" /\ pc'[j] = "done"
        /\ running' = running - 1 /\ waiting' = waiting
    BY <1>4, WokenType DEF Release
  <2>2. Waiters' = Waiters
    BY <2>1, WokenType DEF Waiters
  <2>3. Holders' = Holders \ {j} /\ j \in Holders
    BY <2>1, WokenType DEF Holders
  <2>4. Cardinality(Holders') = Cardinality(Holders) - 1
    BY <2>3, HoldersFinite, FS_RemoveElement
  <2> QED
    BY <1>0, <2>1, <2>2, <2>4 DEF NothingLeaks, Tickets
<1>5. ASSUME \/ \E j \in Job : Park(j) \/ TimeOut(j) \/ cancel(j)
             \/ \E n \in Limits : set_max_concurrent(n)
      PROVE NothingLeaks'
  <2>1. /\ \A k \in Job : pc[k] \in {"trying", "parked"} <=> pc'[k] \in {"trying", "parked"}
        /\ \A k \in Job : pc[k] = "running" <=> pc'[k] = "running"
        /\ running' = running /\ waiting' = waiting
    BY <1>5, WokenType DEF Park, TimeOut, cancel, set_max_concurrent, queue, notes
  <2>2. Waiters' = Waiters /\ Holders' = Holders
    BY <2>1 DEF Waiters, Holders
  <2> QED
    BY <1>0, <2>1, <2>2 DEF NothingLeaks, Tickets
<1>6. ASSUME UNCHANGED <<pc, queue>> PROVE NothingLeaks'
  BY <1>0, <1>6 DEF NothingLeaks, Tickets, Waiters, Holders, queue
<1>7. ASSUME \/ \E j \in Job : CancelDirectly(j)
             \/ \E t \in Thread : Notify(t)
             \/ UNCHANGED vars
      PROVE UNCHANGED <<pc, queue>>
  BY <1>7 DEF CancelDirectly, Notify, TakeSnapshot, Deliver, vars
<1> QED
  BY <1>1, <1>2, <1>3, <1>4, <1>5, <1>6, <1>7 DEF Next, Wait

\* No path through acquire, cancel and drop leaks a ticket or a slot.
THEOREM NothingEverLeaks == Spec => []NothingLeaks
<1>1. Init => NothingLeaks
  <2> SUFFICES ASSUME Init PROVE NothingLeaks
    OBVIOUS
  <2>1. Tickets = {} /\ Waiters = {} /\ Holders = {} /\ running = 0 /\ waiting = <<>>
    BY DEF Init, Tickets, Waiters, Holders
  <2> QED
    BY <2>1, FS_EmptySet DEF NothingLeaks
<1>2. TypeOK /\ TypeOK' /\ NothingLeaks /\ [Next]_vars => NothingLeaks'
  BY LeakStep
<1> QED
  BY <1>1, <1>2, TypeInvariance, PTL DEF Spec, HungSpec

\* Only Admit gives a permit, within the limit and to the front ticket.
LEMMA AdmissionStep ==
    ASSUME TypeOK, NothingLeaks, [Next]_vars,
           NEW j \in Job, pc[j] # "running", pc'[j] = "running"
    PROVE  /\ Cardinality(Holders') <= max
           /\ \A i \in DOMAIN waiting : waiting[i] = j => i = 1
<1> USE DEF TypeOK
<1>1. Admit(j)
  BY WokenType DEF Next, Wait, Enqueue, Refuse, Admit, Park, TimeOut, Release, cancel,
     CancelDirectly, set_max_concurrent, Notify, TakeSnapshot, Deliver, vars, Labels
<1>2. waiting # <<>> /\ waiting[1] = j /\ 1 \in DOMAIN waiting /\ running < max
  BY <1>1 DEF Admit, IsFront, Free
<1>3. Holders' = Holders \cup {j} /\ j \notin Holders
  BY <1>1, WokenType DEF Holders, Admit
<1>4. Cardinality(Holders') = running + 1
  BY <1>3, HoldersFinite, FS_AddElement DEF NothingLeaks
<1> QED
  BY <1>2, <1>4 DEF NothingLeaks

\* Admission keeps to the limit and to the order of arrival.
THEOREM AdmissionIsFair == Spec => FairAdmission
<1>1. TypeOK /\ NothingLeaks /\ [Next]_vars =>
        [\A j \in Job : pc[j] # "running" /\ pc'[j] = "running" =>
            /\ Cardinality(Holders') <= max
            /\ \A i \in DOMAIN waiting : waiting[i] = j => i = 1]_vars
  BY AdmissionStep
<1> QED
  BY <1>1, TypeInvariance, NothingEverLeaks, PTL DEF Spec, HungSpec, FairAdmission

=============================================================================
