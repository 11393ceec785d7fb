---------------------------- MODULE ComputeQueue ----------------------------
(***************************************************************************)
(* The admission queue for heavy compute jobs: a FIFO of tickets, a count  *)
(* of running jobs, a condition variable its waiters park on, and the      *)
(* snapshots of the registry that each transition sends to the front end.  *)
(*                                                                         *)
(* Every critical section under `gate` is one action: the only transition  *)
(* made without it, the enqueue, adds at the back and cannot change what   *)
(* such a section has read.                                                *)
(***************************************************************************)
EXTENDS Integers, Sequences, FiniteSets

CONSTANTS
    Job,          \* the threads that call acquire, each once
    Limits,       \* values the user may set max_concurrent to
    Backstop,     \* does the 200 ms timeout of the wait ever fire?
    DirectCancel  \* do hosts set a job's flag without the queue (masters.rs)?

ASSUME JobAssumption == IsFiniteSet(Job) /\ "canceller" \notin Job
ASSUME LimitAssumption == Limits \subseteq Nat
ASSUME ModeAssumption == Backstop \in BOOLEAN /\ DirectCancel \in BOOLEAN

\* The threads that notify: the jobs' own and the one that serves `cancel`.
Thread == Job \cup {"canceller"}

VARIABLES
    pc,        \* [Job -> where its thread is in acquire and after]
    waiting,   \* tickets in FIFO order
    registry,  \* [Job -> "none", or the state of its entry]
    running,   \* running_count
    max,       \* max_concurrent
    flag,      \* jobs whose cancel flag is set
    due,       \* threads that have left the gate and owe a notification
    taken,     \* threads that hold a snapshot not delivered yet
    snap,      \* [Thread -> the snapshot it holds]
    shown      \* the snapshot the front end received last

queue  == <<waiting, registry, running>>
notes  == <<due, taken, snap, shown>>
vars   == <<pc, queue, max, flag, notes>>

NoEntries == [j \in Job |-> "none"]

Quiet(t) == t \notin due \cup taken

Init ==
    /\ pc = [j \in Job |-> "new"]
    /\ waiting = <<>>
    /\ registry = NoEntries
    /\ running = 0 /\ max = 1
    /\ flag = {}
    /\ due = {} /\ taken = {}
    /\ snap = [t \in Thread |-> NoEntries]
    /\ shown = NoEntries

\* cv.notify_all: every parked thread will look again.
Woken == [j \in Job |-> IF pc[j] = "parked" THEN "trying" ELSE pc[j]]

Owe(t) == due' = due \cup {t} /\ UNCHANGED <<taken, snap, shown>>

\* `retain` drops the job's ticket; a job has one (NothingLeaks).
Without(i) ==
    [k \in 1..(Len(waiting) - 1) |-> IF k < i THEN waiting[k] ELSE waiting[k + 1]]

IsFront(j) == waiting # <<>> /\ Head(waiting) = j

Free == running < max

-----------------------------------------------------------------------------
Enqueue(j) ==
    /\ pc[j] = "new"
    /\ waiting' = Append(waiting, j)
    /\ registry' = [registry EXCEPT ![j] = "queued"]
    /\ pc' = [pc EXCEPT ![j] = "trying"]
    /\ Owe(j)
    /\ UNCHANGED <<running, max, flag>>

\* Mutant: the refused job's ticket stays in the queue.
Refuse_KeepTicket(j) ==
    /\ pc[j] = "trying" /\ Quiet(j)
    /\ j \in flag
    /\ registry' = [registry EXCEPT ![j] = "none"]
    /\ pc' = [Woken EXCEPT ![j] = "refused"]
    /\ Owe(j)
    /\ UNCHANGED <<waiting, running, max, flag>>

\* One turn of the wait loop under the gate: refused, admitted or parked.
Refuse(j) ==
    /\ pc[j] = "trying" /\ Quiet(j)
    /\ j \in flag
    /\ \E i \in DOMAIN waiting : waiting[i] = j /\ waiting' = Without(i)
    /\ registry' = [registry EXCEPT ![j] = "none"]
    /\ pc' = [Woken EXCEPT ![j] = "refused"]
    /\ Owe(j)
    /\ UNCHANGED <<running, max, flag>>

\* Mutant: the limit is not looked at.
Admit_Anyway(j) ==
    /\ pc[j] = "trying" /\ Quiet(j)
    /\ j \notin flag /\ IsFront(j)
    /\ waiting' = Tail(waiting)
    /\ running' = running + 1
    /\ registry' = [registry EXCEPT ![j] = "running"]
    /\ pc' = [Woken EXCEPT ![j] = "running"]
    /\ Owe(j)
    /\ UNCHANGED <<max, flag>>

Admit(j) ==
    /\ pc[j] = "trying" /\ Quiet(j)
    /\ j \notin flag /\ IsFront(j) /\ Free
    /\ waiting' = Tail(waiting)
    /\ running' = running + 1
    /\ registry' = [registry EXCEPT ![j] = "running"]
    /\ pc' = [Woken EXCEPT ![j] = "running"]
    /\ Owe(j)
    /\ UNCHANGED <<max, flag>>

Park(j) ==
    /\ pc[j] = "trying" /\ Quiet(j)
    /\ j \notin flag /\ ~(IsFront(j) /\ Free)
    /\ pc' = [pc EXCEPT ![j] = "parked"]
    /\ UNCHANGED <<queue, max, flag, notes>>

\* Mutant: wait where the code says wait_timeout.
TimeOut_Never(j) == pc[j] = "parked" /\ FALSE /\ UNCHANGED vars

TimeOut(j) ==
    /\ Backstop
    /\ pc[j] = "parked"
    /\ pc' = [pc EXCEPT ![j] = "trying"]
    /\ UNCHANGED <<queue, max, flag, notes>>

\* The job ends, by return or by unwinding, and its permit is dropped.
Release(j) ==
    /\ pc[j] = "running" /\ Quiet(j)
    /\ running' = running - 1
    /\ registry' = [registry EXCEPT ![j] = "none"]
    /\ pc' = [Woken EXCEPT ![j] = "done"]
    /\ Owe(j)
    /\ UNCHANGED <<waiting, max, flag>>

cancel(j) ==
    /\ Quiet("canceller")
    /\ registry[j] # "none"
    /\ flag' = flag \cup {j}
    /\ pc' = Woken
    /\ Owe("canceller")
    /\ UNCHANGED <<queue, max>>

\* cancel_master_build and its like set the same flag on their own, at any
\* time between the creation of the job's handle and its end.
CancelDirectly(j) ==
    /\ DirectCancel
    /\ pc[j] \notin {"refused", "done"} /\ j \notin flag
    /\ flag' = flag \cup {j}
    /\ UNCHANGED <<pc, queue, max, notes>>

\* Mutant: zero is a limit like any other.
set_max_concurrent_Zero(n) ==
    /\ max' = n
    /\ pc' = Woken
    /\ UNCHANGED <<queue, flag, notes>>

\* Mutant: waiters find out about a higher limit at the next release.
set_max_concurrent_Silent(n) ==
    /\ max' = IF n > 1 THEN n ELSE 1
    /\ UNCHANGED <<pc, queue, flag, notes>>

set_max_concurrent(n) ==
    /\ max' = IF n > 1 THEN n ELSE 1
    /\ pc' = Woken
    /\ UNCHANGED <<queue, flag, notes>>

\* notify, outside every lock: a snapshot is taken, then handed over.
TakeSnapshot(t) ==
    /\ t \in due
    /\ due' = due \ {t}
    /\ taken' = taken \cup {t}
    /\ snap' = [snap EXCEPT ![t] = registry]
    /\ UNCHANGED <<pc, queue, max, flag, shown>>

Deliver(t) ==
    /\ t \in taken
    /\ taken' = taken \ {t}
    /\ shown' = snap[t]
    /\ snap' = [snap EXCEPT ![t] = NoEntries]
    /\ UNCHANGED <<pc, queue, max, flag, due>>

-----------------------------------------------------------------------------
Wait(j) == Refuse(j) \/ Admit(j) \/ Park(j)
Notify(t) == TakeSnapshot(t) \/ Deliver(t)

Next ==
    \/ \E j \in Job : \/ Enqueue(j) \/ Wait(j) \/ TimeOut(j) \/ Release(j)
                      \/ cancel(j) \/ CancelDirectly(j)
    \/ \E n \in Limits : set_max_concurrent(n)
    \/ \E t \in Thread : Notify(t)

\* A thread that can take the gate gets it, a wait times out, and a
\* notification is delivered.  Nobody has to enqueue, cancel or reconfigure.
ThreadFairness ==
    /\ \A j \in Job : WF_vars(Wait(j)) /\ WF_vars(TimeOut(j))
    /\ \A t \in Thread : WF_vars(Notify(t))

\* Running jobs may run for ever.
HungSpec == Init /\ [][Next]_vars /\ ThreadFairness

\* Running jobs end.
Spec == HungSpec /\ \A j \in Job : WF_vars(Release(j))

-----------------------------------------------------------------------------
Labels == {"new", "trying", "parked", "refused", "running", "done"}
Entries == [Job -> {"none", "queued", "running"}]

\* The shape of the queue's state.
TypeOK ==
    /\ pc \in [Job -> Labels]
    /\ waiting \in Seq(Job)
    /\ registry \in Entries
    /\ running \in Int /\ max \in Nat \ {0}
    /\ flag \subseteq Job
    /\ due \subseteq Thread /\ taken \subseteq Thread
    /\ snap \in [Thread -> Entries] /\ shown \in Entries

Waiters == {j \in Job : pc[j] \in {"trying", "parked"}}
Holders == {j \in Job : pc[j] = "running"}
Tickets == {waiting[i] : i \in DOMAIN waiting}

\* A thread is parked only while there is nothing for it to do: it is not
\* the front ticket of a queue with a free slot, and it is not cancelled,
\* unless by a host that sets flags on its own.  So no wake-up of the queue's
\* is ever lost, and the 200 ms timeout is needed for such hosts only.
NoLostWakeup ==
    \A j \in Job : pc[j] = "parked" =>
        (j \in flag => DirectCancel) /\ ~(IsFront(j) /\ Free)

\* The tickets are exactly the threads inside acquire, each once, and the
\* counter is exactly the number of live permits: no path through acquire,
\* cancel and drop leaks a slot or a ticket.
NothingLeaks ==
    /\ Tickets = Waiters
    /\ \A i, k \in DOMAIN waiting : waiting[i] = waiting[k] => i = k
    /\ running = Cardinality(Holders)

\* A permit is granted only within the limit of that moment, and to the
\* thread that has waited longest: everyone still waiting came later.
FairAdmission ==
    [][\A j \in Job : pc[j] # "running" /\ pc'[j] = "running" =>
          /\ Cardinality(Holders') <= max
          /\ \A i \in DOMAIN waiting : waiting[i] = j => i = 1]_vars

\* Everybody who enters acquire leaves it, admitted or refused, provided
\* that the jobs that hold a slot end.
EveryoneIsServed ==
    (\A j \in Job : WF_vars(Release(j))) =>
        \A j \in Job : pc[j] = "trying" ~> pc[j] \in {"running", "refused", "done"}

\* A job cancelled while it is queued leaves acquire even though the job in
\* the slot never ends: the flag is noticed without anyone releasing.
CancelIsNoticed ==
    \A j \in Job : (j \in flag /\ j \in Waiters) ~> (j \notin Waiters)
=============================================================================
