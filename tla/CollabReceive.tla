--------------------------- MODULE CollabReceive ----------------------------
(***************************************************************************)
(* The receiving side of a collaboration project: the scheduler core       *)
(* (crates/athenaeum-core/src/collab/scheduler/core.rs), the executor that *)
(* performs its commands (api/collab_live/executor.rs), the transfer run   *)
(* it feeds (sharing/iroh/assign.rs, run_live) and the receive gate both   *)
(* share with personal transfers (module ReceiveGate).                     *)
(*                                                                         *)
(* Core and executor belong to one task, the runtime's loop: a handler is  *)
(* one action, with the step of the core and the commands that come out of *)
(* it.  Preparing a fetch, the run and the landing are tasks of their own; *)
(* each leaves an event for the loop.  The frames are those of one         *)
(* project.                                                                *)
(***************************************************************************)
EXTENDS ReceiveGate, FiniteSetsExt

CONSTANTS
    N,          \* the number of frames; they are 1 .. N, in the order of keys
    Version,    \* what a frame may be: a content version with its hash
    Device,     \* the devices of the other members
    Holds,      \* the devices that hold each frame
    Personal,   \* personal transfers, each of which comes at most once
    Limits,     \* values the user may set the gate's limit to
    Streams,    \* values the user may set the number of streams to
    Limit0, Slots0, \* the two settings at the start
    MaxItem,    \* bounds: fetches the executor may remember at once,
    MaxRun,     \* runs that may exist at once
    Possible,   \* the faults and events that may happen, each once
    MaxEvents   \* how many of them may happen in one behaviour

Kind == {"version", "exclude", "gone", "storage", "streams", "limit", "presence",
         "close", "idle", "fetch", "local", "gc", "landing", "panic", "abandon",
         "remount"}

ASSUME BoundAssumption == {N, MaxItem, MaxRun, Limit0, Slots0} \subseteq Nat \ {0}
ASSUME WorldAssumption == Version # {} /\ "lane" \notin Personal
ASSUME HoldsAssumption == Holds \in [1 .. N -> SUBSET Device]
ASSUME LimitAssumption == Limits \subseteq Nat \ {0} /\ Streams \subseteq Nat
ASSUME KindAssumption == Possible \subseteq Kind /\ MaxEvents \in Nat

VARIABLES
    x,          \* the loop's state: Core and Executor
    gate, news, \* the receive gate; the loop has a change of its flag to see
    served,     \* the personal transfers that are over
    taken,      \* the items a run has taken from its queue and not ended
    runs,       \* the state of each run
    row,        \* the frames' catalog rows
    storage,    \* the collaboration storage is there
    present,    \* the devices that are online
    dirty,      \* refreshes the loop has been asked for
    spent       \* the faults and events that have happened

vars == <<x, gate, news, served, taken, runs, row, storage, present, dirty, spent>>

-----------------------------------------------------------------------------
Frame == 1 .. N
Id == 1 .. MaxItem
RunId == 1 .. MaxRun

None == "none"
NoFlight == [id |-> 0, ver |-> None, live |-> {}, active |-> {}]
NoItem == [frame |-> 0, ver |-> None, phase |-> None, run |-> 0,
           cancelled |-> FALSE, event |-> None]

\* Core: lane, yielded, requested, storageOk, slots, wants, lists, flight,
\* dialOff, frameOff.  Executor: need, fed, items, permit, requesting, run.
NewExecutor(n, ok) ==
    [lane |-> FALSE, yielded |-> FALSE, requested |-> FALSE, storageOk |-> ok,
     slots |-> n, wants |-> [f \in Frame |-> None],
     lists |-> [f \in Frame |-> [v \in Version |-> {}]],
     flight |-> [f \in Frame |-> NoFlight], dialOff |-> {}, frameOff |-> {},
     need |-> [f \in Frame |-> None], fed |-> [f \in Frame |-> <<>>],
     items |-> [i \in Id |-> NoItem], permit |-> FALSE, requesting |-> FALSE,
     run |-> 0]

Init ==
    /\ gate = NewGate(Limit0) /\ x = NewExecutor(Slots0, TRUE)
    /\ news = FALSE /\ served = {} /\ taken = {} /\ spent = {}
    /\ runs = [r \in RunId |-> None]
    /\ row = [f \in Frame |-> [ver |-> CHOOSE v \in Version : TRUE, state |-> "wanted"]]
    /\ storage = TRUE /\ present = Device /\ dirty = {"need"}

Spend(k) ==
    /\ k \in Possible \ spent /\ Cardinality(spent) < MaxEvents
    /\ spent' = spent \cup {k}

-----------------------------------------------------------------------------
(***************************************************************************)
(* The core, as functions of the loop's state.  The executor's part of a   *)
(* command is done with it.                                                *)
(***************************************************************************)
Flying(s) == {f \in Frame : s.flight[f] # NoFlight}

Available(s, f, v) == s.lists[f][v] \ s.dialOff

Cancel(s, fs) ==
    LET ids == {s.flight[f].id : f \in fs \cap Flying(s)}
    IN  [s EXCEPT !.flight = [f \in Frame |-> IF f \in fs THEN NoFlight ELSE @[f]],
                  !.items = [i \in Id |-> IF i \in ids
                                            THEN [@[i] EXCEPT !.cancelled = TRUE] ELSE @[i]]]

\* The next number that is free, if there is one.
Least(S) == {i \in S : \A k \in S : i <= k}

\* The states after a fetch of the frame was started: none at the bound.
Start(s, f) ==
    LET from == Available(s, f, s.wants[f])
    IN  {[s EXCEPT !.flight[f] = [id |-> i, ver |-> s.wants[f], live |-> from,
                                  active |-> from],
                   !.items[i] = [NoItem EXCEPT !.frame = f, !.ver = s.wants[f],
                                               !.phase = "preparing"]]
           : i \in Least({k \in Id : s.items[k] = NoItem})}

\* Mutant: the run's queue is closed and the permit stays.
ReleaseLane_Keep(s) == [s EXCEPT !.run = 0]

\* ReleaseLane: the run's queue is closed and the permit goes back.
ReleaseLane(s) == [s EXCEPT !.run = 0, !.permit = FALSE]

\* RequestLane
RequestLane(s) ==
    [s EXCEPT !.requested = TRUE, !.requesting = @ \/ ~s.permit]

\* The live set of every fetch becomes what is available now.
Reconcile(s) ==
    [s EXCEPT !.flight = [f \in Frame |->
        LET now == Available(s, f, s.flight[f].ver)
        IN  IF s.flight[f] = NoFlight THEN NoFlight
            ELSE [s.flight[f] EXCEPT !.live = now,
                                     !.active = IF now = s.flight[f].live THEN @ ELSE @ \cup now]]]

Startable(s) ==
    {f \in Frame : /\ s.storageOk /\ s.wants[f] # None /\ s.flight[f] = NoFlight
                   /\ f \notin s.frameOff /\ Available(s, f, s.wants[f]) # {}}

\* One frame's turn: it needs a slot, if need be that of fetches which have
\* neither a provider nor a connection left.
TakeSlot(s, f) ==
    LET over == Cardinality(Flying(s)) + 1 - s.slots
        dead == {k \in Flying(s) : s.flight[k].live = {} /\ s.flight[k].active = {}}
        first == {k \in dead : Cardinality({j \in dead : j < k}) < over}
    IN  IF Cardinality(Flying(s)) < s.slots THEN Start(s, f)
        ELSE IF Cardinality(first) < over THEN {s}
        ELSE Start(Cancel(s, first), f)

\* The frames have their turns in this order.
Turns(s, order) ==
    LET After[k \in 0 .. Len(order)] ==
          IF k = 0 THEN {s} ELSE UNION {TakeSlot(t, order[k]) : t \in After[k - 1]}
    IN  After[Len(order)]

\* Who comes first depends on ages, rarity and a draw: any order may be.
StartAll(s) == UNION {Turns(s, order) : order \in SetToSeqs(Startable(s))}

\* Mutant: a yielded lane is kept when its fetches are gone.
Drained_Keep(s) == s

\* A yielded lane goes back when its fetches are gone.
Drained(s) ==
    IF s.yielded /\ Flying(s) = {} THEN ReleaseLane([s EXCEPT !.yielded = FALSE]) ELSE s

\* Mutant: a lane with nothing more to start goes back at once.
Schedule_Early(s) ==
    IF Startable(s) = {}
      THEN {IF s.lane THEN ReleaseLane([s EXCEPT !.lane = FALSE]) ELSE s}
    ELSE IF s.lane THEN StartAll(s)
    ELSE {IF ~s.requested /\ ~s.yielded /\ Flying(s) = {} THEN RequestLane(s) ELSE s}

Schedule(s) ==
    IF Startable(s) = {}
      THEN {IF s.lane /\ Flying(s) = {} THEN ReleaseLane([s EXCEPT !.lane = FALSE]) ELSE s}
    ELSE IF s.lane THEN StartAll(s)
    ELSE {IF ~s.requested /\ ~s.yielded /\ Flying(s) = {} THEN RequestLane(s) ELSE s}

\* How every input ends: what may become of the states S.
Step(S) == UNION {Schedule(t) : t \in {Drained(u) : u \in {Reconcile(s) : s \in S}}}

\* Mutant: a late result ends whatever fetch the frame has.
Finish_AnyFetch(s, i, result) ==
    LET f == s.items[i].frame
        t == [s EXCEPT !.items[i] = NoItem, !.flight[f] = NoFlight]
    IN  CASE result = "landed"    -> [t EXCEPT !.wants[f] = None, !.frameOff = @ \ {f}]
          [] result = "failed"    -> [t EXCEPT !.frameOff = @ \cup {f}]
          [] result = "cancelled" -> t

\* Finished, after the executor has dropped the item; a fetch the core has
\* cancelled, or replaced, changes nothing.
Finish(s, i, result) ==
    LET f == s.items[i].frame
        t == [s EXCEPT !.items[i] = NoItem]
        u == [t EXCEPT !.flight[f] = NoFlight]
    IN  IF s.flight[f].id # i THEN t
        ELSE CASE result = "landed"    -> [u EXCEPT !.wants[f] = None, !.frameOff = @ \ {f}]
               [] result = "failed"    -> [u EXCEPT !.frameOff = @ \cup {f}]
               [] result = "cancelled" -> u

\* NeedSet: want is the version wanted of each frame, or None.
ApplyNeedSet(s, want) ==
    LET moved == {f \in Flying(s) : s.flight[f].ver # want[f]}
        t == Cancel(s, moved)
    IN  [t EXCEPT
           !.wants = want,
           !.lists = [f \in Frame |-> [v \in Version |-> IF v = want[f] THEN @[f][v] ELSE {}]],
           !.frameOff = {f \in @ : want[f] # None /\ s.wants[f] \in {None, want[f]}}]

\* DialFailed and ConnectionClosed
BackOff(s, d) ==
    [s EXCEPT !.dialOff = @ \cup {d},
              !.flight = [f \in Frame |-> [s.flight[f] EXCEPT !.active = @ \ {d}]]]

-----------------------------------------------------------------------------
(***************************************************************************)
(* The loop's handlers.  A handler takes the loop to one of the states S;  *)
(* had says that it holds the gate's permit, which goes back if no state   *)
(* of S keeps it.                                                          *)
(***************************************************************************)
Becomes(had, S) ==
    \E y \in S : /\ x' = y
                 /\ gate' = IF had /\ ~y.permit THEN Leave(gate, "lane") ELSE gate

Signalled == gate'.yield # gate.yield

Handles(S) == Becomes(x.permit, S) /\ news' = (news \/ Signalled)

world == <<served, row, storage, present>>

\* on_event, Lane: the permit arrives.
LaneGranted ==
    /\ x.requesting /\ ~x.permit /\ "lane" \in gate.held
    /\ Becomes(TRUE, Step({[x EXCEPT !.requesting = FALSE, !.permit = TRUE, !.lane = TRUE,
                                    !.yielded = FALSE, !.requested = FALSE]}))
    /\ news' = (news \/ Signalled)
    /\ UNCHANGED <<world, taken, runs, dirty, spent>>

\* Lane with admitted = FALSE
Yielded(s) ==
    IF s.lane \/ s.yielded THEN [s EXCEPT !.lane = FALSE, !.yielded = TRUE] ELSE s

\* on_yield_changed: only a rise is passed on.
YieldChanged ==
    /\ news
    /\ Becomes(x.permit, IF gate.yield THEN Step({Yielded(x)}) ELSE {x})
    /\ news' = Signalled
    /\ UNCHANGED <<world, taken, runs, dirty, spent>>

\* feed_lists for the frames fs: the lists that differ from those last fed
\* go to the core in one step.
FeedLists(s, fs) ==
    LET derived == [f \in Frame |-> Holds[f] \cap present]
        new == {f \in fs : s.need[f] # None /\ s.fed[f] # <<derived[f]>>}
    IN  IF new = {} THEN {s}
        ELSE Step({[s EXCEPT
               !.fed = [f \in Frame |-> IF f \in new THEN <<derived[f]>> ELSE @[f]],
               !.lists = [f \in Frame |-> [v \in Version |->
                            IF f \in new /\ v = s.need[f] THEN derived[f] ELSE @[f][v]]]]})

\* Mutant: the list fed for an older version counts as fed.
KeptFeed_AnyVersion(s, want, refeed) ==
    [f \in Frame |-> IF ~refeed /\ want[f] # None /\ s.need[f] # None THEN s.fed[f] ELSE <<>>]

KeptFeed(s, want, refeed) ==
    [f \in Frame |-> IF ~refeed /\ want[f] # None /\ s.need[f] = want[f] THEN s.fed[f] ELSE <<>>]

\* refresh_need: the need set is read from the catalog and fed, then the
\* lists of the frames that entered it, or of all of them after an epoch
\* change.
RefreshNeed(refeed) ==
    LET want == [f \in Frame |-> IF x.storageOk /\ row[f].state = "wanted"
                                   THEN row[f].ver ELSE None]
        kept == KeptFeed(x, want, refeed)
        read == [ApplyNeedSet(x, want) EXCEPT !.need = want, !.fed = kept]
        entered == {f \in Frame : kept[f] = <<>>}
        due == IF refeed THEN "epoch" ELSE "need"
    IN  /\ due \in dirty /\ dirty' = dirty \ {due}
        /\ Handles(UNION {FeedLists(s, entered) : s \in Step({read})})
        /\ UNCHANGED <<world, taken, runs, spent>>

RefreshProviders ==
    /\ "providers" \in dirty /\ dirty' = dirty \ {"providers"}
    /\ Handles(FeedLists(x, Frame))
    /\ UNCHANGED <<world, taken, runs, spent>>

\* project_gone
ProjectGone ==
    LET none == [f \in Frame |-> None]
    IN  /\ "gone" \in dirty /\ dirty' = dirty \ {"gone"}
        /\ Handles(Step({[Cancel(x, Frame) EXCEPT
                 !.need = none, !.fed = [f \in Frame |-> <<>>], !.wants = none,
                 !.lists = [f \in Frame |-> [v \in Version |-> {}]], !.frameOff = {}]}))
        /\ UNCHANGED <<world, taken, runs, spent>>

\* StorageEvent::Availability
StorageSeen ==
    LET s == IF storage THEN x ELSE Cancel(x, Frame)
    IN  /\ x.storageOk # storage
        /\ Handles(Step({[s EXCEPT !.storageOk = storage]}))
        /\ dirty' = dirty \cup {"need"}
        /\ UNCHANGED <<world, taken, runs, spent>>

\* Mutant: the number is taken as it is.
SlotsFor_Raw(n) == n

\* set_slots
SlotsFor(n) == Max({n, 1})

SetStreams ==
    /\ Spend("streams")
    /\ \E n \in Streams : Handles(Step({[x EXCEPT !.slots = SlotsFor(n)]}))
    /\ UNCHANGED <<world, taken, runs, dirty>>

\* Tick: a back-off is over.
Tick ==
    /\ \/ \E d \in x.dialOff : Handles(Step({[x EXCEPT !.dialOff = @ \ {d}]}))
       \/ \E f \in x.frameOff : Handles(Step({[x EXCEPT !.frameOff = @ \ {f}]}))
    /\ UNCHANGED <<world, taken, runs, dirty, spent>>

ClearBackoffs ==
    /\ x.dialOff \cup x.frameOff # {}
    /\ Handles(Step({[x EXCEPT !.dialOff = {}, !.frameOff = {}]}))
    /\ UNCHANGED <<world, taken, runs, dirty, spent>>

\* on_verdict and on_pool
ProviderLost ==
    /\ Spend("close")
    /\ \E d \in Device : Handles(Step({BackOff(x, d)}))
    /\ UNCHANGED <<world, taken, runs, dirty>>

ConnectionIdle ==
    /\ Spend("idle")
    /\ \E d \in Device : Handles(Step({
           [x EXCEPT !.flight = [f \in Frame |-> [x.flight[f] EXCEPT !.active = @ \ {d}]]]}))
    /\ UNCHANGED <<world, taken, runs, dirty>>

DialOk ==
    /\ taken # {}
    /\ \E d \in Device : Handles(Step({
           [x EXCEPT !.dialOff = @ \ {d},
                     !.flight = [f \in Frame |->
                         IF d \in x.flight[f].live
                           THEN [x.flight[f] EXCEPT !.active = @ \cup {d}] ELSE x.flight[f]]]}))
    /\ UNCHANGED <<world, taken, runs, dirty, spent>>

\* What the core is told of a prepared or landed item.
Result(e) == CASE e \in {"yes", "gc"}                        -> "landed"
               [] e \in {"stale", "unavailable", "cancelled"} -> "cancelled"
               [] e = "failed"                                -> "failed"

\* on_landed, and on_prepared of an item that needs no fetch.
OnSettled(i) ==
    LET item == x.items[i]
    IN  /\ item.phase \in {"preparing", "landing"} /\ item.event \notin {None, "fetch"}
        /\ Handles(Step({Finish(x, i, Result(item.event))}))
        /\ dirty' = IF item.event = "stale" /\ (item.phase = "landing" \/ ~item.cancelled)
                      THEN dirty \cup {"need"} ELSE dirty
        /\ UNCHANGED <<world, taken, runs, spent>>

\* The rest of on_prepared: the item goes to the run, to a new one if there
\* is none.  A run that is over, its end not seen yet, will rule on it.
SendToRun(i) ==
    \E r \in IF x.run = 0 THEN Least({k \in RunId : runs[k] = None}) ELSE {x.run} :
        /\ runs' = IF x.run = 0 THEN [runs EXCEPT ![r] = "on"] ELSE runs
        /\ x' = [x EXCEPT !.items[i].phase = "sent", !.items[i].run = r,
                          !.items[i].event = None,
                          !.run = IF runs'[r] = "on" THEN r ELSE 0]
        /\ UNCHANGED <<gate, news>>

OnFetchable(i) ==
    LET item == x.items[i]
    IN  /\ item.phase = "preparing" /\ item.event = "fetch"
        /\ IF item.cancelled \/ ~x.permit
             THEN Handles(Step({Finish(x, i, "cancelled")})) /\ UNCHANGED runs
             ELSE SendToRun(i)
        /\ UNCHANGED <<world, taken, dirty, spent>>

\* on_done.  A cut at a yield may find the content complete.
OnDone(i) ==
    LET item == x.items[i]
    IN  /\ item.phase = "sent" /\ item.event # None
        /\ \/ /\ item.event \in {"done", "cancelled"} /\ ~item.cancelled
              /\ x' = [x EXCEPT !.items[i].phase = "landing", !.items[i].run = 0,
                                !.items[i].event = None]
              /\ UNCHANGED <<gate, news>>
           \/ /\ item.event # "done" \/ item.cancelled
              /\ Handles(Step({Finish(x, i, IF item.event = "failed" THEN "failed"
                                           ELSE "cancelled")}))
        /\ UNCHANGED <<world, taken, runs, dirty, spent>>

\* Mutant: items a run leaves in its queue are forgotten.
Orphans_Forgotten(r) == {}

\* The items whose fate only the run's end decides.
Orphans(r) == {i \in Id : x.items[i].phase = "sent" /\ x.items[i].run = r}

\* The items are finished one by one, in this order.
FinishAll(s, order, result) ==
    LET After[k \in 0 .. Len(order)] ==
          IF k = 0 THEN {s} ELSE Step({Finish(t, order[k], result) : t \in After[k - 1]})
    IN  After[Len(order)]

\* end_run: the outcomes the run sent come first.
OnRunEnded(r) ==
    LET result == IF runs[r] = "panicked" THEN "failed" ELSE "cancelled"
        over == [x EXCEPT !.run = IF @ = r THEN 0 ELSE @]
    IN  /\ runs[r] \in {"ended", "panicked"}
        /\ \A i \in Orphans(r) : x.items[i].event = None
        /\ runs' = [runs EXCEPT ![r] = None]
        /\ Handles(UNION {FinishAll(over, order, result) : order \in SetToSeqs(Orphans(r))})
        /\ UNCHANGED <<world, taken, dirty, spent>>

\* The node is mounted again: shutdown, and a new executor that reads its
\* need set first.
Remount ==
    /\ Spend("remount")
    /\ x' = NewExecutor(x.slots, storage)
    /\ gate' = Leave(gate, "lane")
    /\ news' = FALSE /\ taken' = {} /\ dirty' = {"need"}
    /\ runs' = [r \in RunId |-> None]
    /\ UNCHANGED world

-----------------------------------------------------------------------------
(***************************************************************************)
(* The executor's tasks.                                                   *)
(***************************************************************************)
quiet == <<gate, news, dirty, served, storage, present>>

Posted(i, e) == x' = [x EXCEPT !.items[i].event = e]

\* The request of the lane reaches the gate.
RequestRuns ==
    /\ x.requesting /\ "lane" \notin gate.held /\ gate.collab = <<>>
    /\ gate' = AcquireCollab(gate, "lane") /\ news' = (news \/ Signalled)
    /\ UNCHANGED <<x, world, taken, runs, dirty, spent>>

Fresh(i) ==
    row[x.items[i].frame] = [ver |-> x.items[i].ver, state |-> "wanted"]

Mark(i, state) == row' = [row EXCEPT ![x.items[i].frame].state = state]

\* prepare: a stale row, a dead store entry, content that is here already,
\* or a fetch.
PrepareEnds(i) ==
    /\ x.items[i].phase = "preparing" /\ x.items[i].event = None
    /\ \/ ~Fresh(i) /\ Posted(i, "stale") /\ UNCHANGED <<row, spent>>
       \/ Fresh(i) /\ Posted(i, "fetch") /\ UNCHANGED <<row, spent>>
       \/ Fresh(i) /\ Spend("gc") /\ Mark(i, "gc") /\ Posted(i, "gc")
       \/ Fresh(i) /\ Spend("local") /\ Mark(i, "held") /\ Posted(i, "yes")
       \/ Spend("local") /\ Posted(i, "failed") /\ UNCHANGED row
    /\ UNCHANGED <<quiet, taken, runs>>

\* run_live takes an item from its queue.
RunTakes(i) ==
    LET item == x.items[i]
    IN  /\ item.phase = "sent" /\ item.event = None /\ i \notin taken
        /\ runs[item.run] = "on" /\ ~gate.yield
        /\ Cardinality({k \in taken : x.items[k].run = item.run}) < x.slots
        /\ IF item.cancelled THEN Posted(i, "cancelled") /\ UNCHANGED taken
                             ELSE taken' = taken \cup {i} /\ UNCHANGED x
        /\ UNCHANGED <<quiet, runs, row, spent>>

\* A transfer ends: cancelled, cut at a yield, complete, or failed.
ItemEnds(i) ==
    LET item == x.items[i]
        flight == x.flight[item.frame]
    IN  /\ i \in taken /\ taken' = taken \ {i}
        /\ \/ (item.cancelled \/ gate.yield) /\ Posted(i, "cancelled") /\ UNCHANGED spent
           \/ /\ ~item.cancelled /\ flight.live \cup flight.active # {}
              /\ Posted(i, "done") /\ UNCHANGED spent
           \/ Spend("fetch") /\ Posted(i, "failed")
        /\ UNCHANGED <<quiet, runs, row>>

\* run_live returns: at a yield, or when its queue is closed and drained.
RunEnds(r) ==
    /\ runs[r] = "on"
    /\ \A i \in taken : x.items[i].run # r
    /\ \/ gate.yield
       \/ x.run # r /\ \A i \in Orphans(r) : x.items[i].event # None
    /\ runs' = [runs EXCEPT ![r] = "ended"]
    /\ UNCHANGED <<x, quiet, taken, row, spent>>

RunPanics(r) ==
    /\ runs[r] = "on" /\ Spend("panic")
    /\ runs' = [runs EXCEPT ![r] = "panicked"]
    /\ taken' = {i \in taken : x.items[i].run # r}
    /\ UNCHANGED <<x, quiet, row>>

\* land: the row is checked again with the write that marks it held.
LandingEnds(i) ==
    /\ x.items[i].phase = "landing" /\ x.items[i].event = None
    /\ \/ ~Fresh(i) /\ Posted(i, "stale") /\ UNCHANGED <<row, spent>>
       \/ Fresh(i) /\ ~storage /\ Posted(i, "unavailable") /\ UNCHANGED <<row, spent>>
       \/ Fresh(i) /\ storage /\ Mark(i, "held") /\ Posted(i, "yes") /\ UNCHANGED spent
       \/ Fresh(i) /\ storage /\ Spend("gc") /\ Mark(i, "gc") /\ Posted(i, "gc")
       \/ Fresh(i) /\ Spend("landing") /\ Posted(i, "failed") /\ UNCHANGED row
    /\ UNCHANGED <<quiet, taken, runs>>

-----------------------------------------------------------------------------
(***************************************************************************)
(* Personal transfers, the user, the hub and the disk.                     *)
(***************************************************************************)
outside == <<x, taken, runs>>

PersonalArrives(p) ==
    /\ p \notin served \cup gate.held /\ ~Waiting(gate, p)
    /\ gate' = AcquirePersonal(gate, p) /\ news' = (news \/ Signalled)
    /\ UNCHANGED <<outside, world, dirty, spent>>

PersonalEnds(p) ==
    /\ p \in gate.held
    /\ served' = served \cup {p}
    /\ gate' = Leave(gate, p) /\ news' = (news \/ Signalled)
    /\ UNCHANGED <<outside, row, storage, present, dirty, spent>>

PersonalAbandons(p) ==
    /\ Waiting(gate, p) /\ Spend("abandon")
    /\ served' = served \cup {p}
    /\ gate' = Leave(gate, p) /\ news' = (news \/ Signalled)
    /\ UNCHANGED <<outside, row, storage, present, dirty>>

LimitChanges ==
    /\ Spend("limit")
    /\ \E n \in Limits : gate' = SetLimit(gate, n)
    /\ news' = (news \/ Signalled)
    /\ UNCHANGED <<outside, world, dirty>>

\* A manifest brings a new version of a frame, perhaps with a new epoch.
NewVersion ==
    /\ Spend("version")
    /\ \E f \in Frame, v \in Version, why \in {"need", "epoch"} :
          /\ v # row[f].ver /\ row[f].state \in {"wanted", "held"}
          /\ row' = [row EXCEPT ![f] = [ver |-> v, state |-> "wanted"]]
          /\ dirty' = dirty \cup {why}
    /\ UNCHANGED <<outside, gate, news, served, storage, present>>

\* A frame is excluded, or the project is left.
Excluded ==
    /\ Spend("exclude")
    /\ \E f \in Frame : row[f].state = "wanted" /\ row' = [row EXCEPT ![f].state = "excluded"]
    /\ dirty' = dirty \cup {"need"}
    /\ UNCHANGED <<outside, gate, news, served, storage, present>>

ProjectLeft ==
    /\ Spend("gone")
    /\ row' = [f \in Frame |-> [row[f] EXCEPT !.state = "gone"]]
    /\ dirty' = dirty \cup {"gone"}
    /\ UNCHANGED <<outside, gate, news, served, storage, present>>

\* The store's collector drops a dead entry and a probe releases its frame,
\* whose parking the loop has heard of before.
GcReleases ==
    /\ \E f \in Frame :
          /\ row[f].state = "gc"
          /\ \A i \in Id : x.items[i].frame = f => x.items[i].event # "gc"
          /\ row' = [row EXCEPT ![f].state = "wanted"]
    /\ dirty' = dirty \cup {"need"}
    /\ UNCHANGED <<outside, gate, news, served, storage, present, spent>>

DeviceLeaves ==
    /\ Spend("presence")
    /\ \E d \in present : present' = present \ {d}
    /\ dirty' = dirty \cup {"providers"}
    /\ UNCHANGED <<outside, gate, news, served, row, storage>>

DeviceReturns ==
    /\ present # Device
    /\ present' = Device /\ dirty' = dirty \cup {"providers"}
    /\ UNCHANGED <<outside, gate, news, served, row, storage, spent>>

StorageGoes ==
    /\ Spend("storage") /\ storage' = FALSE
    /\ UNCHANGED <<outside, gate, news, served, row, present, dirty>>

StorageReturns ==
    /\ ~storage /\ storage' = TRUE
    /\ UNCHANGED <<outside, gate, news, served, row, present, dirty, spent>>

-----------------------------------------------------------------------------
ItemStep(i) ==
    \/ PrepareEnds(i) \/ OnSettled(i) \/ OnFetchable(i)
    \/ RunTakes(i) \/ ItemEnds(i) \/ OnDone(i) \/ LandingEnds(i)

RunStep(r) == RunEnds(r) \/ OnRunEnded(r)

\* The tasks, and the loop's handling of what they post.
Work ==
    \/ \E i \in Id : ItemStep(i)
    \/ \E r \in RunId : RunStep(r)
    \/ RequestRuns \/ LaneGranted

\* What the loop is asked to look at.
Attention ==
    \/ YieldChanged \/ StorageSeen
    \/ RefreshNeed(FALSE) \/ RefreshNeed(TRUE) \/ RefreshProviders \/ ProjectGone

\* What time brings.
Recovery ==
    \/ \E p \in Personal : PersonalEnds(p)
    \/ Tick \/ GcReleases \/ DeviceReturns \/ StorageReturns

World ==
    \/ \E p \in Personal : PersonalArrives(p) \/ PersonalAbandons(p)
    \/ LimitChanges \/ SetStreams \/ NewVersion \/ Excluded \/ ProjectLeft
    \/ DeviceLeaves \/ StorageGoes \/ Remount
    \/ ClearBackoffs \/ ProviderLost \/ ConnectionIdle \/ DialOk
    \/ \E r \in RunId : RunPanics(r)

Next == Work \/ Attention \/ Recovery \/ World

\* The loop handles what is posted to it and tasks end; it gets round to
\* what it is asked to look at, however busy it is; personal transfers end,
\* back-offs run out, and what has gone away comes back.
Fairness == WF_vars(Work) /\ WF_vars(Attention) /\ WF_vars(Recovery)

Spec == Init /\ [][Next]_vars /\ Fairness

-----------------------------------------------------------------------------
(***************************************************************************)
(* Properties.                                                             *)
(***************************************************************************)
\* The state has its type; in particular there is always a slot.
TypeOK ==
    /\ {x.lane, x.yielded, x.requested, x.storageOk, x.permit, x.requesting} \subseteq BOOLEAN
    /\ x.slots \in Nat \ {0} /\ x.run \in 0 .. MaxRun
    /\ x.wants \in [Frame -> Version \cup {None}] /\ x.need \in [Frame -> Version \cup {None}]
    /\ x.lists \in [Frame -> [Version -> SUBSET Device]]
    /\ x.dialOff \subseteq Device /\ x.frameOff \subseteq Frame
    /\ \A f \in Frame :
          x.flight[f] \in [id : 0 .. MaxItem, ver : Version \cup {None},
                           live : SUBSET Device, active : SUBSET Device]
    /\ gate.held \subseteq Personal \cup {"lane"} /\ gate.limit \in Limits \cup {Limit0}
    /\ {news, gate.yield, storage} \subseteq BOOLEAN
    /\ served \subseteq Personal /\ taken \subseteq Id /\ present \subseteq Device
    /\ runs \in [RunId -> {None, "on", "ended", "panicked"}]
    /\ row \in [Frame -> [ver : Version, state : {"wanted", "held", "gc", "excluded", "gone"}]]
    /\ dirty \subseteq {"need", "epoch", "providers", "gone"}

\* The core's idea of the lane and the executor's permit agree, and no lane
\* of the gate is lost: one in the collab side's name has an owner or is on
\* its way to one.
LaneAccounted ==
    /\ (x.lane \/ x.yielded) = x.permit /\ ~(x.lane /\ x.yielded)
    /\ x.requested = x.requesting /\ ~(x.permit /\ x.requesting)
    /\ "lane" \in gate.held => x.permit \/ x.requesting
    /\ x.permit => "lane" \in gate.held

\* No fetch the core counts is forgotten by the executor, and no item the
\* executor works on uncancelled is unknown to the core: every slot in use
\* has a task, a run or an event that will free it.
NothingStranded ==
    /\ \A f \in Flying(x) :
          LET item == x.items[x.flight[f].id]
          IN  /\ item.frame = f /\ item.ver = x.flight[f].ver /\ ~item.cancelled
              /\ item.phase = "sent" => item.event # None \/ runs[item.run] # None
    /\ \A i \in Id : x.items[i] # NoItem /\ ~x.items[i].cancelled =>
                        x.flight[x.items[i].frame].id = i

\* A list the executor believes fed, and will not feed again, is the one the
\* core has for the version it wants.
ListsKnown ==
    \A f \in Frame :
        x.need[f] # None /\ x.fed[f] # <<>> => x.lists[f][x.need[f]] = x.fed[f][1]

\* Nothing is transferred for the core without the lane.
TransfersHoldTheLane ==
    \A i \in taken : ~x.items[i].cancelled => x.permit

\* Nobody is admitted beyond the limit in force.  After the user has set it
\* below the lanes in use the surplus drains first, whoever else asks, gives
\* up or leaves (collect_grants, acquire_class and set_limit of the gate).
GrantsWithinLimit ==
    [][gate'.held \subseteq gate.held \/ Cardinality(gate'.held) <= gate'.limit]_vars

\* The gate asks for the lane, the loop has seen it, and the core keeps it:
\* the request came while the grant was on its way.
Deaf == gate.yield /\ ~news /\ x.lane

PersonalWaits == \E p \in Personal : Waiting(gate, p)

\* A personal transfer that waits is served.
PersonalIsServed == PersonalWaits ~> ~PersonalWaits

\* The same, when the core is never deaf.
PersonalServedIfHeard == []~Deaf => (PersonalWaits ~> ~PersonalWaits)

\* Every wanted frame is fetched and landed in the end, through failures,
\* back-offs, yields, new versions, lost devices and lost storage, when the
\* core is never deaf.
FramesLandIfHeard ==
    []~Deaf => \A f \in Frame : (row[f].state = "wanted") ~> (row[f].state # "wanted")
=============================================================================
