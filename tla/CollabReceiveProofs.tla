------------------------- MODULE CollabReceiveProofs ------------------------
(***************************************************************************)
(* Proofs about CollabReceive, for any frames, devices, settings and       *)
(* events.                                                                 *)
(***************************************************************************)
EXTENDS CollabReceive, FiniteSetTheorems, SequenceTheorems, WellFoundedInduction, TLAPS

-----------------------------------------------------------------------------
(***************************************************************************)
(* The invariant, as conditions on a state of the loop.                    *)
(***************************************************************************)
Events == {None, "stale", "fetch", "gc", "yes", "failed", "done", "cancelled", "unavailable"}

Flight == [id : Id, ver : Version, live : SUBSET Device, active : SUBSET Device]
Item == [frame : Frame, ver : Version, phase : {"preparing", "sent", "landing"},
         run : 0 .. MaxRun, cancelled : BOOLEAN, event : Events]
Fed == {<<>>} \cup {<<D>> : D \in SUBSET Device}

Loop == [lane : BOOLEAN, yielded : BOOLEAN, requested : BOOLEAN, storageOk : BOOLEAN,
         slots : Nat \ {0}, wants : [Frame -> Version \cup {None}],
         lists : [Frame -> [Version -> SUBSET Device]],
         flight : [Frame -> Flight \cup {NoFlight}],
         dialOff : SUBSET Device, frameOff : SUBSET Frame,
         need : [Frame -> Version \cup {None}], fed : [Frame -> Fed],
         items : [Id -> Item \cup {NoItem}], permit : BOOLEAN, requesting : BOOLEAN,
         run : 0 .. MaxRun]

\* The core's lane is the executor's permit, and it has flights only with it.
Lanes(s) ==
    /\ (s.lane \/ s.yielded) = s.permit /\ ~(s.lane /\ s.yielded)
    /\ s.requested = s.requesting /\ ~(s.permit /\ s.requesting)
    /\ Flying(s) # {} => s.permit

\* A flight of the core is an item of the executor, and the other way round.
Paired(s) ==
    /\ \A f \in Flying(s) :
          /\ s.items[s.flight[f].id].frame = f
          /\ s.items[s.flight[f].id].ver = s.flight[f].ver
          /\ ~s.items[s.flight[f].id].cancelled
    /\ \A i \in Id : s.items[i] # NoItem /\ ~s.items[i].cancelled =>
                        s.flight[s.items[i].frame].id = i

\* Only the run says that an item is done.
Told(s) == \A i \in Id : s.items[i].event = "done" => s.items[i].phase = "sent"

Lists(s) ==
    \A f \in Frame :
        s.need[f] # None /\ s.fed[f] # <<>> => s.lists[f][s.need[f]] = s.fed[f][1]

Good(s) == s \in Loop /\ Lanes(s) /\ Paired(s) /\ Told(s) /\ Lists(s)

\* An item that waits for a run's outcome has a run that is there, and so
\* has the executor.
Led(s, rs) ==
    /\ s.run # 0 => rs[s.run] # None
    /\ \A i \in Id : s.items[i].phase = "sent" /\ s.items[i].event = None =>
                        s.items[i].run \in RunId /\ rs[s.items[i].run] # None

\* What a run transfers, it was sent, and it has not ended.
Carried(s, T, rs) ==
    \A i \in T :
        /\ s.items[i].phase = "sent" /\ s.items[i].event = None
        /\ rs[s.items[i].run] = "on"

\* The lane is held, or waited for, only by those who asked for it, and
\* never both.
Line == {<<>>, <<"lane">>}
Gate == [limit : Limits \cup {Limit0}, held : SUBSET (Personal \cup {"lane"}),
         personal : Seq(Personal), collab : Line, yield : BOOLEAN]

Admitted(g, s) ==
    /\ g \in Gate /\ IsFiniteSet(g.held)
    /\ g.collab # <<>> => s.requesting /\ "lane" \notin g.held
    /\ "lane" \in g.held => s.permit \/ s.requesting
    /\ s.permit => "lane" \in g.held

\* The rest of the state has its type.
Rest ==
    /\ {news, storage} \subseteq BOOLEAN
    /\ served \subseteq Personal /\ taken \subseteq Id /\ present \subseteq Device
    /\ runs \in [RunId -> {None, "on", "ended", "panicked"}]
    /\ row \in [Frame -> [ver : Version, state : {"wanted", "held", "gc", "excluded", "gone"}]]
    /\ dirty \subseteq {"need", "epoch", "providers", "gone"}

Held == Good(x) /\ Led(x, runs) /\ Carried(x, taken, runs) /\ Admitted(gate, x)
Inv == Held /\ Rest

-----------------------------------------------------------------------------

(***************************************************************************)
(* The operators of the core, field by field.                              *)
(***************************************************************************)
\* Two states that differ in flights and items only.
SameBut(s, t) ==
    /\ t.lane = s.lane /\ t.yielded = s.yielded /\ t.requested = s.requested
    /\ t.storageOk = s.storageOk /\ t.slots = s.slots /\ t.wants = s.wants
    /\ t.lists = s.lists /\ t.dialOff = s.dialOff /\ t.frameOff = s.frameOff
    /\ t.need = s.need /\ t.fed = s.fed /\ t.permit = s.permit
    /\ t.requesting = s.requesting /\ t.run = s.run

\* The flights become F and the items G.
Put(s, F, G) == [s EXCEPT !.flight = F, !.items = G]

LEMMA Updated ==
    ASSUME NEW s \in Loop, NEW F \in [Frame -> Flight \cup {NoFlight}],
           NEW G \in [Id -> Item \cup {NoItem}], NEW t, t = Put(s, F, G)
    PROVE  t \in Loop /\ t.flight = F /\ t.items = G /\ SameBut(s, t)
BY Zenon DEF Loop, SameBut, Put

LEMMA LoopFields ==
    ASSUME NEW s \in Loop
    PROVE  /\ s.flight \in [Frame -> Flight \cup {NoFlight}]
           /\ s.items \in [Id -> Item \cup {NoItem}]
           /\ s.wants \in [Frame -> Version \cup {None}]
           /\ s.need \in [Frame -> Version \cup {None}]
           /\ s.fed \in [Frame -> Fed]
           /\ s.lists \in [Frame -> [Version -> SUBSET Device]]
           /\ s.dialOff \subseteq Device /\ s.frameOff \subseteq Frame
           /\ s.slots \in Nat \ {0} /\ s.run \in 0 .. MaxRun
           /\ s.lane \in BOOLEAN /\ s.yielded \in BOOLEAN /\ s.requested \in BOOLEAN
           /\ s.storageOk \in BOOLEAN /\ s.permit \in BOOLEAN /\ s.requesting \in BOOLEAN
BY Zenon DEF Loop

LEMMA Cancelled ==
    ASSUME NEW j \in Item \cup {NoItem}, NEW k, k = [j EXCEPT !.cancelled = TRUE], j # NoItem
    PROVE  /\ k \in Item /\ k.frame = j.frame /\ k.ver = j.ver /\ k.phase = j.phase
           /\ k.run = j.run /\ k.event = j.event /\ k.cancelled
BY Zenon DEF Item

LEMMA CancelFields ==
    ASSUME NEW s \in Loop, Paired(s), NEW fs, NEW t, t = Cancel(s, fs)
    PROVE  /\ t \in Loop /\ SameBut(s, t)
           /\ \A f \in Frame : t.flight[f] = IF f \in fs THEN NoFlight ELSE s.flight[f]
           /\ \A i \in Id :
                 \/ t.items[i] = s.items[i] /\ \A f \in fs \cap Flying(s) : s.flight[f].id # i
                 \/ /\ \E f \in fs \cap Flying(s) : s.flight[f].id = i
                    /\ s.items[i] # NoItem
                    /\ t.items[i] \in Item /\ t.items[i].cancelled
                    /\ t.items[i].phase = s.items[i].phase /\ t.items[i].run = s.items[i].run
                    /\ t.items[i].event = s.items[i].event
<1> DEFINE ids == {s.flight[f].id : f \in fs \cap Flying(s)}
           F == [f \in Frame |-> IF f \in fs THEN NoFlight ELSE s.flight[f]]
           G == [i \in Id |-> IF i \in ids THEN [s.items[i] EXCEPT !.cancelled = TRUE]
                                           ELSE s.items[i]]
<1>1. t = Put(s, F, G)
  BY Zenon DEF Cancel, Put
<1>2. F \in [Frame -> Flight \cup {NoFlight}]
  BY LoopFields
<1>3. \A i \in ids : i \in Id => s.items[i] # NoItem
  BY DEF Paired, Flying, NoItem, Frame
<1>4. \A i \in Id : s.items[i] \in Item \cup {NoItem}
  BY LoopFields
<1>6. \A i \in Id : i \in ids =>
         /\ G[i] \in Item /\ G[i].cancelled
         /\ G[i].phase = s.items[i].phase /\ G[i].run = s.items[i].run
         /\ G[i].event = s.items[i].event
  <2> TAKE i \in Id
  <2> HAVE i \in ids
  <2>1. G[i] = [s.items[i] EXCEPT !.cancelled = TRUE]
    OBVIOUS
  <2> QED
    BY <1>3, <1>4, <2>1, Cancelled
<1>7. G \in [Id -> Item \cup {NoItem}]
  BY <1>4, <1>6
<1>5. t \in Loop /\ t.flight = F /\ t.items = G /\ SameBut(s, t)
  BY <1>1, <1>2, <1>7, Updated
<1> QED
  <2>1. \A f \in Frame : t.flight[f] = IF f \in fs THEN NoFlight ELSE s.flight[f]
    BY <1>5
  <2> HIDE DEF ids
  <2>2. \A i \in Id : i \notin ids => t.items[i] = s.items[i]
    BY <1>5
  <2>3. \A i \in Id : i \in ids => t.items[i] = G[i]
    BY <1>5
  <2> HIDE DEF G
  <2>4. \A i \in Id : (i \in ids) <=> \E f \in fs \cap Flying(s) : s.flight[f].id = i
    BY DEF ids
  <2> QED
    BY <1>3, <1>5, <1>6, <2>1, <2>2, <2>3, <2>4

-----------------------------------------------------------------------------
(***************************************************************************)
(* What the core's operators keep.                                         *)
(***************************************************************************)
\* From s to t the lane is not gained and no request is dropped, the run is
\* kept or closed, and the items with a run are the same but for those of I,
\* which have none any more.
Kin(s, t, I) ==
    /\ t.permit => s.permit
    /\ s.requesting => t.requesting
    /\ t.run \in {s.run, 0}
    /\ \A i \in Id \ I :
          /\ (t.items[i].phase = "sent") <=> (s.items[i].phase = "sent")
          /\ s.items[i].phase = "sent" =>
                t.items[i].run = s.items[i].run /\ t.items[i].event = s.items[i].event
    /\ \A i \in Id \cap I : t.items[i].phase # "sent"

LEMMA KinSelf == ASSUME NEW s PROVE Kin(s, s, {})
BY DEF Kin

LEMMA KinChain ==
    ASSUME NEW s, NEW t, NEW u, NEW I, Kin(s, t, I), Kin(t, u, {})
    PROVE  Kin(s, u, I)
<1>1. /\ u.permit => s.permit
      /\ s.requesting => u.requesting
  BY DEF Kin
<1>2. u.run \in {s.run, 0}
  BY DEF Kin
<1> QED
  BY <1>1, <1>2 DEF Kin

\* The pairing follows the frames.
LEMMA FlyingFields ==
    ASSUME NEW s \in Loop
    PROVE  /\ \A f \in Flying(s) : f \in Frame /\ s.flight[f] \in Flight /\ s.flight[f].id \in Id
           /\ \A f \in Frame : f \notin Flying(s) => s.flight[f] = NoFlight /\ s.flight[f].id = 0
           /\ 0 \notin Id /\ 0 \notin Frame
           /\ \A i \in Id : s.items[i] # NoItem => s.items[i] \in Item /\ s.items[i].frame \in Frame
<1>1. /\ \A f \in Frame : s.flight[f] \in Flight \cup {NoFlight}
      /\ \A i \in Id : s.items[i] \in Item \cup {NoItem}
  BY LoopFields
<1>2. NoFlight.id = 0 /\ \A k \in Flight : k.id \in Id
  BY DEF NoFlight, Flight
<1>3. \A k \in Item : k.frame \in Frame
  BY Zenon DEF Item
<1>4. 0 \notin Id /\ 0 \notin Frame
  BY DEF Id, Frame
<1> QED
  BY <1>1, <1>2, <1>3, <1>4 DEF Flying

LEMMA CancelGood ==
    ASSUME NEW s, Good(s), NEW fs, NEW t, t = Cancel(s, fs)
    PROVE  /\ Good(t) /\ Kin(s, t, {}) /\ SameBut(s, t)
           /\ Flying(t) = Flying(s) \ fs
<1>1. /\ t \in Loop /\ SameBut(s, t)
      /\ \A f \in Frame : t.flight[f] = IF f \in fs THEN NoFlight ELSE s.flight[f]
  BY CancelFields DEF Good
<1>2. \A i \in Id :
         \/ t.items[i] = s.items[i] /\ \A f \in fs \cap Flying(s) : s.flight[f].id # i
         \/ /\ \E f \in fs \cap Flying(s) : s.flight[f].id = i
            /\ s.items[i] # NoItem
            /\ t.items[i] \in Item /\ t.items[i].cancelled
            /\ t.items[i].phase = s.items[i].phase /\ t.items[i].run = s.items[i].run
            /\ t.items[i].event = s.items[i].event
  BY CancelFields DEF Good
<1>3. Flying(t) = Flying(s) \ fs
  BY <1>1 DEF Flying
<1>4. Lanes(t)
  BY <1>1, <1>3 DEF Good, Lanes, SameBut
<1>5. Paired(t)
  <2>0. s \in Loop /\ Paired(s)
    BY DEF Good
  <2>1. ASSUME NEW f \in Flying(t)
        PROVE  /\ t.items[t.flight[f].id].frame = f
               /\ t.items[t.flight[f].id].ver = t.flight[f].ver
               /\ ~t.items[t.flight[f].id].cancelled
    <3>1. f \in Flying(s) /\ f \notin fs /\ f \in Frame /\ t.flight[f] = s.flight[f] /\ s.flight[f].id \in Id
      BY <1>1, <1>3, <2>0, FlyingFields
    <3>2. \A g \in fs \cap Flying(s) : s.flight[g].id # s.flight[f].id
      BY <3>1, <2>0 DEF Paired
    <3>3. t.items[s.flight[f].id] = s.items[s.flight[f].id]
      BY <1>2, <3>1, <3>2
    <3> QED
      BY <3>1, <3>3, <2>0 DEF Paired
  <2>2. ASSUME NEW i \in Id, t.items[i] # NoItem, ~t.items[i].cancelled
        PROVE  t.flight[t.items[i].frame].id = i
    <3>1. t.items[i] = s.items[i] /\ \A f \in fs \cap Flying(s) : s.flight[f].id # i
      BY <1>2, <2>2
    <3>2. s.flight[s.items[i].frame].id = i /\ s.items[i].frame \in Frame
      BY <3>1, <2>0, <2>2, FlyingFields DEF Paired
    <3>3. s.items[i].frame \in Flying(s)
      BY <3>2, <2>0, FlyingFields
    <3> QED
      BY <1>1, <3>1, <3>2, <3>3
  <2> QED
    BY <2>1, <2>2 DEF Paired
<1>6. Told(t)
  BY <1>2 DEF Good, Told
<1>7. Lists(t)
  BY <1>1 DEF Good, Lists, SameBut
<1>8. Kin(s, t, {})
  BY <1>1, <1>2 DEF SameBut, Kin
<1> QED
  BY <1>1, <1>3, <1>4, <1>5, <1>6, <1>7, <1>8 DEF Good

\* The item of a fetch that was just started.
Started(f, v) == [NoItem EXCEPT !.frame = f, !.ver = v, !.phase = "preparing"]

LEMMA NewItem ==
    ASSUME NEW f \in Frame, NEW v \in Version, NEW j, j = Started(f, v)
    PROVE  /\ j \in Item /\ j.frame = f /\ j.ver = v /\ j.phase = "preparing"
           /\ j.event = None /\ ~j.cancelled /\ j # NoItem
<1>1. /\ j.frame = f /\ j.ver = v /\ j.phase = "preparing" /\ j.run = 0
      /\ j.event = None /\ j.cancelled = FALSE
  BY Zenon DEF NoItem, Started
<1>2. j = [frame |-> f, ver |-> v, phase |-> "preparing", run |-> 0,
           cancelled |-> FALSE, event |-> None]
  BY Zenon DEF NoItem, Started
<1>3. 0 \in 0 .. MaxRun /\ None \in Events
  BY BoundAssumption DEF Events
<1>4. j \in Item
  <2>1. FALSE \in BOOLEAN /\ "preparing" \in {"preparing", "sent", "landing"}
    OBVIOUS
  <2>2. [frame |-> f, ver |-> v, phase |-> "preparing", run |-> 0,
         cancelled |-> FALSE, event |-> None]
            \in [frame : Frame, ver : Version, phase : {"preparing", "sent", "landing"},
                 run : 0 .. MaxRun, cancelled : BOOLEAN, event : Events]
    BY <1>3, <2>1
  <2> QED
    BY <1>2, <2>2, Zenon DEF Item
<1>5. f # 0
  BY DEF Frame
<1>6. NoItem.frame = 0
  BY Zenon DEF NoItem
<1> QED
  BY <1>1, <1>4, <1>5, <1>6

\* A flight and its item appear together.
LEMMA PlacedGood ==
    ASSUME NEW s, Good(s), s.permit, NEW f \in Frame \ Flying(s),
           NEW i \in Id, s.items[i] = NoItem,
           NEW h \in Flight, h.id = i, h # NoFlight,
           NEW j \in Item, j.frame = f, j.ver = h.ver, j.phase = "preparing",
           j.event = None, ~j.cancelled,
           NEW t \in Loop, SameBut(s, t),
           t.flight[f] = h, \A g \in Frame : g # f => t.flight[g] = s.flight[g],
           t.items[i] = j, \A k \in Id : k # i => t.items[k] = s.items[k]
    PROVE  /\ Good(t) /\ Kin(s, t, {})
           /\ Flying(t) = Flying(s) \cup {f}
<1>0. s \in Loop /\ Paired(s) /\ Lanes(s) /\ Told(s) /\ Lists(s)
  BY DEF Good
<1>9. Flying(t) = Flying(s) \cup {f}
  BY DEF Flying
<1>10. Lanes(t)
  BY <1>0 DEF Lanes, SameBut
<1>11. Paired(t)
  <2>1. ASSUME NEW g \in Flying(t)
        PROVE  /\ t.items[t.flight[g].id].frame = g
               /\ t.items[t.flight[g].id].ver = t.flight[g].ver
               /\ ~t.items[t.flight[g].id].cancelled
    <3>1. CASE g = f
      BY <3>1
    <3>2. CASE g # f
      <4>1. g \in Flying(s) /\ g \in Frame /\ s.flight[g].id \in Id /\ t.flight[g] = s.flight[g]
        BY <3>2, <1>0, <1>9, FlyingFields
      <4>2. NoItem.frame = 0
        BY Zenon DEF NoItem
      <4>3. s.flight[g].id # i
        BY <4>1, <4>2, <1>0, FlyingFields DEF Paired
      <4> QED
        BY <4>1, <4>3, <1>0 DEF Paired
    <3> QED
      BY <3>1, <3>2
  <2>2. ASSUME NEW k \in Id, t.items[k] # NoItem, ~t.items[k].cancelled
        PROVE  t.flight[t.items[k].frame].id = k
    <3>1. CASE k = i
      BY <3>1
    <3>2. CASE k # i
      <4>1. /\ t.items[k] = s.items[k] /\ s.flight[s.items[k].frame].id = k
            /\ s.items[k].frame \in Frame
        BY <3>2, <2>2, <1>0, FlyingFields DEF Paired
      <4>2. s.items[k].frame # f
        BY <4>1, <1>0, FlyingFields
      <4> QED
        BY <4>1, <4>2
    <3> QED
      BY <3>1, <3>2
  <2> QED
    BY <2>1, <2>2 DEF Paired
<1>12. Told(t)
  <2>1. j.event # "done"
    BY DEF None
  <2> QED
    BY <1>0, <2>1 DEF Told
<1>13. Lists(t)
  BY <1>0 DEF Lists, SameBut
<1>14. Kin(s, t, {})
  <2>1. NoItem.phase # "sent" /\ j.phase # "sent"
    BY Zenon DEF NoItem, None
  <2> QED
    BY <2>1 DEF SameBut, Kin
<1> QED
  BY <1>9, <1>10, <1>11, <1>12, <1>13, <1>14 DEF Good

LEMMA StartGood ==
    ASSUME NEW s, Good(s), s.permit, NEW f \in Frame \ Flying(s), s.wants[f] # None,
           NEW t \in Start(s, f)
    PROVE  /\ Good(t) /\ Kin(s, t, {}) /\ SameBut(s, t)
           /\ Flying(t) = Flying(s) \cup {f}
<1>0. s \in Loop
  BY DEF Good
<1>1. PICK from, v : from = Available(s, f, s.wants[f]) /\ v = s.wants[f]
  OBVIOUS
<1>2. v \in Version /\ from \subseteq Device
  BY <1>0, <1>1, LoopFields DEF Available
<1>3. PICK i : i \in Least({k \in Id : s.items[k] = NoItem}) /\
         t = [s EXCEPT !.flight[f] = [id |-> i, ver |-> v, live |-> from, active |-> from],
                       !.items[i] = [NoItem EXCEPT !.frame = f, !.ver = v,
                                                   !.phase = "preparing"]]
  BY <1>1, Zenon DEF Start
<1>4. i \in Id /\ s.items[i] = NoItem
  BY <1>3 DEF Least
<1>5. PICK h : h = [id |-> i, ver |-> v, live |-> from, active |-> from]
  OBVIOUS
<1>6. PICK j : j = Started(f, v)
  OBVIOUS
<1>7. h \in Flight /\ h.id = i /\ h.ver = v /\ h # NoFlight
  <2>1. i # 0
    BY <1>4 DEF Id
  <2> QED
    BY <1>2, <1>4, <1>5, <2>1 DEF Flight, NoFlight
<1>8. /\ j \in Item /\ j.frame = f /\ j.ver = v /\ j.phase = "preparing"
      /\ j.event = None /\ ~j.cancelled
  <2>1. f \in Frame
    OBVIOUS
  <2> QED
    BY <1>2, <1>6, <2>1, NewItem
<1>9. PICK F, G : F = [s.flight EXCEPT ![f] = h] /\ G = [s.items EXCEPT ![i] = j]
  OBVIOUS
<1>10. t = Put(s, F, G)
  BY <1>3, <1>5, <1>6, <1>9, Zenon DEF Put, Started
<1>11. F \in [Frame -> Flight \cup {NoFlight}] /\ G \in [Id -> Item \cup {NoItem}]
  BY <1>0, <1>7, <1>8, <1>9, LoopFields
<1>12. t \in Loop /\ t.flight = F /\ t.items = G /\ SameBut(s, t)
  BY <1>0, <1>10, <1>11, Updated
<1>13. /\ t.flight[f] = h /\ \A g \in Frame : g # f => t.flight[g] = s.flight[g]
       /\ t.items[i] = j /\ \A k \in Id : k # i => t.items[k] = s.items[k]
  BY <1>0, <1>4, <1>9, <1>12, LoopFields
<1> QED
  BY <1>4, <1>7, <1>8, <1>12, <1>13, PlacedGood

LEMMA SameButChain ==
    ASSUME NEW s, NEW t, NEW u, SameBut(s, t), SameBut(t, u)
    PROVE  SameBut(s, u)
BY Zenon DEF SameBut

LEMMA TakeSlotGood ==
    ASSUME NEW s, Good(s), s.permit, NEW f \in Frame \ Flying(s), s.wants[f] # None,
           NEW t \in TakeSlot(s, f)
    PROVE  /\ Good(t) /\ Kin(s, t, {}) /\ SameBut(s, t)
           /\ Flying(t) \subseteq Flying(s) \cup {f}
<1>1. \/ t = s
      \/ \E fs : t \in Start(Cancel(s, fs), f)
      \/ t \in Start(s, f)
  BY Zenon DEF TakeSlot
<1>2. CASE t = s
  BY <1>2, KinSelf DEF SameBut
<1>3. CASE t \in Start(s, f)
  BY <1>3, StartGood
<1>4. CASE \E fs : t \in Start(Cancel(s, fs), f)
  <2>1. PICK fs : t \in Start(Cancel(s, fs), f)
    BY <1>4
  <2>2. PICK u : u = Cancel(s, fs)
    OBVIOUS
  <2>3. Good(u) /\ Kin(s, u, {}) /\ SameBut(s, u) /\ Flying(u) = Flying(s) \ fs
    BY <2>2, CancelGood
  <2>4. u.permit /\ u.wants[f] # None /\ f \in Frame \ Flying(u)
    BY <2>3 DEF SameBut
  <2>5. Good(t) /\ Kin(u, t, {}) /\ SameBut(u, t) /\ Flying(t) = Flying(u) \cup {f}
    BY <2>1, <2>2, <2>3, <2>4, StartGood
  <2> QED
    BY <2>3, <2>5, KinChain, SameButChain
<1> QED
  BY <1>1, <1>2, <1>3, <1>4

-----------------------------------------------------------------------------
(***************************************************************************)
(* The two loops, which are recursive functions of the number of turns.    *)
(***************************************************************************)
LEMMA LeastNumber ==
    ASSUME NEW S, S \subseteq Nat, S # {}
    PROVE  \E m \in S : \A k \in S : m <= k
<1> DEFINE Less == {ss \in Nat \X Nat : ss[1] < ss[2]}
<1>0. IsWellFoundedOn(Less, Nat)
  BY NatLessThanWellFounded DEF OpToRel
<1>1. PICK m \in S : \A k \in S : ~(<<k, m>> \in Less)
  BY <1>0, WFMin
<1>2. ASSUME NEW k \in S PROVE m <= k
  <2>1. ~(<<k, m>> \in Less) /\ m \in Nat /\ k \in Nat
    BY <1>1
  <2>2. <<k, m>> \in Nat \X Nat /\ <<k, m>>[1] = k /\ <<k, m>>[2] = m
    BY <2>1
  <2> QED
    BY <2>1, <2>2
<1> QED
  BY <1>2

\* What a frame's turn makes of the states S.
Turned(S, f) == UNION {TakeSlot(t, f) : t \in S}

\* The states after each of the turns.
TurnByTurn(A, s, order) ==
    /\ A[0] = {s} /\ Turns(s, order) = A[Len(order)]
    /\ \A k \in 1 .. Len(order) : A[k] = Turned(A[k - 1], order[k])

LEMMA TurnsUnfold ==
    ASSUME NEW s, NEW order, Len(order) \in Nat
    PROVE  \E A : TurnByTurn(A, s, order)
<1> DEFINE Nxt(S, k) == Turned(S, order[k])
           Aft == CHOOSE A : A = [k \in 0 .. Len(order) |->
                                    IF k = 0 THEN {s} ELSE Nxt(A[k - 1], k)]
<1>1. Turns(s, order) = Aft[Len(order)]
  BY Zenon DEF Turns, Turned
<1> PICK n \in Nat : n = Len(order)
  OBVIOUS
<1> HIDE DEF Nxt
<1> DEFINE Upto(A, m) == A[0] = {s} /\ \A k \in 1 .. m : A[k] = Nxt(A[k - 1], k)
           Bad == {m \in Nat : ~\E A : Upto(A, m)}
<1>2. Bad = {}
  <2> SUFFICES ASSUME Bad # {} PROVE FALSE
    OBVIOUS
  <2>1. PICK m \in Bad : \A k \in Bad : m <= k
    BY LeastNumber, Bad \subseteq Nat
  <2>0. m \in Nat /\ ~\E A : Upto(A, m)
    OBVIOUS
  <2>2. m # 0
    <3>1. Upto([k \in {0} |-> {s}], 0)
      OBVIOUS
    <3> QED
      BY <3>1
  <2>3. m - 1 \in Nat /\ m - 1 \notin Bad
    <3> HIDE DEF Bad
    <3> QED
      BY <2>0, <2>1, <2>2
  <2>4. PICK A : Upto(A, m - 1)
    BY <2>3
  <2>5. PICK B : B = [k \in 0 .. m |-> IF k = m THEN Nxt(A[m - 1], m) ELSE A[k]]
    OBVIOUS
  <2>6. B[m] = Nxt(A[m - 1], m) /\ \A k \in 0 .. m - 1 : B[k] = A[k]
    BY <2>0, <2>2, <2>5
  <2>7. ASSUME NEW k \in 1 .. m PROVE B[k] = Nxt(B[k - 1], k)
    <3>1. B[k - 1] = A[k - 1]
      BY <2>0, <2>6
    <3>2. CASE k = m
      BY <2>6, <3>1, <3>2
    <3>3. CASE k # m
      BY <2>0, <2>4, <2>6, <3>1, <3>3
    <3> QED
      BY <3>2, <3>3
  <2>8. Upto(B, m)
    BY <2>0, <2>2, <2>4, <2>6, <2>7
  <2> QED
    BY <2>0, <2>8
<1>3. PICK A : Upto(A, n)
  BY <1>2
<1>4. PICK B : B = [k \in 0 .. n |-> A[k]]
  OBVIOUS
<1>5. B = [k \in 0 .. n |-> IF k = 0 THEN {s} ELSE Nxt(B[k - 1], k)]
  <2>1. ASSUME NEW k \in 0 .. n PROVE B[k] = IF k = 0 THEN {s} ELSE Nxt(B[k - 1], k)
    <3>1. CASE k = 0
      BY <1>3, <1>4, <3>1
    <3>2. CASE k # 0
      <4>1. B[k] = A[k] /\ B[k - 1] = A[k - 1] /\ k \in 1 .. n
        BY <1>4, <3>2
      <4> QED
        BY <1>3, <4>1, <3>2
    <3> QED
      BY <3>1, <3>2
  <2>2. B = [k \in 0 .. n |-> B[k]]
    BY <1>4
  <2> QED
    BY <2>1, <2>2
<1>6. Aft = [k \in 0 .. n |-> IF k = 0 THEN {s} ELSE Nxt(Aft[k - 1], k)]
  BY <1>5, Zenon
<1>7. PICK C : C = Aft
  OBVIOUS
<1> HIDE DEF Aft
<1>8. Upto(C, n)
  <2>1. C = [k \in 0 .. n |-> IF k = 0 THEN {s} ELSE Nxt(C[k - 1], k)]
    BY <1>6, <1>7
  <2>2. \A k \in 0 .. n : C[k] = IF k = 0 THEN {s} ELSE Nxt(C[k - 1], k)
    BY <2>1, Zenon
  <2> QED
    BY <2>2
<1>9. /\ C[0] = {s} /\ Turns(s, order) = C[Len(order)]
      /\ \A k \in 1 .. Len(order) : C[k] = Nxt(C[k - 1], k)
  BY <1>1, <1>7, <1>8
<1> QED
  BY <1>9, Zenon DEF Nxt, TurnByTurn

\* An order of a finite set names each of its members once.
LEMMA OrderFields ==
    ASSUME NEW S, IsFiniteSet(S), NEW order \in SetToSeqs(S)
    PROVE  /\ Len(order) \in Nat
           /\ \A k \in 1 .. Len(order) : order[k] \in S
           /\ \A j, k \in 1 .. Len(order) : j # k => order[j] # order[k]
           /\ \A e \in S : \E k \in 1 .. Len(order) : order[k] = e
<1>1. PICK n \in Nat : n = Cardinality(S)
  BY FS_CardinalityType
<1>2. order \in [1 .. n -> S] /\ \A j, k \in 1 .. n : j # k => order[j] # order[k]
  BY <1>1 DEF SetToSeqs
<1>3. Len(order) = n
  <2>1. order \in Seq(S)
    BY <1>2, IsASeq
  <2>2. Len(order) \in Nat /\ DOMAIN order = 1 .. Len(order) /\ DOMAIN order = 1 .. n
    BY <1>2, <2>1, LenProperties
  <2>3. \A k \in Nat \ {0} : k <= Len(order) <=> k <= n
    BY <2>2
  <2>4. PICK l \in Nat : l = Len(order)
    BY <2>2
  <2>5. (l # 0 => l <= n) /\ (n # 0 => n <= l)
    BY <2>3, <2>4
  <2> QED
    BY <2>4, <2>5
<1>4. order \in Injection(1 .. n, S)
  BY <1>2 DEF Injection, IsInjective
<1>5. Cardinality(1 .. n) = n
  BY FS_Interval
<1>6. order \in Surjection(1 .. n, S)
  BY <1>1, <1>4, <1>5, FS_Injection
<1>7. \A e \in S : \E k \in 1 .. n : order[k] = e
  BY <1>6 DEF Surjection
<1> QED
  BY <1>2, <1>3, <1>7

LEMMA Finite ==
    /\ IsFiniteSet(Frame) /\ IsFiniteSet(Id)
    /\ \A S : S \subseteq Frame \/ S \subseteq Id => IsFiniteSet(S)
<1>1. IsFiniteSet(Frame) /\ IsFiniteSet(Id)
  BY BoundAssumption, FS_Interval DEF Frame, Id
<1> QED
  BY <1>1, FS_Subset

LEMMA TurnsGood ==
    ASSUME NEW s, Good(s), s.permit, NEW order \in SetToSeqs(Startable(s)),
           NEW y \in Turns(s, order)
    PROVE  Good(y) /\ Kin(s, y, {}) /\ SameBut(s, y)
<1>1. /\ Len(order) \in Nat
      /\ \A k \in 1 .. Len(order) : order[k] \in Startable(s)
      /\ \A j, k \in 1 .. Len(order) : j # k => order[j] # order[k]
  <2>1. IsFiniteSet(Startable(s))
    BY Finite DEF Startable
  <2> QED
    BY <2>1, OrderFields
<1>0. PICK A : TurnByTurn(A, s, order)
  BY <1>1, TurnsUnfold
<1> PICK n \in Nat : n = Len(order)
  BY <1>1
<1>2. /\ A[0] = {s} /\ Turns(s, order) = A[n]
      /\ \A k \in 1 .. n : A[k] = Turned(A[k - 1], order[k])
  BY <1>0 DEF TurnByTurn
<1> DEFINE P(k, t) == /\ Good(t) /\ Kin(s, t, {}) /\ SameBut(s, t)
                      /\ \A f \in Flying(t) : f \in Flying(s) \/ \E j \in 1 .. k : order[j] = f
           Bad == {k \in 0 .. n : \E t \in A[k] : ~P(k, t)}
<1>3. Bad = {}
  <2> SUFFICES ASSUME Bad # {} PROVE FALSE
    OBVIOUS
  <2>1. PICK m \in Bad : \A k \in Bad : m <= k
    BY LeastNumber, Bad \subseteq Nat
  <2>2. PICK t : m \in 0 .. n /\ t \in A[m] /\ ~P(m, t)
    OBVIOUS
  <2>3. m # 0
    BY <1>2, <2>2, KinSelf DEF SameBut
  <2>4. PICK u \in A[m - 1] : t \in TakeSlot(u, order[m])
    BY <1>2, <2>2, <2>3 DEF Turned
  <2>5. P(m - 1, u)
    <3>1. m - 1 \in 0 .. n
      BY <2>2, <2>3
    <3>2. m - 1 \notin Bad
      <4> HIDE DEF Bad
      <4> QED
        BY <2>1, <2>2, <2>3
    <3> HIDE DEF P
    <3> QED
      BY <2>4, <3>1, <3>2
  <2>6. PICK f : f = order[m]
    OBVIOUS
  <2>7. f \in Startable(s) /\ \A j \in 1 .. m - 1 : order[j] # f
    BY <1>1, <2>2, <2>3, <2>6
  <2>8. f \in Frame \ Flying(u) /\ u.wants[f] # None /\ u.permit
    BY <2>5, <2>7 DEF Startable, Flying, SameBut
  <2>9. /\ Good(t) /\ Kin(u, t, {}) /\ SameBut(u, t)
        /\ Flying(t) \subseteq Flying(u) \cup {f}
    BY <2>4, <2>5, <2>6, <2>8, TakeSlotGood
  <2>10. ASSUME NEW g \in Flying(t)
         PROVE  g \in Flying(s) \/ \E j \in 1 .. m : order[j] = g
    <3>1. CASE g = f
      BY <3>1, <2>2, <2>3, <2>6
    <3>2. CASE g \in Flying(u)
      BY <3>2, <2>2, <2>5
    <3> QED
      BY <2>9, <3>1, <3>2
  <2>11. Kin(s, t, {}) /\ SameBut(s, t)
    BY <2>5, <2>9, KinChain, SameButChain
  <2> QED
    BY <2>2, <2>9, <2>10, <2>11
<1>4. n \in 0 .. n /\ n \notin Bad
  BY <1>3
<1> QED
  BY <1>2, <1>4

-----------------------------------------------------------------------------
(***************************************************************************)
(* How every input ends.                                                   *)
(***************************************************************************)
\* The flights are the same, but for their providers and connections.
Aloft(s, t) ==
    \A f \in Frame :
        \/ t.flight[f] = s.flight[f]
        \/ /\ s.flight[f] # NoFlight /\ t.flight[f] # NoFlight
           /\ t.flight[f].id = s.flight[f].id /\ t.flight[f].ver = s.flight[f].ver

SameLane(s, t) ==
    /\ t.lane = s.lane /\ t.yielded = s.yielded /\ t.requested = s.requested
    /\ t.permit = s.permit /\ t.requesting = s.requesting

LEMMA AloftGood ==
    ASSUME NEW s, Good(s), NEW t \in Loop, Aloft(s, t), SameLane(s, t), t.items = s.items,
           t.run \in {s.run, 0}, Lists(t)
    PROVE  Good(t) /\ Kin(s, t, {}) /\ Flying(t) = Flying(s)
<1>0. s \in Loop /\ Paired(s) /\ Lanes(s) /\ Told(s) /\ Lists(s)
  BY DEF Good
<1>1. Flying(t) = Flying(s)
  BY DEF Flying, Aloft
<1>2. Lanes(t)
  BY <1>0, <1>1 DEF Lanes, SameLane
<1>3. \A f \in Frame : t.flight[f].id = s.flight[f].id /\ t.flight[f].ver = s.flight[f].ver
  BY DEF Aloft
<1>4. Paired(t)
  <2>1. \A i \in Id : s.items[i] # NoItem => s.items[i].frame \in Frame
    BY <1>0, FlyingFields
  <2>2. Flying(s) \subseteq Frame
    BY DEF Flying
  <2>3. \A f \in Flying(t) :
          /\ t.items[t.flight[f].id].frame = f
          /\ t.items[t.flight[f].id].ver = t.flight[f].ver
          /\ ~t.items[t.flight[f].id].cancelled
    BY <1>0, <1>1, <1>3, <2>2 DEF Paired
  <2>4. \A i \in Id : t.items[i] # NoItem /\ ~t.items[i].cancelled =>
                        t.flight[t.items[i].frame].id = i
    BY <1>0, <1>3, <2>1 DEF Paired
  <2> QED
    BY <2>3, <2>4 DEF Paired
<1>5. Told(t)
  BY <1>0 DEF Told
<1>6. Kin(s, t, {})
  BY DEF Kin, SameLane
<1> QED
  BY <1>1, <1>2, <1>4, <1>5, <1>6 DEF Good

\* The flights become F.
PutFlight(s, F) == [s EXCEPT !.flight = F]

LEMMA Reflown ==
    ASSUME NEW s \in Loop, NEW F \in [Frame -> Flight \cup {NoFlight}], NEW t,
           t = PutFlight(s, F)
    PROVE  t \in Loop /\ t.flight = F /\ t.items = s.items /\ SameBut(s, t)
BY Zenon DEF Loop, SameBut, PutFlight

LEMMA SameButParts ==
    ASSUME NEW s, NEW t, SameBut(s, t)
    PROVE  SameLane(s, t) /\ t.run = s.run /\ (Lists(s) => Lists(t))
<1>1. SameLane(s, t) /\ t.run = s.run
  BY Zenon DEF SameBut, SameLane
<1>2. t.need = s.need /\ t.fed = s.fed /\ t.lists = s.lists
  BY Zenon DEF SameBut
<1> QED
  BY <1>1, <1>2 DEF Lists

\* A flight whose live and active sets change.
Flown(h, live, active) == [h EXCEPT !.live = live, !.active = active]

LEMMA FlownFields ==
    ASSUME NEW h \in Flight, NEW live \in SUBSET Device, NEW active \in SUBSET Device,
           NEW k, k = Flown(h, live, active)
    PROVE  k \in Flight /\ k.id = h.id /\ k.ver = h.ver /\ k # NoFlight
<1>1. k \in Flight /\ k.id = h.id /\ k.ver = h.ver
  BY DEF Flight, Flown
<1>2. k.id # 0
  BY <1>1 DEF Flight, Id
<1> QED
  BY <1>1, <1>2 DEF NoFlight

LEMMA ReconcileGood ==
    ASSUME NEW s, Good(s), NEW t, t = Reconcile(s)
    PROVE  Good(t) /\ Kin(s, t, {}) /\ SameBut(s, t)
<1>0. s \in Loop /\ Lists(s)
  BY DEF Good
<1> DEFINE now(f) == Available(s, f, s.flight[f].ver)
           act(f) == IF now(f) = s.flight[f].live THEN s.flight[f].active
                     ELSE s.flight[f].active \cup now(f)
           F == [f \in Frame |-> IF s.flight[f] = NoFlight THEN NoFlight
                                 ELSE Flown(s.flight[f], now(f), act(f))]
<1>1. t = PutFlight(s, F)
  BY Zenon DEF Reconcile, PutFlight, Flown
<1>2. \A f \in Flying(s) : f \in Frame /\ s.flight[f] \in Flight /\ s.flight[f] # NoFlight
  BY <1>0, FlyingFields DEF Flying
<1>3. \A f \in Flying(s) : now(f) \in SUBSET Device /\ act(f) \in SUBSET Device
  <2>1. s.lists \in [Frame -> [Version -> SUBSET Device]]
    BY <1>0, LoopFields
  <2>2. \A f \in Flying(s) : s.flight[f].ver \in Version /\ s.flight[f].active \subseteq Device
    BY <1>2 DEF Flight
  <2> QED
    BY <1>2, <2>1, <2>2 DEF Available
<1> HIDE DEF now, act
<1>4. ASSUME NEW f \in Frame
      PROVE  /\ F[f] \in Flight \cup {NoFlight}
             /\ \/ F[f] = s.flight[f]
                \/ /\ s.flight[f] # NoFlight /\ F[f] # NoFlight
                   /\ F[f].id = s.flight[f].id /\ F[f].ver = s.flight[f].ver
  <2>1. CASE s.flight[f] = NoFlight
    BY <2>1
  <2>2. CASE s.flight[f] # NoFlight
    <3>1. f \in Flying(s)
      BY <2>2 DEF Flying
    <3>2. F[f] = Flown(s.flight[f], now(f), act(f))
      BY <2>2
    <3> HIDE DEF F
    <3> QED
      BY <1>2, <1>3, <3>1, <3>2, FlownFields
  <2> QED
    BY <2>1, <2>2
<1>5. F \in [Frame -> Flight \cup {NoFlight}]
  BY <1>4
<1>6. t \in Loop /\ t.flight = F /\ t.items = s.items /\ SameBut(s, t)
  <2> HIDE DEF F
  <2> QED
    BY <1>0, <1>1, <1>5, Reflown
<1>7. Aloft(s, t)
  <2> HIDE DEF F
  <2> QED
    BY <1>4, <1>6 DEF Aloft
<1> QED
  BY <1>0, <1>6, <1>7, SameButParts, AloftGood

\* The two ways a lane goes back.
GiveBackYielded(s) == ReleaseLane([s EXCEPT !.yielded = FALSE])
GiveBack(s) == ReleaseLane([s EXCEPT !.lane = FALSE])

LEMMA Released ==
    ASSUME NEW s \in Loop, NEW t, \/ t = GiveBackYielded(s)
                                  \/ t = GiveBack(s)
    PROVE  /\ t \in Loop /\ t.flight = s.flight /\ t.items = s.items /\ t.run = 0
           /\ t.permit = FALSE /\ t.requested = s.requested /\ t.requesting = s.requesting
           /\ t.need = s.need /\ t.fed = s.fed /\ t.lists = s.lists
<1>1. 0 \in 0 .. MaxRun
  BY BoundAssumption
<1>2. CASE t = GiveBackYielded(s)
  BY <1>1, <1>2, Zenon DEF Loop, ReleaseLane, GiveBack, GiveBackYielded
<1>3. CASE t = GiveBack(s)
  BY <1>1, <1>3, Zenon DEF Loop, ReleaseLane, GiveBack, GiveBackYielded
<1> QED
  BY <1>2, <1>3

LEMMA ReleasedGood ==
    ASSUME NEW s, Good(s), Flying(s) = {}, NEW t,
           \/ s.yielded /\ t = GiveBackYielded(s)
           \/ s.lane /\ t = GiveBack(s)
    PROVE  Good(t) /\ Kin(s, t, {})
<1>0. s \in Loop /\ Paired(s) /\ Lanes(s) /\ Told(s) /\ Lists(s)
  BY DEF Good
<1>1. /\ t \in Loop /\ t.flight = s.flight /\ t.items = s.items /\ t.run = 0
      /\ t.permit = FALSE /\ t.requested = s.requested /\ t.requesting = s.requesting
      /\ t.need = s.need /\ t.fed = s.fed /\ t.lists = s.lists
  <2>1. t = GiveBackYielded(s) \/ t = GiveBack(s)
    OBVIOUS
  <2> QED
    BY <1>0, <2>1, Released, Zenon
<1>2. t.lane = FALSE /\ t.yielded = FALSE
  <2>1. /\ s.lane \in BOOLEAN /\ s.yielded \in BOOLEAN
    BY <1>0, LoopFields
  <2>2. ~(s.lane /\ s.yielded)
    BY <1>0 DEF Lanes
  <2>3. CASE s.yielded /\ t = GiveBackYielded(s)
    <3>1. t.lane = s.lane /\ t.yielded = FALSE
      BY <2>3, <1>0, Zenon DEF Loop, ReleaseLane, GiveBack, GiveBackYielded
    <3> QED
      BY <2>1, <2>2, <2>3, <3>1
  <2>4. CASE s.lane /\ t = GiveBack(s)
    <3>1. t.lane = FALSE /\ t.yielded = s.yielded
      BY <2>4, <1>0, Zenon DEF Loop, ReleaseLane, GiveBack, GiveBackYielded
    <3> QED
      BY <2>1, <2>2, <2>4, <3>1
  <2> QED
    BY <2>3, <2>4
<1>3. Flying(t) = {}
  BY <1>1 DEF Flying
<1>4. Lanes(t)
  BY <1>0, <1>1, <1>2, <1>3 DEF Lanes
<1>5. Paired(t)
  BY <1>0, <1>1, <1>3 DEF Paired
<1>6. Told(t) /\ Lists(t)
  BY <1>0, <1>1 DEF Told, Lists
<1>7. Kin(s, t, {})
  BY <1>1 DEF Kin
<1> QED
  BY <1>1, <1>4, <1>5, <1>6, <1>7 DEF Good

LEMMA DrainedGood ==
    ASSUME NEW s, Good(s), NEW t, t = Drained(s)
    PROVE  Good(t) /\ Kin(s, t, {})
<1>1. CASE s.yielded /\ Flying(s) = {}
  <2>1. t = GiveBackYielded(s)
    BY <1>1, Zenon DEF Drained, GiveBackYielded
  <2> QED
    BY <1>1, <2>1, ReleasedGood
<1>2. CASE ~(s.yielded /\ Flying(s) = {})
  <2>1. t = s
    BY <1>2, Zenon DEF Drained
  <2> QED
    BY <2>1, KinSelf
<1> QED
  BY <1>1, <1>2

LEMMA RequestGood ==
    ASSUME NEW s, Good(s), ~s.lane, ~s.yielded, NEW t, t = RequestLane(s)
    PROVE  Good(t) /\ Kin(s, t, {})
<1>0. s \in Loop /\ Paired(s) /\ Lanes(s) /\ Told(s) /\ Lists(s)
  BY DEF Good
<1>1. s.permit = FALSE /\ Flying(s) = {}
  <2>1. s.permit \in BOOLEAN
    BY <1>0, LoopFields
  <2> QED
    BY <1>0, <2>1 DEF Lanes
<1>2. /\ t \in Loop /\ t.flight = s.flight /\ t.items = s.items /\ t.run = s.run
      /\ t.permit = s.permit /\ t.requested = TRUE /\ t.requesting = (s.requesting \/ ~s.permit)
      /\ t.need = s.need /\ t.fed = s.fed /\ t.lists = s.lists
      /\ t.lane = s.lane /\ t.yielded = s.yielded
  BY <1>0, Zenon DEF Loop, RequestLane
<1>3. t.requesting = TRUE
  BY <1>1, <1>2
<1>4. Lanes(t)
  BY <1>0, <1>1, <1>2, <1>3 DEF Lanes, Flying
<1>5. Paired(t)
  BY <1>0, <1>2 DEF Paired, Flying
<1>6. Told(t) /\ Lists(t)
  BY <1>0, <1>2 DEF Told, Lists
<1>7. Kin(s, t, {})
  BY <1>2, <1>3 DEF Kin
<1> QED
  BY <1>2, <1>4, <1>5, <1>6, <1>7 DEF Good

LEMMA ScheduleGood ==
    ASSUME NEW s, Good(s), NEW t \in Schedule(s)
    PROVE  Good(t) /\ Kin(s, t, {})
<1>1. \/ t = s
      \/ Flying(s) = {} /\ s.lane /\ t = GiveBack(s)
      \/ s.lane /\ t \in StartAll(s)
      \/ ~s.lane /\ ~s.yielded /\ t = RequestLane(s)
  BY Zenon DEF Schedule, GiveBack
<1>2. CASE t = s
  BY <1>2, KinSelf
<1>3. CASE Flying(s) = {} /\ s.lane /\ t = GiveBack(s)
  BY <1>3, ReleasedGood
<1>4. CASE s.lane /\ t \in StartAll(s)
  <2>1. PICK order \in SetToSeqs(Startable(s)) : t \in Turns(s, order)
    BY <1>4 DEF StartAll
  <2>2. s.permit
    <3>1. s.permit \in BOOLEAN
      BY LoopFields DEF Good
    <3> QED
      BY <1>4, <3>1 DEF Good, Lanes
  <2> QED
    BY <2>1, <2>2, TurnsGood
<1>5. CASE ~s.lane /\ ~s.yielded /\ t = RequestLane(s)
  BY <1>5, RequestGood
<1> QED
  BY <1>1, <1>2, <1>3, <1>4, <1>5

LEMMA StepGood ==
    ASSUME NEW S, \A s \in S : Good(s), NEW y \in Step(S)
    PROVE  Good(y) /\ \E s \in S : Kin(s, y, {})
<1>1. PICK s \in S : y \in Schedule(Drained(Reconcile(s)))
  BY DEF Step
<1>2. PICK t, u : t = Reconcile(s) /\ u = Drained(t)
  OBVIOUS
<1>3. Good(t) /\ Kin(s, t, {})
  BY <1>2, ReconcileGood
<1>4. Good(u) /\ Kin(t, u, {})
  BY <1>2, <1>3, DrainedGood
<1>5. Good(y) /\ Kin(u, y, {})
  BY <1>1, <1>2, <1>4, ScheduleGood
<1> QED
  BY <1>3, <1>4, <1>5, KinChain

-----------------------------------------------------------------------------
(***************************************************************************)
(* The end of a fetch.                                                     *)
(***************************************************************************)
\* What Good depends on besides flights and items.
SameFeed(s, t) ==
    SameLane(s, t) /\ t.run = s.run /\ t.need = s.need /\ t.fed = s.fed /\ t.lists = s.lists

\* The four ways: the item is dropped, and its flight, and the frame is no
\* longer wanted, or waits.
PutItems(s, G) == [s EXCEPT !.items = G]
Closed(s, G, F) == [PutItems(s, G) EXCEPT !.flight = F]
Landed(s, G, F, W, O) == [Closed(s, G, F) EXCEPT !.wants = W, !.frameOff = O]
Failed(s, G, F, O) == [Closed(s, G, F) EXCEPT !.frameOff = O]

LEMMA PutItemsFields ==
    ASSUME NEW s \in Loop, NEW G \in [Id -> Item \cup {NoItem}], NEW t, t = PutItems(s, G)
    PROVE  t \in Loop /\ t.items = G /\ t.flight = s.flight /\ SameFeed(s, t)
BY Zenon DEF Loop, SameFeed, SameLane, PutItems

LEMMA ClosedFields ==
    ASSUME NEW s \in Loop, NEW G \in [Id -> Item \cup {NoItem}],
           NEW F \in [Frame -> Flight \cup {NoFlight}], NEW t, t = Closed(s, G, F)
    PROVE  t \in Loop /\ t.items = G /\ t.flight = F /\ SameFeed(s, t)
BY Zenon DEF Loop, SameFeed, SameLane, PutItems, Closed

LEMMA LandedFields ==
    ASSUME NEW s \in Loop, NEW G \in [Id -> Item \cup {NoItem}],
           NEW F \in [Frame -> Flight \cup {NoFlight}],
           NEW W \in [Frame -> Version \cup {None}], NEW O \in SUBSET Frame,
           NEW t, t = Landed(s, G, F, W, O)
    PROVE  t \in Loop /\ t.items = G /\ t.flight = F /\ SameFeed(s, t)
BY Zenon DEF Loop, SameFeed, SameLane, PutItems, Closed, Landed

LEMMA FailedFields ==
    ASSUME NEW s \in Loop, NEW G \in [Id -> Item \cup {NoItem}],
           NEW F \in [Frame -> Flight \cup {NoFlight}], NEW O \in SUBSET Frame,
           NEW t, t = Failed(s, G, F, O)
    PROVE  t \in Loop /\ t.items = G /\ t.flight = F /\ SameFeed(s, t)
BY Zenon DEF Loop, SameFeed, SameLane, PutItems, Closed, Failed

\* An item goes, and with it the flight that is its own.
LEMMA EndedGood ==
    ASSUME NEW s, Good(s), NEW i \in Id, s.items[i] # NoItem,
           NEW f, f = s.items[i].frame, NEW t \in Loop, SameFeed(s, t),
           t.items = [s.items EXCEPT ![i] = NoItem],
           \/ s.flight[f].id # i /\ t.flight = s.flight
           \/ s.flight[f].id = i /\ t.flight = [s.flight EXCEPT ![f] = NoFlight]
    PROVE  Good(t) /\ Kin(s, t, {i})
<1>0. s \in Loop /\ Paired(s) /\ Lanes(s) /\ Told(s) /\ Lists(s)
  BY DEF Good
<1>1. /\ t.items[i] = NoItem
      /\ \A k \in Id : k # i => t.items[k] = s.items[k]
  BY <1>0, LoopFields
<1>2. f \in Frame
  BY <1>0, FlyingFields
<1>3. /\ s.flight[f].id = i => t.flight[f] = NoFlight
      /\ \A g \in Frame : g # f \/ s.flight[f].id # i => t.flight[g] = s.flight[g]
  BY <1>0, <1>2, LoopFields
<1>4. Flying(t) \subseteq Flying(s)
  BY <1>3 DEF Flying
<1>5. Lanes(t)
  BY <1>0, <1>4 DEF Lanes, SameFeed, SameLane
<1>6. Paired(t)
  <2>1. ASSUME NEW g \in Flying(t)
        PROVE  /\ t.items[t.flight[g].id].frame = g
               /\ t.items[t.flight[g].id].ver = t.flight[g].ver
               /\ ~t.items[t.flight[g].id].cancelled
    <3>1. /\ g \in Flying(s) /\ g \in Frame /\ t.flight[g] # NoFlight
          /\ s.flight[g].id \in Id /\ s.items[s.flight[g].id].frame = g
      BY <1>0, <1>4, FlyingFields DEF Paired, Flying
    <3>2. s.flight[g].id # i
      BY <1>3, <3>1
    <3>3. t.flight[g] = s.flight[g]
      BY <1>3, <3>1
    <3>4. t.items[s.flight[g].id] = s.items[s.flight[g].id]
      BY <1>1, <3>1, <3>2
    <3> QED
      BY <1>0, <3>1, <3>3, <3>4 DEF Paired
  <2>2. ASSUME NEW k \in Id, t.items[k] # NoItem, ~t.items[k].cancelled
        PROVE  t.flight[t.items[k].frame].id = k
    <3>1. k # i /\ t.items[k] = s.items[k]
      BY <1>1, <2>2
    <3>2. s.flight[s.items[k].frame].id = k /\ s.items[k].frame \in Frame
      BY <1>0, <2>2, <3>1, FlyingFields DEF Paired
    <3>3. t.flight[s.items[k].frame] = s.flight[s.items[k].frame]
      BY <1>3, <3>1, <3>2
    <3> QED
      BY <3>1, <3>2, <3>3
  <2> QED
    BY <2>1, <2>2 DEF Paired
<1>7. NoItem.event # "done" /\ NoItem.phase # "sent"
  BY Zenon DEF NoItem, None
<1>8. Told(t)
  BY <1>0, <1>1, <1>7 DEF Told
<1>9. Lists(t)
  BY <1>0 DEF Lists, SameFeed
<1>10. Kin(s, t, {i})
  BY <1>1, <1>7 DEF Kin, SameFeed, SameLane
<1> QED
  BY <1>5, <1>6, <1>8, <1>9, <1>10 DEF Good

LEMMA FinishGood ==
    ASSUME NEW s, Good(s), NEW i \in Id, s.items[i] # NoItem,
           NEW result \in {"landed", "failed", "cancelled"}, NEW t, t = Finish(s, i, result)
    PROVE  Good(t) /\ Kin(s, t, {i})
<1>0. s \in Loop
  BY DEF Good
<1>1. PICK f, G, F, W : /\ f = s.items[i].frame
                        /\ G = [s.items EXCEPT ![i] = NoItem]
                        /\ F = [s.flight EXCEPT ![f] = NoFlight]
                        /\ W = [s.wants EXCEPT ![f] = None]
  OBVIOUS
<1>2. f \in Frame /\ s.frameOff \ {f} \in SUBSET Frame /\ s.frameOff \cup {f} \in SUBSET Frame
  BY <1>0, <1>1, FlyingFields, LoopFields
<1>3. /\ G \in [Id -> Item \cup {NoItem}] /\ F \in [Frame -> Flight \cup {NoFlight}]
      /\ W \in [Frame -> Version \cup {None}]
  BY <1>0, <1>1, LoopFields
<1>4. \/ s.flight[f].id # i /\ t = PutItems(s, G)
      \/ s.flight[f].id = i /\ t = Closed(s, G, F)
      \/ s.flight[f].id = i /\ t = Landed(s, G, F, W, s.frameOff \ {f})
      \/ s.flight[f].id = i /\ t = Failed(s, G, F, s.frameOff \cup {f})
  <2>1. CASE s.flight[f].id # i
    BY <1>1, <2>1, Zenon DEF Finish, PutItems
  <2>2. CASE s.flight[f].id = i /\ result = "cancelled"
    <3>1. Finish(s, i, result) = [[s EXCEPT !.items[i] = NoItem] EXCEPT !.flight[f] = NoFlight]
      BY <1>1, <2>2 DEF Finish
    <3> QED
      BY <1>0, <1>1, <2>2, <3>1, Zenon DEF Closed, PutItems, Loop
  <2>3. CASE s.flight[f].id = i /\ result = "landed"
    <3>1. Finish(s, i, result) = [[[s EXCEPT !.items[i] = NoItem] EXCEPT !.flight[f] = NoFlight]
                                      EXCEPT !.wants[f] = None, !.frameOff = @ \ {f}]
      BY <1>1, <2>3 DEF Finish
    <3> QED
      BY <1>0, <1>1, <2>3, <3>1, Zenon DEF Landed, Closed, PutItems, Loop
  <2>4. CASE s.flight[f].id = i /\ result = "failed"
    <3>1. Finish(s, i, result) = [[[s EXCEPT !.items[i] = NoItem] EXCEPT !.flight[f] = NoFlight]
                                      EXCEPT !.frameOff = @ \cup {f}]
      BY <1>1, <2>4 DEF Finish
    <3> QED
      BY <1>0, <1>1, <2>4, <3>1, Zenon DEF Failed, Closed, PutItems, Loop
  <2> QED
    BY <2>1, <2>2, <2>3, <2>4
<1>5. CASE s.flight[f].id # i /\ t = PutItems(s, G)
  <2>1. t \in Loop /\ t.items = G /\ t.flight = s.flight /\ SameFeed(s, t)
    BY <1>0, <1>3, <1>5, PutItemsFields
  <2> QED
    BY <1>1, <1>5, <2>1, EndedGood
<1>6. CASE s.flight[f].id = i /\ t \in Loop /\ t.items = G /\ t.flight = F /\ SameFeed(s, t)
  BY <1>1, <1>6, EndedGood
<1>7. CASE s.flight[f].id = i /\ t = Closed(s, G, F)
  BY <1>0, <1>3, <1>6, <1>7, ClosedFields
<1>8. CASE s.flight[f].id = i /\ t = Landed(s, G, F, W, s.frameOff \ {f})
  BY <1>0, <1>2, <1>3, <1>6, <1>8, LandedFields
<1>9. CASE s.flight[f].id = i /\ t = Failed(s, G, F, s.frameOff \cup {f})
  BY <1>0, <1>2, <1>3, <1>6, <1>9, FailedFields
<1> QED
  BY <1>4, <1>5, <1>7, <1>8, <1>9

\* What the end of one fetch makes of the states S.
EndedOne(S, i, result) == Step({Finish(t, i, result) : t \in S})

\* The states after each of the ends.
EndByEnd(A, s, order, result) ==
    /\ A[0] = {s} /\ FinishAll(s, order, result) = A[Len(order)]
    /\ \A k \in 1 .. Len(order) : A[k] = EndedOne(A[k - 1], order[k], result)

LEMMA FinishAllUnfold ==
    ASSUME NEW s, NEW order, NEW result, Len(order) \in Nat
    PROVE  \E A : EndByEnd(A, s, order, result)
<1> DEFINE Nxt(S, k) == EndedOne(S, order[k], result)
           Aft == CHOOSE A : A = [k \in 0 .. Len(order) |->
                                    IF k = 0 THEN {s} ELSE Nxt(A[k - 1], k)]
<1>1. FinishAll(s, order, result) = Aft[Len(order)]
  BY Zenon DEF FinishAll, EndedOne
<1> PICK n \in Nat : n = Len(order)
  OBVIOUS
<1> HIDE DEF Nxt
<1> DEFINE Upto(A, m) == A[0] = {s} /\ \A k \in 1 .. m : A[k] = Nxt(A[k - 1], k)
           Bad == {m \in Nat : ~\E A : Upto(A, m)}
<1>2. Bad = {}
  <2> SUFFICES ASSUME Bad # {} PROVE FALSE
    OBVIOUS
  <2>1. PICK m \in Bad : \A k \in Bad : m <= k
    BY LeastNumber, Bad \subseteq Nat
  <2>0. m \in Nat /\ ~\E A : Upto(A, m)
    OBVIOUS
  <2>2. m # 0
    <3>1. Upto([k \in {0} |-> {s}], 0)
      OBVIOUS
    <3> QED
      BY <3>1
  <2>3. m - 1 \in Nat /\ m - 1 \notin Bad
    <3> HIDE DEF Bad
    <3> QED
      BY <2>0, <2>1, <2>2
  <2>4. PICK A : Upto(A, m - 1)
    BY <2>3
  <2>5. PICK B : B = [k \in 0 .. m |-> IF k = m THEN Nxt(A[m - 1], m) ELSE A[k]]
    OBVIOUS
  <2>6. B[m] = Nxt(A[m - 1], m) /\ \A k \in 0 .. m - 1 : B[k] = A[k]
    BY <2>0, <2>2, <2>5
  <2>7. ASSUME NEW k \in 1 .. m PROVE B[k] = Nxt(B[k - 1], k)
    <3>1. B[k - 1] = A[k - 1]
      BY <2>0, <2>6
    <3>2. CASE k = m
      BY <2>6, <3>1, <3>2
    <3>3. CASE k # m
      BY <2>0, <2>4, <2>6, <3>1, <3>3
    <3> QED
      BY <3>2, <3>3
  <2>8. Upto(B, m)
    BY <2>0, <2>2, <2>4, <2>6, <2>7
  <2> QED
    BY <2>0, <2>8
<1>3. PICK A : Upto(A, n)
  BY <1>2
<1>4. PICK B : B = [k \in 0 .. n |-> A[k]]
  OBVIOUS
<1>5. B = [k \in 0 .. n |-> IF k = 0 THEN {s} ELSE Nxt(B[k - 1], k)]
  <2>1. ASSUME NEW k \in 0 .. n PROVE B[k] = IF k = 0 THEN {s} ELSE Nxt(B[k - 1], k)
    <3>1. CASE k = 0
      BY <1>3, <1>4, <3>1
    <3>2. CASE k # 0
      <4>1. B[k] = A[k] /\ B[k - 1] = A[k - 1] /\ k \in 1 .. n
        BY <1>4, <3>2
      <4> QED
        BY <1>3, <4>1, <3>2
    <3> QED
      BY <3>1, <3>2
  <2>2. B = [k \in 0 .. n |-> B[k]]
    BY <1>4
  <2> QED
    BY <2>1, <2>2
<1>6. Aft = [k \in 0 .. n |-> IF k = 0 THEN {s} ELSE Nxt(Aft[k - 1], k)]
  BY <1>5, Zenon
<1>7. PICK C : C = Aft
  OBVIOUS
<1> HIDE DEF Aft
<1>8. Upto(C, n)
  <2>1. C = [k \in 0 .. n |-> IF k = 0 THEN {s} ELSE Nxt(C[k - 1], k)]
    BY <1>6, <1>7
  <2>2. \A k \in 0 .. n : C[k] = IF k = 0 THEN {s} ELSE Nxt(C[k - 1], k)
    BY <2>1, Zenon
  <2> QED
    BY <2>2
<1>9. /\ C[0] = {s} /\ FinishAll(s, order, result) = C[Len(order)]
      /\ \A k \in 1 .. Len(order) : C[k] = Nxt(C[k - 1], k)
  BY <1>1, <1>7, <1>8
<1> QED
  BY <1>9, Zenon DEF Nxt, EndByEnd


LEMMA KinUnion ==
    ASSUME NEW s, NEW t, NEW u, NEW I, NEW J, Kin(s, t, I), Kin(t, u, J)
    PROVE  Kin(s, u, I \cup J)
<1>1. /\ u.permit => s.permit
      /\ s.requesting => u.requesting
  BY DEF Kin
<1>2. u.run \in {s.run, 0}
  BY DEF Kin
<1>3. \A i \in Id \ (I \cup J) :
         /\ (u.items[i].phase = "sent") <=> (s.items[i].phase = "sent")
         /\ s.items[i].phase = "sent" =>
               u.items[i].run = s.items[i].run /\ u.items[i].event = s.items[i].event
  BY DEF Kin
<1>4. \A i \in Id \cap (I \cup J) : u.items[i].phase # "sent"
  BY DEF Kin
<1> QED
  BY <1>1, <1>2, <1>3, <1>4 DEF Kin

\* Every item of the order is finished, and no other is touched.
LEMMA FinishAllGood ==
    ASSUME NEW s, Good(s), NEW O, O \subseteq Id, \A i \in O : s.items[i].phase = "sent",
           NEW order \in SetToSeqs(O), NEW result \in {"landed", "failed", "cancelled"},
           NEW y \in FinishAll(s, order, result)
    PROVE  Good(y) /\ Kin(s, y, O)
<1>1. /\ Len(order) \in Nat
      /\ \A k \in 1 .. Len(order) : order[k] \in O
      /\ \A j, k \in 1 .. Len(order) : j # k => order[j] # order[k]
      /\ \A e \in O : \E k \in 1 .. Len(order) : order[k] = e
  <2>1. IsFiniteSet(O)
    BY Finite
  <2> QED
    BY <2>1, OrderFields
<1>0. PICK A : EndByEnd(A, s, order, result)
  BY <1>1, FinishAllUnfold
<1> PICK n \in Nat : n = Len(order)
  BY <1>1
<1>2. /\ A[0] = {s} /\ FinishAll(s, order, result) = A[n]
      /\ \A k \in 1 .. n : A[k] = EndedOne(A[k - 1], order[k], result)
  BY <1>0 DEF EndByEnd
<1> DEFINE First(k) == {order[j] : j \in 1 .. k}
           P(k, t) == Good(t) /\ Kin(s, t, First(k))
           Bad == {k \in 0 .. n : \E t \in A[k] : ~P(k, t)}
<1>3. Bad = {}
  <2> SUFFICES ASSUME Bad # {} PROVE FALSE
    OBVIOUS
  <2>1. PICK m \in Bad : \A k \in Bad : m <= k
    BY LeastNumber, Bad \subseteq Nat
  <2>2. PICK t : m \in 0 .. n /\ t \in A[m] /\ ~P(m, t)
    OBVIOUS
  <2>3. m # 0
    <3>1. First(0) = {}
      OBVIOUS
    <3>2. Kin(s, s, First(0))
      BY <3>1, KinSelf
    <3> QED
      BY <1>2, <2>2, <3>2
  <2>4. \A u \in A[m - 1] : P(m - 1, u)
    <3>1. m - 1 \in 0 .. n
      BY <2>2, <2>3
    <3>2. m - 1 \notin Bad
      <4> HIDE DEF Bad
      <4> QED
        BY <2>1, <2>2, <2>3
    <3> HIDE DEF P
    <3> QED
      BY <3>1, <3>2
  <2>5. PICK i : i = order[m]
    OBVIOUS
  <2>6. i \in O /\ i \in Id /\ i \notin First(m - 1) /\ First(m - 1) \cup {i} = First(m)
    <3>1. i \in O /\ \A j \in 1 .. m - 1 : order[j] # i
      BY <1>1, <2>2, <2>3, <2>5
    <3>2. First(m - 1) \cup {i} = First(m)
      <4>1. 1 .. m = (1 .. m - 1) \cup {m}
        BY <2>2, <2>3
      <4> QED
        BY <2>5, <4>1, Zenon
    <3> QED
      BY <3>1, <3>2
  <2>7. t \in Step({Finish(u, i, result) : u \in A[m - 1]})
    BY <1>2, <2>2, <2>3, <2>5 DEF EndedOne
  <2> HIDE DEF First
  <2>8. ASSUME NEW u \in A[m - 1], NEW v, v = Finish(u, i, result)
        PROVE  Good(v) /\ Kin(s, v, First(m))
    <3>1. Good(u) /\ Kin(s, u, First(m - 1))
      BY <2>4
    <3>2. u.items[i].phase = "sent"
      BY <2>6, <3>1 DEF Kin
    <3>3. u.items[i] # NoItem
      <4>1. NoItem.phase # "sent"
        BY Zenon DEF NoItem, None
      <4> QED
        BY <3>2, <4>1
    <3>4. Good(v) /\ Kin(u, v, {i})
      BY <2>6, <2>8, <3>1, <3>3, FinishGood
    <3>5. Kin(s, v, First(m - 1) \cup {i})
      BY <3>1, <3>4, KinUnion
    <3> QED
      BY <2>6, <3>4, <3>5
  <2>9. PICK S : S = {Finish(u, i, result) : u \in A[m - 1]}
    OBVIOUS
  <2>10. \A v \in S : Good(v) /\ Kin(s, v, First(m))
    <3> TAKE v \in S
    <3>1. PICK u \in A[m - 1] : v = Finish(u, i, result)
      BY <2>9
    <3> QED
      BY <2>8, <3>1
  <2>11. Good(t) /\ \E v \in S : Kin(v, t, {})
    BY <2>7, <2>9, <2>10, StepGood
  <2>12. Kin(s, t, First(m))
    BY <2>10, <2>11, KinChain
  <2> QED
    BY <2>2, <2>11, <2>12
<1>4. n \in 0 .. n /\ n \notin Bad
  <2> HIDE DEF Bad
  <2> QED
    BY <1>3
<1>5. P(n, y)
  <2> HIDE DEF P
  <2> QED
    BY <1>2, <1>4
<1>6. First(n) = O
  BY <1>1
<1> QED
  BY <1>5, <1>6

-----------------------------------------------------------------------------
(***************************************************************************)
(* The gate.                                                               *)
(***************************************************************************)
LEMMA GateFields ==
    ASSUME NEW g \in Gate
    PROVE  /\ g.limit \in Limits \cup {Limit0} /\ g.limit \in Nat
           /\ g.held \subseteq Personal \cup {"lane"} /\ g.personal \in Seq(Personal)
           /\ g.collab \in Line /\ g.yield \in BOOLEAN
<1>1. /\ g.limit \in Limits \cup {Limit0}
      /\ g.held \in SUBSET (Personal \cup {"lane"}) /\ g.personal \in Seq(Personal)
      /\ g.collab \in Line /\ g.yield \in BOOLEAN
  BY Zenon DEF Gate
<1> QED
  BY <1>1, BoundAssumption, LimitAssumption

\* The lanes are held by H, and P and C wait.
Queued(g, H, P, C) == [g EXCEPT !.held = H, !.personal = P, !.collab = C]

LEMMA QueuedFields ==
    ASSUME NEW g \in Gate, NEW H \in SUBSET (Personal \cup {"lane"}), NEW P \in Seq(Personal),
           NEW C \in Line, NEW h, h = Queued(g, H, P, C)
    PROVE  h \in Gate /\ h.limit = g.limit /\ h.held = H /\ h.personal = P /\ h.collab = C
BY Zenon DEF Gate, Queued

LEMMA RefreshFields ==
    ASSUME NEW g \in Gate, NEW h, h = RefreshYield(g)
    PROVE  /\ h \in Gate /\ h.limit = g.limit /\ h.held = g.held
           /\ h.personal = g.personal /\ h.collab = g.collab
<1>1. WantsYield(g) \in BOOLEAN
  BY DEF WantsYield
<1> QED
  BY <1>1, Zenon DEF Gate, RefreshYield

LEMMA OneLane ==
    ASSUME NEW q \in Line
    PROVE  /\ q = <<>> => Len(q) = 0
           /\ q # <<>> => q = <<"lane">> /\ Len(q) = 1 /\ q[1] = "lane"
           /\ q \in Seq({"lane"}) /\ <<>> \in Line /\ <<"lane">> \in Line
<1>1. q \in {<<>>, <<"lane">>} /\ <<>> \in Line /\ <<"lane">> \in Line
  BY Zenon DEF Line
<1>2. CASE q = <<>>
  BY <1>1, <1>2
<1>3. CASE q = <<"lane">>
  <2>1. Len(<<"lane">>) = 1 /\ <<"lane">>[1] = "lane" /\ <<"lane">> \in Seq({"lane"})
    OBVIOUS
  <2>2. <<"lane">> # <<>>
    BY <2>1, Len(<<>>) = 0
  <2> QED
    BY <1>1, <1>3, <2>1, <2>2, Zenon
<1> QED
  BY <1>1, <1>2, <1>3, Zenon

LEMMA BehindType ==
    ASSUME NEW S, NEW q \in Seq(S), NEW n \in Int
    PROVE  Behind(q, n) \in Seq(S)
<1>1. CASE n > 0
  <2>1. Len(q) \in Nat /\ \A i \in n + 1 .. Len(q) : q[i] \in S
    BY <1>1, LenProperties, ElementOfSeq
  <2>2. SubSeq(q, n + 1, Len(q)) \in Seq(S)
    BY <2>1, SubSeqProperties
  <2> QED
    BY <1>1, <2>2 DEF Behind
<1>2. CASE ~(n > 0)
  BY <1>2 DEF Behind
<1> QED
  BY <1>1, <1>2

LEMMA BehindLane ==
    ASSUME NEW n \in Int, NEW q \in Line
    PROVE  Behind(q, n) = IF n > 0 THEN <<>> ELSE q
<1>1. Len(q) \in 0 .. 1
  BY OneLane
<1>2. ASSUME n > 0 PROVE SubSeq(q, n + 1, Len(q)) = <<>>
  <2>1. n + 1 \in Int /\ Len(q) \in Int /\ Len(q) < n + 1
    BY <1>1, <1>2
  <2> QED
    BY ONLY <2>1, SubSeqEmpty
<1> QED
  BY <1>2 DEF Behind

LEMMA FreeType ==
    ASSUME NEW g \in Gate, IsFiniteSet(g.held)
    PROVE  Free(g) \in Int
BY GateFields, FS_CardinalityType DEF Free

\* The free lanes go to those in front: to the collab side if no personal
\* transfer is left.
LEMMA GrantsFields ==
    ASSUME NEW g \in Gate, IsFiniteSet(g.held)
    PROVE  /\ Grants(g) \subseteq Personal \cup {"lane"} /\ IsFiniteSet(Grants(g))
           /\ "lane" \in Grants(g) <=> g.collab # <<>> /\ Free(g) - Len(g.personal) > 0
<1> DEFINE line == g.personal \o g.collab
           D == {k \in DOMAIN line : k <= Free(g)}
           T == Personal \cup {"lane"}
<1>1. Grants(g) = {line[i] : i \in D}
  BY DEF Grants
<1>2. /\ g.personal \in Seq(Personal) /\ g.personal \in Seq(T)
      /\ g.collab \in Line /\ g.collab \in Seq(T)
  <2>1. g.personal \in Seq(Personal) /\ g.collab \in Line
    BY GateFields
  <2>2. g.personal \in Seq(T)
    BY <2>1, SeqMonotonic
  <2>3. g.collab \in Seq(T)
    BY <2>1, OneLane, SeqMonotonic
  <2> QED
    BY <2>1, <2>2, <2>3
<1>3. /\ line \in Seq(T) /\ Len(line) = Len(g.personal) + Len(g.collab)
      /\ \A i \in 1 .. Len(g.personal) + Len(g.collab) :
            line[i] = IF i <= Len(g.personal) THEN g.personal[i] ELSE g.collab[i - Len(g.personal)]
  BY <1>2, ConcatProperties
<1> HIDE DEF line
<1>4. Len(line) \in Nat /\ DOMAIN line = 1 .. Len(line) /\ \A i \in DOMAIN line : line[i] \in T
  BY <1>3, LenProperties, ElementOfSeq
<1>5. Grants(g) \subseteq T
  BY <1>1, <1>4
<1>6. IsFiniteSet(Grants(g))
  <2>1. IsFiniteSet(D)
    <3>1. IsFiniteSet(DOMAIN line)
      BY <1>4, FS_Interval
    <3> QED
      BY <3>1, FS_Subset
  <2>2. PICK F : F = [i \in D |-> line[i]]
    OBVIOUS
  <2>3. F \in Surjection(D, Grants(g))
    BY <1>1, <2>2 DEF Surjection
  <2> QED
    BY <2>1, <2>3, FS_Surjection
<1>7. "lane" \in Grants(g) <=> g.collab # <<>> /\ Free(g) - Len(g.personal) > 0
  <2>1. PICK l \in Nat : l = Len(g.personal)
    BY <1>2, LenProperties
  <2>2. PICK n \in Int : n = Free(g)
    BY FreeType
  <2>3. \A i \in 1 .. l : g.personal[i] # "lane"
    BY <1>2, <2>1, ElementOfSeq, WorldAssumption
  <2>4. ASSUME "lane" \in Grants(g) PROVE g.collab # <<>> /\ n - l > 0
    <3>1. PICK i \in D : line[i] = "lane"
      BY <1>1, <2>4
    <3>2. PICK c \in Nat : c = Len(g.collab) /\ (g.collab = <<>> => c = 0)
      BY <1>2, OneLane
    <3>3. i \in 1 .. l + c /\ i <= n
      BY <1>3, <1>4, <2>1, <2>2, <3>2
    <3>4. i > l
      <4> SUFFICES ASSUME i <= l PROVE FALSE
        BY <3>3
      <4>0. \A k \in 1 .. l + c :
               line[k] = IF k <= l THEN g.personal[k] ELSE g.collab[k - l]
        BY <1>3, <2>1, <3>2, Zenon
      <4>1. i \in 1 .. l /\ i \in 1 .. l + c
        BY <3>3
      <4>2. line[i] = g.personal[i]
        BY <4>0, <4>1
      <4> QED
        BY <2>3, <3>1, <4>1, <4>2
    <3> QED
      BY <3>2, <3>3, <3>4
  <2>5. ASSUME g.collab # <<>>, n - l > 0 PROVE "lane" \in Grants(g)
    <3>1. g.collab = <<"lane">> /\ Len(g.collab) = 1 /\ g.collab[1] = "lane"
      BY <1>2, <2>5, OneLane
    <3>2. Len(line) = l + 1 /\ line[l + 1] = g.collab[l + 1 - l]
      BY <1>3, <2>1, <3>1
    <3>3. l + 1 \in D /\ line[l + 1] = "lane"
      BY <1>4, <2>1, <2>2, <2>5, <3>1, <3>2
    <3> QED
      BY <1>1, <3>3
  <2> QED
    BY <2>1, <2>2, <2>4, <2>5
<1> QED
  BY <1>5, <1>6, <1>7

LEMMA SettleFields ==
    ASSUME NEW g \in Gate, IsFiniteSet(g.held), NEW h, h = Settle(g)
    PROVE  /\ h \in Gate /\ h.limit = g.limit /\ IsFiniteSet(h.held) /\ g.held \subseteq h.held
           /\ h.held = g.held \cup Grants(g)
           /\ \/ h.collab = g.collab /\ ("lane" \in h.held => "lane" \in g.held)
              \/ g.collab # <<>> /\ h.collab = <<>> /\ "lane" \in h.held
<1>0. Free(g) \in Int /\ Len(g.personal) \in Nat
  BY FreeType, GateFields, LenProperties
<1>1. PICK H, P, C, n : /\ H = g.held \cup Grants(g) /\ P = Behind(g.personal, Free(g))
                        /\ n = Free(g) - Len(g.personal) /\ C = Behind(g.collab, n)
  OBVIOUS
<1>2. H \in SUBSET (Personal \cup {"lane"}) /\ IsFiniteSet(H)
  BY <1>1, GateFields, GrantsFields, FS_Union
<1>3. P \in Seq(Personal)
  BY <1>0, <1>1, GateFields, BehindType
<1>4. n \in Int /\ C = IF n > 0 THEN <<>> ELSE g.collab
  BY <1>0, <1>1, GateFields, BehindLane
<1>5. C \in Line
  BY <1>4, GateFields, OneLane
<1>6. PICK k : k = Queued(g, H, P, C)
  OBVIOUS
<1>7. h = RefreshYield(k)
  BY <1>1, <1>6, Zenon DEF Settle, Queued
<1>8. k \in Gate /\ k.limit = g.limit /\ k.held = H /\ k.personal = P /\ k.collab = C
  BY <1>2, <1>3, <1>5, <1>6, QueuedFields
<1>9. h \in Gate /\ h.limit = g.limit /\ h.held = H /\ h.collab = C
  BY <1>7, <1>8, RefreshFields
<1>10. "lane" \in Grants(g) <=> g.collab # <<>> /\ n > 0
  BY <1>1, GrantsFields
<1> QED
  BY <1>1, <1>2, <1>4, <1>9, <1>10

LEMMA MinIn ==
    ASSUME NEW S, S \subseteq Nat, S # {}
    PROVE  Min(S) \in S
<1>1. \E m \in S : \A k \in S : m <= k
  BY LeastNumber
<1> QED
  BY <1>1, Zenon DEF Min

LEMMA RemoveFirstAt ==
    ASSUME NEW S, NEW q \in Seq(S), NEW c
    PROVE  \/ RemoveFirst(q, c) = q /\ \A k \in 1 .. Len(q) : q[k] # c
           \/ \E i \in 1 .. Len(q) :
                 /\ q[i] = c
                 /\ RemoveFirst(q, c) = SubSeq(q, 1, i - 1) \o SubSeq(q, i + 1, Len(q))
<1>1. CASE \E k \in 1 .. Len(q) : q[k] = c
  <2>1. PICK I : I = {k \in 1 .. Len(q) : q[k] = c}
    OBVIOUS
  <2>2. I \subseteq Nat /\ I # {}
    BY <1>1, <2>1
  <2>3. SelectInSeq(q, LAMBDA v : v = c) = Min(I)
    BY <2>1, <2>2, Zenon DEF SelectInSeq
  <2>4. RemoveFirst(q, c) = RemoveAt(q, Min(I))
    BY <1>1, <2>3, Zenon DEF RemoveFirst
  <2>5. Min(I) \in 1 .. Len(q) /\ q[Min(I)] = c
    BY <2>1, <2>2, MinIn
  <2>6. RemoveAt(q, Min(I)) = SubSeq(q, 1, Min(I) - 1) \o SubSeq(q, Min(I) + 1, Len(q))
    BY Zenon DEF RemoveAt
  <2> QED
    BY <2>4, <2>5, <2>6, Zenon
<1>2. CASE ~\E k \in 1 .. Len(q) : q[k] = c
  BY <1>2, Zenon DEF RemoveFirst
<1> QED
  BY <1>1, <1>2

LEMMA RemoveFirstType ==
    ASSUME NEW S, NEW q \in Seq(S), NEW c
    PROVE  RemoveFirst(q, c) \in Seq(S)
<1>1. Len(q) \in Nat /\ \A k \in 1 .. Len(q) : q[k] \in S
  BY LenProperties, ElementOfSeq
<1>2. ASSUME NEW i \in 1 .. Len(q)
      PROVE  SubSeq(q, 1, i - 1) \o SubSeq(q, i + 1, Len(q)) \in Seq(S)
  <2>1. i - 1 \in Int /\ i + 1 \in Int /\ Len(q) \in Int
    BY <1>1
  <2>2. (\A k \in 1 .. i - 1 : q[k] \in S) /\ \A k \in i + 1 .. Len(q) : q[k] \in S
    BY <1>1
  <2>3. SubSeq(q, 1, i - 1) \in Seq(S)
    BY <2>1, <2>2, SubSeqProperties
  <2>4. SubSeq(q, i + 1, Len(q)) \in Seq(S)
    BY <2>1, <2>2, SubSeqProperties
  <2> QED
    BY <2>3, <2>4, ConcatProperties
<1> QED
  BY <1>2, RemoveFirstAt

LEMMA RemoveFirstLane ==
    ASSUME NEW q \in Line, NEW c
    PROVE  RemoveFirst(q, c) = IF c = "lane" THEN <<>> ELSE q
<1>1. q \in Seq({"lane"}) /\ Len(q) \in {0, 1} /\ \A k \in 1 .. Len(q) : q[k] = "lane"
  BY OneLane
<1>2. CASE RemoveFirst(q, c) = q /\ \A k \in 1 .. Len(q) : q[k] # c
  <2>1. c = "lane" => q = <<>>
    <3>1. q # <<>> => Len(q) = 1 /\ q[1] = "lane"
      BY OneLane
    <3>2. q # <<>> => 1 \in 1 .. Len(q)
      BY <3>1
    <3> QED
      BY <1>2, <3>1, <3>2
  <2> QED
    BY <1>2, <2>1, Zenon
<1>3. CASE \E i \in 1 .. Len(q) :
             /\ q[i] = c
             /\ RemoveFirst(q, c) = SubSeq(q, 1, i - 1) \o SubSeq(q, i + 1, Len(q))
  <2>1. PICK i \in 1 .. Len(q) :
             /\ q[i] = c
             /\ RemoveFirst(q, c) = SubSeq(q, 1, i - 1) \o SubSeq(q, i + 1, Len(q))
    BY <1>3
  <2>2. i = 1 /\ Len(q) = 1 /\ c = "lane"
    BY <1>1, <2>1
  <2>3. SubSeq(q, 1, 0) = <<>> /\ SubSeq(q, 2, 1) = <<>>
    BY SubSeqEmpty
  <2>4. <<>> \o <<>> = <<>>
    OBVIOUS
  <2>5. SubSeq(q, 1, i - 1) = <<>> /\ SubSeq(q, i + 1, Len(q)) = <<>>
    BY <2>2, <2>3
  <2> QED
    BY <2>1, <2>2, <2>4, <2>5, Zenon
<1> QED
  BY <1>1, <1>2, <1>3, RemoveFirstAt

LEMMA LeaveFields ==
    ASSUME NEW g \in Gate, IsFiniteSet(g.held), NEW c, NEW h, h = Leave(g, c)
    PROVE  /\ h \in Gate /\ IsFiniteSet(h.held) /\ g.held \ {c} \subseteq h.held
           /\ c = "lane" => "lane" \notin h.held /\ h.collab = <<>>
           /\ c # "lane" =>
                 \/ h.collab = g.collab /\ ("lane" \in h.held => "lane" \in g.held)
                 \/ g.collab # <<>> /\ h.collab = <<>> /\ "lane" \in h.held
<1>1. PICK k, H, P, C : /\ H = g.held \ {c} /\ P = RemoveFirst(g.personal, c)
                        /\ C = RemoveFirst(g.collab, c) /\ k = Queued(g, H, P, C)
  OBVIOUS
<1>2. H \in SUBSET (Personal \cup {"lane"}) /\ IsFiniteSet(H)
  BY <1>1, GateFields, FS_RemoveElement
<1>3. P \in Seq(Personal)
  BY <1>1, GateFields, RemoveFirstType
<1>4. C = IF c = "lane" THEN <<>> ELSE g.collab
  BY <1>1, GateFields, RemoveFirstLane
<1>5. C \in Line
  BY <1>4, GateFields, OneLane
<1>6. k \in Gate /\ k.held = H /\ k.collab = C
  BY <1>1, <1>2, <1>3, <1>5, QueuedFields
<1>7. h = Settle(k)
  BY <1>1, Zenon DEF Leave, Queued
<1>8. /\ h \in Gate /\ IsFiniteSet(h.held) /\ k.held \subseteq h.held
      /\ \/ h.collab = k.collab /\ ("lane" \in h.held => "lane" \in k.held)
         \/ k.collab # <<>> /\ h.collab = <<>> /\ "lane" \in h.held
  BY <1>2, <1>6, <1>7, SettleFields
<1> QED
  BY <1>1, <1>4, <1>6, <1>8

LEMMA SetLimitFields ==
    ASSUME NEW g \in Gate, IsFiniteSet(g.held), NEW n \in Limits, NEW h, h = SetLimit(g, n)
    PROVE  /\ h \in Gate /\ IsFiniteSet(h.held) /\ g.held \subseteq h.held
           /\ \/ h.collab = g.collab /\ ("lane" \in h.held => "lane" \in g.held)
              \/ g.collab # <<>> /\ h.collab = <<>> /\ "lane" \in h.held
<1>1. PICK k : k = [g EXCEPT !.limit = n]
  OBVIOUS
<1>2. k \in Gate /\ k.held = g.held /\ k.collab = g.collab
  BY <1>1, Zenon DEF Gate
<1>3. h = Settle(k)
  BY <1>1, Zenon DEF SetLimit
<1> QED
  BY <1>2, <1>3, SettleFields

\* A lane is taken by c, or c waits in the queue of its class.
Taken(g, c) == [g EXCEPT !.held = @ \cup {c}]
WaitsPersonal(g, c) == [g EXCEPT !.personal = Append(@, c)]
WaitsCollab(g, c) == [g EXCEPT !.collab = Append(@, c)]

LEMMA TakenFields ==
    ASSUME NEW g \in Gate, IsFiniteSet(g.held), NEW c \in Personal \cup {"lane"},
           NEW h, h = RefreshYield(Taken(g, c))
    PROVE  h \in Gate /\ IsFiniteSet(h.held) /\ h.collab = g.collab /\ h.held = g.held \cup {c}
<1>1. PICK H, k : H = g.held \cup {c} /\ k = Taken(g, c)
  OBVIOUS
<1>2. H \in SUBSET (Personal \cup {"lane"}) /\ IsFiniteSet(H)
  BY <1>1, GateFields, FS_AddElement
<1>3. k \in Gate /\ k.held = H /\ k.collab = g.collab
  BY <1>1, <1>2, Zenon DEF Gate, Taken
<1> QED
  BY <1>1, <1>2, <1>3, RefreshFields

LEMMA WaitsFields ==
    ASSUME NEW g \in Gate, IsFiniteSet(g.held), NEW p \in Personal, NEW h,
           h = RefreshYield(WaitsPersonal(g, p))
    PROVE  h \in Gate /\ IsFiniteSet(h.held) /\ h.collab = g.collab /\ h.held = g.held
<1>1. PICK P, k : P = Append(g.personal, p) /\ k = WaitsPersonal(g, p)
  OBVIOUS
<1>2. P \in Seq(Personal)
  BY <1>1, GateFields, AppendProperties
<1>3. k \in Gate /\ k.held = g.held /\ k.collab = g.collab
  BY <1>1, <1>2, Zenon DEF Gate, WaitsPersonal
<1> QED
  BY <1>1, <1>3, RefreshFields

LEMMA WaitsLane ==
    ASSUME NEW g \in Gate, IsFiniteSet(g.held), g.collab = <<>>, NEW h,
           h = RefreshYield(WaitsCollab(g, "lane"))
    PROVE  h \in Gate /\ IsFiniteSet(h.held) /\ h.held = g.held
<1>1. PICK C, k : C = Append(g.collab, "lane") /\ k = WaitsCollab(g, "lane")
  OBVIOUS
<1>2. C \in Line
  <2>1. Append(<<>>, "lane") = <<"lane">>
    OBVIOUS
  <2> QED
    BY <1>1, <2>1, Zenon DEF Line
<1>3. k \in Gate /\ k.held = g.held
  BY <1>1, <1>2, Zenon DEF Gate, WaitsCollab
<1> QED
  BY <1>1, <1>3, RefreshFields

LEMMA AcquirePersonalFields ==
    ASSUME NEW g \in Gate, IsFiniteSet(g.held), NEW p \in Personal, NEW h,
           h = AcquirePersonal(g, p)
    PROVE  /\ h \in Gate /\ IsFiniteSet(h.held) /\ h.collab = g.collab
           /\ h.held \in {g.held, g.held \cup {p}}
<1>1. \/ h = RefreshYield(Taken(g, p))
      \/ h = RefreshYield(WaitsPersonal(g, p))
  BY Zenon DEF AcquirePersonal, Taken, WaitsPersonal
<1> QED
  BY <1>1, TakenFields, WaitsFields

LEMMA AcquireCollabFields ==
    ASSUME NEW g \in Gate, IsFiniteSet(g.held), "lane" \notin g.held, g.collab = <<>>,
           NEW h, h = AcquireCollab(g, "lane")
    PROVE  /\ h \in Gate /\ IsFiniteSet(h.held)
           /\ h.collab = <<>> \/ "lane" \notin h.held
<1>1. \/ h = RefreshYield(Taken(g, "lane"))
      \/ h = RefreshYield(WaitsCollab(g, "lane"))
  BY Zenon DEF AcquireCollab, Taken, WaitsCollab
<1> QED
  BY <1>1, TakenFields, WaitsLane

-----------------------------------------------------------------------------
(***************************************************************************)
(* What a handler leaves.                                                  *)
(***************************************************************************)
LEMMA AdmittedKin ==
    ASSUME NEW g, NEW s, Admitted(g, s), NEW y, NEW I, Kin(s, y, I),
           NEW h, h = IF s.permit /\ ~y.permit THEN Leave(g, "lane") ELSE g
    PROVE  Admitted(h, y)
<1>1. CASE s.permit /\ ~y.permit
  <2>1. h = Leave(g, "lane")
    BY <1>1
  <2>2. h \in Gate /\ IsFiniteSet(h.held) /\ "lane" \notin h.held /\ h.collab = <<>>
    BY <2>1, LeaveFields DEF Admitted
  <2> QED
    BY <1>1, <2>2 DEF Admitted
<1>2. CASE ~(s.permit /\ ~y.permit)
  <2>1. h = g
    BY <1>2
  <2> QED
    BY <1>2, <2>1 DEF Admitted, Kin
<1> QED
  BY <1>1, <1>2

\* The gate changes in the name of somebody else.
LEMMA AdmittedOther ==
    ASSUME NEW g, NEW s, Admitted(g, s), NEW h \in Gate, IsFiniteSet(h.held),
           "lane" \in g.held => "lane" \in h.held,
           \/ h.collab = g.collab /\ ("lane" \in h.held => "lane" \in g.held)
           \/ g.collab # <<>> /\ h.collab = <<>> /\ "lane" \in h.held
    PROVE  Admitted(h, s)
BY DEF Admitted

LEMMA LedKin ==
    ASSUME NEW s, NEW rs, Led(s, rs), NEW y, NEW I, Kin(s, y, I)
    PROVE  Led(y, rs)
<1>1. y.run # 0 => rs[y.run] # None
  BY DEF Led, Kin
<1>2. ASSUME NEW i \in Id, y.items[i].phase = "sent", y.items[i].event = None
      PROVE  y.items[i].run \in RunId /\ rs[y.items[i].run] # None
  <2>1. /\ s.items[i].phase = "sent" /\ s.items[i].event = None
        /\ y.items[i].run = s.items[i].run
    BY <1>2 DEF Kin
  <2> QED
    BY <2>1 DEF Led
<1> QED
  BY <1>1, <1>2 DEF Led

LEMMA CarriedKin ==
    ASSUME NEW s, NEW T, T \subseteq Id, NEW rs, Carried(s, T, rs), NEW y, NEW I,
           Kin(s, y, I), I \cap T = {}
    PROVE  Carried(y, T, rs)
BY DEF Carried, Kin

\* A handler whose outcomes are good and akin to the state it found.
LEMMA Handled ==
    ASSUME Inv, NEW s, NEW I, I \cap taken = {}, NEW S, Admitted(gate, s), Led(s, runs),
           Carried(s, taken, runs), \A y \in S : Good(y) /\ Kin(s, y, I),
           Becomes(s.permit, S), UNCHANGED <<taken, runs>>
    PROVE  Held'
<1>1. PICK y \in S : x' = y /\ gate' = IF s.permit /\ ~y.permit THEN Leave(gate, "lane") ELSE gate
  BY Zenon DEF Becomes
<1>2. Good(x') /\ Kin(s, x', I) /\ taken \subseteq Id
  BY <1>1 DEF Inv, Rest
<1>3. Led(x', runs') /\ Carried(x', taken', runs')
  BY <1>2, LedKin, CarriedKin
<1>4. gate' = IF s.permit /\ ~x'.permit THEN Leave(gate, "lane") ELSE gate
  BY <1>1
<1>5. Admitted(gate', x')
  BY <1>2, <1>4, AdmittedKin
<1> QED
  BY <1>2, <1>3, <1>5 DEF Held

\* The same, from one good state.
LEMMA Stepped ==
    ASSUME Inv, NEW s, NEW I, I \cap taken = {}, Good(s), Kin(x, s, I),
           Becomes(x.permit, Step({s})), UNCHANGED <<taken, runs>>
    PROVE  Held'
<1>1. ASSUME NEW y \in Step({s}) PROVE Good(y) /\ Kin(x, y, I)
  BY StepGood, KinChain
<1> QED
  BY <1>1, Handled DEF Inv, Held

-----------------------------------------------------------------------------
(***************************************************************************)
(* What the inputs do to the core before its step.                         *)
(***************************************************************************)
LEMMA TunedGood ==
    ASSUME NEW s, Good(s), NEW t \in Loop, t.flight = s.flight, t.items = s.items, SameFeed(s, t)
    PROVE  Good(t) /\ Kin(s, t, {})
<1>1. Aloft(s, t) /\ SameLane(s, t) /\ t.run = s.run
  BY Zenon DEF Aloft, SameFeed
<1>2. Lists(t)
  BY DEF Good, Lists, SameFeed
<1> QED
  BY <1>1, <1>2, AloftGood

\* The inputs that change none of the core's tables.
SetSlots(s, n) == [s EXCEPT !.slots = n]
SetStorage(s, b) == [s EXCEPT !.storageOk = b]
SetDialOff(s, D) == [s EXCEPT !.dialOff = D]
SetFrameOff(s, O) == [s EXCEPT !.frameOff = O]
SetBothOff(s, D, O) == [s EXCEPT !.dialOff = D, !.frameOff = O]

LEMMA TuneGood ==
    ASSUME NEW s, Good(s), NEW n \in Nat \ {0}, NEW b \in BOOLEAN, NEW D \in SUBSET Device,
           NEW O \in SUBSET Frame,
           NEW t \in {SetSlots(s, n), SetStorage(s, b), SetDialOff(s, D), SetFrameOff(s, O),
                      SetBothOff(s, D, O)}
    PROVE  Good(t) /\ Kin(s, t, {})
<1>1. s \in Loop
  BY DEF Good
<1>2. t \in Loop /\ t.flight = s.flight /\ t.items = s.items /\ SameFeed(s, t)
  <2>1. CASE t = SetSlots(s, n)
    BY <1>1, <2>1, Zenon DEF Loop, SameFeed, SameLane, SetSlots
  <2>2. CASE t = SetStorage(s, b)
    BY <1>1, <2>2, Zenon DEF Loop, SameFeed, SameLane, SetStorage
  <2>3. CASE t = SetDialOff(s, D)
    BY <1>1, <2>3, Zenon DEF Loop, SameFeed, SameLane, SetDialOff
  <2>4. CASE t = SetFrameOff(s, O)
    BY <1>1, <2>4, Zenon DEF Loop, SameFeed, SameLane, SetFrameOff
  <2>5. CASE t = SetBothOff(s, D, O)
    BY <1>1, <2>5, Zenon DEF Loop, SameFeed, SameLane, SetBothOff
  <2> QED
    BY <2>1, <2>2, <2>3, <2>4, <2>5
<1> QED
  BY <1>2, TunedGood

\* The flights become F and the dial back-offs D.
Redial(s, F, D) == [s EXCEPT !.dialOff = D, !.flight = F]

LEMMA RedialFields ==
    ASSUME NEW s \in Loop, NEW F \in [Frame -> Flight \cup {NoFlight}], NEW D \in SUBSET Device,
           NEW t, t = Redial(s, F, D) \/ t = PutFlight(s, F)
    PROVE  t \in Loop /\ t.flight = F /\ t.items = s.items /\ SameFeed(s, t)
<1>1. CASE t = Redial(s, F, D)
  BY <1>1, Zenon DEF Loop, SameFeed, SameLane, Redial
<1>2. CASE t = PutFlight(s, F)
  BY <1>2, Zenon DEF Loop, SameFeed, SameLane, PutFlight
<1> QED
  BY <1>1, <1>2

\* The connections of the flights change.
Connected(h, A) == [h EXCEPT !.active = A]

LEMMA ConnectedFields ==
    ASSUME NEW h \in Flight \cup {NoFlight}, NEW A \in SUBSET Device,
           h = NoFlight => A = {}, NEW k, k = Connected(h, A)
    PROVE  /\ k \in Flight \cup {NoFlight}
           /\ \/ k = h
              \/ h # NoFlight /\ k # NoFlight /\ k.id = h.id /\ k.ver = h.ver
<1>1. CASE h = NoFlight
  BY <1>1 DEF Connected, NoFlight
<1>2. CASE h \in Flight
  <2>1. k \in Flight /\ k.id = h.id /\ k.ver = h.ver /\ h.id # 0
    BY <1>2 DEF Flight, Connected, Id
  <2> QED
    BY <2>1 DEF NoFlight
<1> QED
  BY <1>1, <1>2

\* Every flight f with the connections A[f].
Rewired(s, A) == [f \in Frame |-> Connected(s.flight[f], A[f])]

LEMMA RedialGood ==
    ASSUME NEW s, Good(s), NEW A, NEW F, NEW D \in SUBSET Device,
           \A f \in Frame : A[f] \in SUBSET Device /\ (s.flight[f] = NoFlight => A[f] = {}),
           F = Rewired(s, A),
           NEW t, t = Redial(s, F, D) \/ t = PutFlight(s, F)
    PROVE  Good(t) /\ Kin(s, t, {})
<1>0. s \in Loop /\ Lists(s)
  BY DEF Good
<1>1. \A f \in Frame : s.flight[f] \in Flight \cup {NoFlight}
  BY <1>0, LoopFields
<1>2. \A f \in Frame :
         /\ F[f] \in Flight \cup {NoFlight}
         /\ \/ F[f] = s.flight[f]
            \/ /\ s.flight[f] # NoFlight /\ F[f] # NoFlight
               /\ F[f].id = s.flight[f].id /\ F[f].ver = s.flight[f].ver
  <2> TAKE f \in Frame
  <2>1. F[f] = Connected(s.flight[f], A[f])
    BY DEF Rewired
  <2> QED
    BY <1>1, <2>1, ConnectedFields
<1>3. F \in [Frame -> Flight \cup {NoFlight}]
  <2>1. F = [f \in Frame |-> F[f]]
    BY DEF Rewired
  <2> QED
    BY <1>2, <2>1
<1>4. t \in Loop /\ t.flight = F /\ t.items = s.items /\ SameFeed(s, t)
  <2>1. (t = Redial(s, F, D) \/ t = PutFlight(s, F)) /\ D \in SUBSET Device
    OBVIOUS
  <2> QED
    BY ONLY <1>0, <1>3, <2>1, RedialFields
<1>5. Aloft(s, t)
  BY <1>2, <1>4 DEF Aloft
<1>6. Lists(t) /\ SameLane(s, t) /\ t.run = s.run
  BY <1>0, <1>4 DEF Lists, SameFeed
<1> QED
  BY <1>4, <1>5, <1>6, AloftGood

\* The lists last fed become K and the lists of the core L.
Feed(s, K, L) == [s EXCEPT !.fed = K, !.lists = L]

LEMMA FeedGood ==
    ASSUME NEW s, Good(s), NEW K \in [Frame -> Fed],
           NEW L \in [Frame -> [Version -> SUBSET Device]], NEW t, t = Feed(s, K, L), Lists(t)
    PROVE  Good(t) /\ Kin(s, t, {})
<1>0. s \in Loop
  BY DEF Good
<1>1. t \in Loop /\ t.flight = s.flight /\ t.items = s.items /\ t.run = s.run /\ SameLane(s, t)
  BY <1>0, Zenon DEF Loop, SameLane, Feed
<1>2. Aloft(s, t)
  BY <1>1 DEF Aloft
<1> QED
  BY <1>1, <1>2, AloftGood

LEMMA FeedListsGood ==
    ASSUME NEW s, Good(s), NEW fs, fs \subseteq Frame, NEW y \in FeedLists(s, fs)
    PROVE  Good(y) /\ Kin(s, y, {})
<1>0. s \in Loop /\ Lists(s)
  BY DEF Good
<1> DEFINE derived == [f \in Frame |-> Holds[f] \cap present]
           new == {f \in fs : s.need[f] # None /\ s.fed[f] # <<derived[f]>>}
           K == [f \in Frame |-> IF f \in new THEN <<derived[f]>> ELSE s.fed[f]]
           L == [f \in Frame |-> [v \in Version |->
                   IF f \in new /\ v = s.need[f] THEN derived[f] ELSE s.lists[f][v]]]
<1>1. y = s \/ y \in Step({Feed(s, K, L)})
  BY Zenon DEF FeedLists, Feed
<1>2. CASE y = s
  BY <1>2, KinSelf
<1>3. CASE y \in Step({Feed(s, K, L)})
  <2>1. \A f \in Frame : derived[f] \in SUBSET Device
    BY HoldsAssumption DEF Frame
  <2>2. /\ s.fed \in [Frame -> Fed] /\ s.lists \in [Frame -> [Version -> SUBSET Device]]
        /\ s.need \in [Frame -> Version \cup {None}]
    BY <1>0, LoopFields
  <2> HIDE DEF derived
  <2>3. new \subseteq Frame /\ \A f \in new : s.need[f] \in Version
    BY <2>2
  <2> HIDE DEF new
  <2>4. \A f \in Frame : <<derived[f]>> \in Fed
    BY <2>1 DEF Fed
  <2>5. K \in [Frame -> Fed]
    BY <2>2, <2>4
  <2>6. L \in [Frame -> [Version -> SUBSET Device]]
    BY <2>1, <2>2
  <2>7. PICK t : t = Feed(s, K, L)
    OBVIOUS
  <2>8. t.fed = K /\ t.lists = L /\ t.need = s.need
    BY <1>0, <2>7, Zenon DEF Feed, Loop
  <2>9. Lists(t)
    <3> SUFFICES ASSUME NEW f \in Frame, s.need[f] # None, K[f] # <<>>
                 PROVE  L[f][s.need[f]] = K[f][1]
      BY <2>8 DEF Lists
    <3>1. s.need[f] \in Version
      BY <2>2
    <3>2. CASE f \in new
      <4>1. K[f] = <<derived[f]>> /\ L[f][s.need[f]] = derived[f]
        BY <3>1, <3>2
      <4> QED
        BY <4>1
    <3>3. CASE f \notin new
      <4>1. K[f] = s.fed[f] /\ L[f][s.need[f]] = s.lists[f][s.need[f]]
        BY <3>1, <3>3
      <4> QED
        BY <1>0, <4>1 DEF Lists
    <3> QED
      BY <3>2, <3>3
  <2> HIDE DEF K, L
  <2>10. Good(t) /\ Kin(s, t, {})
    BY <2>5, <2>6, <2>7, <2>9, FeedGood
  <2>11. \A z \in {t} : Good(z)
    BY <2>10
  <2>12. Good(y) /\ Kin(t, y, {})
    BY <1>3, <2>7, <2>11, StepGood
  <2> QED
    BY <2>10, <2>12, KinChain
<1> QED
  BY <1>1, <1>2, <1>3

\* A new need set, with its lists, and what counts as fed.
Need(s, W, L, O, K) ==
    [[s EXCEPT !.wants = W, !.lists = L, !.frameOff = O] EXCEPT !.need = W, !.fed = K]

LEMMA NeedGood ==
    ASSUME NEW s, Good(s), NEW W \in [Frame -> Version \cup {None}],
           NEW L \in [Frame -> [Version -> SUBSET Device]], NEW O \in SUBSET Frame,
           NEW K \in [Frame -> Fed], NEW t, t = Need(s, W, L, O, K),
           \A f \in Frame : W[f] # None /\ K[f] # <<>> => L[f][W[f]] = K[f][1]
    PROVE  Good(t) /\ Kin(s, t, {})
<1>0. s \in Loop
  BY DEF Good
<1>1. /\ t \in Loop /\ t.flight = s.flight /\ t.items = s.items /\ t.run = s.run
      /\ SameLane(s, t) /\ t.need = W /\ t.fed = K /\ t.lists = L
  BY <1>0, Zenon DEF Loop, SameLane, Need
<1>2. Aloft(s, t) /\ Lists(t)
  BY <1>1 DEF Aloft, Lists
<1> QED
  BY <1>1, <1>2, AloftGood

LEMMA ReadGood ==
    ASSUME NEW s, Good(s), NEW want \in [Frame -> Version \cup {None}], NEW refeed,
           NEW t, t = [ApplyNeedSet(s, want) EXCEPT !.need = want,
                                                    !.fed = KeptFeed(s, want, refeed)]
    PROVE  Good(t) /\ Kin(s, t, {})
<1>0. s \in Loop /\ Lists(s)
  BY DEF Good
<1>1. PICK moved, c : /\ moved = {f \in Flying(s) : s.flight[f].ver # want[f]}
                      /\ c = Cancel(s, moved)
  OBVIOUS
<1>2. Good(c) /\ Kin(s, c, {}) /\ SameBut(s, c)
  BY <1>1, CancelGood
<1>3. c \in Loop /\ c.lists = s.lists
  BY <1>2 DEF Good, SameBut
<1> DEFINE L == [f \in Frame |-> [v \in Version |-> IF v = want[f] THEN c.lists[f][v] ELSE {}]]
           O == {f \in c.frameOff : want[f] # None /\ s.wants[f] \in {None, want[f]}}
           K == KeptFeed(s, want, refeed)
<1>4. t = Need(c, want, L, O, K)
  BY <1>1, Zenon DEF ApplyNeedSet, Need
<1>5. /\ s.fed \in [Frame -> Fed] /\ s.lists \in [Frame -> [Version -> SUBSET Device]]
      /\ s.need \in [Frame -> Version \cup {None}] /\ c.frameOff \subseteq Frame
  BY <1>0, <1>3, LoopFields
<1>6. \A f \in Frame :
         \/ K[f] = <<>>
         \/ K[f] = s.fed[f] /\ want[f] # None /\ s.need[f] = want[f]
  BY DEF KeptFeed
<1>7. K \in [Frame -> Fed]
  <2>1. <<>> \in Fed
    BY DEF Fed
  <2> QED
    BY <1>5, <2>1 DEF KeptFeed
<1>8. L \in [Frame -> [Version -> SUBSET Device]] /\ O \in SUBSET Frame
  BY <1>3, <1>5
<1>9. ASSUME NEW f \in Frame, want[f] # None, K[f] # <<>>
      PROVE  L[f][want[f]] = K[f][1]
  <2>1. K[f] = s.fed[f] /\ s.need[f] = want[f]
    BY <1>6, <1>9
  <2>2. L[f][want[f]] = s.lists[f][want[f]]
    BY <1>3, <1>9
  <2> QED
    BY <1>0, <1>9, <2>1, <2>2 DEF Lists
<1> HIDE DEF L, O, K
<1>10. Good(t) /\ Kin(c, t, {})
  BY <1>2, <1>4, <1>7, <1>8, <1>9, NeedGood
<1> QED
  BY <1>2, <1>10, KinChain

\* A project that is gone: nothing is wanted, and nothing counts as fed.
Emptied(s, W, K, L) ==
    [s EXCEPT !.need = W, !.fed = K, !.wants = W, !.lists = L, !.frameOff = {}]

LEMMA EmptiedFields ==
    ASSUME NEW s \in Loop, NEW W \in [Frame -> Version \cup {None}], NEW K \in [Frame -> Fed],
           NEW L \in [Frame -> [Version -> SUBSET Device]], NEW t, t = Emptied(s, W, K, L)
    PROVE  /\ t \in Loop /\ t.flight = s.flight /\ t.items = s.items /\ t.run = s.run
           /\ SameLane(s, t) /\ t.need = W /\ t.fed = K /\ t.lists = L
<1>1. {} \in SUBSET Frame
  OBVIOUS
<1> QED
  BY <1>1, Zenon DEF Loop, SameLane, Emptied

LEMMA EmptiedGood ==
    ASSUME NEW s, Good(s), NEW W, W = [f \in Frame |-> None], NEW K, K = [f \in Frame |-> <<>>],
           NEW L, L = [f \in Frame |-> [v \in Version |-> {}]], NEW t, t = Emptied(s, W, K, L)
    PROVE  Good(t) /\ Kin(s, t, {})
<1>0. s \in Loop
  BY DEF Good
<1>1. /\ W \in [Frame -> Version \cup {None}] /\ K \in [Frame -> Fed]
      /\ L \in [Frame -> [Version -> SUBSET Device]]
  BY DEF Fed
<1>2. /\ t \in Loop /\ t.flight = s.flight /\ t.items = s.items /\ t.run = s.run
      /\ SameLane(s, t) /\ t.need = W /\ t.fed = K /\ t.lists = L
  BY <1>0, <1>1, EmptiedFields
<1>3. Aloft(s, t) /\ Lists(t)
  BY <1>2 DEF Aloft, Lists
<1> QED
  BY <1>2, <1>3, AloftGood

LEMMA YieldedGood ==
    ASSUME NEW s, Good(s), NEW t, t = Yielded(s)
    PROVE  Good(t) /\ Kin(s, t, {})
<1>0. s \in Loop /\ Paired(s) /\ Lanes(s) /\ Told(s) /\ Lists(s)
  BY DEF Good
<1>1. CASE s.lane \/ s.yielded
  <2>1. t = [s EXCEPT !.lane = FALSE, !.yielded = TRUE]
    BY <1>1, Zenon DEF Yielded
  <2>2. /\ t \in Loop /\ t.flight = s.flight /\ t.items = s.items /\ t.run = s.run
        /\ t.permit = s.permit /\ t.requested = s.requested /\ t.requesting = s.requesting
        /\ t.need = s.need /\ t.fed = s.fed /\ t.lists = s.lists
        /\ t.lane = FALSE /\ t.yielded = TRUE
    BY <1>0, <2>1, Zenon DEF Loop
  <2>3. s.permit = TRUE
    <3>1. s.permit \in BOOLEAN
      BY <1>0, LoopFields
    <3> QED
      BY <1>0, <1>1, <3>1 DEF Lanes
  <2>4. Lanes(t)
    BY <1>0, <2>2, <2>3 DEF Lanes, Flying
  <2>5. Paired(t)
    BY <1>0, <2>2 DEF Paired, Flying
  <2>6. Told(t) /\ Lists(t)
    BY <1>0, <2>2 DEF Told, Lists
  <2>7. Kin(s, t, {})
    BY <2>2 DEF Kin
  <2> QED
    BY <2>2, <2>4, <2>5, <2>6, <2>7 DEF Good
<1>2. CASE ~(s.lane \/ s.yielded)
  <2>1. t = s
    BY <1>2, Zenon DEF Yielded
  <2> QED
    BY <2>1, KinSelf
<1> QED
  BY <1>1, <1>2

\* The permit arrives.
Granted(s) ==
    [s EXCEPT !.requesting = FALSE, !.permit = TRUE, !.lane = TRUE, !.yielded = FALSE,
              !.requested = FALSE]

LEMMA GrantedGood ==
    ASSUME NEW s, Good(s), NEW t, t = Granted(s)
    PROVE  /\ Good(t) /\ t.items = s.items /\ t.run = s.run /\ t.permit = TRUE
           /\ t.requesting = FALSE
<1>0. s \in Loop /\ Paired(s) /\ Lanes(s) /\ Told(s) /\ Lists(s)
  BY DEF Good
<1>2. /\ t \in Loop /\ t.flight = s.flight /\ t.items = s.items /\ t.run = s.run
      /\ t.permit = TRUE /\ t.requested = FALSE /\ t.requesting = FALSE
      /\ t.need = s.need /\ t.fed = s.fed /\ t.lists = s.lists
      /\ t.lane = TRUE /\ t.yielded = FALSE
  BY <1>0, Zenon DEF Loop, Granted
<1>4. Lanes(t)
  BY <1>2 DEF Lanes
<1>5. Paired(t)
  BY <1>0, <1>2 DEF Paired, Flying
<1>6. Told(t) /\ Lists(t)
  BY <1>0, <1>2 DEF Told, Lists
<1> QED
  BY <1>2, <1>4, <1>5, <1>6 DEF Good

\* An item that stays the same fetch: its phase, its run or its event moves.
LEMMA TouchedGood ==
    ASSUME NEW s, Good(s), NEW i \in Id, s.items[i] # NoItem,
           NEW j \in Item, j.frame = s.items[i].frame, j.ver = s.items[i].ver,
           j.cancelled = s.items[i].cancelled, j.event = "done" => j.phase = "sent",
           NEW t \in Loop, t.flight = s.flight, SameLane(s, t),
           t.need = s.need, t.fed = s.fed, t.lists = s.lists,
           t.items[i] = j, \A k \in Id : k # i => t.items[k] = s.items[k]
    PROVE  Good(t)
<1>0. s \in Loop /\ Paired(s) /\ Lanes(s) /\ Told(s) /\ Lists(s)
  BY DEF Good
<1>1. Flying(t) = Flying(s)
  BY DEF Flying
<1>2. Lanes(t)
  BY <1>0, <1>1 DEF Lanes, SameLane
<1>3. Paired(t)
  <2>1. \A f \in Flying(t) :
          /\ t.items[t.flight[f].id].frame = f
          /\ t.items[t.flight[f].id].ver = t.flight[f].ver
          /\ ~t.items[t.flight[f].id].cancelled
    BY <1>0, <1>1, FlyingFields DEF Paired
  <2>2. \A k \in Id : t.items[k] # NoItem /\ ~t.items[k].cancelled =>
                        t.flight[t.items[k].frame].id = k
    BY <1>0 DEF Paired
  <2> QED
    BY <2>1, <2>2 DEF Paired
<1>4. Told(t)
  BY <1>0 DEF Told
<1>5. Lists(t)
  BY <1>0 DEF Lists
<1> QED
  BY <1>2, <1>3, <1>4, <1>5 DEF Good

\* A run, or none.
AnyRun == 0 .. MaxRun

\* An item at phase p, in run r, with event e.
Touched(j, p, r, e) == [j EXCEPT !.phase = p, !.run = r, !.event = e]

LEMMA TouchedFields ==
    ASSUME NEW j \in Item, NEW p \in {"preparing", "sent", "landing"}, NEW r \in AnyRun,
           NEW e \in Events, NEW k, k = Touched(j, p, r, e)
    PROVE  /\ k \in Item /\ k.frame = j.frame /\ k.ver = j.ver /\ k.cancelled = j.cancelled
           /\ k.phase = p /\ k.run = r /\ k.event = e
BY Zenon DEF Item, Touched, AnyRun

LEMMA ItemFields ==
    ASSUME NEW j \in Item
    PROVE  /\ j.frame \in Frame /\ j.ver \in Version /\ j.phase \in {"preparing", "sent", "landing"}
           /\ j.run \in 0 .. MaxRun /\ j.cancelled \in BOOLEAN /\ j.event \in Events
BY Zenon DEF Item

\* A task posts its event.
Post(s, i, e) == [s EXCEPT !.items[i].event = e]
WithEvent(j, e) == [j EXCEPT !.event = e]

LEMMA WithEventFields ==
    ASSUME NEW j \in Item, NEW e \in Events, NEW k, k = WithEvent(j, e)
    PROVE  /\ k \in Item /\ k.frame = j.frame /\ k.ver = j.ver /\ k.cancelled = j.cancelled
           /\ k.phase = j.phase /\ k.run = j.run /\ k.event = e
BY Zenon DEF Item, WithEvent

LEMMA PostGood ==
    ASSUME NEW s, Good(s), NEW i \in Id, s.items[i].phase # None, NEW e \in Events,
           e = "done" => s.items[i].phase = "sent", NEW t, t = Post(s, i, e)
    PROVE  /\ Good(t) /\ SameLane(s, t) /\ t.run = s.run
           /\ t.items[i].phase = s.items[i].phase /\ t.items[i].event = e
           /\ \A k \in Id : k # i => t.items[k] = s.items[k]
<1>0. s \in Loop
  BY DEF Good
<1>1. NoItem.phase = None
  BY Zenon DEF NoItem
<1>2. s.items[i] \in Item /\ s.items[i] # NoItem /\ s.items \in [Id -> Item \cup {NoItem}]
  BY <1>0, <1>1, LoopFields
<1>3. PICK j, G : j = WithEvent(s.items[i], e) /\ G = [s.items EXCEPT ![i] = j]
  OBVIOUS
<1>4. /\ j \in Item /\ j.frame = s.items[i].frame /\ j.ver = s.items[i].ver
      /\ j.cancelled = s.items[i].cancelled /\ j.phase = s.items[i].phase /\ j.event = e
  BY <1>2, <1>3, WithEventFields
<1>5. /\ G \in [Id -> Item \cup {NoItem}] /\ G[i] = j
      /\ \A k \in Id : k # i => G[k] = s.items[k]
  BY <1>2, <1>3, <1>4
<1>6. t = PutItems(s, G)
  BY <1>3, Zenon DEF Post, WithEvent, PutItems
<1>7. t \in Loop /\ t.items = G /\ t.flight = s.flight /\ SameFeed(s, t)
  BY <1>0, <1>5, <1>6, PutItemsFields
<1>8. /\ SameLane(s, t) /\ t.run = s.run /\ t.need = s.need /\ t.fed = s.fed
      /\ t.lists = s.lists
  BY <1>7, Zenon DEF SameFeed
<1>9. Good(t)
  BY <1>2, <1>4, <1>5, <1>7, <1>8, TouchedGood
<1> QED
  BY <1>4, <1>5, <1>7, <1>8, <1>9

LEMMA AdmittedSame ==
    ASSUME NEW g, NEW s, Admitted(g, s), NEW t, SameLane(s, t)
    PROVE  Admitted(g, t)
<1>1. t.permit = s.permit /\ t.requesting = s.requesting
  BY Zenon DEF SameLane
<1> QED
  BY <1>1 DEF Admitted

\* A task posts the event of an item that no run transfers any more.
LEMMA PostedHeld ==
    ASSUME Inv, NEW i \in Id, x.items[i].phase # None, NEW e \in Events, e # None,
           e = "done" => x.items[i].phase = "sent", Posted(i, e),
           taken' \subseteq taken, i \notin taken', UNCHANGED <<gate, runs>>
    PROVE  Held'
<1>0. /\ Good(x) /\ Led(x, runs) /\ Carried(x, taken, runs) /\ Admitted(gate, x)
      /\ taken \subseteq Id
  BY DEF Inv, Held, Rest
<1>1. x' = Post(x, i, e)
  BY Zenon DEF Posted, Post
<1>2. /\ Good(x') /\ SameLane(x, x') /\ x'.run = x.run
      /\ x'.items[i].phase = x.items[i].phase /\ x'.items[i].event = e
      /\ \A k \in Id : k # i => x'.items[k] = x.items[k]
  BY <1>0, <1>1, PostGood
<1>3. Led(x', runs')
  BY <1>0, <1>2 DEF Led
<1>4. Carried(x', taken', runs')
  BY <1>0, <1>2 DEF Carried
<1>5. Admitted(gate', x')
  BY <1>0, <1>2, AdmittedSame
<1> QED
  BY <1>2, <1>3, <1>4, <1>5 DEF Held

\* The item goes to a run, and the executor's run becomes q.
Send(s, i, r, q) ==
    [s EXCEPT !.items[i].phase = "sent", !.items[i].run = r, !.items[i].event = None, !.run = q]
ToLand(s, i) ==
    [s EXCEPT !.items[i].phase = "landing", !.items[i].run = 0, !.items[i].event = None]
PutRun(s, G, q) == [s EXCEPT !.items = G, !.run = q]

LEMMA PutRunFields ==
    ASSUME NEW s \in Loop, NEW G \in [Id -> Item \cup {NoItem}], NEW q \in 0 .. MaxRun,
           NEW t, t = PutRun(s, G, q)
    PROVE  /\ t \in Loop /\ t.items = G /\ t.flight = s.flight /\ SameLane(s, t) /\ t.run = q
           /\ t.need = s.need /\ t.fed = s.fed /\ t.lists = s.lists
BY Zenon DEF Loop, SameLane, PutRun

LEMMA SendParts ==
    ASSUME NEW s \in Loop, NEW i \in Id, NEW r, NEW q, NEW G,
           G = [s.items EXCEPT ![i] = Touched(s.items[i], "sent", r, None)]
    PROVE  Send(s, i, r, q) = PutRun(s, G, q)
<1>1. i \in DOMAIN s.items
  BY LoopFields
<1>2. G = [s.items EXCEPT ![i].phase = "sent", ![i].run = r, ![i].event = None]
  BY <1>1, Zenon DEF Touched
<1> QED
  BY <1>2, Zenon DEF Send, PutRun

LEMMA ToLandParts ==
    ASSUME NEW s \in Loop, NEW i \in Id, NEW G,
           G = [s.items EXCEPT ![i] = Touched(s.items[i], "landing", 0, None)]
    PROVE  ToLand(s, i) = PutItems(s, G)
<1>1. i \in DOMAIN s.items
  BY LoopFields
<1>2. G = [s.items EXCEPT ![i].phase = "landing", ![i].run = 0, ![i].event = None]
  BY <1>1, Zenon DEF Touched
<1> QED
  BY <1>2, Zenon DEF ToLand, PutItems

LEMMA SendGood ==
    ASSUME NEW s, Good(s), NEW i \in Id, s.items[i].phase # None, NEW r \in 0 .. MaxRun,
           NEW q \in 0 .. MaxRun, NEW t, t = Send(s, i, r, q)
    PROVE  /\ Good(t) /\ SameLane(s, t) /\ t.run = q
           /\ t.items[i].phase = "sent" /\ t.items[i].run = r /\ t.items[i].event = None
           /\ \A k \in Id : k # i => t.items[k] = s.items[k]
<1>0. s \in Loop
  BY DEF Good
<1>1. NoItem.phase = None
  BY Zenon DEF NoItem
<1>2. s.items[i] \in Item /\ s.items[i] # NoItem /\ s.items \in [Id -> Item \cup {NoItem}]
  BY <1>0, <1>1, LoopFields
<1>3. PICK j, G : /\ j = Touched(s.items[i], "sent", r, None)
                  /\ G = [s.items EXCEPT ![i] = j]
  OBVIOUS
<1>4. /\ j \in Item /\ j.frame = s.items[i].frame /\ j.ver = s.items[i].ver
      /\ j.cancelled = s.items[i].cancelled /\ j.phase = "sent" /\ j.run = r /\ j.event = None
  <2>1. None \in Events /\ "sent" \in {"preparing", "sent", "landing"}
    BY DEF Events
  <2> PICK p, e : p = "sent" /\ e = None
    OBVIOUS
  <2>2. j = Touched(s.items[i], p, r, e)
    BY <1>3
  <2>3. p \in {"preparing", "sent", "landing"} /\ r \in AnyRun /\ e \in Events
    BY <2>1 DEF AnyRun
  <2>4. /\ j \in Item /\ j.frame = s.items[i].frame /\ j.ver = s.items[i].ver
        /\ j.cancelled = s.items[i].cancelled /\ j.phase = p /\ j.run = r /\ j.event = e
    BY <1>2, <2>2, <2>3, TouchedFields
  <2> QED
    BY <2>4
<1>5. /\ G \in [Id -> Item \cup {NoItem}] /\ G[i] = j
      /\ \A k \in Id : k # i => G[k] = s.items[k]
  BY <1>2, <1>3, <1>4
<1>6. t = PutRun(s, G, q)
  BY <1>0, <1>3, SendParts
<1>7. /\ t \in Loop /\ t.items = G /\ t.flight = s.flight /\ SameLane(s, t) /\ t.run = q
      /\ t.need = s.need /\ t.fed = s.fed /\ t.lists = s.lists
  BY <1>0, <1>5, <1>6, PutRunFields
<1>8. Good(t)
  BY <1>2, <1>4, <1>5, <1>7, TouchedGood
<1> QED
  BY <1>4, <1>5, <1>7, <1>8

LEMMA ToLandGood ==
    ASSUME NEW s, Good(s), NEW i \in Id, s.items[i].phase # None, NEW t, t = ToLand(s, i)
    PROVE  /\ Good(t) /\ SameLane(s, t) /\ t.run = s.run /\ t.items[i].phase = "landing"
           /\ \A k \in Id : k # i => t.items[k] = s.items[k]
<1>0. s \in Loop
  BY DEF Good
<1>1. NoItem.phase = None
  BY Zenon DEF NoItem
<1>2. s.items[i] \in Item /\ s.items[i] # NoItem /\ s.items \in [Id -> Item \cup {NoItem}]
  BY <1>0, <1>1, LoopFields
<1>3. PICK j, G : /\ j = Touched(s.items[i], "landing", 0, None)
                  /\ G = [s.items EXCEPT ![i] = j]
  OBVIOUS
<1>4. /\ j \in Item /\ j.frame = s.items[i].frame /\ j.ver = s.items[i].ver
      /\ j.cancelled = s.items[i].cancelled /\ j.phase = "landing" /\ j.event = None
  <2>1. /\ None \in Events /\ "landing" \in {"preparing", "sent", "landing"}
        /\ 0 \in 0 .. MaxRun
    BY BoundAssumption DEF Events
  <2> PICK p, r, e : p = "landing" /\ r = 0 /\ e = None
    OBVIOUS
  <2>2. j = Touched(s.items[i], p, r, e)
    BY <1>3
  <2>3. p \in {"preparing", "sent", "landing"} /\ r \in AnyRun /\ e \in Events
    BY <2>1 DEF AnyRun
  <2>4. /\ j \in Item /\ j.frame = s.items[i].frame /\ j.ver = s.items[i].ver
        /\ j.cancelled = s.items[i].cancelled /\ j.phase = p /\ j.run = r /\ j.event = e
    BY <1>2, <2>2, <2>3, TouchedFields
  <2> QED
    BY <2>4
<1>5. /\ G \in [Id -> Item \cup {NoItem}] /\ G[i] = j
      /\ \A k \in Id : k # i => G[k] = s.items[k]
  BY <1>2, <1>3, <1>4
<1>6. t = PutItems(s, G)
  BY <1>0, <1>3, ToLandParts
<1>7. t \in Loop /\ t.items = G /\ t.flight = s.flight /\ SameFeed(s, t)
  BY <1>0, <1>5, <1>6, PutItemsFields
<1>8. /\ SameLane(s, t) /\ t.run = s.run /\ t.need = s.need /\ t.fed = s.fed
      /\ t.lists = s.lists
  BY <1>7, Zenon DEF SameFeed
<1>9. j.event # "done"
  BY <1>4 DEF None
<1>10. Good(t)
  BY <1>2, <1>4, <1>5, <1>7, <1>8, <1>9, TouchedGood
<1> QED
  BY <1>4, <1>5, <1>7, <1>8, <1>10

LEMMA SentHeld ==
    ASSUME Inv, NEW i \in Id, x.items[i].phase = "preparing", SendToRun(i), UNCHANGED taken
    PROVE  Held' /\ runs' \in [RunId -> {None, "on", "ended", "panicked"}] /\ UNCHANGED <<gate, news>>
<1>0. /\ Good(x) /\ Led(x, runs) /\ Carried(x, taken, runs) /\ Admitted(gate, x)
      /\ taken \subseteq Id /\ runs \in [RunId -> {None, "on", "ended", "panicked"}]
      /\ x.run \in 0 .. MaxRun
  BY LoopFields DEF Inv, Held, Rest, Good
<1>1. PICK r \in IF x.run = 0 THEN Least({k \in RunId : runs[k] = None}) ELSE {x.run} :
         /\ runs' = IF x.run = 0 THEN [runs EXCEPT ![r] = "on"] ELSE runs
         /\ x' = [x EXCEPT !.items[i].phase = "sent", !.items[i].run = r,
                           !.items[i].event = None,
                           !.run = IF runs'[r] = "on" THEN r ELSE 0]
         /\ UNCHANGED <<gate, news>>
  BY Zenon DEF SendToRun
<1>2. r \in RunId /\ r \in 0 .. MaxRun /\ (x.run = 0 => runs[r] = None)
  BY <1>0 DEF Least, RunId
<1>3. /\ runs' \in [RunId -> {None, "on", "ended", "panicked"}] /\ runs'[r] # None
      /\ \A k \in RunId : runs[k] # None => runs'[k] = runs[k]
  <2>1. CASE x.run = 0
    <3>1. runs' = [runs EXCEPT ![r] = "on"]
      BY <1>1, <2>1
    <3> QED
      BY <1>0, <1>2, <2>1, <3>1 DEF None
  <2>2. CASE x.run # 0
    <3>1. runs' = runs /\ r = x.run
      BY <1>1, <2>2
    <3> QED
      BY <1>0, <2>2, <3>1 DEF Led
  <2> QED
    BY <2>1, <2>2
<1>4. PICK q : q = IF runs'[r] = "on" THEN r ELSE 0
  OBVIOUS
<1>5. x' = Send(x, i, r, q)
  BY <1>1, <1>4, Zenon DEF Send
<1>6. q \in 0 .. MaxRun /\ (q # 0 => runs'[q] = "on")
  BY <1>2, <1>4, BoundAssumption
<1>7. x.items[i].phase # None
  BY DEF None
<1>8. /\ Good(x') /\ SameLane(x, x') /\ x'.run = q
      /\ x'.items[i].phase = "sent" /\ x'.items[i].run = r /\ x'.items[i].event = None
      /\ \A k \in Id : k # i => x'.items[k] = x.items[k]
  BY <1>0, <1>2, <1>5, <1>6, <1>7, SendGood
<1>9. Led(x', runs')
  <2>1. x'.run # 0 => runs'[x'.run] # None
    BY <1>6, <1>8 DEF None
  <2>2. ASSUME NEW k \in Id, x'.items[k].phase = "sent", x'.items[k].event = None
        PROVE  x'.items[k].run \in RunId /\ runs'[x'.items[k].run] # None
    <3>1. CASE k = i
      BY <1>2, <1>3, <1>8, <3>1
    <3>2. CASE k # i
      BY <1>0, <1>3, <1>8, <2>2, <3>2 DEF Led
    <3> QED
      BY <3>1, <3>2
  <2> QED
    BY <2>1, <2>2 DEF Led
<1>10. Carried(x', taken', runs')
  <2>1. ASSUME NEW k \in taken
        PROVE  /\ x'.items[k].phase = "sent" /\ x'.items[k].event = None
               /\ runs'[x'.items[k].run] = "on"
    <3>1. x.items[k].phase = "sent" /\ x.items[k].event = None /\ runs[x.items[k].run] = "on"
      BY <1>0 DEF Carried
    <3>2. k # i /\ k \in Id /\ x'.items[k] = x.items[k]
      BY <1>0, <1>8, <3>1
    <3>3. x.items[k].run \in RunId
      BY <1>0, <3>1, <3>2 DEF Led
    <3> QED
      BY <1>3, <3>1, <3>2, <3>3 DEF None
  <2> QED
    BY <2>1 DEF Carried
<1>11. Admitted(gate', x')
  BY <1>0, <1>1, <1>8, AdmittedSame
<1> QED
  BY <1>1, <1>3, <1>8, <1>9, <1>10, <1>11 DEF Held

LEMMA ToLandHeld ==
    ASSUME Inv, NEW i \in Id, x.items[i].phase = "sent", x.items[i].event # None,
           x' = ToLand(x, i), UNCHANGED <<gate, taken, runs>>
    PROVE  Held'
<1>0. /\ Good(x) /\ Led(x, runs) /\ Carried(x, taken, runs) /\ Admitted(gate, x)
      /\ taken \subseteq Id
  BY DEF Inv, Held, Rest
<1>1. x.items[i].phase # None
  BY DEF None
<1>2. /\ Good(x') /\ SameLane(x, x') /\ x'.run = x.run /\ x'.items[i].phase = "landing"
      /\ \A k \in Id : k # i => x'.items[k] = x.items[k]
  BY <1>0, <1>1, ToLandGood
<1>3. Led(x', runs')
  BY <1>0, <1>2 DEF Led
<1>4. Carried(x', taken', runs')
  BY <1>0, <1>2 DEF Carried
<1>5. Admitted(gate', x')
  BY <1>0, <1>2, AdmittedSame
<1> QED
  BY <1>2, <1>3, <1>4, <1>5 DEF Held

-----------------------------------------------------------------------------
(***************************************************************************)
(* One lemma per handler of the loop.                                      *)
(***************************************************************************)
LEMMA NewsType ==
    ASSUME news' = (news \/ Signalled) \/ news' = Signalled
    PROVE  news' \in BOOLEAN
<1>1. Signalled \in BOOLEAN /\ (news \/ Signalled) \in BOOLEAN
  BY DEF Signalled
<1> QED
  BY <1>1, Zenon

LEMMA RestKept ==
    ASSUME Rest, news' \in BOOLEAN, dirty' \subseteq {"need", "epoch", "providers", "gone"},
           UNCHANGED <<world, taken, runs>>
    PROVE  Rest'
<1>1. /\ served' = served /\ row' = row /\ storage' = storage /\ present' = present
      /\ taken' = taken /\ runs' = runs
  BY Zenon DEF world
<1>2. storage' \in BOOLEAN
  BY <1>1 DEF Rest
<1> QED
  BY <1>1, <1>2 DEF Rest

\* What the lemmas below need of the invariant.
LEMMA InvParts ==
    ASSUME Inv
    PROVE  /\ Good(x) /\ x \in Loop /\ Rest /\ dirty \subseteq {"need", "epoch", "providers", "gone"}
           /\ storage \in BOOLEAN
BY DEF Inv, Held, Good, Rest

LEMMA LaneGrantedKeeps ==
    ASSUME Inv, LaneGranted
    PROVE  Inv'
<1>0. /\ Good(x) /\ Led(x, runs) /\ Carried(x, taken, runs) /\ Admitted(gate, x)
      /\ "lane" \in gate.held
  BY DEF Inv, Held, LaneGranted
<1>1. PICK s : s = Granted(x)
  OBVIOUS
<1>2. Good(s) /\ s.items = x.items /\ s.run = x.run /\ s.permit = TRUE /\ s.requesting = FALSE
  BY <1>0, <1>1, GrantedGood
<1>3. Becomes(TRUE, Step({s})) /\ news' = (news \/ Signalled) /\ UNCHANGED <<world, taken, runs, dirty>>
  BY <1>1, Zenon DEF LaneGranted, Granted
<1>4. Admitted(gate, s)
  BY <1>0, <1>2 DEF Admitted
<1>5. Led(s, runs) /\ Carried(s, taken, runs)
  BY <1>0, <1>2 DEF Led, Carried
<1>6. ASSUME NEW y \in Step({s}) PROVE Good(y) /\ Kin(s, y, {})
  BY <1>2, StepGood
<1>7. Becomes(s.permit, Step({s})) /\ UNCHANGED <<taken, runs>>
  BY <1>2, <1>3
<1>8. Held'
  BY <1>4, <1>5, <1>6, <1>7, Handled
<1>9. Rest'
  BY <1>3, NewsType, RestKept, InvParts
<1> QED
  BY <1>8, <1>9 DEF Inv

\* A handler that only steps the core from a good state.
LEMMA SteppedKeeps ==
    ASSUME Inv, NEW s, NEW I, I \cap taken = {}, Good(s), Kin(x, s, I),
           Handles(Step({s})), UNCHANGED <<world, taken, runs>>,
           dirty' \subseteq {"need", "epoch", "providers", "gone"}
    PROVE  Inv'
<1>1. Becomes(x.permit, Step({s})) /\ news' = (news \/ Signalled) /\ UNCHANGED <<taken, runs>>
  BY Zenon DEF Handles
<1>2. Held'
  BY <1>1, Stepped
<1>3. Rest'
  BY <1>1, NewsType, RestKept, InvParts
<1> QED
  BY <1>2, <1>3 DEF Inv

LEMMA YieldChangedKeeps ==
    ASSUME Inv, YieldChanged
    PROVE  Inv'
<1>1. /\ Becomes(x.permit, Step({Yielded(x)})) \/ Becomes(x.permit, {x})
      /\ news' = Signalled /\ UNCHANGED <<world, taken, runs, dirty>>
  BY Zenon DEF YieldChanged
<1>2. Held'
  <2>1. CASE Becomes(x.permit, Step({Yielded(x)}))
    <3>1. PICK s : s = Yielded(x)
      OBVIOUS
    <3>2. Good(s) /\ Kin(x, s, {})
      BY <3>1, YieldedGood, InvParts
    <3> QED
      BY <1>1, <2>1, <3>1, <3>2, Stepped
  <2>2. CASE Becomes(x.permit, {x})
    <3>1. PICK S : S = {x}
      OBVIOUS
    <3>2. \A y \in S : Good(y) /\ Kin(x, y, {})
      BY <3>1, InvParts, KinSelf
    <3>3. /\ Admitted(gate, x) /\ Led(x, runs) /\ Carried(x, taken, runs)
          /\ {} \cap taken = {} /\ Becomes(x.permit, S) /\ UNCHANGED <<taken, runs>>
      BY <1>1, <2>2, <3>1 DEF Inv, Held
    <3> QED
      BY <3>2, <3>3, Handled
  <2> QED
    BY <1>1, <2>1, <2>2
<1>3. Rest'
  BY <1>1, NewsType, RestKept, InvParts
<1> QED
  BY <1>2, <1>3 DEF Inv

LEMMA RefreshNeedKeeps ==
    ASSUME Inv, NEW refeed, RefreshNeed(refeed)
    PROVE  Inv'
<1> DEFINE want == [f \in Frame |-> IF x.storageOk /\ row[f].state = "wanted"
                                      THEN row[f].ver ELSE None]
           kept == KeptFeed(x, want, refeed)
           entered == {f \in Frame : kept[f] = <<>>}
<1>1. PICK read, S : /\ read = [ApplyNeedSet(x, want) EXCEPT !.need = want, !.fed = kept]
                     /\ S = UNION {FeedLists(s, entered) : s \in Step({read})}
  OBVIOUS
<1>2. Handles(S) /\ UNCHANGED <<world, taken, runs>> /\ dirty' \subseteq dirty
  BY <1>1, Zenon DEF RefreshNeed
<1>3. want \in [Frame -> Version \cup {None}]
  <2>1. \A f \in Frame : row[f].ver \in Version
    BY DEF Inv, Rest
  <2> QED
    BY <2>1
<1> HIDE DEF want
<1>4. Good(read) /\ Kin(x, read, {})
  BY <1>1, <1>3, InvParts, ReadGood
<1>5. entered \subseteq Frame
  OBVIOUS
<1> HIDE DEF kept, entered
<1>6. ASSUME NEW y \in S PROVE Good(y) /\ Kin(x, y, {})
  <2>1. PICK s \in Step({read}) : y \in FeedLists(s, entered)
    BY <1>1
  <2>2. Good(s) /\ Kin(read, s, {})
    BY <1>4, StepGood
  <2>3. Good(y) /\ Kin(s, y, {})
    BY <1>5, <2>1, <2>2, FeedListsGood
  <2> QED
    BY <1>4, <2>2, <2>3, KinChain
<1>7. /\ Admitted(gate, x) /\ Led(x, runs) /\ Carried(x, taken, runs)
      /\ {} \cap taken = {} /\ Becomes(x.permit, S) /\ UNCHANGED <<taken, runs>>
      /\ news' = (news \/ Signalled)
  BY <1>2 DEF Inv, Held, Handles
<1>8. Held'
  BY <1>6, <1>7, Handled
<1>9. Rest'
  BY <1>2, <1>7, NewsType, RestKept, InvParts
<1> QED
  BY <1>8, <1>9 DEF Inv

LEMMA RefreshProvidersKeeps ==
    ASSUME Inv, RefreshProviders
    PROVE  Inv'
<1>1. PICK S : S = FeedLists(x, Frame)
  OBVIOUS
<1>2. Handles(S) /\ UNCHANGED <<world, taken, runs>> /\ dirty' \subseteq dirty
  BY <1>1, Zenon DEF RefreshProviders
<1>3. ASSUME NEW y \in S PROVE Good(y) /\ Kin(x, y, {})
  BY <1>1, InvParts, FeedListsGood
<1>4. /\ Admitted(gate, x) /\ Led(x, runs) /\ Carried(x, taken, runs)
      /\ {} \cap taken = {} /\ Becomes(x.permit, S) /\ UNCHANGED <<taken, runs>>
      /\ news' = (news \/ Signalled)
  BY <1>2 DEF Inv, Held, Handles
<1>5. Held'
  BY <1>3, <1>4, Handled
<1>6. Rest'
  BY <1>2, <1>4, NewsType, RestKept, InvParts
<1> QED
  BY <1>5, <1>6 DEF Inv

LEMMA ProjectGoneKeeps ==
    ASSUME Inv, ProjectGone
    PROVE  Inv'
<1>1. PICK c, W, K, L, s :
         /\ c = Cancel(x, Frame) /\ W = [f \in Frame |-> None]
         /\ K = [f \in Frame |-> <<>>] /\ L = [f \in Frame |-> [v \in Version |-> {}]]
         /\ s = Emptied(c, W, K, L)
  OBVIOUS
<1>2. Handles(Step({s})) /\ UNCHANGED <<world, taken, runs>> /\ dirty' \subseteq dirty
  BY <1>1, Zenon DEF ProjectGone, Emptied
<1>3. Good(c) /\ Kin(x, c, {})
  BY <1>1, InvParts, CancelGood
<1>4. Good(s) /\ Kin(c, s, {})
  BY <1>1, <1>3, EmptiedGood
<1>5. Kin(x, s, {})
  BY <1>3, <1>4, KinChain
<1> QED
  BY <1>2, <1>4, <1>5, InvParts, SteppedKeeps

LEMMA StorageSeenKeeps ==
    ASSUME Inv, StorageSeen
    PROVE  Inv'
<1>1. PICK c, s : /\ c = IF storage THEN x ELSE Cancel(x, Frame)
                  /\ s = SetStorage(c, storage)
  OBVIOUS
<1>2. /\ Handles(Step({s})) /\ UNCHANGED <<world, taken, runs>>
      /\ dirty' = dirty \cup {"need"}
  BY <1>1, Zenon DEF StorageSeen, SetStorage
<1>3. Good(c) /\ Kin(x, c, {})
  BY <1>1, InvParts, CancelGood, KinSelf
<1>4. s \in {SetSlots(c, 1), SetStorage(c, storage), SetDialOff(c, {}), SetFrameOff(c, {}),
             SetBothOff(c, {}, {})}
  BY <1>1, Zenon
<1>5. Good(s) /\ Kin(c, s, {})
  <2>1. 1 \in Nat \ {0} /\ storage \in BOOLEAN /\ {} \in SUBSET Device /\ {} \in SUBSET Frame
    BY InvParts
  <2> QED
    BY <1>3, <1>4, <2>1, TuneGood
<1>6. Kin(x, s, {})
  BY <1>3, <1>5, KinChain
<1> QED
  BY <1>2, <1>5, <1>6, InvParts, SteppedKeeps

\* A setting of the core changes.
LEMMA TunedKeeps ==
    ASSUME Inv, NEW n \in Nat \ {0}, NEW D \in SUBSET Device, NEW O \in SUBSET Frame,
           NEW s \in {SetSlots(x, n), SetDialOff(x, D), SetFrameOff(x, O), SetBothOff(x, D, O)},
           Handles(Step({s})), UNCHANGED <<world, taken, runs, dirty>>
    PROVE  Inv'
<1>1. s \in {SetSlots(x, n), SetStorage(x, TRUE), SetDialOff(x, D), SetFrameOff(x, O),
             SetBothOff(x, D, O)}
  BY Zenon
<1>2. Good(s) /\ Kin(x, s, {})
  <2>1. TRUE \in BOOLEAN
    OBVIOUS
  <2> QED
    BY <1>1, <2>1, InvParts, TuneGood
<1> QED
  BY <1>2, InvParts, SteppedKeeps

LEMMA SlotsForType ==
    ASSUME NEW n \in Nat
    PROVE  SlotsFor(n) \in Nat \ {0}
<1>1. PICK m \in {n, 1} : \A k \in {n, 1} : m >= k
  <2>1. CASE n >= 1
    BY <2>1
  <2>2. CASE ~(n >= 1)
    BY <2>2
  <2> QED
    BY <2>1, <2>2
<1>2. Max({n, 1}) \in {n, 1} /\ \A k \in {n, 1} : Max({n, 1}) >= k
  <2>1. PICK S : S = {n, 1}
    OBVIOUS
  <2>2. \E i \in S : \A k \in S : i >= k
    BY <1>1, <2>1
  <2>3. Max(S) \in S /\ \A k \in S : Max(S) >= k
    BY <2>2, Zenon DEF Max
  <2> QED
    BY <2>1, <2>3
<1> QED
  BY <1>2 DEF SlotsFor

LEMMA SetStreamsKeeps ==
    ASSUME Inv, SetStreams
    PROVE  Inv'
<1>1. PICK n \in Streams : Handles(Step({[x EXCEPT !.slots = SlotsFor(n)]}))
  BY Zenon DEF SetStreams
<1>2. UNCHANGED <<world, taken, runs, dirty>>
  BY Zenon DEF SetStreams
<1>3. PICK m, s : m = SlotsFor(n) /\ s = SetSlots(x, m)
  OBVIOUS
<1>4. m \in Nat \ {0}
  BY <1>3, SlotsForType, LimitAssumption
<1>5. Handles(Step({s}))
  BY <1>1, <1>3, Zenon DEF SetSlots
<1>6. s \in {SetSlots(x, m), SetDialOff(x, {}), SetFrameOff(x, {}), SetBothOff(x, {}, {})}
  BY <1>3, Zenon
<1>7. {} \in SUBSET Device /\ {} \in SUBSET Frame
  OBVIOUS
<1> QED
  BY <1>2, <1>4, <1>5, <1>6, <1>7, TunedKeeps

LEMMA TickKeeps ==
    ASSUME Inv, Tick
    PROVE  Inv'
<1>0. /\ 1 \in Nat \ {0} /\ x.dialOff \in SUBSET Device /\ x.frameOff \in SUBSET Frame
      /\ {} \in SUBSET Device /\ {} \in SUBSET Frame
  BY InvParts, LoopFields
<1>1. UNCHANGED <<world, taken, runs, dirty>>
  BY Zenon DEF Tick
<1>2. CASE \E d \in x.dialOff : Handles(Step({[x EXCEPT !.dialOff = @ \ {d}]}))
  <2>1. PICK d \in x.dialOff : Handles(Step({[x EXCEPT !.dialOff = @ \ {d}]}))
    BY <1>2
  <2>2. PICK D, s : D = x.dialOff \ {d} /\ s = SetDialOff(x, D)
    OBVIOUS
  <2>3. Handles(Step({s}))
    BY <2>1, <2>2, Zenon DEF SetDialOff
  <2>4. s \in {SetSlots(x, 1), SetDialOff(x, D), SetFrameOff(x, {}), SetBothOff(x, D, {})}
    BY <2>2, Zenon
  <2>5. D \in SUBSET Device
    BY <1>0, <2>2
  <2> QED
    BY <1>0, <1>1, <2>3, <2>4, <2>5, TunedKeeps
<1>3. CASE \E f \in x.frameOff : Handles(Step({[x EXCEPT !.frameOff = @ \ {f}]}))
  <2>1. PICK f \in x.frameOff : Handles(Step({[x EXCEPT !.frameOff = @ \ {f}]}))
    BY <1>3
  <2>2. PICK O, s : O = x.frameOff \ {f} /\ s = SetFrameOff(x, O)
    OBVIOUS
  <2>3. Handles(Step({s}))
    BY <2>1, <2>2, Zenon DEF SetFrameOff
  <2>4. s \in {SetSlots(x, 1), SetDialOff(x, {}), SetFrameOff(x, O), SetBothOff(x, {}, O)}
    BY <2>2, Zenon
  <2>5. O \in SUBSET Frame
    BY <1>0, <2>2
  <2> QED
    BY <1>0, <1>1, <2>3, <2>4, <2>5, TunedKeeps
<1> QED
  BY <1>2, <1>3, Zenon DEF Tick

LEMMA ClearBackoffsKeeps ==
    ASSUME Inv, ClearBackoffs
    PROVE  Inv'
<1>0. 1 \in Nat \ {0} /\ {} \in SUBSET Device /\ {} \in SUBSET Frame
  OBVIOUS
<1>1. PICK s : s = SetBothOff(x, {}, {})
  OBVIOUS
<1>2. Handles(Step({s})) /\ UNCHANGED <<world, taken, runs, dirty>>
  BY <1>1, Zenon DEF ClearBackoffs, SetBothOff
<1>3. s \in {SetSlots(x, 1), SetDialOff(x, {}), SetFrameOff(x, {}), SetBothOff(x, {}, {})}
  BY <1>1, Zenon
<1> QED
  BY <1>0, <1>2, <1>3, TunedKeeps

\* The connections of the flights change, or the dial back-offs.
LEMMA RedialKeeps ==
    ASSUME Inv, NEW A, NEW F, NEW D \in SUBSET Device,
           \A f \in Frame : A[f] \in SUBSET Device /\ (x.flight[f] = NoFlight => A[f] = {}),
           F = Rewired(x, A),
           NEW s, s = Redial(x, F, D) \/ s = PutFlight(x, F),
           Handles(Step({s})), UNCHANGED <<world, taken, runs, dirty>>
    PROVE  Inv'
<1>1. Good(s) /\ Kin(x, s, {})
  BY InvParts, RedialGood
<1> QED
  BY <1>1, InvParts, SteppedKeeps

LEMMA FlightActive ==
    ASSUME NEW s \in Loop, NEW f \in Frame
    PROVE  /\ s.flight[f].active \subseteq Device /\ s.flight[f].live \subseteq Device
           /\ s.flight[f] = NoFlight => s.flight[f].active = {} /\ s.flight[f].live = {}
<1>1. s.flight[f] \in Flight \cup {NoFlight}
  BY LoopFields
<1> QED
  BY <1>1 DEF Flight, NoFlight

LEMMA ProviderLostKeeps ==
    ASSUME Inv, ProviderLost
    PROVE  Inv'
<1>0. x \in Loop /\ x.dialOff \subseteq Device
  BY InvParts, LoopFields
<1>1. PICK d \in Device : Handles(Step({BackOff(x, d)}))
  BY Zenon DEF ProviderLost
<1>2. UNCHANGED <<world, taken, runs, dirty>>
  BY Zenon DEF ProviderLost
<1>3. PICK A, F : A = [f \in Frame |-> x.flight[f].active \ {d}] /\ F = Rewired(x, A)
  OBVIOUS
<1>9. PICK D, s : D = x.dialOff \cup {d} /\ s = Redial(x, F, D)
  OBVIOUS
<1>4. F = [f \in Frame |-> [x.flight[f] EXCEPT !.active = @ \ {d}]]
  BY <1>3, Zenon DEF Rewired, Connected
<1>5. s = BackOff(x, d)
  <2>1. BackOff(x, d) = Redial(x, [f \in Frame |-> [x.flight[f] EXCEPT !.active = @ \ {d}]],
                               x.dialOff \cup {d})
    BY Zenon DEF BackOff, Redial
  <2> QED
    BY <1>4, <1>9, <2>1, Zenon
<1>6. \A f \in Frame : A[f] \in SUBSET Device /\ (x.flight[f] = NoFlight => A[f] = {})
  BY <1>0, <1>3, FlightActive
<1>7. D \in SUBSET Device
  BY <1>0, <1>9
<1>8. Handles(Step({s}))
  BY <1>1, <1>5
<1> QED
  <2>1. F = Rewired(x, A) /\ s = Redial(x, F, D)
    BY <1>3, <1>9
  <2> QED
    BY <1>2, <1>6, <1>7, <1>8, <2>1, RedialKeeps

LEMMA ConnectionIdleKeeps ==
    ASSUME Inv, ConnectionIdle
    PROVE  Inv'
<1>0. x \in Loop /\ {} \in SUBSET Device
  BY InvParts
<1>1. PICK d \in Device : Handles(Step({
         [x EXCEPT !.flight = [f \in Frame |-> [x.flight[f] EXCEPT !.active = @ \ {d}]]]}))
  BY Zenon DEF ConnectionIdle
<1>2. UNCHANGED <<world, taken, runs, dirty>>
  BY Zenon DEF ConnectionIdle
<1>3. PICK A, F : A = [f \in Frame |-> x.flight[f].active \ {d}] /\ F = Rewired(x, A)
  OBVIOUS
<1>7. PICK s : s = PutFlight(x, F)
  OBVIOUS
<1>4. F = [f \in Frame |-> [x.flight[f] EXCEPT !.active = @ \ {d}]]
  BY <1>3, Zenon DEF Rewired, Connected
<1>5. Handles(Step({s}))
  <2>1. [x EXCEPT !.flight = [f \in Frame |-> [x.flight[f] EXCEPT !.active = @ \ {d}]]]
           = PutFlight(x, [f \in Frame |-> [x.flight[f] EXCEPT !.active = @ \ {d}]])
    BY Zenon DEF PutFlight
  <2>2. s = PutFlight(x, [f \in Frame |-> [x.flight[f] EXCEPT !.active = @ \ {d}]])
    BY <1>4, <1>7, Zenon
  <2> QED
    BY <1>1, <2>1, <2>2, Zenon
<1>6. \A f \in Frame : A[f] \in SUBSET Device /\ (x.flight[f] = NoFlight => A[f] = {})
  BY <1>0, <1>3, FlightActive
<1> QED
  <2>1. F = Rewired(x, A) /\ s = PutFlight(x, F)
    BY <1>3, <1>7
  <2> QED
    BY <1>0, <1>2, <1>5, <1>6, <2>1, RedialKeeps

LEMMA DialOkKeeps ==
    ASSUME Inv, DialOk
    PROVE  Inv'
<1>0. x \in Loop /\ x.dialOff \subseteq Device
  BY InvParts, LoopFields
<1>1. PICK d \in Device : Handles(Step({
         [x EXCEPT !.dialOff = @ \ {d},
                   !.flight = [f \in Frame |->
                       IF d \in x.flight[f].live
                         THEN [x.flight[f] EXCEPT !.active = @ \cup {d}] ELSE x.flight[f]]]}))
  BY Zenon DEF DialOk
<1>2. UNCHANGED <<world, taken, runs, dirty>>
  BY Zenon DEF DialOk
<1>3. PICK A, F :
         /\ A = [f \in Frame |-> IF d \in x.flight[f].live THEN x.flight[f].active \cup {d}
                                 ELSE x.flight[f].active]
         /\ F = Rewired(x, A)
  OBVIOUS
<1>8. PICK D, s : D = x.dialOff \ {d} /\ s = Redial(x, F, D)
  OBVIOUS
<1>4. F = [f \in Frame |-> IF d \in x.flight[f].live
                             THEN [x.flight[f] EXCEPT !.active = @ \cup {d}] ELSE x.flight[f]]
  <2>1. ASSUME NEW f \in Frame
        PROVE  F[f] = IF d \in x.flight[f].live
                        THEN [x.flight[f] EXCEPT !.active = @ \cup {d}] ELSE x.flight[f]
    <3>1. x.flight[f] \in Flight \cup {NoFlight}
      BY <1>0, LoopFields
    <3>2. CASE d \in x.flight[f].live
      BY <1>3, <3>2, Zenon DEF Rewired, Connected
    <3>3. CASE d \notin x.flight[f].live
      <4>1. F[f] = [x.flight[f] EXCEPT !.active = x.flight[f].active]
        BY <1>3, <3>3 DEF Rewired, Connected
      <4>2. F[f] = x.flight[f]
        BY <3>1, <4>1 DEF Flight, NoFlight
      <4> QED
        BY <3>3, <4>2
    <3> QED
      BY <3>2, <3>3
  <2>2. F = [f \in Frame |-> F[f]]
    BY <1>3 DEF Rewired
  <2> QED
    BY <2>1, <2>2, Zenon
<1>5. Handles(Step({s}))
  <2> DEFINE G == [f \in Frame |-> IF d \in x.flight[f].live
                                     THEN [x.flight[f] EXCEPT !.active = @ \cup {d}]
                                     ELSE x.flight[f]]
  <2>1. [x EXCEPT !.dialOff = @ \ {d},
                  !.flight = [f \in Frame |->
                      IF d \in x.flight[f].live
                        THEN [x.flight[f] EXCEPT !.active = @ \cup {d}] ELSE x.flight[f]]]
           = Redial(x, G, x.dialOff \ {d})
    BY Zenon DEF Redial
  <2>2. s = Redial(x, G, x.dialOff \ {d})
    BY <1>4, <1>8, Zenon
  <2> QED
    BY <1>1, <2>1, <2>2, Zenon
<1>6. \A f \in Frame : A[f] \in SUBSET Device /\ (x.flight[f] = NoFlight => A[f] = {})
  BY <1>0, <1>3, FlightActive
<1>7. D \in SUBSET Device
  BY <1>0, <1>8
<1> QED
  <2>1. F = Rewired(x, A) /\ s = Redial(x, F, D)
    BY <1>3, <1>8
  <2> QED
    BY <1>2, <1>5, <1>6, <1>7, <2>1, RedialKeeps

LEMMA PhaseItem ==
    ASSUME NEW s \in Loop, NEW i \in Id, s.items[i].phase # None
    PROVE  s.items[i] # NoItem /\ s.items[i] \in Item /\ s.items[i].event \in Events
<1>1. NoItem.phase = None
  BY Zenon DEF NoItem
<1>2. s.items[i] \in Item /\ s.items[i] # NoItem
  BY <1>1, LoopFields
<1> QED
  BY <1>2, ItemFields

LEMMA ResultType ==
    ASSUME NEW e \in Events, e \notin {None, "fetch", "done"}
    PROVE  Result(e) \in {"landed", "failed", "cancelled"}
BY DEF Events, Result

\* The end of an item that no run transfers.
LEMMA FinishedKeeps ==
    ASSUME Inv, NEW i \in Id, x.items[i].phase # None, i \notin taken,
           NEW result \in {"landed", "failed", "cancelled"},
           Handles(Step({Finish(x, i, result)})), UNCHANGED <<world, taken, runs>>,
           dirty' \subseteq {"need", "epoch", "providers", "gone"}
    PROVE  Inv'
<1>1. PICK s : s = Finish(x, i, result)
  OBVIOUS
<1>2. Good(s) /\ Kin(x, s, {i})
  BY <1>1, InvParts, PhaseItem, FinishGood
<1>3. {i} \cap taken = {}
  OBVIOUS
<1> QED
  BY <1>1, <1>2, <1>3, SteppedKeeps

LEMMA OnSettledKeeps ==
    ASSUME Inv, NEW i \in Id, OnSettled(i)
    PROVE  Inv'
<1>1. /\ x.items[i].phase \in {"preparing", "landing"}
      /\ x.items[i].event \notin {None, "fetch"}
      /\ Handles(Step({Finish(x, i, Result(x.items[i].event))}))
      /\ dirty' \subseteq dirty \cup {"need"} /\ UNCHANGED <<world, taken, runs>>
  BY DEF OnSettled
<1>2. x.items[i].phase # None /\ x.items[i].phase # "sent"
  BY <1>1 DEF None
<1>3. x.items[i].event \in Events /\ x.items[i].event # "done"
  BY <1>2, InvParts, PhaseItem DEF Good, Told
<1>4. Result(x.items[i].event) \in {"landed", "failed", "cancelled"}
  BY <1>1, <1>3, ResultType
<1>5. i \notin taken
  BY <1>2 DEF Inv, Held, Carried
<1>6. dirty' \subseteq {"need", "epoch", "providers", "gone"}
  BY <1>1, InvParts
<1> QED
  BY <1>1, <1>2, <1>4, <1>5, <1>6, FinishedKeeps

LEMMA OnFetchableKeeps ==
    ASSUME Inv, NEW i \in Id, OnFetchable(i)
    PROVE  Inv'
<1>1. /\ x.items[i].phase = "preparing" /\ UNCHANGED <<world, taken, dirty>>
      /\ \/ Handles(Step({Finish(x, i, "cancelled")})) /\ UNCHANGED runs
         \/ SendToRun(i)
  BY DEF OnFetchable
<1>2. x.items[i].phase # None /\ x.items[i].phase # "sent"
  BY <1>1 DEF None
<1>3. i \notin taken
  BY <1>2 DEF Inv, Held, Carried
<1>4. CASE Handles(Step({Finish(x, i, "cancelled")})) /\ UNCHANGED runs
  BY <1>1, <1>2, <1>3, <1>4, InvParts, FinishedKeeps
<1>5. CASE SendToRun(i)
  <2>1. /\ Held' /\ runs' \in [RunId -> {None, "on", "ended", "panicked"}]
        /\ UNCHANGED <<gate, news>>
    BY <1>1, <1>5, SentHeld
  <2>2. /\ served' = served /\ row' = row /\ storage' = storage /\ present' = present
        /\ taken' = taken /\ news' = news /\ dirty' = dirty
    BY <1>1, <2>1 DEF world
  <2>3. Rest'
    BY <2>1, <2>2 DEF Inv, Rest
  <2> QED
    BY <2>1, <2>3 DEF Inv
<1> QED
  BY <1>1, <1>4, <1>5

LEMMA OnDoneKeeps ==
    ASSUME Inv, NEW i \in Id, OnDone(i)
    PROVE  Inv'
<1>1. /\ x.items[i].phase = "sent" /\ x.items[i].event # None
      /\ UNCHANGED <<world, taken, runs, dirty>>
      /\ \/ x' = ToLand(x, i) /\ UNCHANGED <<gate, news>>
         \/ \E result \in {"failed", "cancelled"} : Handles(Step({Finish(x, i, result)}))
  <2>1. /\ x.items[i].phase = "sent" /\ x.items[i].event # None
        /\ UNCHANGED <<world, taken, runs, dirty>>
    BY Zenon DEF OnDone
  <2>2. \/ /\ x' = [x EXCEPT !.items[i].phase = "landing", !.items[i].run = 0,
                              !.items[i].event = None]
           /\ UNCHANGED <<gate, news>>
        \/ Handles(Step({Finish(x, i, IF x.items[i].event = "failed" THEN "failed"
                                      ELSE "cancelled")}))
    BY Zenon DEF OnDone
  <2>3. CASE /\ x' = [x EXCEPT !.items[i].phase = "landing", !.items[i].run = 0,
                                !.items[i].event = None]
             /\ UNCHANGED <<gate, news>>
    BY <2>1, <2>3, Zenon DEF ToLand
  <2>4. CASE Handles(Step({Finish(x, i, IF x.items[i].event = "failed" THEN "failed"
                                        ELSE "cancelled")}))
    <3>1. PICK result : result = IF x.items[i].event = "failed" THEN "failed" ELSE "cancelled"
      OBVIOUS
    <3>2. result \in {"failed", "cancelled"}
      BY <3>1
    <3>3. Handles(Step({Finish(x, i, result)}))
      BY <2>4, <3>1, Zenon
    <3> QED
      BY <2>1, <3>2, <3>3
  <2> QED
    BY <2>2, <2>3, <2>4
<1>2. x.items[i].phase # None
  BY <1>1 DEF None
<1>3. i \notin taken
  BY <1>1 DEF Inv, Held, Carried
<1>4. CASE x' = ToLand(x, i) /\ UNCHANGED <<gate, news>>
  <2>1. Held'
    BY <1>1, <1>4, ToLandHeld
  <2>2. Rest'
    <3>1. /\ served' = served /\ row' = row /\ storage' = storage /\ present' = present
          /\ taken' = taken /\ news' = news /\ dirty' = dirty /\ runs' = runs
      BY <1>1, <1>4 DEF world
    <3> QED
      BY <3>1 DEF Inv, Rest
  <2> QED
    BY <2>1, <2>2 DEF Inv
<1>5. CASE \E result \in {"failed", "cancelled"} : Handles(Step({Finish(x, i, result)}))
  <2>1. PICK result \in {"failed", "cancelled"} : Handles(Step({Finish(x, i, result)}))
    BY <1>5
  <2> QED
    BY <1>1, <1>2, <1>3, <2>1, InvParts, FinishedKeeps
<1> QED
  BY <1>1, <1>4, <1>5

\* The executor forgets its run r.
Forgets(s, q) == [s EXCEPT !.run = q]

LEMMA OnRunEndedKeeps ==
    ASSUME Inv, NEW r \in RunId, OnRunEnded(r)
    PROVE  Inv'
<1>0. /\ Good(x) /\ Led(x, runs) /\ Carried(x, taken, runs) /\ Admitted(gate, x)
      /\ x \in Loop /\ x.run \in 0 .. MaxRun /\ taken \subseteq Id
      /\ runs \in [RunId -> {None, "on", "ended", "panicked"}]
  BY InvParts, LoopFields DEF Inv, Held, Rest
<1>1. PICK result, q, s, O, S :
         /\ result = IF runs[r] = "panicked" THEN "failed" ELSE "cancelled"
         /\ q = IF x.run = r THEN 0 ELSE x.run
         /\ s = Forgets(x, q) /\ O = Orphans(r)
         /\ S = UNION {FinishAll(s, order, result) : order \in SetToSeqs(O)}
  OBVIOUS
<1>2. /\ runs[r] \in {"ended", "panicked"} /\ runs' = [runs EXCEPT ![r] = None]
      /\ UNCHANGED <<world, taken, dirty>>
  BY Zenon DEF OnRunEnded
<1>3. Handles(S)
  BY <1>1, Zenon DEF OnRunEnded, Forgets
<1>4. result \in {"landed", "failed", "cancelled"} /\ q \in 0 .. MaxRun /\ q \in {x.run, 0}
  BY <1>0, <1>1, BoundAssumption
<1>5. /\ s \in Loop /\ s.flight = x.flight /\ s.items = x.items /\ SameLane(x, s)
      /\ s.run = q /\ s.need = x.need /\ s.fed = x.fed /\ s.lists = x.lists
  BY <1>0, <1>1, <1>4, Zenon DEF Loop, SameLane, Forgets
<1>6. Good(s) /\ Kin(x, s, {})
  <2>1. Aloft(x, s) /\ Lists(s)
    BY <1>0, <1>5 DEF Aloft, Lists, Good
  <2> QED
    BY <1>0, <1>4, <1>5, <2>1, AloftGood
<1>7. /\ O \subseteq Id /\ \A i \in O : s.items[i].phase = "sent"
      /\ \A i \in Id : i \in O <=> x.items[i].phase = "sent" /\ x.items[i].run = r
  BY <1>1, <1>5 DEF Orphans
<1>8. ASSUME NEW y \in S PROVE Good(y) /\ Kin(s, y, O)
  <2>1. PICK order \in SetToSeqs(O) : y \in FinishAll(s, order, result)
    BY <1>1
  <2> QED
    BY <1>4, <1>6, <1>7, <2>1, FinishAllGood
<1>9. PICK y \in S : x' = y /\ gate' = IF x.permit /\ ~y.permit THEN Leave(gate, "lane") ELSE gate
  BY <1>3, Zenon DEF Handles, Becomes
<1>10. Good(x') /\ Kin(s, x', O)
  BY <1>8, <1>9
<1>11. Kin(x, x', O)
  <2>1. Kin(x, x', {} \cup O)
    BY <1>6, <1>10, KinUnion
  <2> QED
    BY <2>1
<1>12. \A k \in RunId : k # r => runs'[k] = runs[k]
  BY <1>0, <1>2
<1>13. Led(x', runs')
  <2>1. x'.run # 0 => runs'[x'.run] # None
    <3>1. x'.run \in {q, 0}
      BY <1>5, <1>10 DEF Kin
    <3>2. ASSUME x'.run # 0 PROVE x'.run = x.run /\ x.run \in RunId /\ x.run # r
      BY <1>0, <1>1, <3>1, <3>2 DEF RunId
    <3> QED
      BY <1>0, <1>12, <3>2 DEF Led
  <2>2. ASSUME NEW i \in Id, x'.items[i].phase = "sent", x'.items[i].event = None
        PROVE  x'.items[i].run \in RunId /\ runs'[x'.items[i].run] # None
    <3>1. i \notin O
      BY <1>11, <2>2 DEF Kin
    <3>2. /\ x.items[i].phase = "sent" /\ x.items[i].event = None
          /\ x'.items[i].run = x.items[i].run
      BY <1>11, <2>2, <3>1 DEF Kin
    <3>3. x.items[i].run # r
      BY <1>7, <3>1, <3>2
    <3> QED
      BY <1>0, <1>12, <3>2, <3>3 DEF Led
  <2> QED
    BY <2>1, <2>2 DEF Led
<1>14. Carried(x', taken', runs')
  <2>1. ASSUME NEW i \in taken
        PROVE  /\ x'.items[i].phase = "sent" /\ x'.items[i].event = None
               /\ runs'[x'.items[i].run] = "on"
    <3>1. /\ x.items[i].phase = "sent" /\ x.items[i].event = None
          /\ runs[x.items[i].run] = "on" /\ i \in Id
      BY <1>0 DEF Carried
    <3>2. x.items[i].run # r /\ i \notin O
      BY <1>2, <1>7, <3>1
    <3>3. /\ x'.items[i].phase = "sent" /\ x'.items[i].event = None
          /\ x'.items[i].run = x.items[i].run
      BY <1>11, <3>1, <3>2 DEF Kin
    <3>4. x.items[i].run \in RunId
      BY <1>0, <3>1 DEF Led
    <3> QED
      BY <1>12, <3>1, <3>2, <3>3, <3>4
  <2> QED
    BY <1>2, <2>1 DEF Carried
<1>15. Admitted(gate', x')
  <2>1. gate' = IF x.permit /\ ~x'.permit THEN Leave(gate, "lane") ELSE gate
    BY <1>9
  <2> QED
    BY <1>0, <1>11, <2>1, AdmittedKin
<1>16. Rest'
  <2>1. /\ served' = served /\ row' = row /\ storage' = storage /\ present' = present
        /\ taken' = taken /\ dirty' = dirty
    BY <1>2 DEF world
  <2>2. news' \in BOOLEAN
    BY <1>3, NewsType, Zenon DEF Handles
  <2>3. runs' \in [RunId -> {None, "on", "ended", "panicked"}]
    BY <1>0, <1>2
  <2>4. Rest
    BY InvParts
  <2> QED
    BY <2>1, <2>2, <2>3, <2>4 DEF Rest
<1> QED
  BY <1>10, <1>13, <1>14, <1>15, <1>16 DEF Inv, Held

-----------------------------------------------------------------------------
(***************************************************************************)
(* The executor's tasks and the world.                                     *)
(***************************************************************************)
States == {"wanted", "held", "gc", "excluded", "gone"}
Rows == [Frame -> [ver : Version, state : States]]
InState(w, s) == [w EXCEPT !.state = s]

LEMMA MarkedType ==
    ASSUME row \in Rows, NEW f \in Frame, NEW s \in States,
           row' = [row EXCEPT ![f].state = s]
    PROVE  row' \in Rows
<1>1. \A w \in [ver : Version, state : States] : InState(w, s) \in [ver : Version, state : States]
  BY Zenon DEF InState
<1>2. row' = [row EXCEPT ![f] = InState(row[f], s)]
  BY Zenon DEF InState
<1> QED
  BY <1>1, <1>2 DEF Rows

\* The rest of the state, when a task or the world changes a part of it.
LEMMA RestTyped ==
    ASSUME Rest, news' \in BOOLEAN, storage' \in BOOLEAN, served' \subseteq Personal,
           taken' \subseteq Id, present' \subseteq Device,
           runs' \in [RunId -> {None, "on", "ended", "panicked"}], row' \in Rows,
           dirty' \subseteq {"need", "epoch", "providers", "gone"}
    PROVE  Rest'
BY DEF Rest, Rows, States

LEMMA RestParts ==
    ASSUME Rest
    PROVE  /\ news \in BOOLEAN /\ storage \in BOOLEAN /\ served \subseteq Personal
           /\ taken \subseteq Id /\ present \subseteq Device
           /\ runs \in [RunId -> {None, "on", "ended", "panicked"}] /\ row \in Rows
           /\ dirty \subseteq {"need", "epoch", "providers", "gone"}
BY DEF Rest, Rows, States

LEMMA RequestRunsKeeps ==
    ASSUME Inv, RequestRuns
    PROVE  Inv'
<1>1. /\ x.requesting /\ "lane" \notin gate.held /\ gate.collab = <<>>
      /\ gate' = AcquireCollab(gate, "lane") /\ news' = (news \/ Signalled)
      /\ x' = x /\ UNCHANGED <<world, taken, runs, dirty>>
  BY Zenon DEF RequestRuns
<1>2. /\ Good(x) /\ Led(x, runs) /\ Carried(x, taken, runs) /\ Admitted(gate, x)
  BY DEF Inv, Held
<1>3. /\ gate' \in Gate /\ IsFiniteSet(gate'.held)
      /\ gate'.collab = <<>> \/ "lane" \notin gate'.held
  BY <1>1, <1>2, AcquireCollabFields DEF Admitted
<1>4. ~x.permit
  BY <1>1, <1>2 DEF Good, Lanes
<1>5. Admitted(gate', x')
  BY <1>1, <1>3, <1>4 DEF Admitted
<1>6. Held'
  BY <1>1, <1>2, <1>5 DEF Held
<1>7. Rest'
  BY <1>1, NewsType, RestKept, InvParts
<1> QED
  BY <1>6, <1>7 DEF Inv

\* A task posts an event; the row of the item's frame may be marked.
LEMMA PostedKeeps ==
    ASSUME Inv, NEW i \in Id, x.items[i].phase # None, NEW e \in Events, e # None,
           e = "done" => x.items[i].phase = "sent", Posted(i, e),
           taken' \subseteq taken, i \notin taken', UNCHANGED <<quiet, runs>>,
           row' = row \/ \E s \in States : Mark(i, s)
    PROVE  Inv'
<1>1. /\ gate' = gate /\ news' = news /\ dirty' = dirty /\ served' = served
      /\ storage' = storage /\ present' = present /\ runs' = runs
  BY Zenon DEF quiet
<1>2. Held'
  BY <1>1, PostedHeld
<1>3. Rest
  BY InvParts
<1>4. row' \in Rows
  <2>1. row \in Rows
    BY <1>3, RestParts
  <2>2. x.items[i].frame \in Frame
    BY InvParts, PhaseItem, ItemFields
  <2>3. CASE \E s \in States : Mark(i, s)
    <3>1. PICK s \in States : Mark(i, s)
      BY <2>3
    <3>2. PICK f : f = x.items[i].frame
      OBVIOUS
    <3>3. row' = [row EXCEPT ![f].state = s]
      BY <3>1, <3>2 DEF Mark
    <3> QED
      BY <2>1, <2>2, <3>2, <3>3, MarkedType
  <2> QED
    BY <2>1, <2>3
<1>5. Rest'
  BY <1>1, <1>3, <1>4, RestParts, RestTyped
<1> QED
  BY <1>2, <1>5 DEF Inv

LEMMA PrepareEndsKeeps ==
    ASSUME Inv, NEW i \in Id, PrepareEnds(i)
    PROVE  Inv'
<1>1. x.items[i].phase = "preparing" /\ UNCHANGED <<quiet, taken, runs>>
  BY DEF PrepareEnds
<1>2. PICK e \in {"stale", "fetch", "gc", "yes", "failed"} :
         Posted(i, e) /\ (row' = row \/ Mark(i, "gc") \/ Mark(i, "held"))
  BY DEF PrepareEnds
<1>3. /\ e \in Events /\ e # None /\ e # "done" /\ x.items[i].phase # None
      /\ x.items[i].phase # "sent"
  BY <1>1, <1>2 DEF Events, None
<1>4. row' = row \/ \E s \in States : Mark(i, s)
  BY <1>2 DEF States
<1>5. i \notin taken' /\ taken' \subseteq taken
  BY <1>1, <1>3 DEF Inv, Held, Carried
<1> QED
  BY <1>1, <1>2, <1>3, <1>4, <1>5, PostedKeeps

LEMMA LandingEndsKeeps ==
    ASSUME Inv, NEW i \in Id, LandingEnds(i)
    PROVE  Inv'
<1>1. x.items[i].phase = "landing" /\ UNCHANGED <<quiet, taken, runs>>
  BY DEF LandingEnds
<1>2. PICK e \in {"stale", "unavailable", "gc", "yes", "failed"} :
         Posted(i, e) /\ (row' = row \/ Mark(i, "gc") \/ Mark(i, "held"))
  BY DEF LandingEnds
<1>3. /\ e \in Events /\ e # None /\ e # "done" /\ x.items[i].phase # None
      /\ x.items[i].phase # "sent"
  BY <1>1, <1>2 DEF Events, None
<1>4. row' = row \/ \E s \in States : Mark(i, s)
  BY <1>2 DEF States
<1>5. i \notin taken' /\ taken' \subseteq taken
  BY <1>1, <1>3 DEF Inv, Held, Carried
<1> QED
  BY <1>1, <1>2, <1>3, <1>4, <1>5, PostedKeeps

LEMMA ItemEndsKeeps ==
    ASSUME Inv, NEW i \in Id, ItemEnds(i)
    PROVE  Inv'
<1>1. i \in taken /\ taken' = taken \ {i} /\ UNCHANGED <<quiet, runs, row>>
  BY DEF ItemEnds
<1>2. PICK e \in {"cancelled", "done", "failed"} : Posted(i, e)
  BY DEF ItemEnds
<1>3. x.items[i].phase = "sent"
  BY <1>1 DEF Inv, Held, Carried
<1>4. e \in Events /\ e # None /\ x.items[i].phase # None
  BY <1>2, <1>3 DEF Events, None
<1> QED
  BY <1>1, <1>2, <1>3, <1>4, PostedKeeps

LEMMA RunTakesKeeps ==
    ASSUME Inv, NEW i \in Id, RunTakes(i)
    PROVE  Inv'
<1>1. /\ x.items[i].phase = "sent" /\ x.items[i].event = None /\ i \notin taken
      /\ runs[x.items[i].run] = "on" /\ UNCHANGED <<quiet, runs, row>>
      /\ \/ Posted(i, "cancelled") /\ UNCHANGED taken
         \/ taken' = taken \cup {i} /\ UNCHANGED x
  BY DEF RunTakes
<1>2. CASE Posted(i, "cancelled") /\ UNCHANGED taken
  <2>1. PICK e : e = "cancelled"
    OBVIOUS
  <2>2. e \in Events /\ e # None /\ e # "done" /\ x.items[i].phase # None
    BY <1>1, <2>1 DEF Events, None
  <2> QED
    BY <1>1, <1>2, <2>1, <2>2, PostedKeeps
<1>3. CASE taken' = taken \cup {i} /\ UNCHANGED x
  <2>1. /\ gate' = gate /\ news' = news /\ dirty' = dirty /\ served' = served
        /\ storage' = storage /\ present' = present /\ runs' = runs /\ row' = row
    BY <1>1, Zenon DEF quiet
  <2>2. Carried(x', taken', runs')
    BY <1>1, <1>3 DEF Inv, Held, Carried
  <2>3. Held'
    BY <1>3, <2>1, <2>2 DEF Inv, Held
  <2>4. Rest'
    BY <1>3, <2>1, InvParts, RestParts, RestTyped
  <2> QED
    BY <2>3, <2>4 DEF Inv
<1> QED
  BY <1>1, <1>2, <1>3

\* A run stops, with none of its transfers left.
LEMMA RunStops ==
    ASSUME Inv, NEW r \in RunId, NEW how \in {"ended", "panicked"},
           runs' = [runs EXCEPT ![r] = how], UNCHANGED <<x, quiet, row>>,
           taken' \subseteq taken, \A i \in taken' : x.items[i].run # r
    PROVE  Inv'
<1>1. /\ gate' = gate /\ news' = news /\ dirty' = dirty /\ served' = served
      /\ storage' = storage /\ present' = present /\ x' = x /\ row' = row
  BY Zenon DEF quiet
<1>2. /\ Good(x) /\ Led(x, runs) /\ Carried(x, taken, runs) /\ Admitted(gate, x)
      /\ Rest /\ taken \subseteq Id
      /\ runs \in [RunId -> {None, "on", "ended", "panicked"}]
  BY DEF Inv, Held, Rest
<1>3. /\ runs'[r] = how /\ how # None /\ \A k \in RunId : k # r => runs'[k] = runs[k]
      /\ runs' \in [RunId -> {None, "on", "ended", "panicked"}]
  BY <1>2 DEF None
<1>4. x.run # 0 => x.run \in RunId
  <2>1. x.run \in 0 .. MaxRun
    BY <1>2, LoopFields DEF Good
  <2> QED
    BY <2>1 DEF RunId
<1>5. Led(x', runs')
  BY <1>1, <1>2, <1>3, <1>4 DEF Led
<1>6. Carried(x', taken', runs')
  <2>1. ASSUME NEW i \in taken'
        PROVE  /\ x.items[i].phase = "sent" /\ x.items[i].event = None
               /\ runs'[x.items[i].run] = "on"
    <3>1. /\ x.items[i].phase = "sent" /\ x.items[i].event = None
          /\ runs[x.items[i].run] = "on" /\ i \in Id /\ x.items[i].run # r
      BY <1>2, <2>1 DEF Carried
    <3>2. x.items[i].run \in RunId
      BY <1>2, <3>1 DEF Led
    <3> QED
      BY <1>3, <3>1, <3>2
  <2> QED
    BY <1>1, <2>1 DEF Carried
<1>7. Rest'
  BY <1>1, <1>2, <1>3, RestParts, RestTyped
<1>8. Held'
  BY <1>1, <1>2, <1>5, <1>6 DEF Held
<1> QED
  BY <1>7, <1>8 DEF Inv

LEMMA RunEndsKeeps ==
    ASSUME Inv, NEW r \in RunId, RunEnds(r)
    PROVE  Inv'
<1>1. PICK how : how = "ended"
  OBVIOUS
<1>2. /\ runs' = [runs EXCEPT ![r] = how] /\ UNCHANGED <<x, quiet, taken, row>>
      /\ \A i \in taken : x.items[i].run # r
  BY <1>1 DEF RunEnds
<1> QED
  BY <1>1, <1>2, RunStops

LEMMA RunPanicsKeeps ==
    ASSUME Inv, NEW r \in RunId, RunPanics(r)
    PROVE  Inv'
<1>1. PICK how : how = "panicked"
  OBVIOUS
<1>2. /\ runs' = [runs EXCEPT ![r] = how] /\ UNCHANGED <<x, quiet, row>>
      /\ taken' = {i \in taken : x.items[i].run # r}
  BY <1>1 DEF RunPanics
<1> QED
  BY <1>1, <1>2, RunStops

\* Only the gate changes, and the personal transfers that are over.
LEMMA GateChanges ==
    ASSUME Inv, UNCHANGED outside, Admitted(gate', x), news' = (news \/ Signalled),
           served' \subseteq Personal, UNCHANGED <<row, storage, present, dirty>>
    PROVE  Inv'
<1>1. x' = x /\ taken' = taken /\ runs' = runs
  BY Zenon DEF outside
<1>2. Held'
  BY <1>1 DEF Inv, Held
<1>3. news' \in BOOLEAN
  BY NewsType
<1>4. Rest'
  BY <1>1, <1>3, InvParts, RestParts, RestTyped
<1> QED
  BY <1>2, <1>4 DEF Inv

LEMMA PersonalArrivesKeeps ==
    ASSUME Inv, NEW p \in Personal, PersonalArrives(p)
    PROVE  Inv'
<1>1. /\ gate' = AcquirePersonal(gate, p) /\ news' = (news \/ Signalled)
      /\ UNCHANGED outside /\ UNCHANGED <<served, row, storage, present, dirty>>
  BY Zenon DEF PersonalArrives, world
<1>2. Admitted(gate, x) /\ p # "lane" /\ Rest
  BY WorldAssumption DEF Inv, Held
<1>3. /\ gate' \in Gate /\ IsFiniteSet(gate'.held) /\ gate'.collab = gate.collab
      /\ gate'.held \in {gate.held, gate.held \cup {p}}
  BY <1>1, <1>2, AcquirePersonalFields DEF Admitted
<1>4. Admitted(gate', x)
  BY <1>2, <1>3, AdmittedOther
<1> QED
  BY <1>1, <1>2, <1>4, GateChanges, RestParts

\* A personal transfer leaves the gate.
LEMMA PersonalLeaves ==
    ASSUME Inv, NEW p \in Personal, gate' = Leave(gate, p), UNCHANGED outside,
           news' = (news \/ Signalled), served' = served \cup {p},
           UNCHANGED <<row, storage, present, dirty>>
    PROVE  Inv'
<1>1. Admitted(gate, x) /\ p # "lane" /\ Rest
  BY WorldAssumption DEF Inv, Held
<1>2. /\ gate' \in Gate /\ IsFiniteSet(gate'.held) /\ gate.held \ {p} \subseteq gate'.held
      /\ \/ gate'.collab = gate.collab /\ ("lane" \in gate'.held => "lane" \in gate.held)
         \/ gate.collab # <<>> /\ gate'.collab = <<>> /\ "lane" \in gate'.held
  BY <1>1, LeaveFields DEF Admitted
<1>3. Admitted(gate', x)
  BY <1>1, <1>2, AdmittedOther
<1>4. served' \subseteq Personal
  BY <1>1, RestParts
<1> QED
  BY <1>3, <1>4, GateChanges

LEMMA PersonalEndsKeeps ==
    ASSUME Inv, NEW p \in Personal, PersonalEnds(p)
    PROVE  Inv'
BY PersonalLeaves DEF PersonalEnds

LEMMA PersonalAbandonsKeeps ==
    ASSUME Inv, NEW p \in Personal, PersonalAbandons(p)
    PROVE  Inv'
BY PersonalLeaves DEF PersonalAbandons

LEMMA LimitChangesKeeps ==
    ASSUME Inv, LimitChanges
    PROVE  Inv'
<1>1. PICK n \in Limits : gate' = SetLimit(gate, n)
  BY DEF LimitChanges
<1>2. /\ news' = (news \/ Signalled) /\ UNCHANGED outside
      /\ UNCHANGED <<served, row, storage, present, dirty>>
  BY Zenon DEF LimitChanges, world
<1>3. Admitted(gate, x) /\ Rest
  BY DEF Inv, Held
<1>4. /\ gate' \in Gate /\ IsFiniteSet(gate'.held) /\ gate.held \subseteq gate'.held
      /\ \/ gate'.collab = gate.collab /\ ("lane" \in gate'.held => "lane" \in gate.held)
         \/ gate.collab # <<>> /\ gate'.collab = <<>> /\ "lane" \in gate'.held
  BY <1>1, <1>3, SetLimitFields DEF Admitted
<1>5. Admitted(gate', x)
  BY <1>3, <1>4, AdmittedOther
<1> QED
  BY <1>2, <1>3, <1>5, GateChanges, RestParts

\* What the hub, the user and the disk change is not the loop's.
LEMMA WorldChanges ==
    ASSUME Inv, UNCHANGED <<outside, gate, news, served>>, storage' \in BOOLEAN,
           present' \subseteq Device, row' \in Rows,
           dirty' \subseteq {"need", "epoch", "providers", "gone"}
    PROVE  Inv'
<1>1. /\ x' = x /\ taken' = taken /\ runs' = runs /\ gate' = gate /\ news' = news
      /\ served' = served
  BY Zenon DEF outside
<1>2. Held'
  BY <1>1 DEF Inv, Held
<1>3. Rest'
  BY <1>1, InvParts, RestParts, RestTyped
<1> QED
  BY <1>2, <1>3 DEF Inv

LEMMA NewVersionKeeps ==
    ASSUME Inv, NewVersion
    PROVE  Inv'
<1>1. PICK f \in Frame, v \in Version, why \in {"need", "epoch"} :
         /\ row' = [row EXCEPT ![f] = [ver |-> v, state |-> "wanted"]]
         /\ dirty' = dirty \cup {why}
  BY Zenon DEF NewVersion
<1>2. UNCHANGED <<outside, gate, news, served>> /\ UNCHANGED <<storage, present>>
  BY Zenon DEF NewVersion
<1>3. /\ row \in Rows /\ dirty \subseteq {"need", "epoch", "providers", "gone"}
      /\ storage \in BOOLEAN /\ present \subseteq Device
  BY InvParts, RestParts
<1>4. row' \in Rows
  BY <1>1, <1>3 DEF Rows, States
<1>5. dirty' \subseteq {"need", "epoch", "providers", "gone"}
  BY <1>1, <1>3
<1> QED
  BY <1>2, <1>3, <1>4, <1>5, WorldChanges

\* A frame's row is marked.
LEMMA RowMarked ==
    ASSUME Inv, NEW f \in Frame, NEW s \in States, row' = [row EXCEPT ![f].state = s],
           dirty' = dirty \cup {"need"}, UNCHANGED <<outside, gate, news, served, storage, present>>
    PROVE  Inv'
<1>1. /\ row \in Rows /\ dirty \subseteq {"need", "epoch", "providers", "gone"}
      /\ storage \in BOOLEAN /\ present \subseteq Device
  BY InvParts, RestParts
<1>2. row' \in Rows
  BY <1>1, MarkedType
<1>3. dirty' \subseteq {"need", "epoch", "providers", "gone"}
  BY <1>1
<1> QED
  BY <1>1, <1>2, <1>3, WorldChanges

LEMMA ExcludedKeeps ==
    ASSUME Inv, Excluded
    PROVE  Inv'
<1>0. PICK s : s = "excluded"
  OBVIOUS
<1>1. PICK f \in Frame : row' = [row EXCEPT ![f].state = s]
  BY <1>0, Zenon DEF Excluded
<1>2. /\ dirty' = dirty \cup {"need"}
      /\ UNCHANGED <<outside, gate, news, served, storage, present>>
  BY Zenon DEF Excluded
<1>3. s \in States
  BY <1>0 DEF States
<1> QED
  BY <1>1, <1>2, <1>3, RowMarked

LEMMA GcReleasesKeeps ==
    ASSUME Inv, GcReleases
    PROVE  Inv'
<1>0. PICK s : s = "wanted"
  OBVIOUS
<1>1. PICK f \in Frame : row' = [row EXCEPT ![f].state = s]
  BY <1>0, Zenon DEF GcReleases
<1>2. /\ dirty' = dirty \cup {"need"}
      /\ UNCHANGED <<outside, gate, news, served, storage, present>>
  BY Zenon DEF GcReleases
<1>3. s \in States
  BY <1>0 DEF States
<1> QED
  BY <1>1, <1>2, <1>3, RowMarked

LEMMA ProjectLeftKeeps ==
    ASSUME Inv, ProjectLeft
    PROVE  Inv'
<1>1. PICK s : s = "gone"
  OBVIOUS
<1>2. /\ row' = [f \in Frame |-> InState(row[f], s)] /\ dirty' = dirty \cup {"gone"}
      /\ UNCHANGED <<outside, gate, news, served>> /\ UNCHANGED <<storage, present>>
  BY <1>1, Zenon DEF ProjectLeft, InState
<1>3. /\ row \in Rows /\ dirty \subseteq {"need", "epoch", "providers", "gone"}
      /\ storage \in BOOLEAN /\ present \subseteq Device /\ s \in States
  BY <1>1, InvParts, RestParts DEF States
<1>4. \A w \in [ver : Version, state : States] : InState(w, s) \in [ver : Version, state : States]
  BY <1>3, Zenon DEF InState
<1>5. row' \in Rows
  BY <1>2, <1>3, <1>4 DEF Rows
<1>6. dirty' \subseteq {"need", "epoch", "providers", "gone"}
  BY <1>2, <1>3
<1> QED
  BY <1>2, <1>3, <1>5, <1>6, WorldChanges

\* A device or the storage comes and goes.
LEMMA DevicesKeep ==
    ASSUME Inv, DeviceLeaves \/ DeviceReturns \/ StorageGoes \/ StorageReturns
    PROVE  Inv'
<1>1. UNCHANGED <<outside, gate, news, served>> /\ UNCHANGED row
  BY Zenon DEF DeviceLeaves, DeviceReturns, StorageGoes, StorageReturns
<1>2. /\ row \in Rows /\ dirty \subseteq {"need", "epoch", "providers", "gone"}
      /\ storage \in BOOLEAN /\ present \subseteq Device
  BY InvParts, RestParts
<1>3. dirty' = dirty \/ dirty' = dirty \cup {"providers"}
  BY Zenon DEF DeviceLeaves, DeviceReturns, StorageGoes, StorageReturns
<1>4. storage' = storage \/ storage' = FALSE \/ storage' = TRUE
  BY Zenon DEF DeviceLeaves, DeviceReturns, StorageGoes, StorageReturns
<1>5. present' = present \/ present' = Device \/ \E d \in present : present' = present \ {d}
  BY Zenon DEF DeviceLeaves, DeviceReturns, StorageGoes, StorageReturns
<1>6. storage' \in BOOLEAN
  BY <1>2, <1>4
<1>7. present' \subseteq Device /\ dirty' \subseteq {"need", "epoch", "providers", "gone"}
  BY <1>2, <1>3, <1>5
<1> QED
  BY <1>1, <1>2, <1>6, <1>7, WorldChanges

\* An executor that has just been made has nothing to answer for.
LEMMA NewExecutorGood ==
    ASSUME NEW n \in Nat \ {0}, NEW ok \in BOOLEAN, NEW s, s = NewExecutor(n, ok)
    PROVE  /\ Good(s) /\ s.permit = FALSE /\ s.requesting = FALSE /\ s.run = 0
           /\ \A i \in Id : s.items[i] = NoItem
<1>1. PICK W, L, F, K, G, no, nil : /\ W = [f \in Frame |-> None]
                           /\ L = [f \in Frame |-> [v \in Version |-> {}]]
                           /\ F = [f \in Frame |-> NoFlight]
                           /\ K = [f \in Frame |-> <<>>]
                           /\ G = [i \in Id |-> NoItem]
                           /\ no = FALSE /\ nil = {}
  OBVIOUS
<1>2. s = [lane |-> no, yielded |-> no, requested |-> no, storageOk |-> ok,
           slots |-> n, wants |-> W, lists |-> L, flight |-> F, dialOff |-> nil,
           frameOff |-> nil, need |-> W, fed |-> K, items |-> G, permit |-> no,
           requesting |-> no, run |-> 0]
  BY <1>1, Zenon DEF NewExecutor
<1>3. /\ W \in [Frame -> Version \cup {None}] /\ L \in [Frame -> [Version -> SUBSET Device]]
      /\ F \in [Frame -> Flight \cup {NoFlight}] /\ K \in [Frame -> Fed]
      /\ G \in [Id -> Item \cup {NoItem}]
  BY <1>1 DEF Fed
<1>4. 0 \in 0 .. MaxRun /\ nil \in SUBSET Device /\ nil \in SUBSET Frame
  BY <1>1, BoundAssumption
<1>13. no \in BOOLEAN
  BY <1>1, Zenon
<1>5. s \in Loop
  BY <1>2, <1>3, <1>4, <1>13, SMT DEF Loop
<1>14. /\ s.lane = no /\ s.yielded = no /\ s.requested = no /\ s.flight = F
       /\ s.need = W /\ s.fed = K /\ s.items = G /\ s.permit = no
       /\ s.requesting = no /\ s.run = 0
  BY <1>2, SMT
<1>6. /\ s.lane = FALSE /\ s.yielded = FALSE /\ s.requested = FALSE /\ s.flight = F
      /\ s.need = W /\ s.fed = K /\ s.items = G /\ s.permit = FALSE
      /\ s.requesting = FALSE /\ s.run = 0
  BY <1>1, <1>14, Zenon
<1>7. Flying(s) = {} /\ \A i \in Id : s.items[i] = NoItem
  BY <1>1, <1>6 DEF Flying
<1>8. Lanes(s)
  BY <1>6, <1>7 DEF Lanes
<1>9. Paired(s)
  BY <1>7 DEF Paired
<1>10. NoItem.event = None /\ None # "done"
  BY Zenon DEF NoItem, None
<1>11. Told(s)
  BY <1>7, <1>10 DEF Told
<1>12. Lists(s)
  BY <1>1, <1>6 DEF Lists
<1> QED
  BY <1>5, <1>6, <1>7, <1>8, <1>9, <1>11, <1>12 DEF Good

\* With a new executor nothing is sent and nothing is transferred.
LEMMA NewExecutorHeld ==
    ASSUME NEW n \in Nat \ {0}, NEW ok \in BOOLEAN, NEW s, s = NewExecutor(n, ok),
           NEW rs, NEW g \in Gate, IsFiniteSet(g.held), "lane" \notin g.held, g.collab = <<>>
    PROVE  Good(s) /\ Led(s, rs) /\ Carried(s, {}, rs) /\ Admitted(g, s)
<1>1. /\ Good(s) /\ s.permit = FALSE /\ s.requesting = FALSE /\ s.run = 0
      /\ \A i \in Id : s.items[i] = NoItem
  BY NewExecutorGood
<1>2. NoItem.phase = None /\ None # "sent"
  BY Zenon DEF NoItem, None
<1> QED
  BY <1>1, <1>2 DEF Led, Carried, Admitted

LEMMA RemountKeeps ==
    ASSUME Inv, Remount
    PROVE  Inv'
<1>1. /\ x' = NewExecutor(x.slots, storage) /\ gate' = Leave(gate, "lane")
      /\ news' = FALSE /\ taken' = {} /\ dirty' = {"need"}
      /\ runs' = [r \in RunId |-> None]
      /\ UNCHANGED <<served, row, storage, present>>
  BY Zenon DEF Remount, world
<1>2. Admitted(gate, x) /\ Rest /\ x.slots \in Nat \ {0} /\ storage \in BOOLEAN
  BY InvParts, LoopFields DEF Inv, Held
<1>3. gate' \in Gate /\ IsFiniteSet(gate'.held) /\ "lane" \notin gate'.held /\ gate'.collab = <<>>
  BY <1>1, <1>2, LeaveFields DEF Admitted
<1>4. Good(x') /\ Led(x', runs') /\ Carried(x', {}, runs') /\ Admitted(gate', x')
  BY <1>1, <1>2, <1>3, NewExecutorHeld
<1>5. Held'
  BY <1>1, <1>4 DEF Held
<1>6. Rest'
  <2>1. runs' \in [RunId -> {None, "on", "ended", "panicked"}]
    BY <1>1
  <2>2. taken' \subseteq Id /\ dirty' \subseteq {"need", "epoch", "providers", "gone"}
    BY <1>1
  <2>3. news' \in BOOLEAN
    BY <1>1
  <2> QED
    BY <1>1, <1>2, <2>1, <2>2, <2>3, RestParts, RestTyped
<1> QED
  BY <1>5, <1>6 DEF Inv

LEMMA InitInv == Init => Inv
<1> SUFFICES ASSUME Init PROVE Inv
  OBVIOUS
<1>1. /\ gate = NewGate(Limit0) /\ x = NewExecutor(Slots0, TRUE)
      /\ news = FALSE /\ served = {} /\ taken = {}
      /\ runs = [r \in RunId |-> None]
      /\ row = [f \in Frame |-> [ver |-> CHOOSE v \in Version : TRUE, state |-> "wanted"]]
      /\ storage = TRUE /\ present = Device /\ dirty = {"need"}
  BY Zenon DEF Init
<1>2. gate \in Gate /\ gate.held = {} /\ gate.collab = <<>>
  <2>1. <<>> \in Seq(Personal) /\ <<>> \in Line /\ {} \in SUBSET (Personal \cup {"lane"})
    BY DEF Line
  <2>2. Limit0 \in Limits \cup {Limit0} /\ FALSE \in BOOLEAN
    OBVIOUS
  <2> QED
    BY <1>1, <2>1, <2>2, Zenon DEF NewGate, Gate
<1>3. IsFiniteSet(gate.held) /\ "lane" \notin gate.held
  BY <1>2, FS_EmptySet
<1>4. Slots0 \in Nat \ {0} /\ TRUE \in BOOLEAN
  BY BoundAssumption
<1>5. Good(x) /\ Led(x, runs) /\ Carried(x, {}, runs) /\ Admitted(gate, x)
  BY <1>1, <1>2, <1>3, <1>4, NewExecutorHeld
<1>6. row \in [Frame -> [ver : Version, state : {"wanted", "held", "gc", "excluded", "gone"}]]
  <2>1. (CHOOSE v \in Version : TRUE) \in Version
    BY WorldAssumption
  <2> QED
    BY <1>1, <2>1
<1>7. runs \in [RunId -> {None, "on", "ended", "panicked"}]
  BY <1>1
<1>8. {news, storage} \subseteq BOOLEAN
  BY <1>1
<1>9. Rest
  BY <1>1, <1>6, <1>7, <1>8 DEF Rest
<1> QED
  BY <1>1, <1>5, <1>9 DEF Inv, Held

LEMMA WorkKeeps ==
    ASSUME Inv, Work
    PROVE  Inv'
<1>1. CASE \E i \in Id : ItemStep(i)
  BY <1>1, PrepareEndsKeeps, OnSettledKeeps, OnFetchableKeeps, RunTakesKeeps, ItemEndsKeeps,
     OnDoneKeeps, LandingEndsKeeps DEF ItemStep
<1>2. CASE \E r \in RunId : RunStep(r)
  BY <1>2, RunEndsKeeps, OnRunEndedKeeps DEF RunStep
<1> QED
  BY <1>1, <1>2, RequestRunsKeeps, LaneGrantedKeeps DEF Work

LEMMA AttentionKeeps ==
    ASSUME Inv, Attention
    PROVE  Inv'
<1>1. CASE RefreshNeed(FALSE) \/ RefreshNeed(TRUE)
  BY <1>1, RefreshNeedKeeps, Zenon
<1> QED
  BY <1>1, YieldChangedKeeps, StorageSeenKeeps, RefreshProvidersKeeps, ProjectGoneKeeps,
     Zenon DEF Attention

LEMMA RecoveryKeeps ==
    ASSUME Inv, Recovery
    PROVE  Inv'
BY PersonalEndsKeeps, TickKeeps, GcReleasesKeeps, DevicesKeep, Zenon DEF Recovery

LEMMA WorldKeeps ==
    ASSUME Inv, World
    PROVE  Inv'
<1>1. CASE \E p \in Personal : PersonalArrives(p) \/ PersonalAbandons(p)
  BY <1>1, PersonalArrivesKeeps, PersonalAbandonsKeeps
<1>2. CASE \E r \in RunId : RunPanics(r)
  BY <1>2, RunPanicsKeeps
<1> QED
  BY <1>1, <1>2, LimitChangesKeeps, SetStreamsKeeps, NewVersionKeeps, ExcludedKeeps,
     ProjectLeftKeeps, DevicesKeep, RemountKeeps, ClearBackoffsKeeps, ProviderLostKeeps,
     ConnectionIdleKeeps, DialOkKeeps, Zenon DEF World

LEMMA NextInv == Inv /\ [Next]_vars => Inv'
<1> SUFFICES ASSUME Inv, [Next]_vars PROVE Inv'
  OBVIOUS
<1>1. CASE UNCHANGED vars
  <2>1. /\ x' = x /\ gate' = gate /\ news' = news /\ served' = served /\ taken' = taken
        /\ runs' = runs /\ row' = row /\ storage' = storage /\ present' = present
        /\ dirty' = dirty
    BY <1>1, Zenon DEF vars
  <2>2. Held'
    BY <2>1 DEF Inv, Held
  <2>3. Rest'
    BY <2>1, InvParts, RestParts, RestTyped
  <2> QED
    BY <2>2, <2>3 DEF Inv
<1> QED
  BY <1>1, WorkKeeps, AttentionKeeps, RecoveryKeeps, WorldKeeps, Zenon DEF Next

\* The invariant holds in every state of the receiving side: each handler of
\* the loop, each task and each event of the world keeps it.
THEOREM InvHolds == Spec => []Inv
BY InitInv, NextInv, PTL DEF Spec

-----------------------------------------------------------------------------
(***************************************************************************)
(* What follows.                                                           *)
(***************************************************************************)
LEMMA InvType == Inv => TypeOK
<1> SUFFICES ASSUME Inv PROVE TypeOK
  OBVIOUS
<1>1. /\ Good(x) /\ x \in Loop /\ Admitted(gate, x) /\ Rest
  BY InvParts DEF Inv, Held
<1>2. {x.lane, x.yielded, x.requested, x.storageOk, x.permit, x.requesting} \subseteq BOOLEAN
  BY <1>1, LoopFields
<1>3. /\ x.slots \in Nat \ {0} /\ x.run \in 0 .. MaxRun
      /\ x.wants \in [Frame -> Version \cup {None}] /\ x.need \in [Frame -> Version \cup {None}]
      /\ x.lists \in [Frame -> [Version -> SUBSET Device]]
      /\ x.dialOff \subseteq Device /\ x.frameOff \subseteq Frame
      /\ \A f \in Frame : x.flight[f] \in Flight \cup {NoFlight}
  BY <1>1, LoopFields
<1>4. Flight \cup {NoFlight} \subseteq
         [id : 0 .. MaxItem, ver : Version \cup {None}, live : SUBSET Device,
          active : SUBSET Device]
  <2>1. Id \subseteq 0 .. MaxItem /\ 0 \in 0 .. MaxItem
    BY BoundAssumption DEF Id
  <2>2. NoFlight \in [id : 0 .. MaxItem, ver : Version \cup {None}, live : SUBSET Device,
                      active : SUBSET Device]
    BY <2>1 DEF NoFlight
  <2>3. ASSUME NEW h \in Flight
        PROVE  h \in [id : 0 .. MaxItem, ver : Version \cup {None}, live : SUBSET Device,
                      active : SUBSET Device]
    BY <2>1, Zenon DEF Flight
  <2> QED
    BY <2>2, <2>3
<1>5. \A f \in Frame : x.flight[f] \in [id : 0 .. MaxItem, ver : Version \cup {None},
                                        live : SUBSET Device, active : SUBSET Device]
  BY <1>3, <1>4
<1>6. gate.held \subseteq Personal \cup {"lane"} /\ gate.limit \in Limits \cup {Limit0}
  BY <1>1, Zenon DEF Admitted, Gate
<1>7. gate.yield \in BOOLEAN
  BY <1>1, Zenon DEF Admitted, Gate
<1>8. {news, gate.yield, storage} \subseteq BOOLEAN
  BY <1>1, <1>7, RestParts
<1> QED
  BY <1>1, <1>2, <1>3, <1>5, <1>6, <1>8 DEF TypeOK, Rest

\* Every variable of the loop, the gate, the runs and the catalog keeps its
\* type, whatever happens; there is always a slot (set_slots).
THEOREM TypeCorrect == Spec => []TypeOK
BY InvHolds, InvType, PTL

LEMMA InvLane == Inv => LaneAccounted
BY DEF Inv, Held, Good, Lanes, Admitted, LaneAccounted

\* The core's lane, the executor's permit and the gate's books agree through
\* grants, yields, drained lanes, remounts and changes of the limit: no lane
\* of the gate is lost, and none is used that the gate has not given.
THEOREM LaneIsAccounted == Spec => []LaneAccounted
BY InvHolds, InvLane, PTL

LEMMA InvStranded == Inv => NothingStranded
<1> SUFFICES ASSUME Inv PROVE NothingStranded
  OBVIOUS
<1>1. Good(x) /\ x \in Loop /\ Paired(x) /\ Led(x, runs)
  BY InvParts DEF Inv, Held, Good
<1>2. ASSUME NEW f \in Flying(x)
      PROVE  /\ x.items[x.flight[f].id].frame = f
             /\ x.items[x.flight[f].id].ver = x.flight[f].ver
             /\ ~x.items[x.flight[f].id].cancelled
             /\ x.items[x.flight[f].id].phase = "sent" =>
                   \/ x.items[x.flight[f].id].event # None
                   \/ runs[x.items[x.flight[f].id].run] # None
  <2>1. x.flight[f].id \in Id
    BY <1>1, FlyingFields
  <2> QED
    BY <1>1, <2>1 DEF Paired, Led
<1> QED
  BY <1>1, <1>2 DEF NothingStranded, Paired

\* No slot is lost: a fetch the core counts has an item of the executor with
\* a task, a run or an event that will end it, and an item that nobody has
\* cancelled is the core's fetch of its frame.
THEOREM NothingIsStranded == Spec => []NothingStranded
BY InvHolds, InvStranded, PTL

LEMMA InvLists == Inv => ListsKnown
BY DEF Inv, Held, Good, Lists, ListsKnown

\* A provider list the executor will not feed again is the one the core has
\* for the version it wants, through need sets, epochs and lost projects.
THEOREM ListsAreKnown == Spec => []ListsKnown
BY InvHolds, InvLists, PTL

LEMMA InvTransfers == Inv => TransfersHoldTheLane
<1> SUFFICES ASSUME Inv, NEW i \in taken, ~x.items[i].cancelled PROVE x.permit
  BY DEF TransfersHoldTheLane
<1>1. Good(x) /\ x \in Loop /\ Paired(x) /\ Lanes(x) /\ taken \subseteq Id
  BY InvParts, RestParts DEF Good
<1>2. x.items[i].phase # None /\ i \in Id
  BY <1>1 DEF Inv, Held, Carried, None
<1>3. x.items[i] # NoItem /\ x.items[i].frame \in Frame
  BY <1>1, <1>2, PhaseItem, ItemFields
<1>4. x.flight[x.items[i].frame].id = i
  BY <1>1, <1>2, <1>3 DEF Paired
<1>5. x.items[i].frame \in Flying(x)
  BY <1>1, <1>2, <1>3, <1>4, FlyingFields
<1> QED
  BY <1>1, <1>5 DEF Lanes

\* What a run transfers and nobody has cancelled, it transfers under a lane
\* of the gate: no outcome of a yield or of a drained lane leaves a transfer
\* behind that the gate does not count.
THEOREM TransfersAreAdmitted == Spec => []TransfersHoldTheLane
BY InvHolds, InvTransfers, PTL

-----------------------------------------------------------------------------
(***************************************************************************)
(* The limit.  What a gate becomes is within bounds if nobody was admitted *)
(* or the lanes in use are no more than the limit.                         *)
(***************************************************************************)
Within(g, h) == h.held \subseteq g.held \/ Cardinality(h.held) <= h.limit

\* As many are granted as there are free lanes, and none if there is no one.
LEMMA GrantsCount ==
    ASSUME NEW g \in Gate, IsFiniteSet(g.held)
    PROVE  Grants(g) = {} \/ Cardinality(Grants(g)) <= Free(g)
<1> DEFINE line == g.personal \o g.collab
           D == {k \in DOMAIN line : k <= Free(g)}
<1>1. Grants(g) = {line[i] : i \in D}
  BY DEF Grants
<1>2. DOMAIN line \subseteq Nat \ {0}
  <2>1. g.personal \in Seq(Personal \cup {"lane"}) /\ g.collab \in Seq(Personal \cup {"lane"})
    <3>1. g.personal \in Seq(Personal) /\ g.collab \in Seq({"lane"})
      BY GateFields, OneLane
    <3> QED
      BY <3>1, SeqMonotonic
  <2>2. line \in Seq(Personal \cup {"lane"})
    BY <2>1, ConcatProperties
  <2> HIDE DEF line
  <2>3. DOMAIN line = 1 .. Len(line) /\ Len(line) \in Nat
    BY <2>2, LenProperties
  <2> QED
    BY <2>3
<1>3. PICK n \in Int : n = Free(g)
  BY FreeType
<1> HIDE DEF line
<1>4. D \subseteq 1 .. n
  BY <1>2, <1>3
<1>5. CASE n < 1
  <2>1. D = {}
    BY <1>4, <1>5
  <2> QED
    BY <1>1, <2>1
<1>6. CASE n >= 1
  <2>1. IsFiniteSet(1 .. n) /\ Cardinality(1 .. n) = n
    BY <1>6, FS_Interval
  <2>2. D \in SUBSET (1 .. n)
    BY <1>4
  <2>3. IsFiniteSet(D) /\ Cardinality(D) <= n
    <3> HIDE DEF D
    <3> QED
      BY <2>1, <2>2, FS_Subset
  <2>4. PICK F : F = [i \in D |-> line[i]]
    OBVIOUS
  <2>5. F \in Surjection(D, Grants(g))
    BY <1>1, <2>4 DEF Surjection
  <2>6. IsFiniteSet(Grants(g)) /\ Cardinality(Grants(g)) <= Cardinality(D)
    <3> HIDE DEF D
    <3> QED
      BY <2>3, <2>5, FS_Surjection
  <2>7. Cardinality(Grants(g)) \in Nat /\ Cardinality(D) \in Nat
    BY <2>3, <2>6, FS_CardinalityType
  <2> HIDE DEF D
  <2> QED
    BY <1>3, <2>3, <2>6, <2>7
<1> QED
  BY <1>5, <1>6

LEMMA SettleWithin ==
    ASSUME NEW g \in Gate, IsFiniteSet(g.held), NEW h, h = Settle(g)
    PROVE  Within(g, h)
<1>1. h.limit = g.limit /\ h.held = g.held \cup Grants(g) /\ IsFiniteSet(Grants(g))
  BY SettleFields, GrantsFields
<1>2. CASE Grants(g) = {}
  BY <1>1, <1>2 DEF Within
<1>3. CASE Cardinality(Grants(g)) <= Free(g)
  <2>1. PICK G, H : G = Grants(g) /\ H = g.held
    OBVIOUS
  <2>2. Cardinality(H \cup G) = Cardinality(H) + Cardinality(G) - Cardinality(H \cap G)
    BY <1>1, <2>1, FS_Union
  <2>3. IsFiniteSet(H \cap G)
    BY <1>1, <2>1, FS_Intersection
  <2>4. Cardinality(H) \in Nat /\ Cardinality(G) \in Nat /\ Cardinality(H \cap G) \in Nat
    BY <1>1, <2>1, <2>3, FS_CardinalityType
  <2>5. g.limit \in Nat /\ Cardinality(G) <= g.limit - Cardinality(H)
    BY <1>3, <2>1, GateFields DEF Free
  <2>6. Cardinality(H \cup G) <= g.limit
    BY <2>2, <2>4, <2>5
  <2> QED
    BY <1>1, <2>1, <2>6 DEF Within
<1> QED
  BY <1>2, <1>3, GrantsCount

LEMMA LeaveWithin ==
    ASSUME NEW g \in Gate, IsFiniteSet(g.held), NEW c, NEW h, h = Leave(g, c)
    PROVE  Within(g, h)
<1>1. PICK k, H, P, C : /\ H = g.held \ {c} /\ P = RemoveFirst(g.personal, c)
                        /\ C = RemoveFirst(g.collab, c) /\ k = Queued(g, H, P, C)
  OBVIOUS
<1>2. H \in SUBSET (Personal \cup {"lane"}) /\ IsFiniteSet(H)
  BY <1>1, GateFields, FS_RemoveElement
<1>3. P \in Seq(Personal)
  BY <1>1, GateFields, RemoveFirstType
<1>4. C \in Line
  <2>1. C = IF c = "lane" THEN <<>> ELSE g.collab
    BY <1>1, GateFields, RemoveFirstLane
  <2> QED
    BY <2>1, GateFields, OneLane
<1>5. k \in Gate /\ k.held = H
  BY <1>1, <1>2, <1>3, <1>4, QueuedFields
<1>6. h = Settle(k)
  BY <1>1, Zenon DEF Leave, Queued
<1>7. Within(k, h)
  BY <1>2, <1>5, <1>6, SettleWithin
<1> QED
  BY <1>1, <1>5, <1>7 DEF Within

LEMMA SetLimitWithin ==
    ASSUME NEW g \in Gate, IsFiniteSet(g.held), NEW n \in Limits, NEW h, h = SetLimit(g, n)
    PROVE  Within(g, h)
<1>1. PICK k : k = [g EXCEPT !.limit = n]
  OBVIOUS
<1>2. k \in Gate /\ k.held = g.held
  BY <1>1, Zenon DEF Gate
<1>3. h = Settle(k)
  BY <1>1, Zenon DEF SetLimit
<1>4. Within(k, h)
  BY <1>2, <1>3, SettleWithin
<1> QED
  BY <1>2, <1>4 DEF Within

\* A lane is taken at once only if one is free.
LEMMA TakenWithin ==
    ASSUME NEW g \in Gate, IsFiniteSet(g.held), NEW c \in Personal \cup {"lane"},
           Cardinality(g.held) < g.limit, NEW h, h = RefreshYield(Taken(g, c))
    PROVE  Within(g, h)
<1>1. h.held = g.held \cup {c}
  BY TakenFields
<1>2. h.limit = g.limit
  <2>1. PICK H, k : H = g.held \cup {c} /\ k = Taken(g, c)
    OBVIOUS
  <2>2. H \in SUBSET (Personal \cup {"lane"})
    BY <2>1, GateFields
  <2>3. k \in Gate /\ k.limit = g.limit
    BY <2>1, <2>2, Zenon DEF Gate, Taken
  <2> QED
    BY <2>1, <2>3, RefreshFields
<1>3. Cardinality(g.held \cup {c}) <= Cardinality(g.held) + 1 /\ Cardinality(g.held) \in Nat
  <2>1. Cardinality(g.held) \in Nat
    BY FS_CardinalityType
  <2> QED
    BY <2>1, FS_AddElement
<1>4. IsFiniteSet(g.held \cup {c})
  BY FS_AddElement
<1>5. Cardinality(g.held \cup {c}) \in Nat /\ g.limit \in Nat
  BY <1>4, FS_CardinalityType, GateFields
<1> QED
  BY <1>1, <1>2, <1>3, <1>5 DEF Within

LEMMA AcquireWithin ==
    ASSUME NEW g \in Gate, IsFiniteSet(g.held), NEW h,
           \/ \E p \in Personal : h = AcquirePersonal(g, p)
           \/ g.collab = <<>> /\ h = AcquireCollab(g, "lane")
    PROVE  Within(g, h)
<1>1. ASSUME NEW p \in Personal, h = AcquirePersonal(g, p) PROVE Within(g, h)
  <2>1. \/ Cardinality(g.held) < g.limit /\ h = RefreshYield(Taken(g, p))
        \/ h = RefreshYield(WaitsPersonal(g, p))
    BY <1>1, Zenon DEF AcquirePersonal, Taken, WaitsPersonal
  <2>2. CASE h = RefreshYield(WaitsPersonal(g, p))
    BY <2>2, WaitsFields DEF Within
  <2> QED
    BY <2>1, <2>2, TakenWithin
<1>2. ASSUME g.collab = <<>>, h = AcquireCollab(g, "lane") PROVE Within(g, h)
  <2>1. \/ Cardinality(g.held) < g.limit /\ h = RefreshYield(Taken(g, "lane"))
        \/ h = RefreshYield(WaitsCollab(g, "lane"))
    BY <1>2, Zenon DEF AcquireCollab, Taken, WaitsCollab
  <2>2. CASE h = RefreshYield(WaitsCollab(g, "lane"))
    BY <1>2, <2>2, WaitsLane DEF Within
  <2> QED
    BY <2>1, <2>2, TakenWithin
<1> QED
  BY <1>1, <1>2

\* The handlers of the loop keep the gate or give the lane back.
LEMMA HandlerGate ==
    ASSUME NEW had, NEW S, Becomes(had, S)
    PROVE  gate' = gate \/ gate' = Leave(gate, "lane")
BY Zenon DEF Becomes

Idle == gate' = gate \/ \E c \in Personal \cup {"lane"} : gate' = Leave(gate, c)

LEMMA WorkGate ==
    ASSUME Work
    PROVE  Idle \/ (gate.collab = <<>> /\ gate' = AcquireCollab(gate, "lane"))
<1>1. ASSUME NEW i \in Id, ItemStep(i) PROVE Idle
  <2>1. CASE PrepareEnds(i)
    BY <2>1, Zenon DEF PrepareEnds, quiet, Idle
  <2>2. CASE OnSettled(i)
    BY <2>2, HandlerGate, Zenon DEF OnSettled, Handles, Idle
  <2>3. CASE OnFetchable(i)
    BY <2>3, HandlerGate, Zenon DEF OnFetchable, SendToRun, Handles, Idle
  <2>4. CASE RunTakes(i)
    BY <2>4, Zenon DEF RunTakes, quiet, Idle
  <2>5. CASE ItemEnds(i)
    BY <2>5, Zenon DEF ItemEnds, quiet, Idle
  <2>6. CASE OnDone(i)
    BY <2>6, HandlerGate, Zenon DEF OnDone, Handles, Idle
  <2>7. CASE LandingEnds(i)
    BY <2>7, Zenon DEF LandingEnds, quiet, Idle
  <2> QED
    BY <1>1, <2>1, <2>2, <2>3, <2>4, <2>5, <2>6, <2>7, Zenon DEF ItemStep
<1>2. ASSUME NEW r \in RunId, RunStep(r) PROVE Idle
  <2>1. CASE RunEnds(r)
    BY <2>1, Zenon DEF RunEnds, quiet, Idle
  <2>2. CASE OnRunEnded(r)
    BY <2>2, HandlerGate, Zenon DEF OnRunEnded, Handles, Idle
  <2> QED
    BY <1>2, <2>1, <2>2, Zenon DEF RunStep
<1>3. CASE RequestRuns
  BY <1>3, Zenon DEF RequestRuns
<1>4. CASE LaneGranted
  BY <1>4, HandlerGate, Zenon DEF LaneGranted, Handles, Idle
<1> QED
  BY <1>1, <1>2, <1>3, <1>4, Zenon DEF Work

LEMMA AttentionGate ==
    ASSUME Attention
    PROVE  Idle
<1>1. CASE YieldChanged
  BY <1>1, HandlerGate, Zenon DEF YieldChanged, Idle
<1>2. CASE StorageSeen
  BY <1>2, HandlerGate, Zenon DEF StorageSeen, Handles, Idle
<1>3. CASE \E b \in BOOLEAN : RefreshNeed(b)
  BY <1>3, HandlerGate, Zenon DEF RefreshNeed, Handles, Idle
<1>4. CASE RefreshProviders
  BY <1>4, HandlerGate, Zenon DEF RefreshProviders, Handles, Idle
<1>5. CASE ProjectGone
  BY <1>5, HandlerGate, Zenon DEF ProjectGone, Handles, Idle
<1> QED
  BY <1>1, <1>2, <1>3, <1>4, <1>5, Zenon DEF Attention

LEMMA RecoveryGate ==
    ASSUME Recovery
    PROVE  Idle
<1>1. CASE Tick
  BY <1>1, HandlerGate, Zenon DEF Tick, Handles, Idle
<1>2. CASE GcReleases
  BY <1>2, Zenon DEF GcReleases, Idle
<1>3. CASE DeviceReturns
  BY <1>3, Zenon DEF DeviceReturns, Idle
<1>4. CASE StorageReturns
  BY <1>4, Zenon DEF StorageReturns, Idle
<1>5. CASE \E p \in Personal : PersonalEnds(p)
  BY <1>5, Zenon DEF PersonalEnds, Idle
<1> QED
  BY <1>1, <1>2, <1>3, <1>4, <1>5, Zenon DEF Recovery

LEMMA WorldGate ==
    ASSUME World
    PROVE  \/ Idle
           \/ \E p \in Personal : gate' = AcquirePersonal(gate, p)
           \/ \E n \in Limits : gate' = SetLimit(gate, n)
<1>1. CASE \E p \in Personal : PersonalArrives(p) \/ PersonalAbandons(p)
  BY <1>1, Zenon DEF PersonalArrives, PersonalAbandons, Idle
<1>2. CASE LimitChanges
  BY <1>2, Zenon DEF LimitChanges
<1>3. CASE SetStreams \/ ClearBackoffs \/ ProviderLost
  BY <1>3, HandlerGate, Zenon DEF SetStreams, ClearBackoffs, ProviderLost, Handles, Idle
<1>4. CASE ConnectionIdle \/ DialOk
  BY <1>4, HandlerGate, Zenon DEF ConnectionIdle, DialOk, Handles, Idle
<1>5. CASE NewVersion \/ Excluded \/ ProjectLeft \/ DeviceLeaves \/ StorageGoes
  BY <1>5, Zenon DEF NewVersion, Excluded, ProjectLeft, DeviceLeaves, StorageGoes, Idle
<1>6. CASE Remount
  BY <1>6, Zenon DEF Remount, Idle
<1>7. CASE \E r \in RunId : RunPanics(r)
  BY <1>7, Zenon DEF RunPanics, quiet, Idle
<1> QED
  BY <1>1, <1>2, <1>3, <1>4, <1>5, <1>6, <1>7, Zenon DEF World

LEMMA NextWithin == Inv /\ [Next]_vars => Within(gate, gate')
<1> SUFFICES ASSUME Inv, [Next]_vars PROVE Within(gate, gate')
  OBVIOUS
<1>1. gate \in Gate /\ IsFiniteSet(gate.held)
  BY DEF Inv, Held, Admitted
<1>2. CASE Idle
  <2>1. CASE gate' = gate
    BY <2>1 DEF Within
  <2>2. ASSUME NEW c, gate' = Leave(gate, c) PROVE Within(gate, gate')
    BY <1>1, <2>2, LeaveWithin
  <2> QED
    BY <1>2, <2>1, <2>2 DEF Idle
<1>3. CASE UNCHANGED vars
  BY <1>3, <1>2, Zenon DEF vars, Idle
<1>4. CASE \E n \in Limits : gate' = SetLimit(gate, n)
  BY <1>1, <1>4, SetLimitWithin
<1>5. CASE \/ \E p \in Personal : gate' = AcquirePersonal(gate, p)
           \/ gate.collab = <<>> /\ gate' = AcquireCollab(gate, "lane")
  BY <1>1, <1>5, AcquireWithin
<1> QED
  BY <1>2, <1>3, <1>4, <1>5, WorkGate, AttentionGate, RecoveryGate, WorldGate, Zenon DEF Next

\* The gate admits nobody beyond the limit in force, for any limits, any
\* number of personal transfers and any order of requests, grants, yields,
\* abandoned waits and new limits, also one below the lanes in use.
THEOREM LimitIsKept == Spec => GrantsWithinLimit
<1>1. Inv /\ [Next]_vars =>
        [gate'.held \subseteq gate.held \/ Cardinality(gate'.held) <= gate'.limit]_vars
  BY NextWithin DEF Within
<1> QED
  BY <1>1, InvHolds, PTL DEF Spec, GrantsWithinLimit
=============================================================================
