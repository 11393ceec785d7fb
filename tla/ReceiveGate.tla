----------------------------- MODULE ReceiveGate ----------------------------
(***************************************************************************)
(* The two-class admission gate of the receiving side                      *)
(* (crates/athenaeum-core/src/sync/receiver.rs), as functions of its       *)
(* state: at most `limit` receives hold a lane at once, a personal         *)
(* transfer goes before a collab unit, each class is first come first      *)
(* served, and a flag asks the collab side to give its lane back.          *)
(*                                                                         *)
(* Everything happens under one lock.  A lane is reserved for a waiter     *)
(* under it and handed over outside; `held` counts it from the reservation *)
(* on, as the code's `in_use` does.                                        *)
(***************************************************************************)
EXTENDS Integers, FiniteSets, SequencesExt

\* held: the clients with a lane; personal, collab: the two queues; yield:
\* the flag as published.
NewGate(n) == [limit |-> n, held |-> {}, personal |-> <<>>, collab |-> <<>>,
               yield |-> FALSE]

WantsYield(g) == g.personal # <<>> /\ Cardinality(g.held) >= g.limit

RefreshYield(g) == [g EXCEPT !.yield = WantsYield(g)]

Free(g) == g.limit - Cardinality(g.held)

\* collect_grants: the free lanes go to the front of the two queues.
Grants(g) ==
    LET line == g.personal \o g.collab
    IN  {line[i] : i \in {k \in DOMAIN line : k <= Free(g)}}

\* The queue after its first n waiters were served.
Behind(queue, n) == IF n > 0 THEN SubSeq(queue, n + 1, Len(queue)) ELSE queue

\* What follows every change, still under the lock.
Settle(g) ==
    RefreshYield([g EXCEPT !.held = @ \cup Grants(g),
                           !.personal = Behind(@, Free(g)),
                           !.collab = Behind(@, Free(g) - Len(g.personal))])

Waiting(g, c) == \E i \in DOMAIN g.personal : g.personal[i] = c

\* acquire and acquire_collab: no barging past an earlier waiter.
AcquirePersonal(g, c) ==
    IF Cardinality(g.held) < g.limit /\ g.personal = <<>>
      THEN RefreshYield([g EXCEPT !.held = @ \cup {c}])
      ELSE RefreshYield([g EXCEPT !.personal = Append(@, c)])

AcquireCollab(g, c) ==
    IF Cardinality(g.held) < g.limit /\ g.personal = <<>> /\ g.collab = <<>>
      THEN RefreshYield([g EXCEPT !.held = @ \cup {c}])
      ELSE RefreshYield([g EXCEPT !.collab = Append(@, c)])

\* A permit is dropped, or a wait is given up.
Leave(g, c) ==
    Settle([g EXCEPT !.held = @ \ {c}, !.personal = RemoveFirst(@, c),
                     !.collab = RemoveFirst(@, c)])

SetLimit(g, n) == Settle([g EXCEPT !.limit = n])
=============================================================================
