---------------------------- MODULE SyncTransfer ----------------------------
(***************************************************************************)
(* One batch on its way from a sending device to a receiving device        *)
(* (crates/athenaeum-core/src/sync: engine.rs sends, receiver.rs and       *)
(* ingest.rs receive, store.rs keeps both sides' rows; the user's          *)
(* commands are in api/sync.rs).                                           *)
(*                                                                         *)
(* The sender keeps a durable row (out) and, while the engine drives it,   *)
(* an in-memory slot.  It negotiates which frames the peer lacks,          *)
(* announces them under a wire id and retries for ever until an ack        *)
(* closes the row.  The receiver keeps a durable row per batch, a durable  *)
(* log of per-frame receipts per wire id, and handles one peer's messages  *)
(* one after the other in a lane.  Messages are lost and reordered; both   *)
(* processes may be killed between any two steps; both users interfere.    *)
(*                                                                         *)
(* Times are left out: a retry may come whenever a slot exists.  When it   *)
(* comes is the subject of module SendQueue.                               *)
(***************************************************************************)
EXTENDS Naturals, FiniteSets, Sequences

CONSTANTS
    Frame,      \* the frames of the batch
    MaxWire,    \* how many wire ids may be minted: one, and one per resend
    MaxLane,    \* bound on the messages waiting in the receiver's lane
    Possible,   \* the faults and user commands that may happen, each once
    MaxEvents   \* how many of them may happen in one behaviour

Kind == {"corrupt", "lose", "fail", "senderRestart", "receiverRestart",
         "cancel", "resend", "decline", "delete", "remove", "vanish"}

ASSUME FrameAssumption == Frame # {} /\ IsFiniteSet(Frame)
ASSUME WireAssumption == MaxWire \in Nat \ {0}
ASSUME PossibleAssumption == Possible \subseteq Kind /\ MaxEvents \in Nat

VARIABLES
    out,        \* the sender's sync_outbound row
    slot,       \* the engine's pending slot of that row
    payload,    \* the package directory: payload files, manifest only, or gone
    tail,       \* the detached protect, clean up, release task is running
    toR, toS,   \* messages in flight to the receiver and to the sender
    lane,       \* messages queued in the receiver's lane of this peer
    job,        \* the announce the lane is handling
    row,        \* the receiver's sync_inbound row
    receipts,   \* the receiver's sync_receipts, per wire id
    held,       \* frames in the receiver's catalog
    stored,     \* frames that were ever in the receiver's catalog
    cancels, aborts,    \* InboundControl's two sets of wire ids
    decl,       \* a cancel_incoming_package call
    spent       \* the faults and commands that have happened

senderVars == <<out, slot, payload, tail>>
catalogVars == <<held, stored>>
laneVars == <<lane, job, cancels, aborts>>
receiverVars == <<laneVars, row, receipts, catalogVars, decl>>
vars == <<senderVars, toR, toS, receiverVars, spent>>

-----------------------------------------------------------------------------
Wire == 1 .. MaxWire
OutState == {"queued", "transferring", "confirmed", "failed", "cancelled"}
RowState == {"announced", "fetching", "waiting", "ingesting",
             "done", "failed", "cancelled"}
Outcome == {"ingested", "duplicate", "rejected", "cancelled"}
Receipts == [Frame -> Outcome \cup {"none"}]
NoReceipts == [f \in Frame |-> "none"]

Announce(w, fs) == [type |-> "announce", wire |-> w, frames |-> fs]
Revoke(w, why) == [type |-> "revoke", wire |-> w, reason |-> why]
Reason == {"cancelled", "failed", "superseded"}
Message == [type : {"announce"}, wire : Wire, frames : SUBSET Frame]
             \cup [type : {"revoke"}, wire : Wire, reason : Reason]
Ack == [wire : Wire, receipts : Receipts]

NoSlot == [phase |-> "none", want |-> {}, started |-> FALSE]
NoJob == [pc |-> "idle", wire |-> 1, frames |-> {}, bad |-> {}, todo |-> {},
          final |-> FALSE]
NoRow == [state |-> "none", wire |-> 1, count |-> 0, declined |-> FALSE]
NoDecline == [pc |-> "off", wire |-> 1, seen |-> "none"]

\* The batch is still to be delivered (OutboundState::is_terminal negated).
Open == out.state \in {"queued", "transferring"}
TerminalRow(s) == s \in {"done", "failed", "cancelled"}

Spend(k) ==
    /\ k \in Possible \ spent /\ Cardinality(spent) < MaxEvents
    /\ spent' = spent \cup {k}

Init ==
    /\ out = [state |-> "queued", wire |-> 0, byPeer |-> FALSE]
    /\ slot = NoSlot /\ payload = "full" /\ tail = FALSE
    /\ toR = {} /\ toS = {}
    /\ lane = <<>> /\ job = NoJob /\ cancels = {} /\ aborts = {}
    /\ row = NoRow /\ receipts = [w \in Wire |-> NoReceipts]
    /\ held \in SUBSET Frame /\ stored = held
    /\ decl = NoDecline /\ spent = {}

-----------------------------------------------------------------------------
(***************************************************************************)
(* The sending side.  The engine is one task: while an attempt is under    *)
(* way (phase "negotiated") it handles no ack and no command.              *)
(***************************************************************************)
Covered(r) == {f \in Frame : r[f] # "none"}
AllCancelled(r) == Covered(r) # {} /\ \A f \in Covered(r) : r[f] = "cancelled"

WorkerFree == slot.phase # "negotiated"

\* A row that is not terminal gets a slot: enqueue, resend, or a restart.
Drive ==
    /\ Open /\ slot.phase = "none"
    /\ slot' = [phase |-> "new", want |-> {}, started |-> out.state = "transferring"]
    /\ UNCHANGED <<out, payload, tail, toR, toS, receiverVars, spent>>

ConfirmDuplicate(w) ==
    /\ out' = [state |-> "confirmed", wire |-> w, byPeer |-> FALSE]
    /\ slot' = NoSlot
    /\ payload' \in {payload, "manifest"}
    /\ toR' = IF slot.started THEN toR \cup {Revoke(w, "superseded")} ELSE toR

\* The first attempt of a slot asks the peer which frames it lacks.  Without
\* an answer every frame is sent; with nothing lacking the batch is confirmed.
Negotiate ==
    LET w == IF out.wire = 0 THEN 1 ELSE out.wire
    IN  /\ slot.phase = "new" /\ payload # "gone"
        /\ \/ \E lacking \in {Frame \ held, Frame} \ {{}} :
                 /\ slot' = [slot EXCEPT !.phase = "negotiated", !.want = lacking]
                 /\ out' = [out EXCEPT !.wire = w]
                 /\ UNCHANGED <<payload, toR>>
           \/ Frame \subseteq held /\ ConfirmDuplicate(w)
        /\ UNCHANGED <<tail, toS, receiverVars, spent>>

\* Serve and announce: the first time, and again at every retry.
AnnounceSent ==
    /\ \/ slot.phase = "negotiated"
       \/ slot.phase = "announced" /\ payload # "gone"
    /\ toR' = toR \cup {Announce(out.wire, slot.want)}
    /\ slot' = [slot EXCEPT !.phase = "announced", !.started = TRUE]
    /\ out' = [out EXCEPT !.state = "transferring"]
    /\ UNCHANGED <<payload, tail, toS, receiverVars, spent>>

\* The announce fails, which does not say that it did not arrive.
AnnounceFailed ==
    /\ \/ slot.phase = "negotiated"
       \/ slot.phase = "announced" /\ payload # "gone"
    /\ Spend("fail")
    /\ toR' \in {toR, toR \cup {Announce(out.wire, slot.want)}}
    /\ slot' = [slot EXCEPT !.phase = "announced"]
    /\ UNCHANGED <<out, payload, tail, toS, receiverVars>>

\* An attempt that finds the package directory gone is the only one that fails.
FailPackage ==
    /\ slot.phase \in {"new", "announced"} /\ payload = "gone"
    /\ out' = [out EXCEPT !.state = "failed"]
    /\ slot' = NoSlot
    /\ toR' = IF slot.phase = "announced" /\ slot.started
                 THEN toR \cup {Revoke(out.wire, "failed")} ELSE toR
    /\ UNCHANGED <<payload, tail, toS, receiverVars, spent>>

\* Mutant: a rejection counts as an answer.
Complete_Rejected(ack) == payload # "gone" /\ slot.want \subseteq Covered(ack.receipts)

\* Every frame that was sent has a receipt, and none of them a rejection.
Complete(ack) ==
    /\ payload # "gone"
    /\ \A f \in Frame : ack.receipts[f] # "rejected"
    /\ slot.want \subseteq Covered(ack.receipts)

OnAck(ack) ==
    LET live == slot.phase = "announced" /\ ack.wire = out.wire
        declined == AllCancelled(ack.receipts)
    IN  /\ WorkerFree
        /\ toS' = toS \ {ack}
        /\ \/ /\ ~live \/ ~(declined \/ Complete(ack))
              /\ UNCHANGED senderVars
           \/ /\ live /\ declined
              /\ out' = [out EXCEPT !.state = "cancelled", !.byPeer = TRUE]
              /\ slot' = NoSlot
              /\ UNCHANGED <<payload, tail>>
           \/ /\ live /\ ~declined /\ Complete(ack)
              /\ out' = [out EXCEPT !.state = "confirmed"]
              /\ slot' = NoSlot /\ tail' = TRUE
              /\ UNCHANGED payload
        /\ UNCHANGED <<toR, receiverVars, spent>>

\* Protection of shared blobs may fail; then the payload stays.
CleanUp ==
    /\ tail /\ tail' = FALSE
    /\ payload' \in {payload, IF payload = "full" THEN "manifest" ELSE payload}
    /\ UNCHANGED <<out, slot, toR, toS, receiverVars, spent>>

CancelPackage ==
    /\ WorkerFree /\ Open /\ Spend("cancel")
    /\ out' = [out EXCEPT !.state = "cancelled"]
    /\ slot' = NoSlot
    /\ toR' = IF slot.phase = "announced" /\ slot.started
                 THEN toR \cup {Revoke(out.wire, "cancelled")} ELSE toR
    /\ UNCHANGED <<payload, tail, toS, receiverVars>>

\* A batch the receiver declined is resent as a new batch, never as this one.
ResendTransfer ==
    /\ out.state \in {"failed", "cancelled"} /\ ~out.byPeer
    /\ payload = "full" /\ out.wire < MaxWire /\ Spend("resend")
    /\ out' = [state |-> "queued", wire |-> out.wire + 1, byPeer |-> FALSE]
    /\ UNCHANGED <<slot, payload, tail, toR, toS, receiverVars>>

\* A new process cleans what the old one confirmed and did not clean.
SenderRestart ==
    /\ Spend("senderRestart")
    /\ slot' = NoSlot /\ tail' = FALSE
    /\ payload' = IF out.state = "confirmed" /\ payload = "full"
                     THEN "manifest" ELSE payload
    /\ UNCHANGED <<out, toR, toS, receiverVars>>

\* Somebody removes the package directory.
Vanish ==
    /\ payload # "gone" /\ Spend("vanish")
    /\ payload' = "gone"
    /\ UNCHANGED <<out, slot, tail, toR, toS, receiverVars>>

Sender ==
    \/ Drive \/ Negotiate \/ AnnounceSent \/ AnnounceFailed \/ FailPackage
    \/ \E ack \in toS : OnAck(ack)
    \/ CleanUp \/ CancelPackage \/ ResendTransfer \/ SenderRestart \/ Vanish

-----------------------------------------------------------------------------
(***************************************************************************)
(* The network.  The ingress pump notes a revoke as soon as it arrives and *)
(* queues it behind the announce that is being handled.                    *)
(***************************************************************************)
\* Mutant: the pump treats a revoke as a decline.
Arrive_AsDecline(m) ==
    /\ Len(lane) < MaxLane
    /\ toR' = toR \ {m}
    /\ lane' = Append(lane, m)
    /\ cancels' = IF m.type = "revoke" THEN cancels \cup {m.wire} ELSE cancels
    /\ UNCHANGED <<senderVars, toS, job, aborts, row, receipts, catalogVars, decl, spent>>

Arrive(m) ==
    /\ Len(lane) < MaxLane
    /\ toR' = toR \ {m}
    /\ lane' = Append(lane, m)
    /\ aborts' = IF m.type = "revoke" THEN aborts \cup {m.wire} ELSE aborts
    /\ UNCHANGED <<senderVars, toS, job, cancels, row, receipts, catalogVars, decl, spent>>

Lose ==
    /\ Spend("lose")
    /\ \/ \E m \in toR : toR' = toR \ {m} /\ UNCHANGED toS
       \/ \E a \in toS : toS' = toS \ {a} /\ UNCHANGED toR
    /\ UNCHANGED <<senderVars, receiverVars>>

Network == (\E m \in toR : Arrive(m)) \/ Lose

-----------------------------------------------------------------------------
(***************************************************************************)
(* The receiving side: handle_announce and what it calls.                  *)
(***************************************************************************)
\* UPDATE sync_inbound ... WHERE package_id = w
SetState(r, w, s) == IF r.state # "none" /\ r.wire = w THEN [r EXCEPT !.state = s] ELSE r

\* Mutant: every receipt counts.
Satisfied_All(r) == Cardinality(Covered(r))

\* count_satisfied_receipts: everything that is not a rejection counts.
Satisfied(r) == Cardinality({f \in Covered(r) : r[f] # "rejected"})

\* upsert_inbound_attempt: one row per batch, which a decline freezes.
UpsertAttempt(w, n) ==
    IF row.state = "none"
      THEN [state |-> "announced", wire |-> w, count |-> n, declined |-> FALSE]
      ELSE IF row.declined THEN row
      ELSE [row EXCEPT !.state = "announced", !.wire = w, !.count = n]

\* mark_inbound_declined_with_anchor, when there still is a row.
MarkDeclined(w) ==
    IF row.state = "none" THEN row ELSE [row EXCEPT !.declined = TRUE, !.wire = w]

\* What handle_announce remembers of the row is `final`: it was declined.
StartJob(pc, m) == job' = [pc |-> pc, wire |-> m.wire, frames |-> m.frames,
                           bad |-> {}, todo |-> m.frames, final |-> row.declined]

\* An attempt whose log is complete is answered from it and leaves the row
\* alone; any other one is recorded in the row.
HandleAnnounce(m) ==
    LET n == Cardinality(m.frames)
        known == row.state # "none" /\ row.wire = m.wire /\ Satisfied(receipts[m.wire]) = n
    IN  /\ StartJob(IF known THEN "replay" ELSE "seed", m)
        /\ row' = IF known THEN row ELSE UpsertAttempt(m.wire, n)
        /\ UNCHANGED <<receipts, toS>>

\* Mutant: the reason is stored as the state.
RevokedState_Raw(why) == why

RevokedState(why) ==
    CASE why = "cancelled" -> "cancelled" [] why = "failed" -> "failed"
      [] why = "superseded" -> "done"

\* Mutant: the early return for a finished row comes before the clearing.
HandleRevoke_ClearLate(m) ==
    /\ IF TerminalRow(row.state) THEN UNCHANGED <<aborts, row>>
         ELSE /\ aborts' = aborts \ {m.wire}
              /\ row' = SetState(row, m.wire, RevokedState(m.reason))
    /\ UNCHANGED <<job, receipts, toS>>

HandleRevoke(m) ==
    /\ aborts' = aborts \ {m.wire}
    /\ row' = IF TerminalRow(row.state) THEN row
                 ELSE SetState(row, m.wire, RevokedState(m.reason))
    /\ UNCHANGED <<job, receipts, toS>>

TakeNext ==
    /\ job.pc = "idle" /\ lane # <<>>
    /\ lane' = Tail(lane)
    /\ IF Head(lane).type = "announce"
         THEN HandleAnnounce(Head(lane)) /\ UNCHANGED aborts
         ELSE HandleRevoke(Head(lane))
    /\ UNCHANGED <<senderVars, toR, cancels, catalogVars, decl, spent>>

\* A resend of a declined batch inherits the cancelled receipts.
Seeded ==
    /\ job.final /\ row.state # "none" /\ row.wire # job.wire
    /\ AllCancelled(receipts[row.wire])

SeedReceipts ==
    LET w == job.wire
        log == IF Seeded
                 THEN [f \in Frame |-> IF receipts[row.wire][f] # "none"
                                         THEN receipts[row.wire][f] ELSE receipts[w][f]]
                 ELSE receipts[w]
        answered == Satisfied(log) = Cardinality(job.frames)
        refused == job.final \/ w \in cancels
    IN  /\ job.pc = "seed"
        /\ receipts' = [receipts EXCEPT ![w] = log]
        /\ \/ /\ answered /\ job' = [job EXCEPT !.pc = "replay"]
              /\ row' = IF Seeded THEN [row EXCEPT !.wire = w] ELSE row
           \/ /\ ~answered /\ refused /\ job' = [job EXCEPT !.pc = "epilogue"]
              /\ row' = MarkDeclined(w)
           \/ /\ ~answered /\ ~refused /\ job' = [job EXCEPT !.pc = "gate"]
              /\ UNCHANGED row
        /\ UNCHANGED <<senderVars, toR, toS, lane, cancels, aborts, catalogVars, decl, spent>>

\* replay_ack_from_log: the answer of the log, with no fetch.
Replay ==
    LET log == receipts[job.wire]
    IN  /\ job.pc = "replay"
        /\ toS' = toS \cup {[wire |-> job.wire, receipts |-> log]}
        /\ row' = IF AllCancelled(log)
                     THEN [SetState(row, job.wire, "cancelled") EXCEPT
                             !.declined = row.state # "none"]
                     ELSE IF job.final THEN row ELSE SetState(row, job.wire, "done")
        /\ job' = NoJob
        /\ UNCHANGED <<senderVars, toR, lane, cancels, aborts, receipts,
                       catalogVars, decl, spent>>

\* The lane waits for a receive permit and leaves when nobody wants the batch.
Unwanted ==
    \/ job.wire \in aborts \/ job.wire \in cancels
    \/ row.wire = job.wire /\ TerminalRow(row.state)

GateStep ==
    /\ job.pc = "gate"
    /\ job' = IF Unwanted THEN NoJob ELSE [job EXCEPT !.pc = "admitted"]
    /\ UNCHANGED <<senderVars, toR, toS, lane, cancels, aborts, row, receipts,
                   catalogVars, decl, spent>>

StartFetch ==
    /\ job.pc = "admitted"
    /\ job' = [job EXCEPT !.pc = "fetch"]
    /\ row' = SetState(row, job.wire, "fetching")
    /\ UNCHANGED <<senderVars, toR, toS, lane, cancels, aborts, receipts,
                   catalogVars, decl, spent>>

\* The fetch is dropped: for a revoke the lane handles next, or for a decline.
AbortFetch ==
    /\ job.pc = "fetch"
    /\ \/ /\ job.wire \in aborts
          /\ job' = NoJob /\ UNCHANGED row
       \/ /\ job.wire \in cancels \ aborts
          /\ job' = [job EXCEPT !.pc = "epilogue"]
          /\ row' = MarkDeclined(job.wire)
    /\ UNCHANGED <<senderVars, toR, toS, lane, cancels, aborts, receipts,
                   catalogVars, decl, spent>>

\* The payload arrives whole or with frames that will not verify.
FetchDone(bad) ==
    /\ job.pc = "fetch" /\ bad \subseteq job.frames
    /\ IF bad = {} THEN UNCHANGED spent ELSE Spend("corrupt")
    /\ job' = [job EXCEPT !.pc = "ingest", !.bad = bad]
    /\ row' = SetState(row, job.wire, "ingesting")
    /\ UNCHANGED <<senderVars, toR, toS, lane, cancels, aborts, receipts,
                   catalogVars, decl>>

\* The sender still serves what this announce named.
Served == slot.phase = "announced" /\ out.wire = job.wire
Unlucky == IF Served THEN Spend("fail") ELSE UNCHANGED spent

\* Mutant: the error returns before the row is stamped.
FetchFails_Unstamped ==
    /\ job.pc = "fetch" /\ Unlucky
    /\ job' = NoJob
    /\ UNCHANGED <<senderVars, toR, toS, lane, cancels, aborts, row, receipts,
                   catalogVars, decl>>

\* A peer that went away leaves the row waiting, a fault of our own closes it.
FetchFails ==
    /\ job.pc = "fetch" /\ Unlucky
    /\ \E s \in {"waiting", "failed"} : row' = SetState(row, job.wire, s)
    /\ job' = NoJob
    /\ UNCHANGED <<senderVars, toR, toS, lane, cancels, aborts, receipts,
                   catalogVars, decl>>

\* One frame, one transaction: receipt and catalog row together.
IngestFrame(f) ==
    LET prior == receipts[job.wire][f]
        kept == prior \notin {"none", "rejected"}
        verdict == CASE kept -> prior
                     [] ~kept /\ f \in job.bad -> "rejected"
                     [] ~kept /\ f \in held \ job.bad -> "duplicate"
                     [] OTHER -> "ingested"
        new == IF verdict = "ingested" /\ ~kept THEN {f} ELSE {}
    IN  /\ job.pc = "ingest" /\ f \in job.todo
        /\ receipts' = [receipts EXCEPT ![job.wire][f] = verdict]
        /\ held' = held \cup new /\ stored' = stored \cup new
        /\ job' = [job EXCEPT !.todo = @ \ {f}]
        /\ UNCHANGED <<senderVars, toR, toS, lane, cancels, aborts, row, decl, spent>>

IngestFails ==
    /\ job.pc = "ingest" /\ Spend("fail")
    /\ row' = SetState(row, job.wire, "failed")
    /\ job' = NoJob
    /\ UNCHANGED <<senderVars, toR, toS, lane, cancels, aborts, receipts,
                   catalogVars, decl>>

Verdicts == [f \in Frame |-> IF f \in job.frames THEN receipts[job.wire][f] ELSE "none"]
Ending ==
    LET given == {receipts[job.wire][f] : f \in job.frames}
    IN  IF "rejected" \in given /\ given \cap {"ingested", "duplicate"} = {}
          THEN "failed" ELSE "done"

AckSent ==
    /\ job.pc = "ingest" /\ job.todo = {}
    /\ toS' = toS \cup {[wire |-> job.wire, receipts |-> Verdicts]}
    /\ row' = SetState(row, job.wire, Ending)
    /\ job' = NoJob
    /\ UNCHANGED <<senderVars, toR, lane, cancels, aborts, receipts,
                   catalogVars, decl, spent>>

AckFails ==
    /\ job.pc = "ingest" /\ job.todo = {} /\ Spend("fail")
    /\ toS' \in {toS, toS \cup {[wire |-> job.wire, receipts |-> Verdicts]}}
    /\ row' = SetState(row, job.wire, "failed")
    /\ job' = NoJob
    /\ UNCHANGED <<senderVars, toR, lane, cancels, aborts, receipts,
                   catalogVars, decl>>

\* cancel_epilogue: every announced frame gets a cancelled receipt.
Refused(fs) == [f \in Frame |-> IF f \in fs THEN "cancelled" ELSE receipts[job.wire][f]]

EpilogueDone ==
    /\ job.pc = "epilogue"
    /\ receipts' = [receipts EXCEPT ![job.wire] = Refused(job.frames)]
    /\ toS' = toS \cup {[wire |-> job.wire,
                          receipts |-> [f \in Frame |->
                              IF f \in job.frames THEN "cancelled" ELSE "none"]]}
    /\ row' = SetState(row, job.wire, "cancelled")
    /\ job' = NoJob
    /\ UNCHANGED <<senderVars, toR, lane, cancels, aborts, catalogVars, decl, spent>>

\* Its manifest cannot be fetched: the error leaves the row as it is.
EpilogueFails ==
    /\ job.pc = "epilogue" /\ Unlucky
    /\ job' = NoJob
    /\ UNCHANGED <<senderVars, toR, toS, lane, cancels, aborts, row, receipts,
                   catalogVars, decl>>

LaneStep ==
    \/ TakeNext \/ SeedReceipts \/ Replay \/ GateStep \/ StartFetch \/ AbortFetch
    \/ \E bad \in SUBSET Frame : FetchDone(bad)
    \/ FetchFails
    \/ \E f \in Frame : IngestFrame(f)
    \/ IngestFails \/ AckSent \/ AckFails \/ EpilogueDone \/ EpilogueFails

-----------------------------------------------------------------------------
(***************************************************************************)
(* The receiver's user and restarts.  cancel_incoming_package reads the    *)
(* row, marks it, signals the lane and stamps the row in four steps that   *)
(* take the store's lock one by one.                                       *)
(***************************************************************************)
DeclineRead ==
    /\ decl.pc = "off" /\ row.state \notin {"none", "ingesting"} /\ Spend("decline")
    /\ decl' = [pc |-> "mark", wire |-> row.wire, seen |-> row.state]
    /\ UNCHANGED <<senderVars, toR, toS, laneVars, row, receipts, catalogVars>>

DeclineMark ==
    /\ decl.pc = "mark"
    /\ row' = IF row.state \in {"none", "ingesting", "done"} THEN row
                ELSE [row EXCEPT !.declined = TRUE]
    /\ decl' = IF TerminalRow(decl.seen) THEN NoDecline ELSE [decl EXCEPT !.pc = "signal"]
    /\ UNCHANGED <<senderVars, toR, toS, laneVars, receipts, catalogVars, spent>>

DeclineSignal ==
    /\ decl.pc = "signal"
    /\ cancels' = cancels \cup {decl.wire}
    /\ decl' = [decl EXCEPT !.pc = "stamp"]
    /\ UNCHANGED <<senderVars, toR, toS, lane, job, aborts, row, receipts,
                   catalogVars, spent>>

DeclineStamp ==
    /\ decl.pc = "stamp"
    /\ row' = IF decl.seen \in {"announced", "waiting"}
                THEN SetState(row, decl.wire, "cancelled") ELSE row
    /\ decl' = NoDecline
    /\ UNCHANGED <<senderVars, toR, toS, laneVars, receipts, catalogVars, spent>>

\* delete_transfer_history removes a finished row; the receipts stay.
DeleteRecord ==
    /\ TerminalRow(row.state) /\ Spend("delete")
    /\ row' = NoRow
    /\ UNCHANGED <<senderVars, toR, toS, laneVars, receipts, catalogVars, decl>>

\* The user deletes a frame from the receiver's catalog.
RemoveFrame(f) ==
    /\ f \in held /\ Spend("remove")
    /\ held' = held \ {f}
    /\ UNCHANGED <<senderVars, toR, toS, laneVars, row, receipts, stored, decl>>

\* reconcile_stale_inbound, with whatever receipts the killed lane had written
ReconcileRow(log) ==
    IF row.state = "none" \/ TerminalRow(row.state) \/ row.state = "waiting" THEN row
    ELSE IF row.count > 0 /\ Satisfied(log[row.wire]) = row.count
      THEN IF AllCancelled(log[row.wire])
             THEN [row EXCEPT !.state = "cancelled", !.declined = TRUE]
             ELSE [row EXCEPT !.state = "done"]
      ELSE [row EXCEPT !.state = "waiting"]

\* The cancelled receipts the lane is writing, one by one.
BeingRefused ==
    CASE job.pc = "epilogue" -> job.frames
      [] job.pc = "seed" /\ Seeded -> Covered(receipts[row.wire])
      [] OTHER -> {}

ReceiverRestart ==
    /\ Spend("receiverRestart")
    /\ lane' = <<>> /\ job' = NoJob /\ cancels' = {} /\ aborts' = {}
    /\ decl' = NoDecline
    /\ \E part \in SUBSET BeingRefused :
         /\ receipts' = [receipts EXCEPT ![job.wire] = Refused(part)]
    /\ row' = ReconcileRow(receipts')
    /\ UNCHANGED <<senderVars, toR, toS, catalogVars>>

ReceiverUser ==
    \/ DeclineRead \/ DeclineMark \/ DeclineSignal \/ DeclineStamp
    \/ DeleteRecord \/ ReceiverRestart
    \/ \E f \in Frame : RemoveFrame(f)

-----------------------------------------------------------------------------
Next == Sender \/ Network \/ LaneStep \/ ReceiverUser

TypeOK ==
    /\ out \in [state : OutState, wire : 0 .. MaxWire, byPeer : BOOLEAN]
    /\ slot \in [phase : {"none", "new", "negotiated", "announced"},
                  want : SUBSET Frame, started : BOOLEAN]
    /\ payload \in {"full", "manifest", "gone"} /\ tail \in BOOLEAN
    /\ toR \subseteq Message /\ toS \subseteq Ack
    /\ lane \in Seq(Message)
    /\ job \in [pc : {"idle", "seed", "replay", "gate", "admitted", "fetch", "ingest",
                        "epilogue"},
                 wire : Wire, frames : SUBSET Frame, bad : SUBSET Frame,
                 todo : SUBSET Frame, final : BOOLEAN]
    /\ row \in [state : RowState \cup {"none"}, wire : Wire, count : Nat,
                 declined : BOOLEAN]
    /\ receipts \in [Wire -> Receipts]
    /\ held \subseteq stored /\ stored \subseteq Frame
    /\ cancels \subseteq Wire /\ aborts \subseteq Wire
    /\ decl \in [pc : {"off", "mark", "signal", "stamp"}, wire : Wire,
                  seen : RowState \cup {"none"}]
    /\ spent \subseteq Possible

-----------------------------------------------------------------------------
(***************************************************************************)
(* Fairness: the engine's loop, the lane and a user's command that has     *)
(* begun go on, and the network delivers.  Faults and commands are never   *)
(* owed.                                                                   *)
(***************************************************************************)
Fairness ==
    /\ WF_vars(Drive) /\ WF_vars(Negotiate) /\ WF_vars(AnnounceSent)
    /\ WF_vars(FailPackage) /\ WF_vars(CleanUp)
    /\ WF_vars(\E ack \in toS : OnAck(ack))
    /\ WF_vars(\E m \in toR : Arrive(m))
    /\ WF_vars(LaneStep)
    /\ WF_vars(DeclineMark) /\ WF_vars(DeclineSignal) /\ WF_vars(DeclineStamp)

Spec == Init /\ [][Next]_vars /\ Fairness

\* The batch as the sending user sees it.
Status ==
    CASE Open -> "open" [] out.state = "confirmed" -> "delivered" [] OTHER -> "closed"

Abstract == INSTANCE Delivery WITH status <- Status, arrived <- stored

-----------------------------------------------------------------------------
\* The protocol implements Delivery: through lost and reordered messages,
\* restarts of both devices, rejected frames and replayed acks, on_ack never
\* confirms a batch of which the peer did not store every frame, and the
\* payload is given up only after that.
Delivers == Abstract!Spec

\* A decline the user never asked for: a sender's revoke, a restart or a
\* replayed ack never leaves the inbound row declined, which would refuse
\* every later resend of the batch.
NoPhantomDecline == row.declined => "decline" \in spent

\* A fetch is only told to abort while the revoke that asks for it waits in
\* the lane; an entry that stayed behind would break every later fetch of
\* that wire id with no terminal state written.
AbortsAreQueued ==
    \A w \in aborts : \E i \in 1 .. Len(lane) :
        lane[i].type = "revoke" /\ lane[i].wire = w

\* The receipts kept under the current wire id are of announced frames only.
LogFits == slot.phase = "announced" => Covered(receipts[out.wire]) \subseteq slot.want

\* Every batch is closed in the end: a frame the peer rejected is delivered
\* again, since a log with a rejection is never replayed (the replay guards of
\* handle_announce), and the sender announces until every frame is accepted.
Closes == Open ~> ~Open

\* Every batch is closed in the end, delivered or not, as long as the log the
\* replay guard counts in holds no receipt of a frame that an earlier
\* negotiation under the same wire id had announced.
ClosesIfLogFits == []LogFits => Closes

\* No inbound row that nobody declined stays in progress for ever, whether
\* its sender comes back or not.
InProgress == row.state \in {"announced", "fetching", "ingesting"}
RowsSettle ==
    (InProgress /\ "decline" \notin spent) ~> (~InProgress \/ "decline" \in spent)
=============================================================================
