------------------------- MODULE SyncTransferProofs -------------------------
(***************************************************************************)
(* Proofs about SyncTransfer, for any batch, any bounds and any faults.    *)
(***************************************************************************)
EXTENDS SyncTransfer, FiniteSetTheorems, SequenceTheorems, TLAPS

OutRec == [state : OutState, wire : 0 .. MaxWire, byPeer : BOOLEAN]
SlotRec == [phase : {"none", "new", "negotiated", "announced"},
            want : SUBSET Frame, started : BOOLEAN]
JobPc == {"idle", "seed", "replay", "gate", "admitted", "fetch", "ingest", "epilogue"}
JobRec == [pc : JobPc, wire : Wire, frames : SUBSET Frame, bad : SUBSET Frame,
           todo : SUBSET Frame, final : BOOLEAN]
RowRec == [state : RowState \cup {"none"}, wire : Wire, count : Nat, declined : BOOLEAN]
DeclRec == [pc : {"off", "mark", "signal", "stamp"}, wire : Wire,
            seen : RowState \cup {"none"}]

\* An attempt that has negotiated has a wire id.
WireInv == slot.phase \in {"negotiated", "announced"} => out.wire \in Wire

-----------------------------------------------------------------------------
\* The parts of the state that stand for nothing have their types.
LEMMA NothingType ==
    /\ 1 \in Wire
    /\ NoSlot \in SlotRec /\ NoJob \in JobRec /\ NoRow \in RowRec /\ NoDecline \in DeclRec
    /\ NoReceipts \in Receipts
<1>1. 1 \in Wire
  BY WireAssumption DEF Wire
<1>2. NoSlot \in SlotRec
  BY Zenon DEF NoSlot, SlotRec
<1>3. NoJob \in JobRec /\ NoDecline \in DeclRec
  BY <1>1 DEF NoJob, JobRec, JobPc, NoDecline, DeclRec
<1>4. NoRow \in RowRec
  <2>1. 0 \in Nat
    OBVIOUS
  <2> QED
    BY <1>1, <2>1, Zenon DEF NoRow, RowRec
<1>5. NoReceipts \in Receipts
  BY DEF NoReceipts, Receipts
<1> QED
  BY <1>1, <1>2, <1>3, <1>4, <1>5

\* A stamp changes the state of a row of the wire id and nothing else.
LEMMA SetStateType ==
    ASSUME NEW r \in RowRec, NEW w, NEW s \in RowState
    PROVE  /\ SetState(r, w, s) \in RowRec
           /\ SetState(r, w, s).declined = r.declined
           /\ SetState(r, w, s).wire = r.wire
<1>1. CASE r.state # "none" /\ r.wire = w
  <2>1. SetState(r, w, s) = [r EXCEPT !.state = s]
    BY <1>1 DEF SetState
  <2> QED
    BY <2>1, Zenon DEF RowRec
<1>2. CASE ~(r.state # "none" /\ r.wire = w)
  BY <1>2 DEF SetState
<1> QED
  BY <1>1, <1>2

\* A row may be declined, and moved to another wire id.
LEMMA DeclinedType ==
    ASSUME NEW r \in RowRec, NEW w \in Wire
    PROVE  /\ [r EXCEPT !.declined = TRUE] \in RowRec
           /\ [r EXCEPT !.declined = TRUE, !.wire = w] \in RowRec
           /\ [r EXCEPT !.wire = w] \in RowRec
           /\ [r EXCEPT !.wire = w].declined = r.declined
BY Zenon DEF RowRec

\* The sender's row changes its state.
LEMMA OutType ==
    ASSUME NEW o \in OutRec, NEW s \in OutState
    PROVE  /\ [o EXCEPT !.state = s] \in OutRec /\ [o EXCEPT !.state = s].wire = o.wire
           /\ [o EXCEPT !.state = s].state = s
           /\ [o EXCEPT !.state = s, !.byPeer = TRUE] \in OutRec
           /\ [o EXCEPT !.state = s, !.byPeer = TRUE].state = s
BY Zenon DEF OutRec

\* An announce and a revoke are messages, an ack with receipts is an ack.
LEMMA MessageType ==
    ASSUME NEW w \in Wire
    PROVE  /\ \A fs \in SUBSET Frame : Announce(w, fs) \in Message
           /\ \A why \in Reason : Revoke(w, why) \in Message
           /\ \A r \in Receipts : [wire |-> w, receipts |-> r] \in Ack
BY DEF Announce, Revoke, Message, Ack

\* What the lane may take from its queue.
LEMMA MessageKinds ==
    ASSUME NEW m \in Message
    PROVE  /\ m.wire \in Wire
           /\ m.type = "announce" => m.frames \in SUBSET Frame
           /\ m.type # "announce" => m.type = "revoke" /\ m.reason \in Reason
BY DEF Message

\* A fault is one of those that may happen, and stays spent.
LEMMA SpendType ==
    ASSUME TypeOK, NEW k, Spend(k)
    PROVE  spent' \subseteq Possible /\ spent \subseteq spent' /\ k \in spent'
BY DEF TypeOK, Spend

\* The sender's part of the state, the network's and the receiver's.
SenderOK == out \in OutRec /\ slot \in SlotRec /\ payload \in {"full", "manifest", "gone"}
            /\ tail \in BOOLEAN
LaneOK == lane \in Seq(Message) /\ job \in JobRec /\ cancels \subseteq Wire /\ aborts \subseteq Wire
StoreOK == /\ row \in RowRec /\ receipts \in [Wire -> Receipts]
           /\ held \subseteq stored /\ stored \subseteq Frame /\ decl \in DeclRec
NetOK == toR \subseteq Message /\ toS \subseteq Ack

\* The type invariant by its parts.
LEMMA TypeParts == TypeOK <=> SenderOK /\ LaneOK /\ StoreOK /\ NetOK /\ spent \subseteq Possible
BY DEF TypeOK, SenderOK, LaneOK, StoreOK, NetOK, OutRec, SlotRec, JobRec, JobPc, RowRec, DeclRec

\* A step of the sender that keeps its own part and the network's well formed
\* keeps everything well formed.
LEMMA SenderFrame ==
    ASSUME TypeOK, SenderOK', NetOK', UNCHANGED receiverVars, spent' \subseteq Possible
    PROVE  TypeOK'
<1>1. LaneOK' /\ StoreOK'
  BY TypeParts DEF receiverVars, laneVars, catalogVars, LaneOK, StoreOK
<1> QED
  BY <1>1 DEF TypeOK, SenderOK, LaneOK, StoreOK, NetOK, OutRec, SlotRec, JobRec, JobPc, RowRec, DeclRec

\* The sender's steps keep the types, and an attempt its wire id.
LEMMA SenderType ==
    ASSUME TypeOK, WireInv, Sender
    PROVE  TypeOK' /\ WireInv'
<1>0. /\ SenderOK /\ NetOK /\ spent \subseteq Possible /\ out.wire \in 0 .. MaxWire
      /\ out \in OutRec /\ slot \in SlotRec /\ toR \subseteq Message /\ toS \subseteq Ack
  BY TypeParts DEF SenderOK, NetOK, OutRec
<1> USE NothingType DEF WireInv
<1>1. CASE Drive
  <2>1. slot' \in SlotRec /\ slot'.phase = "new"
    BY <1>0, <1>1 DEF Drive, SlotRec
  <2>2. SenderOK' /\ NetOK' /\ UNCHANGED receiverVars /\ spent' \subseteq Possible
    BY <1>0, <1>1, <2>1 DEF Drive, SenderOK, NetOK
  <2> QED
    BY <2>1, <2>2, SenderFrame
<1>2. CASE Negotiate
  <2> DEFINE w == IF out.wire = 0 THEN 1 ELSE out.wire
  <2>1. w \in Wire /\ w \in 0 .. MaxWire
    BY <1>0, WireAssumption DEF Wire
  <2>2. CASE \E lacking \in {Frame \ held, Frame} \ {{}} :
                 /\ slot' = [slot EXCEPT !.phase = "negotiated", !.want = lacking]
                 /\ out' = [out EXCEPT !.wire = w]
                 /\ UNCHANGED <<payload, toR>>
    <3> HIDE DEF w
    <3>1. slot' \in SlotRec
      <4>1. PICK lacking \in {Frame \ held, Frame} :
              slot' = [slot EXCEPT !.phase = "negotiated", !.want = lacking]
        BY <2>2
      <4>2. lacking \in SUBSET Frame
        OBVIOUS
      <4> QED
        BY <1>0, <4>1, <4>2, Zenon DEF SlotRec
    <3>2. out' \in OutRec /\ out'.wire = w
      BY <1>0, <2>1, <2>2, Zenon DEF OutRec
    <3>3. SenderOK' /\ NetOK' /\ UNCHANGED receiverVars /\ spent' \subseteq Possible
      BY <1>0, <1>2, <2>2, <3>1, <3>2 DEF Negotiate, SenderOK, NetOK
    <3> QED
      BY <2>1, <3>2, <3>3, SenderFrame
  <2>3. CASE Frame \subseteq held /\ ConfirmDuplicate(w)
    <3> HIDE DEF w
    <3>1. slot' = NoSlot /\ payload' \in {payload, "manifest"}
          /\ out' = [state |-> "confirmed", wire |-> w, byPeer |-> FALSE]
          /\ (toR' = toR \/ toR' = toR \cup {Revoke(w, "superseded")})
      BY <2>3 DEF ConfirmDuplicate
    <3>2. out' \in OutRec
      BY <2>1, <3>1, Zenon DEF OutRec, OutState
    <3>3. toR' \subseteq Message
      BY <1>0, <2>1, <3>1, MessageType DEF Reason
    <3>4. SenderOK' /\ NetOK' /\ UNCHANGED receiverVars /\ spent' \subseteq Possible
      BY <1>0, <1>2, <3>1, <3>2, <3>3 DEF Negotiate, SenderOK, NetOK
    <3>5. slot'.phase = "none"
      BY <3>1 DEF NoSlot
    <3> QED
      BY <3>4, <3>5, SenderFrame
  <2> QED
    BY <1>2, <2>2, <2>3 DEF Negotiate
<1>3. CASE AnnounceSent \/ AnnounceFailed
  <2>1. out.wire \in Wire /\ slot.want \in SUBSET Frame
    BY <1>0, <1>3 DEF AnnounceSent, AnnounceFailed, SlotRec
  <2>2. toR' \subseteq Message
    BY <1>0, <1>3, <2>1, MessageType DEF AnnounceSent, AnnounceFailed
  <2>3. slot' \in SlotRec
    BY <1>0, <1>3, Zenon DEF AnnounceSent, AnnounceFailed, SlotRec
  <2>4. out' \in OutRec /\ out'.wire = out.wire
    <3>1. CASE AnnounceSent
      <4>1. out' = [out EXCEPT !.state = "transferring"] /\ "transferring" \in OutState
        BY <3>1 DEF AnnounceSent, OutState
      <4> QED
        BY <1>0, <4>1, OutType
    <3>2. CASE AnnounceFailed
      BY <1>0, <3>2 DEF AnnounceFailed
    <3> QED
      BY <1>3, <3>1, <3>2
  <2>5. spent' \subseteq Possible
    BY <1>0, <1>3, SpendType DEF AnnounceSent, AnnounceFailed
  <2>6. SenderOK' /\ NetOK' /\ UNCHANGED receiverVars
    BY <1>0, <1>3, <2>2, <2>3, <2>4 DEF AnnounceSent, AnnounceFailed, SenderOK, NetOK
  <2> QED
    BY <2>1, <2>4, <2>5, <2>6, SenderFrame
<1>4. CASE FailPackage \/ CancelPackage
  <2>1. slot' = NoSlot /\ slot'.phase = "none"
    BY <1>4 DEF FailPackage, CancelPackage, NoSlot
  <2>2. out' \in OutRec
    BY <1>0, <1>4, OutType DEF FailPackage, CancelPackage, OutState
  <2>3. toR' \subseteq Message
    BY <1>0, <1>4, MessageType DEF FailPackage, CancelPackage, Reason
  <2>4. spent' \subseteq Possible
    BY <1>0, <1>4, SpendType DEF FailPackage, CancelPackage
  <2>5. SenderOK' /\ NetOK' /\ UNCHANGED receiverVars
    BY <1>0, <1>4, <2>1, <2>2, <2>3 DEF FailPackage, CancelPackage, SenderOK, NetOK
  <2> QED
    BY <2>1, <2>4, <2>5, SenderFrame
<1>5. ASSUME NEW ack \in toS, OnAck(ack) PROVE TypeOK' /\ WireInv'
  <2>1. /\ NetOK' /\ UNCHANGED receiverVars /\ spent' \subseteq Possible
    BY <1>0, <1>5 DEF OnAck, NetOK
  <2>2. CASE UNCHANGED senderVars
    BY <1>0, <2>1, <2>2, SenderFrame DEF senderVars, SenderOK
  <2>3. CASE slot' = NoSlot /\ UNCHANGED <<payload, tail>>
             /\ out' = [out EXCEPT !.state = "cancelled", !.byPeer = TRUE]
    <3>1. out' \in OutRec
      BY <1>0, <2>3, OutType DEF OutState
    <3>2. SenderOK'
      BY <1>0, <2>3, <3>1 DEF SenderOK
    <3> QED
      BY <2>1, <2>3, <3>2, SenderFrame DEF NoSlot
  <2>4. CASE slot' = NoSlot /\ tail' = TRUE /\ UNCHANGED payload
             /\ out' = [out EXCEPT !.state = "confirmed"]
    <3>1. out' \in OutRec
      BY <1>0, <2>4, OutType DEF OutState
    <3>2. SenderOK'
      BY <1>0, <2>4, <3>1 DEF SenderOK
    <3> QED
      BY <2>1, <2>4, <3>2, SenderFrame DEF NoSlot
  <2> QED
    BY <1>5, <2>2, <2>3, <2>4 DEF OnAck
<1>6. CASE CleanUp \/ Vanish
  <2>1. spent' \subseteq Possible
    BY <1>0, <1>6, SpendType DEF CleanUp, Vanish
  <2>2. SenderOK' /\ NetOK' /\ UNCHANGED <<receiverVars, out, slot>>
    BY <1>0, <1>6 DEF CleanUp, Vanish, SenderOK, NetOK
  <2> QED
    BY <2>1, <2>2, SenderFrame
<1>7. CASE ResendTransfer
  <2>1. out.wire + 1 \in Wire /\ out.wire + 1 \in 0 .. MaxWire
    BY <1>0, <1>7, WireAssumption DEF ResendTransfer, Wire
  <2>2. out' \in OutRec /\ out'.wire = out.wire + 1
    BY <1>7, <2>1, Zenon DEF ResendTransfer, OutRec, OutState
  <2>3. spent' \subseteq Possible
    BY <1>0, <1>7, SpendType DEF ResendTransfer
  <2>4. SenderOK' /\ NetOK' /\ UNCHANGED receiverVars
    BY <1>0, <1>7, <2>2 DEF ResendTransfer, SenderOK, NetOK
  <2> QED
    BY <2>1, <2>2, <2>3, <2>4, SenderFrame
<1>8. CASE SenderRestart
  <2>1. spent' \subseteq Possible
    BY <1>0, <1>8, SpendType DEF SenderRestart
  <2>2. SenderOK' /\ NetOK' /\ UNCHANGED receiverVars /\ slot' = NoSlot
    BY <1>0, <1>8 DEF SenderRestart, SenderOK, NetOK
  <2> QED
    BY <2>1, <2>2, SenderFrame DEF NoSlot
<1> QED
  BY <1>1, <1>2, <1>3, <1>4, <1>5, <1>6, <1>7, <1>8 DEF Sender

-----------------------------------------------------------------------------
\* Receipts counted are finitely many.
LEMMA CountType ==
    ASSUME NEW fs \in SUBSET Frame
    PROVE  Cardinality(fs) \in Nat
BY FrameAssumption, FS_Subset, FS_CardinalityType

\* The row that an announce leaves.
LEMMA UpsertType ==
    ASSUME row \in RowRec, NEW w \in Wire, NEW n \in Nat
    PROVE  /\ UpsertAttempt(w, n) \in RowRec
           /\ UpsertAttempt(w, n).declined => row.declined
<1>1. CASE row.state = "none"
  <2>1. UpsertAttempt(w, n) =
          [state |-> "announced", wire |-> w, count |-> n, declined |-> FALSE]
    BY <1>1 DEF UpsertAttempt
  <2>2. "announced" \in RowState \cup {"none"}
    BY DEF RowState
  <2>3. UpsertAttempt(w, n) \in RowRec
    BY <2>1, <2>2 DEF RowRec
  <2>4. ~UpsertAttempt(w, n).declined
    BY <2>1
  <2> QED
    BY <2>3, <2>4
<1>2. CASE row.state # "none" /\ row.declined
  BY <1>2 DEF UpsertAttempt
<1>3. CASE row.state # "none" /\ ~row.declined
  <2>1. UpsertAttempt(w, n) = [row EXCEPT !.state = "announced", !.wire = w, !.count = n]
    BY <1>3 DEF UpsertAttempt
  <2>2. "announced" \in RowState \cup {"none"}
    BY DEF RowState
  <2>3. [row EXCEPT !.state = "announced", !.wire = w, !.count = n] \in RowRec
    BY <2>2, Zenon DEF RowRec
  <2>4. [row EXCEPT !.state = "announced", !.wire = w, !.count = n].declined = row.declined
    BY Zenon DEF RowRec
  <2> QED
    BY <2>1, <2>3, <2>4
<1> QED
  BY <1>1, <1>2, <1>3

\* A row may be marked as declined when there is one.
LEMMA MarkType ==
    ASSUME row \in RowRec, NEW w \in Wire
    PROVE  MarkDeclined(w) \in RowRec
BY DeclinedType DEF MarkDeclined

\* What handle_announce leaves: a job that remembers whether the batch was
\* declined, to answer from the log or to look at the receipts.
LEMMA AnnounceType ==
    ASSUME TypeOK, NEW m \in Message, m.type = "announce", HandleAnnounce(m)
    PROVE  /\ row' \in RowRec /\ job' \in JobRec /\ UNCHANGED <<receipts, toS>>
           /\ row'.declined => row.declined
           /\ job'.pc \in {"seed", "replay"} /\ job'.final = row.declined
<1>0. m.wire \in Wire /\ m.frames \in SUBSET Frame /\ row \in RowRec /\ row.declined \in BOOLEAN
  BY MessageKinds DEF TypeOK, RowRec
<1>1. Cardinality(m.frames) \in Nat
  BY <1>0, CountType
<1>2. \/ row' = row
      \/ row' = UpsertAttempt(m.wire, Cardinality(m.frames))
  BY DEF HandleAnnounce
<1>3. row' \in RowRec /\ (row'.declined => row.declined)
  BY <1>0, <1>1, <1>2, UpsertType
<1>4. PICK pc \in {"seed", "replay"} :
        job' = [pc |-> pc, wire |-> m.wire, frames |-> m.frames,
                bad |-> {}, todo |-> m.frames, final |-> row.declined]
  BY DEF HandleAnnounce, StartJob
<1>5. job' \in JobRec /\ job'.pc \in {"seed", "replay"} /\ job'.final = row.declined
  BY <1>0, <1>4 DEF JobRec, JobPc
<1> QED
  BY <1>3, <1>5 DEF HandleAnnounce

\* Receipts are inherited only by a batch that was declined; the job goes on
\* to answer, to refuse what is declined, or to the gate.
LEMMA SeedType ==
    ASSUME TypeOK, SeedReceipts
    PROVE  /\ row' \in RowRec /\ receipts' \in [Wire -> Receipts] /\ job' \in JobRec
           /\ job'.final = job.final
           /\ job.final \/ receipts' = receipts
           /\ job'.pc = "epilogue" => job.final \/ job.wire \in cancels
           /\ row'.declined => row.declined \/ job.final \/ job.wire \in cancels
<1> DEFINE w == job.wire
           log == IF Seeded
                    THEN [f \in Frame |-> IF receipts[row.wire][f] # "none"
                                            THEN receipts[row.wire][f] ELSE receipts[w][f]]
                    ELSE receipts[w]
<1>0. /\ w \in Wire /\ row \in RowRec /\ row.wire \in Wire /\ job \in JobRec
      /\ receipts \in [Wire -> Receipts]
  BY DEF TypeOK, RowRec, JobRec, JobPc
<1>1. receipts' = [receipts EXCEPT ![w] = log]
  BY DEF SeedReceipts
<1>2. log \in Receipts
  BY <1>0 DEF Receipts
<1>3. Seeded => job.final
  BY DEF Seeded
<1>4. ~Seeded => log = receipts[w]
  OBVIOUS
<1>5. /\ \/ row' = row \/ row' = [row EXCEPT !.wire = w]
         \/ row' = MarkDeclined(w) /\ (job.final \/ w \in cancels)
      /\ \/ job' = [job EXCEPT !.pc = "replay"] \/ job' = [job EXCEPT !.pc = "gate"]
         \/ job' = [job EXCEPT !.pc = "epilogue"] /\ (job.final \/ w \in cancels)
  BY DEF SeedReceipts
<1> HIDE DEF w, log
<1>6. receipts' \in [Wire -> Receipts] /\ (job.final \/ receipts' = receipts)
  <2>1. receipts' \in [Wire -> Receipts]
    BY <1>0, <1>1, <1>2
  <2>2. ~job.final => receipts' = receipts
    BY <1>0, <1>1, <1>3, <1>4
  <2> QED
    BY <2>1, <2>2
<1>7. row' \in RowRec /\ (row'.declined => row.declined \/ job.final \/ w \in cancels)
  <2>1. CASE row' = row \/ row' = [row EXCEPT !.wire = w]
    BY <1>0, <2>1, DeclinedType
  <2>2. CASE row' = MarkDeclined(w) /\ (job.final \/ w \in cancels)
    BY <1>0, <2>2, MarkType
  <2> QED
    BY <1>5, <2>1, <2>2
<1>8. job' \in JobRec /\ job'.final = job.final
      /\ (job'.pc = "epilogue" => job.final \/ w \in cancels)
  <2>1. \A pc \in JobPc : [job EXCEPT !.pc = pc] \in JobRec /\ [job EXCEPT !.pc = pc].pc = pc
                          /\ [job EXCEPT !.pc = pc].final = job.final
    BY <1>0, Zenon DEF JobRec
  <2>2. "replay" \in JobPc /\ "gate" \in JobPc /\ "epilogue" \in JobPc
    BY DEF JobPc
  <2>3. PICK pc \in {"replay", "gate", "epilogue"} :
          job' = [job EXCEPT !.pc = pc] /\ (pc = "epilogue" => job.final \/ w \in cancels)
    BY <1>5
  <2>4. pc \in JobPc
    BY <2>2, <2>3
  <2>5. job' \in JobRec /\ job'.pc = pc /\ job'.final = job.final
    BY <2>1, <2>3, <2>4
  <2> QED
    BY <2>3, <2>5
<1> QED
  BY <1>6, <1>7, <1>8 DEF w

\* A replay answers with the log and stamps the row.
LEMMA ReplayType ==
    ASSUME TypeOK, Replay
    PROVE  /\ toS' = toS \cup {[wire |-> job.wire, receipts |-> receipts[job.wire]]}
           /\ toS' \subseteq Ack /\ row' \in RowRec /\ job' = NoJob
           /\ row'.declined => row.declined \/ AllCancelled(receipts[job.wire])
<1> DEFINE w == job.wire
<1>0. w \in Wire /\ row \in RowRec /\ receipts[w] \in Receipts
  BY DEF TypeOK, RowRec
<1>1. toS' = toS \cup {[wire |-> w, receipts |-> receipts[w]]} /\ toS' \subseteq Ack /\ job' = NoJob
  BY <1>0, MessageType DEF Replay, TypeOK
<1>2. SetState(row, w, "cancelled") \in RowRec /\ SetState(row, w, "done") \in RowRec
      /\ SetState(row, w, "done").declined = row.declined
  BY <1>0, SetStateType DEF RowState
<1>3. CASE AllCancelled(receipts[w])
  <2> DEFINE there == row.state # "none"
  <2>1. row' = [SetState(row, w, "cancelled") EXCEPT !.declined = there] /\ there \in BOOLEAN
    BY <1>3 DEF Replay
  <2> HIDE DEF there
  <2>2. row' \in RowRec
    BY <1>2, <2>1, Zenon DEF RowRec
  <2> QED
    BY <1>1, <1>3, <2>2
<1>4. CASE ~AllCancelled(receipts[w])
  <2>1. row' = row \/ row' = SetState(row, w, "done")
    BY <1>4 DEF Replay
  <2> QED
    BY <1>0, <1>1, <1>2, <2>1
<1> QED
  BY <1>3, <1>4

-----------------------------------------------------------------------------
\* A step of the network or of the receiver that keeps their parts well
\* formed keeps everything well formed.
LEMMA ReceiverFrame ==
    ASSUME TypeOK, LaneOK', StoreOK', NetOK', UNCHANGED senderVars, spent' \subseteq Possible
    PROVE  TypeOK'
<1>1. SenderOK'
  BY TypeParts DEF senderVars, SenderOK
<1> QED
  BY <1>1 DEF TypeOK, SenderOK, LaneOK, StoreOK, NetOK, OutRec, SlotRec, JobRec, JobPc, RowRec, DeclRec

\* Messages arrive, or are lost.
LEMMA NetworkType ==
    ASSUME TypeOK, Network
    PROVE  TypeOK' /\ UNCHANGED senderVars
<1>0. LaneOK /\ StoreOK /\ NetOK /\ spent \subseteq Possible
  BY TypeParts
<1>1. ASSUME NEW m \in toR, Arrive(m) PROVE TypeOK' /\ UNCHANGED senderVars
  <2>1. m \in Message /\ m.wire \in Wire
    BY <1>0, MessageKinds DEF NetOK
  <2>2. lane' \in Seq(Message)
    BY <1>0, <1>1, <2>1 DEF Arrive, LaneOK
  <2>3. LaneOK' /\ StoreOK' /\ NetOK' /\ UNCHANGED senderVars /\ spent' \subseteq Possible
    BY <1>0, <1>1, <2>1, <2>2 DEF Arrive, LaneOK, StoreOK, NetOK, catalogVars
  <2> QED
    BY <2>3, ReceiverFrame
<1>2. CASE Lose
  <2>1. spent' \subseteq Possible
    BY <1>2, SpendType DEF Lose
  <2>2. NetOK'
    BY <1>0, <1>2 DEF Lose, NetOK
  <2>3. LaneOK' /\ StoreOK' /\ UNCHANGED senderVars
    BY <1>0, <1>2 DEF Lose, LaneOK, StoreOK, receiverVars, laneVars, catalogVars
  <2> QED
    BY <2>1, <2>2, <2>3, ReceiverFrame
<1> QED
  BY <1>1, <1>2 DEF Network

\* The job goes to another step.
LEMMA JobMoves ==
    ASSUME job \in JobRec, NEW pc \in JobPc, NEW bad \in SUBSET Frame
    PROVE  /\ [job EXCEPT !.pc = pc] \in JobRec /\ [job EXCEPT !.pc = pc].pc = pc
           /\ [job EXCEPT !.pc = pc].bad = job.bad /\ [job EXCEPT !.pc = pc].final = job.final
           /\ [job EXCEPT !.pc = pc, !.bad = bad] \in JobRec
           /\ [job EXCEPT !.pc = pc, !.bad = bad].pc = pc
           /\ [job EXCEPT !.pc = pc, !.bad = bad].final = job.final
BY Zenon DEF JobRec

\* It has fewer frames to do.
LEMMA JobTodo ==
    ASSUME job \in JobRec, NEW todo \in SUBSET Frame
    PROVE  /\ [job EXCEPT !.todo = todo] \in JobRec
           /\ [job EXCEPT !.todo = todo].pc = job.pc
           /\ [job EXCEPT !.todo = todo].final = job.final
BY Zenon DEF JobRec

\* The verdict on a frame.
LEMMA IngestType ==
    ASSUME TypeOK, NEW f \in Frame, IngestFrame(f)
    PROVE  /\ receipts' \in [Wire -> Receipts]
           /\ \A w \in Wire, g \in Frame :
                \/ receipts'[w][g] = receipts[w][g]
                \/ w = job.wire /\ g = f /\ receipts'[w][g] \in {"rejected", "duplicate", "ingested"}
                   /\ (receipts'[w][g] # "rejected" => f \in stored')
           /\ held' \subseteq stored' /\ stored' \subseteq Frame /\ stored \subseteq stored'
           /\ stored' = stored \/ stored' = stored \cup {f}
<1> DEFINE prior == receipts[job.wire][f]
           kept == prior \notin {"none", "rejected"}
           verdict == CASE kept -> prior
                        [] ~kept /\ f \in job.bad -> "rejected"
                        [] ~kept /\ f \in held \ job.bad -> "duplicate"
                        [] OTHER -> "ingested"
           new == IF verdict = "ingested" /\ ~kept THEN {f} ELSE {}
<1>1. /\ receipts' = [receipts EXCEPT ![job.wire][f] = verdict]
      /\ held' = held \cup new /\ stored' = stored \cup new
  BY DEF IngestFrame
<1>2. job.wire \in Wire /\ receipts \in [Wire -> Receipts] /\ prior \in Outcome \cup {"none"}
      /\ held \subseteq stored /\ stored \subseteq Frame
  BY DEF TypeOK, Receipts
<1>3. \/ verdict = prior
      \/ verdict \in {"rejected", "duplicate", "ingested"} /\ (verdict # "rejected" => f \in stored \cup new)
  <2>1. CASE kept
    BY <2>1
  <2>2. CASE ~kept /\ f \in job.bad
    BY <2>2
  <2>3. CASE ~kept /\ f \notin job.bad /\ f \in held
    BY <1>2, <2>3
  <2>4. CASE ~kept /\ f \notin job.bad /\ f \notin held
    BY <2>4
  <2> QED
    BY <2>1, <2>2, <2>3, <2>4
<1>4. new = {} \/ new = {f}
  OBVIOUS
<1> HIDE DEF prior, kept, verdict, new
<1>5. verdict \in Outcome \cup {"none"}
  BY <1>2, <1>3 DEF Outcome
<1>6. receipts' \in [Wire -> Receipts]
  BY <1>1, <1>2, <1>5 DEF Receipts
<1>7. \A w \in Wire, g \in Frame :
        receipts'[w][g] = IF w = job.wire /\ g = f THEN verdict ELSE receipts[w][g]
  BY <1>1, <1>2 DEF Receipts
<1> QED
  BY <1>1, <1>2, <1>3, <1>4, <1>6, <1>7 DEF prior

\* cancel_epilogue, whole or in part.
LEMMA RefusedType ==
    ASSUME TypeOK, NEW fs \in SUBSET Frame, receipts' = [receipts EXCEPT ![job.wire] = Refused(fs)]
    PROVE  /\ receipts' \in [Wire -> Receipts]
           /\ \A w \in Wire, g \in Frame :
                receipts'[w][g] = IF w = job.wire /\ g \in fs THEN "cancelled" ELSE receipts[w][g]
<1>1. job.wire \in Wire /\ receipts \in [Wire -> Receipts]
  BY DEF TypeOK
<1>2. Refused(fs) \in Receipts
      /\ \A g \in Frame : Refused(fs)[g] = IF g \in fs THEN "cancelled" ELSE receipts[job.wire][g]
  BY <1>1 DEF Refused, Receipts, Outcome
<1> QED
  BY <1>1, <1>2

\* The lane's steps keep the types.
LEMMA LaneType ==
    ASSUME TypeOK, LaneStep
    PROVE  TypeOK' /\ UNCHANGED senderVars
<1>0. /\ LaneOK /\ StoreOK /\ NetOK /\ spent \subseteq Possible
      /\ job \in JobRec /\ row \in RowRec /\ job.wire \in Wire /\ job.frames \in SUBSET Frame
      /\ job.bad \in SUBSET Frame /\ job.todo \in SUBSET Frame
      /\ receipts \in [Wire -> Receipts] /\ toS \subseteq Ack
  BY TypeParts DEF LaneOK, StoreOK, JobRec, NetOK
<1>n. NoJob \in JobRec
  BY NothingType
<1>s. \A s \in RowState : SetState(row, job.wire, s) \in RowRec
  BY <1>0, SetStateType
<1>1. CASE TakeNext
  <2>1. Head(lane) \in Message /\ lane' \in Seq(Message) /\ Head(lane).wire \in Wire
    BY <1>0, <1>1, MessageKinds DEF TakeNext, LaneOK
  <2>2. CASE Head(lane).type = "announce"
    <3>1. HandleAnnounce(Head(lane)) /\ UNCHANGED aborts
      BY <1>1, <2>2 DEF TakeNext
    <3>2. row' \in RowRec /\ job' \in JobRec /\ UNCHANGED <<receipts, toS>>
      BY <2>1, <2>2, <3>1, AnnounceType
    <3>3. LaneOK' /\ StoreOK' /\ NetOK' /\ UNCHANGED senderVars /\ spent' \subseteq Possible
      BY <1>0, <1>1, <2>1, <3>1, <3>2 DEF TakeNext, LaneOK, StoreOK, NetOK, catalogVars
    <3> QED
      BY <3>3, ReceiverFrame
  <2>3. CASE Head(lane).type # "announce"
    <3>1. HandleRevoke(Head(lane)) /\ Head(lane).reason \in Reason
      BY <1>1, <2>1, <2>3, MessageKinds DEF TakeNext
    <3>2. RevokedState(Head(lane).reason) \in RowState
      BY <3>1 DEF Reason, RevokedState, RowState
    <3>3. row' \in RowRec
      BY <1>0, <3>1, <3>2, SetStateType DEF HandleRevoke
    <3>4. LaneOK' /\ StoreOK' /\ NetOK' /\ UNCHANGED senderVars /\ spent' \subseteq Possible
      BY <1>0, <1>1, <2>1, <3>1, <3>3 DEF TakeNext, HandleRevoke, LaneOK, StoreOK, NetOK, catalogVars
    <3> QED
      BY <3>4, ReceiverFrame
  <2> QED
    BY <2>2, <2>3
<1>2. CASE GateStep
  <2>1. job' \in JobRec
    BY <1>0, <1>n, <1>2, JobMoves DEF GateStep, JobPc
  <2>2. LaneOK' /\ StoreOK' /\ NetOK' /\ UNCHANGED senderVars /\ spent' \subseteq Possible
    BY <1>0, <1>2, <2>1 DEF GateStep, LaneOK, StoreOK, NetOK, catalogVars
  <2> QED
    BY <2>2, ReceiverFrame
<1>3. CASE StartFetch
  <2>1. job' \in JobRec
    BY <1>0, <1>3, JobMoves DEF StartFetch, JobPc
  <2>2. row' \in RowRec
    BY <1>s, <1>3 DEF StartFetch, RowState
  <2>3. LaneOK' /\ StoreOK' /\ NetOK' /\ UNCHANGED senderVars /\ spent' \subseteq Possible
    BY <1>0, <1>3, <2>1, <2>2 DEF StartFetch, LaneOK, StoreOK, NetOK, catalogVars
  <2> QED
    BY <2>3, ReceiverFrame
<1>4. CASE AbortFetch
  <2>1. job' \in JobRec
    BY <1>0, <1>n, <1>4, JobMoves DEF AbortFetch, JobPc
  <2>2. row' \in RowRec
    BY <1>0, <1>4, MarkType DEF AbortFetch
  <2>3. LaneOK' /\ StoreOK' /\ NetOK' /\ UNCHANGED senderVars /\ spent' \subseteq Possible
    BY <1>0, <1>4, <2>1, <2>2 DEF AbortFetch, LaneOK, StoreOK, NetOK, catalogVars
  <2> QED
    BY <2>3, ReceiverFrame
<1>5. ASSUME NEW bad \in SUBSET Frame, FetchDone(bad) PROVE TypeOK' /\ UNCHANGED senderVars
  <2>1. job' \in JobRec
    BY <1>0, <1>5, JobMoves DEF FetchDone, JobPc
  <2>2. row' \in RowRec
    BY <1>s, <1>5 DEF FetchDone, RowState
  <2>3. spent' \subseteq Possible
    BY <1>0, <1>5, SpendType DEF FetchDone
  <2>4. LaneOK' /\ StoreOK' /\ NetOK' /\ UNCHANGED senderVars
    BY <1>0, <1>5, <2>1, <2>2 DEF FetchDone, LaneOK, StoreOK, NetOK, catalogVars
  <2> QED
    BY <2>3, <2>4, ReceiverFrame
<1>6. CASE FetchFails \/ IngestFails
  <2>1. row' \in RowRec
    BY <1>s, <1>6 DEF FetchFails, IngestFails, RowState
  <2>2. spent' \subseteq Possible
    BY <1>0, <1>6, SpendType DEF FetchFails, IngestFails, Unlucky
  <2>3. LaneOK' /\ StoreOK' /\ NetOK' /\ UNCHANGED senderVars
    BY <1>0, <1>n, <1>6, <2>1 DEF FetchFails, IngestFails, LaneOK, StoreOK, NetOK, catalogVars
  <2> QED
    BY <2>2, <2>3, ReceiverFrame
<1>7. ASSUME NEW f \in Frame, IngestFrame(f) PROVE TypeOK' /\ UNCHANGED senderVars
  <2>1. receipts' \in [Wire -> Receipts] /\ held' \subseteq stored' /\ stored' \subseteq Frame
    BY <1>7, IngestType
  <2>2. job' \in JobRec
    <3>1. job' = [job EXCEPT !.todo = job.todo \ {f}] /\ job.todo \ {f} \in SUBSET Frame
      BY <1>0, <1>7 DEF IngestFrame
    <3> QED
      BY <1>0, <3>1, JobTodo
  <2>3. LaneOK' /\ StoreOK' /\ NetOK' /\ UNCHANGED senderVars /\ spent' \subseteq Possible
    BY <1>0, <1>7, <2>1, <2>2 DEF IngestFrame, LaneOK, StoreOK, NetOK
  <2> QED
    BY <2>3, ReceiverFrame
<1>8. CASE AckSent \/ AckFails
  <2>1. row' \in RowRec
    BY <1>s, <1>8 DEF AckSent, AckFails, Ending, RowState
  <2>2. Verdicts \in Receipts
    BY <1>0 DEF Verdicts, Receipts
  <2>3. toS' \subseteq Ack
    BY <1>0, <1>8, <2>2, MessageType DEF AckSent, AckFails
  <2>4. spent' \subseteq Possible
    BY <1>0, <1>8, SpendType DEF AckSent, AckFails
  <2>5. LaneOK' /\ StoreOK' /\ NetOK' /\ UNCHANGED senderVars
    BY <1>0, <1>n, <1>8, <2>1, <2>3 DEF AckSent, AckFails, LaneOK, StoreOK, NetOK, catalogVars
  <2> QED
    BY <2>4, <2>5, ReceiverFrame
<1>9. CASE EpilogueDone
  <2>1. row' \in RowRec
    BY <1>s, <1>9 DEF EpilogueDone, RowState
  <2>2. receipts' \in [Wire -> Receipts]
    BY <1>0, <1>9, RefusedType DEF EpilogueDone
  <2>3. [f \in Frame |-> IF f \in job.frames THEN "cancelled" ELSE "none"] \in Receipts
    BY DEF Receipts, Outcome
  <2>4. toS' \subseteq Ack
    BY <1>0, <1>9, <2>3, MessageType DEF EpilogueDone
  <2>5. LaneOK' /\ StoreOK' /\ NetOK' /\ UNCHANGED senderVars /\ spent' \subseteq Possible
    BY <1>0, <1>n, <1>9, <2>1, <2>2, <2>4 DEF EpilogueDone, LaneOK, StoreOK, NetOK, catalogVars
  <2> QED
    BY <2>5, ReceiverFrame
<1>10. CASE EpilogueFails
  <2>1. spent' \subseteq Possible
    BY <1>0, <1>10, SpendType DEF EpilogueFails, Unlucky
  <2>2. LaneOK' /\ StoreOK' /\ NetOK' /\ UNCHANGED senderVars
    BY <1>0, <1>n, <1>10 DEF EpilogueFails, LaneOK, StoreOK, NetOK, catalogVars
  <2> QED
    BY <2>1, <2>2, ReceiverFrame
<1>11. CASE SeedReceipts
  <2>1. row' \in RowRec /\ receipts' \in [Wire -> Receipts] /\ job' \in JobRec
    BY <1>11, SeedType
  <2>2. LaneOK' /\ StoreOK' /\ NetOK' /\ UNCHANGED senderVars /\ spent' \subseteq Possible
    BY <1>0, <1>11, <2>1 DEF SeedReceipts, LaneOK, StoreOK, NetOK, catalogVars
  <2> QED
    BY <2>2, ReceiverFrame
<1>12. CASE Replay
  <2>1. row' \in RowRec /\ job' = NoJob /\ toS' \subseteq Ack
    BY <1>12, ReplayType
  <2>2. LaneOK' /\ StoreOK' /\ NetOK' /\ UNCHANGED senderVars /\ spent' \subseteq Possible
    BY <1>0, <1>n, <1>12, <2>1 DEF Replay, LaneOK, StoreOK, NetOK, catalogVars
  <2> QED
    BY <2>2, ReceiverFrame
<1> QED
  BY <1>1, <1>2, <1>3, <1>4, <1>5, <1>6, <1>7, <1>8, <1>9, <1>10, <1>11, <1>12 DEF LaneStep

\* So do the receiver's user and its restarts.
LEMMA UserType ==
    ASSUME TypeOK, ReceiverUser
    PROVE  TypeOK' /\ UNCHANGED senderVars
<1>0. /\ LaneOK /\ StoreOK /\ NetOK /\ spent \subseteq Possible
      /\ row \in RowRec /\ decl \in DeclRec /\ row.wire \in Wire
      /\ row.state \in RowState \cup {"none"} /\ decl.wire \in Wire
  BY TypeParts DEF LaneOK, StoreOK, RowRec, DeclRec
<1>n. NoJob \in JobRec /\ NoDecline \in DeclRec /\ NoRow \in RowRec
  BY NothingType
<1>1. CASE DeclineRead
  <2>1. decl' \in DeclRec
    BY <1>0, <1>1 DEF DeclineRead, DeclRec
  <2>2. spent' \subseteq Possible
    BY <1>1, SpendType DEF DeclineRead
  <2>3. LaneOK' /\ StoreOK' /\ NetOK' /\ UNCHANGED senderVars
    BY <1>0, <1>1, <2>1 DEF DeclineRead, LaneOK, StoreOK, NetOK, catalogVars, laneVars
  <2> QED
    BY <2>2, <2>3, ReceiverFrame
<1>2. CASE DeclineMark
  <2>1. decl' \in DeclRec
    BY <1>0, <1>n, <1>2 DEF DeclineMark, DeclRec
  <2>2. row' \in RowRec
    BY <1>0, <1>2, DeclinedType DEF DeclineMark
  <2>3. LaneOK' /\ StoreOK' /\ NetOK' /\ UNCHANGED senderVars /\ spent' \subseteq Possible
    BY <1>0, <1>2, <2>1, <2>2 DEF DeclineMark, LaneOK, StoreOK, NetOK, catalogVars, laneVars
  <2> QED
    BY <2>3, ReceiverFrame
<1>3. CASE DeclineSignal
  <2>1. decl' \in DeclRec
    BY <1>0, <1>3 DEF DeclineSignal, DeclRec
  <2>2. LaneOK' /\ StoreOK' /\ NetOK' /\ UNCHANGED senderVars /\ spent' \subseteq Possible
    BY <1>0, <1>3, <2>1 DEF DeclineSignal, LaneOK, StoreOK, NetOK, catalogVars
  <2> QED
    BY <2>2, ReceiverFrame
<1>4. CASE DeclineStamp
  <2>1. row' \in RowRec
    BY <1>0, <1>4, SetStateType DEF DeclineStamp, RowState
  <2>2. LaneOK' /\ StoreOK' /\ NetOK' /\ UNCHANGED senderVars /\ spent' \subseteq Possible
    BY <1>0, <1>n, <1>4, <2>1 DEF DeclineStamp, LaneOK, StoreOK, NetOK, catalogVars, laneVars
  <2> QED
    BY <2>2, ReceiverFrame
<1>5. CASE DeleteRecord
  <2>1. spent' \subseteq Possible
    BY <1>5, SpendType DEF DeleteRecord
  <2>2. LaneOK' /\ StoreOK' /\ NetOK' /\ UNCHANGED senderVars
    BY <1>0, <1>n, <1>5 DEF DeleteRecord, LaneOK, StoreOK, NetOK, catalogVars, laneVars
  <2> QED
    BY <2>1, <2>2, ReceiverFrame
<1>6. CASE ReceiverRestart
  <2>1. PICK part \in SUBSET BeingRefused :
          receipts' = [receipts EXCEPT ![job.wire] = Refused(part)]
    BY <1>6 DEF ReceiverRestart
  <2>2. receipts' \in [Wire -> Receipts]
    <3>1. job.frames \subseteq Frame /\ Covered(receipts[row.wire]) \subseteq Frame
      BY <1>0 DEF LaneOK, JobRec, Covered
    <3>2. part \in SUBSET Frame
      BY <2>1, <3>1 DEF BeingRefused
    <3> QED
      BY <2>1, <3>2, RefusedType
  <2>3. row' \in RowRec
    <3>1. "waiting" \in RowState \cup {"none"} /\ "done" \in RowState \cup {"none"}
          /\ "cancelled" \in RowState \cup {"none"}
      BY DEF RowState
    <3>2. /\ [row EXCEPT !.state = "waiting"] \in RowRec /\ [row EXCEPT !.state = "done"] \in RowRec
          /\ [row EXCEPT !.state = "cancelled", !.declined = TRUE] \in RowRec
      BY <1>0, <3>1, Zenon DEF RowRec
    <3>3. row' = ReconcileRow(receipts')
      BY <1>6 DEF ReceiverRestart
    <3> QED
      BY <1>0, <3>2, <3>3 DEF ReconcileRow
  <2>4. spent' \subseteq Possible
    BY <1>6, SpendType DEF ReceiverRestart
  <2>5. LaneOK' /\ StoreOK' /\ NetOK' /\ UNCHANGED senderVars
    BY <1>0, <1>n, <1>6, <2>2, <2>3 DEF ReceiverRestart, LaneOK, StoreOK, NetOK, catalogVars
  <2> QED
    BY <2>4, <2>5, ReceiverFrame
<1>7. ASSUME NEW f \in Frame, RemoveFrame(f) PROVE TypeOK' /\ UNCHANGED senderVars
  <2>1. spent' \subseteq Possible
    BY <1>7, SpendType DEF RemoveFrame
  <2>2. LaneOK' /\ StoreOK' /\ NetOK' /\ UNCHANGED senderVars
    BY <1>0, <1>7 DEF RemoveFrame, LaneOK, StoreOK, NetOK, laneVars
  <2> QED
    BY <2>1, <2>2, ReceiverFrame
<1> QED
  BY <1>1, <1>2, <1>3, <1>4, <1>5, <1>6, <1>7 DEF ReceiverUser

\* No step of anybody disturbs the types.
LEMMA TypeStep == TypeOK /\ WireInv /\ [Next]_vars => TypeOK' /\ WireInv'
<1> SUFFICES ASSUME TypeOK, WireInv, [Next]_vars
             PROVE  TypeOK' /\ WireInv'
  OBVIOUS
<1>1. CASE Sender
  BY <1>1, SenderType
<1>2. CASE Network \/ LaneStep \/ ReceiverUser
  BY <1>2, NetworkType, LaneType, UserType DEF WireInv, senderVars
<1>3. CASE UNCHANGED vars
  BY <1>3 DEF vars, senderVars, receiverVars, laneVars, catalogVars, TypeOK, WireInv
<1> QED
  BY <1>1, <1>2, <1>3 DEF Next

\* A batch starts well formed.
LEMMA InitType == Init => TypeOK /\ WireInv
<1> SUFFICES ASSUME Init PROVE TypeOK /\ WireInv
  OBVIOUS
<1>1. out \in OutRec
  <2>1. 0 \in 0 .. MaxWire
    BY WireAssumption
  <2> QED
    BY <2>1, Zenon DEF Init, OutRec, OutState
<1>2. SenderOK /\ NetOK
  BY <1>1, NothingType DEF Init, SenderOK, NetOK
<1>3. LaneOK /\ StoreOK
  BY NothingType DEF Init, LaneOK, StoreOK
<1>4. TypeOK
  BY <1>2, <1>3, TypeParts DEF Init
<1> QED
  BY <1>4 DEF Init, WireInv, NoSlot

\* Both devices keep their types; in particular nothing is ever announced,
\* revoked or acknowledged under a wire id that was never minted.
THEOREM TypeInvariance == Spec => []TypeOK
BY InitType, TypeStep, PTL DEF Spec

-----------------------------------------------------------------------------
\* As long as the user has not declined anything, nothing on the receiving
\* side looks like a decline: no mark, no signal, no receipt.
NoDeclineInv ==
    "decline" \notin spent =>
      /\ ~row.declined /\ cancels = {} /\ decl.pc = "off"
      /\ job.pc # "epilogue" /\ ~job.final
      /\ \A w \in Wire, f \in Frame : receipts[w][f] # "cancelled"

\* What has happened has happened.
LEMMA SpentGrows ==
    ASSUME TypeOK, [Next]_vars
    PROVE  spent \subseteq spent'
<1>1. CASE Sender
  BY <1>1, SpendType DEF Sender, Drive, Negotiate, AnnounceSent, AnnounceFailed, FailPackage,
     OnAck, CleanUp, CancelPackage, ResendTransfer, SenderRestart, Vanish
<1>2. CASE Network
  BY <1>2, SpendType DEF Network, Arrive, Lose
<1>3. CASE LaneStep
  BY <1>3, SpendType DEF LaneStep, TakeNext, SeedReceipts, Replay, GateStep, StartFetch, AbortFetch, FetchDone,
     FetchFails, IngestFrame, IngestFails, AckSent, AckFails, EpilogueDone, EpilogueFails, Unlucky
<1>4. CASE ReceiverUser
  BY <1>4, SpendType DEF ReceiverUser, DeclineRead, DeclineMark, DeclineSignal, DeclineStamp,
     DeleteRecord, ReceiverRestart, RemoveFrame
<1>5. CASE UNCHANGED vars
  BY <1>5 DEF vars
<1> QED
  BY <1>1, <1>2, <1>3, <1>4, <1>5 DEF Next

\* A log without cancelled receipts is not a decline.
LEMMA NotCancelled ==
    ASSUME NEW r, \A f \in Frame : r[f] # "cancelled"
    PROVE  ~AllCancelled(r)
BY DEF AllCancelled, Covered

\* Nothing but a decline makes anything look like one.
LEMMA DeclineStep == TypeOK /\ NoDeclineInv /\ [Next]_vars => NoDeclineInv'
<1> SUFFICES ASSUME TypeOK, NoDeclineInv, [Next]_vars, "decline" \notin spent'
             PROVE  NoDeclineInv'
  BY DEF NoDeclineInv
<1> DEFINE Clean == \A w \in Wire, f \in Frame : receipts[w][f] # "cancelled"
<1>0. /\ job \in JobRec /\ row \in RowRec /\ job.wire \in Wire /\ row.wire \in Wire
      /\ receipts \in [Wire -> Receipts] /\ lane \in Seq(Message)
  BY DEF TypeOK, JobRec, JobPc, RowRec
<1>1. CASE "decline" \in spent
  <2>1. spent \subseteq spent'
    BY SpentGrows
  <2> QED
    BY <1>1, <2>1
<1>2. CASE "decline" \notin spent
  <2>0. /\ ~row.declined /\ cancels = {} /\ decl.pc = "off"
        /\ job.pc # "epilogue" /\ ~job.final /\ Clean
    BY <1>2 DEF NoDeclineInv
  <2> SUFFICES /\ ~row'.declined /\ cancels' = {} /\ decl'.pc = "off"
               /\ job'.pc # "epilogue" /\ ~job'.final /\ Clean'
    BY DEF NoDeclineInv
  <2>n. NoJob.pc = "idle" /\ ~NoJob.final /\ ~NoRow.declined /\ NoDecline.pc = "off"
    BY DEF NoJob, NoRow, NoDecline
  <2>s. \A w, s : s \in RowState => SetState(row, w, s).declined = row.declined
    BY <1>0, SetStateType
  <2>1. CASE Sender
    <3>1. UNCHANGED receiverVars
      BY <2>1 DEF Sender, Drive, Negotiate, AnnounceSent, AnnounceFailed, FailPackage,
         OnAck, CleanUp, CancelPackage, ResendTransfer, SenderRestart, Vanish
    <3> QED
      BY <2>0, <3>1 DEF receiverVars, laneVars, catalogVars
  <2>2. CASE Network
    BY <2>0, <2>2 DEF Network, Arrive, Lose, receiverVars, laneVars, catalogVars
  <2>3. CASE TakeNext
    <3>1. Head(lane) \in Message /\ Head(lane).wire \in Wire
      BY <1>0, <2>3, MessageKinds DEF TakeNext
    <3>2. CASE Head(lane).type = "announce"
      <4>1. HandleAnnounce(Head(lane)) /\ UNCHANGED <<cancels, decl>>
        BY <2>3, <3>2 DEF TakeNext
      <4>2. /\ ~row'.declined /\ job'.pc # "epilogue" /\ ~job'.final
            /\ receipts' = receipts
        BY <2>0, <3>1, <3>2, <4>1, AnnounceType
      <4> QED
        BY <2>0, <4>1, <4>2
    <3>3. CASE Head(lane).type # "announce"
      <4>1. HandleRevoke(Head(lane)) /\ Head(lane).reason \in Reason
            /\ UNCHANGED <<cancels, decl>>
        BY <2>3, <3>1, <3>3, MessageKinds DEF TakeNext
      <4>2. RevokedState(Head(lane).reason) \in RowState
        BY <4>1 DEF Reason, RevokedState, RowState
      <4>3. row'.declined = row.declined
        BY <2>s, <4>1, <4>2 DEF HandleRevoke
      <4> QED
        BY <2>0, <4>1, <4>3 DEF HandleRevoke
    <3> QED
      BY <3>2, <3>3
  <2>4. CASE GateStep \/ AbortFetch
    <3>1. UNCHANGED <<cancels, decl, receipts>> /\ row' = row
      BY <2>0, <2>4 DEF GateStep, AbortFetch
    <3>2. job' = NoJob \/ job' = [job EXCEPT !.pc = "admitted"]
      BY <2>0, <2>4 DEF GateStep, AbortFetch
    <3>3. job'.pc # "epilogue" /\ ~job'.final
      <4>1. "admitted" \in JobPc /\ {} \in SUBSET Frame
        BY DEF JobPc
      <4>2. /\ [job EXCEPT !.pc = "admitted"].pc = "admitted"
            /\ [job EXCEPT !.pc = "admitted"].final = job.final
        BY <1>0, <4>1, JobMoves
      <4> QED
        BY <2>0, <2>n, <3>2, <4>2
    <3> QED
      BY <2>0, <3>1, <3>3
  <2>5. CASE StartFetch \/ \E bad \in SUBSET Frame : FetchDone(bad)
    <3>1. /\ UNCHANGED <<cancels, decl, receipts>>
          /\ job'.pc # "epilogue" /\ ~job'.final
      <4>0. "fetch" \in JobPc /\ "ingest" \in JobPc /\ {} \in SUBSET Frame
        BY DEF JobPc
      <4>1. CASE StartFetch
        <5>1. job' = [job EXCEPT !.pc = "fetch"] /\ UNCHANGED <<cancels, decl, receipts>>
          BY <4>1 DEF StartFetch
        <5>2. job'.pc = "fetch" /\ job'.final = job.final
          BY <1>0, <4>0, <5>1, JobMoves
        <5> QED
          BY <2>0, <5>1, <5>2
      <4>2. ASSUME NEW bad \in SUBSET Frame, FetchDone(bad)
            PROVE  /\ UNCHANGED <<cancels, decl, receipts>>
                   /\ job'.pc # "epilogue" /\ ~job'.final
        <5>1. job' = [job EXCEPT !.pc = "ingest", !.bad = bad] /\ UNCHANGED <<cancels, decl, receipts>>
          BY <4>2 DEF FetchDone
        <5>2. job'.pc = "ingest" /\ job'.final = job.final
          BY <1>0, <4>0, <5>1, JobMoves
        <5> QED
          BY <2>0, <5>1, <5>2
      <4> QED
        BY <2>5, <4>1, <4>2
    <3>2. \E s \in RowState : row' = SetState(row, job.wire, s)
      BY <2>5 DEF StartFetch, FetchDone, RowState
    <3> QED
      BY <2>0, <2>s, <3>1, <3>2
  <2>6. CASE FetchFails \/ IngestFails \/ AckSent \/ AckFails
    <3>1. UNCHANGED <<cancels, decl, receipts>> /\ job' = NoJob
      BY <2>6 DEF FetchFails, IngestFails, AckSent, AckFails
    <3>2. \E s \in RowState : row' = SetState(row, job.wire, s)
      BY <2>6 DEF FetchFails, IngestFails, AckSent, AckFails, Ending, RowState
    <3> QED
      BY <2>0, <2>n, <2>s, <3>1, <3>2
  <2>7. CASE \E f \in Frame : IngestFrame(f)
    <3>1. PICK f \in Frame : IngestFrame(f)
      BY <2>7
    <3>2. UNCHANGED <<cancels, decl, row>> /\ job'.pc = job.pc /\ job'.final = job.final
      BY <1>0, <3>1 DEF IngestFrame, JobRec
    <3>3. Clean'
      BY <2>0, <3>1, IngestType
    <3> QED
      BY <2>0, <3>2, <3>3
  <2>8. CASE EpilogueDone \/ EpilogueFails
    BY <2>0, <2>8 DEF EpilogueDone, EpilogueFails
  <2>9. CASE DeclineRead \/ DeclineMark \/ DeclineSignal \/ DeclineStamp
    BY <2>0, <2>9, SpendType DEF DeclineRead, DeclineMark, DeclineSignal, DeclineStamp
  <2>10. CASE DeleteRecord \/ \E f \in Frame : RemoveFrame(f)
    BY <2>0, <2>n, <2>10 DEF DeleteRecord, RemoveFrame, laneVars, catalogVars
  <2>11. CASE ReceiverRestart
    <3>1. receipts' = [receipts EXCEPT ![job.wire] = Refused({})]
      <4>1. BeingRefused = {}
        BY <2>0 DEF BeingRefused, Seeded
      <4> QED
        BY <2>11, <4>1 DEF ReceiverRestart
    <3>2. Clean'
      <4>1. \A w \in Wire, g \in Frame :
              receipts'[w][g] = IF w = job.wire /\ g \in {} THEN "cancelled" ELSE receipts[w][g]
        <5>1. {} \in SUBSET Frame
          OBVIOUS
        <5> QED
          BY <3>1, <5>1, RefusedType
      <4> QED
        BY <2>0, <4>1
    <3>3. ~AllCancelled(receipts'[row.wire])
      BY <1>0, <3>2, NotCancelled
    <3>4. row' = row \/ \E s \in {"done", "waiting"} : row' = [row EXCEPT !.state = s]
      BY <2>11, <3>3 DEF ReceiverRestart, ReconcileRow
    <3>5. row'.declined = row.declined
      BY <1>0, <3>4, Zenon DEF RowRec
    <3> QED
      BY <2>0, <2>n, <2>11, <3>2, <3>5 DEF ReceiverRestart
  <2>12. CASE UNCHANGED vars
    BY <2>0, <2>12 DEF vars, receiverVars, laneVars
  <2>13. CASE SeedReceipts
    <3>1. UNCHANGED <<cancels, decl>>
      BY <2>13 DEF SeedReceipts
    <3>2. receipts' = receipts /\ ~row'.declined /\ job'.pc # "epilogue" /\ ~job'.final
      BY <2>0, <2>13, SeedType
    <3> QED
      BY <2>0, <3>1, <3>2
  <2>14. CASE Replay
    <3>1. UNCHANGED <<cancels, decl, receipts>>
      BY <2>14 DEF Replay
    <3>2. ~AllCancelled(receipts[job.wire])
      BY <1>0, <2>0, NotCancelled
    <3>3. ~row'.declined /\ job' = NoJob
      BY <2>0, <2>14, <3>2, ReplayType
    <3> QED
      BY <2>0, <2>n, <3>1, <3>3
  <2> QED
    BY <2>1, <2>2, <2>3, <2>4, <2>5, <2>6, <2>7, <2>8, <2>9, <2>10, <2>11, <2>12, <2>13, <2>14
    DEF Next, LaneStep, ReceiverUser
<1> QED
  BY <1>1, <1>2

\* What the receiver may be counted on for while nobody has declined.
LEMMA DeclineInvariance == Spec => [](TypeOK /\ WireInv /\ NoDeclineInv)
<1>1. Init => NoDeclineInv
  BY DEF Init, NoDeclineInv, NoRow, NoDecline, NoJob, NoReceipts
<1> QED
  BY <1>1, InitType, TypeStep, DeclineStep, PTL DEF Spec

\* No revoke, restart, replay or crash in the middle of anything ever leaves
\* a batch declined that its user did not decline.
THEOREM DeclinesAreTheUsers == Spec => []NoPhantomDecline
<1>1. NoDeclineInv => NoPhantomDecline
  BY DEF NoDeclineInv, NoPhantomDecline
<1> QED
  BY <1>1, DeclineInvariance, PTL

-----------------------------------------------------------------------------
\* A message in the lane's queue that is not its head is still there, one
\* place further on, when the head is taken.
LEMMA TailKeeps ==
    ASSUME lane \in Seq(Message), lane # <<>>, NEW i \in 1 .. Len(lane), i # 1
    PROVE  i - 1 \in 1 .. Len(Tail(lane)) /\ Tail(lane)[i - 1] = lane[i]
OBVIOUS

\* An entry of aborts comes with its revoke and leaves with it.
LEMMA AbortStep == TypeOK /\ AbortsAreQueued /\ [Next]_vars => AbortsAreQueued'
<1> SUFFICES ASSUME TypeOK, AbortsAreQueued, [Next]_vars
             PROVE  AbortsAreQueued'
  OBVIOUS
<1>0. lane \in Seq(Message)
  BY DEF TypeOK
<1>1. ASSUME NEW m \in toR, Arrive(m) PROVE AbortsAreQueued'
  <2> SUFFICES ASSUME NEW w \in aborts'
               PROVE  \E i \in 1 .. Len(lane') : lane'[i].type = "revoke" /\ lane'[i].wire = w
    BY DEF AbortsAreQueued
  <2>1. lane' = Append(lane, m) /\ m \in Message
    BY <1>1 DEF Arrive, TypeOK
  <2>2. /\ Len(lane') = Len(lane) + 1 /\ Len(lane) \in Nat /\ lane'[Len(lane) + 1] = m
        /\ \A i \in 1 .. Len(lane) : lane'[i] = lane[i]
    BY <1>0, <2>1
  <2>3. CASE w \in aborts
    BY <2>2, <2>3 DEF AbortsAreQueued
  <2>4. CASE w \notin aborts
    <3>1. m.type = "revoke" /\ w = m.wire
      BY <1>1, <2>4 DEF Arrive
    <3> QED
      BY <2>2, <3>1
  <2> QED
    BY <2>3, <2>4
<1>2. CASE TakeNext
  <2> SUFFICES ASSUME NEW w \in aborts'
               PROVE  \E i \in 1 .. Len(lane') : lane'[i].type = "revoke" /\ lane'[i].wire = w
    BY DEF AbortsAreQueued
  <2>1. lane' = Tail(lane) /\ lane # <<>> /\ lane[1] = Head(lane)
    BY <1>0, <1>2 DEF TakeNext
  <2>2. w \in aborts /\ (lane[1].type # "announce" => w # lane[1].wire)
    BY <1>2, <2>1 DEF TakeNext, HandleRevoke
  <2>3. PICK i \in 1 .. Len(lane) : lane[i].type = "revoke" /\ lane[i].wire = w
    BY <2>2 DEF AbortsAreQueued
  <2>4. i # 1
    BY <2>2, <2>3
  <2>5. i - 1 \in 1 .. Len(lane') /\ lane'[i - 1] = lane[i]
    BY <1>0, <2>1, <2>4, TailKeeps
  <2> QED
    BY <2>3, <2>5
<1>3. CASE ReceiverRestart
  BY <1>3 DEF ReceiverRestart, AbortsAreQueued
<1>4. ASSUME UNCHANGED <<lane, aborts>> PROVE AbortsAreQueued'
  BY <1>4 DEF AbortsAreQueued
<1>5. CASE Sender
  <2>1. UNCHANGED receiverVars
    BY <1>5 DEF Sender, Drive, Negotiate, AnnounceSent, AnnounceFailed, FailPackage,
       OnAck, CleanUp, CancelPackage, ResendTransfer, SenderRestart, Vanish
  <2> QED
    BY <1>4, <2>1 DEF receiverVars, laneVars
<1>6. CASE Lose
  BY <1>4, <1>6 DEF Lose, receiverVars, laneVars
<1>7. CASE LaneStep /\ ~TakeNext
  BY <1>4, <1>7 DEF LaneStep, SeedReceipts, Replay, GateStep, StartFetch, AbortFetch, FetchDone,
     FetchFails, IngestFrame, IngestFails, AckSent, AckFails, EpilogueDone, EpilogueFails
<1>8. CASE ReceiverUser /\ ~ReceiverRestart
  BY <1>4, <1>8 DEF ReceiverUser, DeclineRead, DeclineMark, DeclineSignal, DeclineStamp,
     DeleteRecord, RemoveFrame, laneVars
<1>9. CASE UNCHANGED vars
  BY <1>4, <1>9 DEF vars, receiverVars, laneVars
<1> QED
  BY <1>1, <1>2, <1>3, <1>5, <1>6, <1>7, <1>8, <1>9 DEF Next, Network

\* The pump's early notice of a revoke never outlives the revoke: no later
\* fetch of the wire id is aborted with nothing written.
THEOREM AbortsComeFromRevokes == Spec => []AbortsAreQueued
<1>1. Init => AbortsAreQueued
  BY DEF Init, AbortsAreQueued
<1>2. TypeOK /\ WireInv /\ [Next]_vars => TypeOK' /\ WireInv'
  BY TypeStep
<1> QED
  BY <1>1, <1>2, InitType, AbortStep, PTL DEF Spec

-----------------------------------------------------------------------------
(***************************************************************************)
(* The refinement of Delivery, as long as nobody declines.                 *)
(***************************************************************************)
\* The engine drives only an open batch, and a payload is given up only for
\* a confirmed one.
DriveInv ==
    /\ slot.phase # "none" => Open
    /\ tail => out.state = "confirmed"

\* A receipt that is not a rejection, kept or on its way, is of a frame the
\* receiver has stored; so is every frame the sender does not announce.
StoredInv ==
    "decline" \notin spent =>
      /\ \A w \in Wire, f \in Frame : receipts[w][f] \in {"ingested", "duplicate"} => f \in stored
      /\ \A a \in toS, f \in Frame : a.receipts[f] # "cancelled" /\
                                     (a.receipts[f] \in {"ingested", "duplicate"} => f \in stored)
      /\ slot.phase \in {"negotiated", "announced"} => Frame \ slot.want \subseteq stored

\* The engine's slot and the tail belong to the row they were made for.
LEMMA DriveStep == TypeOK /\ DriveInv /\ [Next]_vars => DriveInv'
<1> SUFFICES ASSUME TypeOK, DriveInv, [Next]_vars PROVE DriveInv'
  OBVIOUS
<1>0. out \in OutRec /\ slot \in SlotRec
  BY TypeParts DEF TypeOK, OutRec, SlotRec
<1> USE DEF DriveInv, Open
<1>n. NoSlot.phase = "none"
  BY DEF NoSlot
<1>1. CASE Drive
  BY <1>1 DEF Drive
<1>2. CASE Negotiate
  <2>1. CASE slot' = NoSlot
    BY <1>n, <1>2, <2>1 DEF Negotiate, ConfirmDuplicate
  <2>2. CASE \E lacking \in {Frame \ held, Frame} \ {{}} :
                 /\ slot' = [slot EXCEPT !.phase = "negotiated", !.want = lacking]
                 /\ out' = [out EXCEPT !.wire = IF out.wire = 0 THEN 1 ELSE out.wire]
    <3>1. out'.state = out.state
      BY <1>0, <2>2, Zenon DEF OutRec
    <3>2. slot.phase = "new" /\ tail' = tail
      BY <1>2 DEF Negotiate
    <3> QED
      BY <3>1, <3>2
  <2> QED
    BY <1>2, <2>1, <2>2 DEF Negotiate, ConfirmDuplicate
<1>3. CASE AnnounceSent
  <2>1. out'.state = "transferring"
    BY <1>0, <1>3, OutType DEF AnnounceSent, OutState
  <2>2. slot.phase # "none" /\ tail' = tail
    BY <1>3 DEF AnnounceSent
  <2> QED
    BY <2>1, <2>2
<1>4. CASE AnnounceFailed
  BY <1>4 DEF AnnounceFailed
<1>5. CASE FailPackage \/ CancelPackage
  <2>1. slot' = NoSlot /\ tail' = tail /\ Open
    BY <1>5 DEF FailPackage, CancelPackage
  <2> QED
    BY <1>n, <2>1
<1>6. ASSUME NEW ack \in toS, OnAck(ack) PROVE DriveInv'
  <2>1. CASE UNCHANGED senderVars
    BY <2>1 DEF senderVars
  <2>2. CASE slot' = NoSlot /\ tail' = tail /\ slot.phase = "announced"
    BY <1>n, <2>2
  <2>3. CASE slot' = NoSlot /\ out' = [out EXCEPT !.state = "confirmed"]
    BY <1>0, <1>n, <2>3, OutType DEF OutState
  <2> QED
    BY <1>6, <2>1, <2>2, <2>3 DEF OnAck
<1>7. CASE CleanUp \/ Vanish
  BY <1>7 DEF CleanUp, Vanish
<1>8. CASE ResendTransfer
  <2>1. out'.state = "queued" /\ UNCHANGED <<slot, tail>> /\ ~tail
    BY <1>8 DEF ResendTransfer
  <2> QED
    BY <2>1
<1>9. CASE SenderRestart
  BY <1>n, <1>9 DEF SenderRestart
<1>10. CASE Network \/ LaneStep \/ ReceiverUser
  BY <1>10, NetworkType, LaneType, UserType DEF senderVars
<1>11. CASE UNCHANGED vars
  BY <1>11 DEF vars, senderVars
<1> QED
  BY <1>1, <1>2, <1>3, <1>4, <1>5, <1>6, <1>7, <1>8, <1>9, <1>10, <1>11 DEF Next, Sender

\* Every receipt written and every ack sent speaks of frames that are stored.
LEMMA StoredStep ==
    ASSUME TypeOK, NoDeclineInv, StoredInv, [Next]_vars
    PROVE  StoredInv'
<1> SUFFICES ASSUME "decline" \notin spent' PROVE StoredInv'
  BY DEF StoredInv
<1> DEFINE Good(r) == \A f \in Frame : r[f] # "cancelled" /\
                                       (r[f] \in {"ingested", "duplicate"} => f \in stored)
           Wanted == slot.phase \in {"negotiated", "announced"} => Frame \ slot.want \subseteq stored
<1>d. "decline" \notin spent
  BY SpentGrows
<1>0. /\ slot \in SlotRec /\ held \subseteq stored /\ stored \subseteq Frame
      /\ lane \in Seq(Message) /\ job.wire \in Wire /\ job.frames \in SUBSET Frame
  BY DEF TypeOK, SlotRec
<1>1. /\ \A w \in Wire : Good(receipts[w])
      /\ \A a \in toS : Good(a.receipts)
      /\ Wanted
      /\ ~job.final /\ job.pc # "epilogue" /\ decl.pc = "off"
  BY <1>d DEF StoredInv, NoDeclineInv
<1>2. ASSUME \A w \in Wire, f \in Frame : receipts'[w][f] = "cancelled" => receipts[w][f] = "cancelled",
             \A w \in Wire, f \in Frame : receipts'[w][f] \in {"ingested", "duplicate"}
                                            => f \in stored \/ f \in stored',
             \A a \in toS' : a \in toS \/ Good(a.receipts),
             stored \subseteq stored', Wanted'
      PROVE  StoredInv'
  BY <1>1, <1>2 DEF StoredInv
<1>3. ASSUME \A w \in Wire, f \in Frame : receipts'[w][f] = receipts[w][f],
             \A a \in toS' : a \in toS \/ Good(a.receipts),
             UNCHANGED <<slot, stored>>
      PROVE  StoredInv'
  <2>1. Wanted'
    BY <1>1, <1>3
  <2> QED
    BY <1>1, <1>2, <1>3, <2>1
<1>4. CASE Sender
  <2>1. UNCHANGED receiverVars /\ toS' \subseteq toS
    BY <1>4 DEF Sender, Drive, Negotiate, AnnounceSent, AnnounceFailed, FailPackage,
       OnAck, CleanUp, CancelPackage, ResendTransfer, SenderRestart, Vanish
  <2>2. UNCHANGED <<receipts, stored>>
    BY <2>1 DEF receiverVars, catalogVars
  <2>3. Wanted'
    <3>1. CASE Negotiate /\ slot' # NoSlot
      <4>1. PICK lacking \in {Frame \ held, Frame} :
              slot' = [slot EXCEPT !.phase = "negotiated", !.want = lacking]
        BY <3>1 DEF Negotiate, ConfirmDuplicate
      <4>2. slot'.want = lacking
        BY <1>0, <4>1, Zenon DEF SlotRec
      <4> QED
        BY <1>0, <2>2, <4>2
    <3>2. CASE AnnounceSent \/ AnnounceFailed
      <4>1. slot'.want = slot.want
        BY <1>0, <3>2, Zenon DEF AnnounceSent, AnnounceFailed, SlotRec
      <4>2. slot.phase \in {"negotiated", "announced"}
        BY <3>2 DEF AnnounceSent, AnnounceFailed
      <4> QED
        BY <1>1, <2>2, <4>1, <4>2
    <3>3. CASE slot' = NoSlot
      BY <3>3 DEF NoSlot
    <3>4. CASE slot'.phase = "new" \/ slot' = slot
      BY <1>1, <2>2, <3>4
    <3>5. Drive => slot'.phase = "new"
      BY DEF Drive
    <3> QED
      BY <1>4, <3>1, <3>2, <3>3, <3>4, <3>5 DEF Sender, FailPackage,
         OnAck, CleanUp, CancelPackage, ResendTransfer, SenderRestart, Vanish, senderVars
  <2> QED
    BY <1>1, <1>2, <2>1, <2>2, <2>3
<1>5. CASE Network
  <2>1. UNCHANGED <<receipts, slot, stored>> /\ toS' \subseteq toS
    BY <1>5 DEF Network, Arrive, Lose, receiverVars, catalogVars, senderVars
  <2> QED
    BY <1>3, <2>1
<1>6. CASE TakeNext
  <2>2. CASE Head(lane).type = "announce"
    BY <1>3, <1>6, <2>2 DEF TakeNext, HandleAnnounce, catalogVars, senderVars
  <2>3. CASE Head(lane).type # "announce"
    BY <1>3, <1>6, <2>3 DEF TakeNext, HandleRevoke, catalogVars, senderVars
  <2> QED
    BY <2>2, <2>3
<1>7. CASE AckSent \/ AckFails
  <2>1. Good(Verdicts)
    BY <1>0, <1>1 DEF Verdicts
  <2>2. \A a \in toS' : a \in toS \/ a.receipts = Verdicts
    BY <1>7 DEF AckSent, AckFails
  <2>3. UNCHANGED <<receipts, slot, stored>>
    BY <1>7 DEF AckSent, AckFails, catalogVars, senderVars
  <2>4. \A a \in toS' : a \in toS \/ Good(a.receipts)
    BY <2>1, <2>2
  <2> QED
    BY <1>3, <2>3, <2>4
<1>8. ASSUME NEW f \in Frame, IngestFrame(f) PROVE StoredInv'
  <2>1. UNCHANGED <<toS, slot>>
    BY <1>8 DEF IngestFrame, senderVars
  <2>2. /\ stored \subseteq stored'
        /\ \A w \in Wire, g \in Frame :
             \/ receipts'[w][g] = receipts[w][g]
             \/ receipts'[w][g] # "cancelled"
                /\ (receipts'[w][g] \in {"ingested", "duplicate"} => g \in stored')
    BY <1>8, IngestType
  <2>3. Wanted'
    BY <1>1, <2>1, <2>2
  <2> QED
    BY <1>1, <1>2, <2>1, <2>2, <2>3
<1>9. CASE EpilogueDone \/ EpilogueFails \/ DeclineRead \/ DeclineMark \/ DeclineSignal \/ DeclineStamp
  BY <1>1, <1>9, SpendType DEF EpilogueDone, EpilogueFails, DeclineRead, DeclineMark,
     DeclineSignal, DeclineStamp
<1>10. CASE ReceiverRestart
  <2>0. BeingRefused = {}
    BY <1>1 DEF BeingRefused, Seeded
  <2>1. receipts' = [receipts EXCEPT ![job.wire] = Refused({})] /\ {} \in SUBSET Frame
    BY <1>10, <2>0 DEF ReceiverRestart
  <2>2. \A w \in Wire, g \in Frame :
          receipts'[w][g] = IF w = job.wire /\ g \in {} THEN "cancelled" ELSE receipts[w][g]
    BY <2>1, RefusedType
  <2>3. UNCHANGED <<toS, slot, stored>>
    BY <1>10 DEF ReceiverRestart, catalogVars, senderVars
  <2> QED
    BY <1>3, <2>2, <2>3
<1>11. CASE \/ GateStep \/ StartFetch \/ AbortFetch \/ FetchFails \/ IngestFails
            \/ \E bad \in SUBSET Frame : FetchDone(bad)
  <2>1. UNCHANGED <<receipts, toS, slot, stored>>
    BY <1>11 DEF GateStep, StartFetch, AbortFetch, FetchFails, IngestFails, FetchDone,
       catalogVars, senderVars
  <2> QED
    BY <1>3, <2>1
<1>12. CASE DeleteRecord \/ \E f \in Frame : RemoveFrame(f)
  <2>1. UNCHANGED <<receipts, toS, slot, stored>>
    BY <1>12 DEF DeleteRecord, RemoveFrame, catalogVars, senderVars
  <2> QED
    BY <1>3, <2>1
<1>13. CASE UNCHANGED vars
  BY <1>3, <1>13 DEF vars, receiverVars, catalogVars, senderVars
<1>14. CASE SeedReceipts
  <2>1. UNCHANGED <<toS, slot, stored>> /\ receipts' = receipts
    BY <1>1, <1>14, SeedType DEF SeedReceipts, catalogVars, senderVars
  <2> QED
    BY <1>3, <2>1
<1>15. CASE Replay
  <2>1. UNCHANGED <<receipts, slot, stored>>
    BY <1>15 DEF Replay, catalogVars, senderVars
  <2>2. toS' = toS \cup {[wire |-> job.wire, receipts |-> receipts[job.wire]]}
    BY <1>15, ReplayType
  <2>3. Good(receipts[job.wire])
    BY <1>0, <1>1
  <2>4. \A a \in toS' : a \in toS \/ Good(a.receipts)
    BY <2>2, <2>3
  <2> QED
    BY <1>3, <2>1, <2>4
<1> QED
  BY <1>4, <1>5, <1>6, <1>7, <1>8, <1>9, <1>10, <1>11, <1>12, <1>13, <1>14, <1>15
  DEF Next, LaneStep, ReceiverUser

-----------------------------------------------------------------------------
\* The status of a batch changes only with the state of its row.
LEMMA StatusOf ==
    ASSUME out \in OutRec
    PROVE  /\ Open => Status = "open"
           /\ out.state = "confirmed" => Status = "delivered"
           /\ out.state \in {"failed", "cancelled"} => Status = "closed"
BY DEF Status, Open, OutRec, OutState

\* An ack that completes a batch answers for every frame of it.
LEMMA CompleteIsStored ==
    ASSUME TypeOK, StoredInv, "decline" \notin spent, slot.phase = "announced",
           NEW ack \in toS, Complete(ack)
    PROVE  stored = Frame
<1>1. /\ ack.receipts \in Receipts /\ stored \subseteq Frame
      /\ Frame \ slot.want \subseteq stored
      /\ \A f \in Frame : ack.receipts[f] # "cancelled" /\
                          (ack.receipts[f] \in {"ingested", "duplicate"} => f \in stored)
  BY DEF TypeOK, Ack, StoredInv
<1>2. \A f \in slot.want : f \in Frame => f \in stored
  BY <1>1 DEF Complete, Covered, Receipts, Outcome
<1> QED
  BY <1>1, <1>2

\* Every step of the two devices is a step of Delivery, or none.
LEMMA DeliveryStep ==
    ASSUME TypeOK, TypeOK', DriveInv, StoredInv, "decline" \notin spent, [Next]_vars
    PROVE  [Abstract!Next]_(Abstract!vars)
<1>0. out \in OutRec /\ out' \in OutRec /\ held \subseteq stored /\ stored \subseteq Frame
  BY DEF TypeOK, OutRec
<1>s. /\ Open' => Status' = "open"
      /\ out'.state = "confirmed" => Status' = "delivered"
      /\ out'.state \in {"failed", "cancelled"} => Status' = "closed"
  BY <1>0 DEF Status, Open, OutRec, OutState
<1>f. out'.state = out.state => Status' = Status
  BY DEF Status, Open
<1> USE DEF Abstract!Next, Abstract!vars
<1>1. CASE Drive \/ AnnounceFailed
  BY <1>1, <1>f DEF Drive, AnnounceFailed, receiverVars, catalogVars
<1>2. CASE Negotiate
  <2>0. Status = "open" /\ stored' = stored
    BY <1>0, <1>2, StatusOf DEF Negotiate, DriveInv, receiverVars, catalogVars
  <2>1. CASE out' = [out EXCEPT !.wire = IF out.wire = 0 THEN 1 ELSE out.wire] /\ payload' = payload
    <3>1. out'.state = out.state
      BY <1>0, <2>1, Zenon DEF OutRec
    <3> QED
      BY <1>f, <2>0, <2>1, <3>1
  <2>2. CASE Frame \subseteq held /\ payload' \in {payload, "manifest"} /\ out'.state = "confirmed"
    <3>1. stored = Frame /\ Status' = "delivered"
      BY <1>0, <1>s, <2>2
    <3> QED
      BY <2>0, <2>2, <3>1 DEF Abstract!Deliver
  <2> DEFINE w == IF out.wire = 0 THEN 1 ELSE out.wire
  <2>3. CASE \E lacking \in {Frame \ held, Frame} \ {{}} :
                 /\ slot' = [slot EXCEPT !.phase = "negotiated", !.want = lacking]
                 /\ out' = [out EXCEPT !.wire = w]
                 /\ UNCHANGED <<payload, toR>>
    <3>1. out' = [out EXCEPT !.wire = w] /\ payload' = payload
      BY <2>3, Zenon
    <3> QED
      BY <2>1, <3>1
  <2>4. CASE Frame \subseteq held /\ ConfirmDuplicate(w)
    BY <2>2, <2>4 DEF ConfirmDuplicate
  <2> QED
    BY <1>2, <2>3, <2>4 DEF Negotiate
<1>3. CASE AnnounceSent
  <2>1. Open /\ out'.state = "transferring"
    BY <1>0, <1>3, OutType DEF AnnounceSent, DriveInv, OutState
  <2>2. Status = "open" /\ Status' = "open"
    BY <1>0, <1>s, <2>1, StatusOf DEF Open
  <2> QED
    BY <1>3, <2>2 DEF AnnounceSent, receiverVars, catalogVars
<1>4. CASE FailPackage \/ CancelPackage
  <2>1. Open /\ out'.state \in {"failed", "cancelled"}
    <3>1. Open
      BY <1>4 DEF FailPackage, CancelPackage, DriveInv
    <3>2. \E s \in {"failed", "cancelled"} : out' = [out EXCEPT !.state = s]
      BY <1>4 DEF FailPackage, CancelPackage
    <3>3. PICK s \in {"failed", "cancelled"} : out' = [out EXCEPT !.state = s]
      BY <3>2
    <3>4. s \in OutState
      BY DEF OutState
    <3> QED
      BY <1>0, <3>1, <3>3, <3>4, OutType
  <2>2. Status = "open" /\ Status' = "closed"
    BY <1>0, <1>s, <2>1, StatusOf
  <2> QED
    BY <1>4, <2>2 DEF FailPackage, CancelPackage, receiverVars, catalogVars, Abstract!Close
<1>5. ASSUME NEW ack \in toS, OnAck(ack) PROVE [Abstract!Next]_(Abstract!vars)
  <2>0. stored' = stored
    BY <1>5 DEF OnAck, receiverVars, catalogVars
  <2>1. CASE UNCHANGED senderVars
    BY <1>f, <2>0, <2>1 DEF senderVars
  <2>2. CASE /\ slot.phase = "announced" /\ payload' = payload
             /\ out' = [out EXCEPT !.state = "cancelled", !.byPeer = TRUE]
    <3>1. Open /\ out'.state = "cancelled"
      BY <1>0, <2>2, OutType DEF DriveInv, OutState
    <3>2. Status = "open" /\ Status' = "closed"
      BY <1>0, <1>s, <3>1, StatusOf
    <3> QED
      BY <2>0, <2>2, <3>2 DEF Abstract!Close
  <2>3. CASE /\ slot.phase = "announced" /\ Complete(ack) /\ payload' = payload
             /\ out' = [out EXCEPT !.state = "confirmed"]
    <3>1. Open /\ out'.state = "confirmed"
      BY <1>0, <2>3, OutType DEF DriveInv, OutState
    <3>2. Status = "open" /\ Status' = "delivered" /\ stored = Frame
      BY <1>0, <1>s, <1>5, <2>3, <3>1, StatusOf, CompleteIsStored
    <3> QED
      BY <2>0, <2>3, <3>2 DEF Abstract!Deliver
  <2> QED
    BY <1>5, <2>1, <2>2, <2>3 DEF OnAck
<1>6. CASE CleanUp \/ SenderRestart
  <2>1. out' = out /\ stored' = stored
    BY <1>6 DEF CleanUp, SenderRestart, receiverVars, catalogVars
  <2>2. payload' = payload \/ (payload = "full" /\ payload' = "manifest" /\ out.state = "confirmed")
    BY <1>6 DEF CleanUp, SenderRestart, DriveInv
  <2>3. Status' = Status /\ (out.state = "confirmed" => Status = "delivered")
    BY <1>0, <1>f, <2>1, StatusOf
  <2> QED
    BY <2>1, <2>2, <2>3 DEF Abstract!Reclaim
<1>7. CASE ResendTransfer
  <2>1. Status = "closed" /\ Status' = "open"
    BY <1>0, <1>s, <1>7, StatusOf DEF ResendTransfer, Open
  <2> QED
    BY <1>7, <2>1 DEF ResendTransfer, receiverVars, catalogVars, Abstract!Reopen
<1>8. CASE Vanish
  BY <1>8, <1>f DEF Vanish, receiverVars, catalogVars, Abstract!Vanish
<1>9. ASSUME NEW f \in Frame, IngestFrame(f) PROVE [Abstract!Next]_(Abstract!vars)
  <2>1. UNCHANGED <<out, payload>>
    BY <1>9 DEF IngestFrame, senderVars
  <2>2. stored' = stored \/ stored' = stored \cup {f}
    BY <1>9, IngestType
  <2>3. Status' = Status
    BY <1>f, <2>1
  <2>4. CASE f \in stored \/ stored' = stored
    BY <2>1, <2>2, <2>3, <2>4
  <2>5. CASE f \notin stored /\ stored' = stored \cup {f}
    BY <2>1, <2>3, <2>5 DEF Abstract!Store
  <2> QED
    BY <2>2, <2>4, <2>5
<1>10. CASE Network \/ (LaneStep /\ ~\E f \in Frame : IngestFrame(f)) \/ ReceiverUser
  <2>1. UNCHANGED <<out, payload>>
    BY <1>10, NetworkType, LaneType, UserType DEF senderVars
  <2>2. stored' = stored
    <3>1. CASE Network
      BY <3>1 DEF Network, Arrive, Lose, receiverVars, catalogVars
    <3>2. CASE LaneStep /\ ~\E f \in Frame : IngestFrame(f)
      BY <3>2 DEF LaneStep, TakeNext, SeedReceipts, Replay, GateStep, StartFetch, AbortFetch, FetchDone, FetchFails,
         IngestFails, AckSent, AckFails, EpilogueDone, EpilogueFails, catalogVars
    <3>3. CASE ReceiverUser
      BY <3>3 DEF ReceiverUser, DeclineRead, DeclineMark, DeclineSignal, DeclineStamp,
         DeleteRecord, ReceiverRestart, RemoveFrame, catalogVars
    <3> QED
      BY <1>10, <3>1, <3>2, <3>3
  <2> QED
    BY <1>f, <2>1, <2>2
<1>11. CASE UNCHANGED vars
  BY <1>11, <1>f DEF vars, senderVars, receiverVars, catalogVars
<1> QED
  BY <1>1, <1>2, <1>3, <1>4, <1>5, <1>6, <1>7, <1>8, <1>9, <1>10, <1>11 DEF Next, Sender

\* The protocol implements Delivery, whatever is lost, reordered, retried,
\* revoked or killed on either side, as long as the receiving user declines
\* nothing: on_ack confirms a batch only when the peer has stored all of it,
\* and only then is the payload given up.
THEOREM ProtocolDelivers == Spec /\ []("decline" \notin spent) => Delivers
<1>1. Init => DriveInv /\ StoredInv /\ NoDeclineInv /\ Abstract!Init
  <2> SUFFICES ASSUME Init PROVE DriveInv /\ StoredInv /\ NoDeclineInv /\ Abstract!Init
    OBVIOUS
  <2>1. DriveInv
    BY DEF Init, DriveInv, NoSlot
  <2>2. StoredInv
    BY DEF Init, StoredInv, NoSlot, NoReceipts
  <2>3. NoDeclineInv
    BY DEF Init, NoDeclineInv, NoRow, NoDecline, NoJob, NoReceipts
  <2>4. Status = "open"
    BY DEF Init, Status, Open
  <2> QED
    BY <2>1, <2>2, <2>3, <2>4 DEF Init, Abstract!Init
<1>2. TypeOK /\ NoDeclineInv /\ StoredInv /\ [Next]_vars => StoredInv'
  BY StoredStep
<1>3. TypeOK /\ TypeOK' /\ DriveInv /\ StoredInv /\ "decline" \notin spent /\ [Next]_vars
        => [Abstract!Next]_(Abstract!vars)
  BY DeliveryStep
<1> QED
  BY <1>1, <1>2, <1>3, InitType, TypeStep, DeclineStep, DriveStep, PTL
  DEF Spec, Delivers, Abstract!Spec
=============================================================================
