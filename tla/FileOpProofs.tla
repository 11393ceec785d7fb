---------------------------- MODULE FileOpProofs ----------------------------
(***************************************************************************)
(* Proofs about FileOp, for any directories, files, catalog and requests,  *)
(* any number of operations, faults and crashes.                           *)
(***************************************************************************)
EXTENDS FileOp, SequenceTheorems, WellFoundedInduction, TLAPS

-----------------------------------------------------------------------------
(***************************************************************************)
(* Sequences and least elements.                                           *)
(***************************************************************************)
\* Replacing an element by one of the same kind keeps a sequence's type.
LEMMA SeqUpdate ==
    ASSUME NEW S, NEW s \in Seq(S), NEW i, NEW v, i \in DOMAIN s => v \in S
    PROVE  /\ [s EXCEPT ![i] = v] \in Seq(S)
           /\ Len([s EXCEPT ![i] = v]) = Len(s)
           /\ DOMAIN [s EXCEPT ![i] = v] = DOMAIN s
<1> DEFINE t == [s EXCEPT ![i] = v]
<1>1. DOMAIN t = 1..Len(s) /\ DOMAIN s = 1..Len(s) /\ Len(s) \in Nat
  OBVIOUS
<1>2. \A k \in 1..Len(s) : t[k] = IF k = i THEN v ELSE s[k]
  BY <1>1
<1>3. \A k \in 1..Len(s) : s[k] \in S
  OBVIOUS
<1>4. t = [k \in 1..Len(s) |-> t[k]]
  BY <1>1
<1> HIDE DEF t
<1>5. t \in [1..Len(s) -> S]
  BY <1>1, <1>2, <1>3, <1>4
<1>6. t \in Seq(S) /\ Len(t) = Len(s) /\ DOMAIN t = DOMAIN s
  BY <1>1, <1>5
<1> QED
  BY <1>6 DEF t

\* A sequence over a set is one over every larger set.
LEMMA SeqWiden ==
    ASSUME NEW S, NEW T, S \subseteq T, NEW s \in Seq(S)
    PROVE  s \in Seq(T)
OBVIOUS

\* A function on the indices of a sequence is a sequence.
LEMMA SeqMap ==
    ASSUME NEW S, NEW n \in Nat, NEW f \in [1..n -> S]
    PROVE  f \in Seq(S) /\ Len(f) = n /\ DOMAIN f = 1..n
OBVIOUS

\* A non-empty set of ids has a first one.
LEMMA FirstIn ==
    ASSUME NEW ids, ids \subseteq Nat, ids # {}
    PROVE  First(ids) \in ids
<1> DEFINE Less == {ss \in Nat \X Nat : ss[1] < ss[2]}
<1>0. IsWellFoundedOn(Less, Nat)
  BY NatLessThanWellFounded DEF OpToRel
<1>1. PICK x \in ids : \A y \in ids : ~(<<y, x>> \in Less)
  BY <1>0, WFMin
<1>2. ASSUME NEW y \in ids PROVE x <= y
  <2>1. ~(<<y, x>> \in Less) /\ x \in Nat /\ y \in Nat
    BY <1>1
  <2>2. <<y, x>> \in Nat \X Nat /\ <<y, x>>[1] = y /\ <<y, x>>[2] = x
    BY <2>1
  <2>3. ~(y < x)
    BY <2>1, <2>2
  <2> QED
    BY <2>1, <2>3
<1>3. \E i \in ids : \A j \in ids : i <= j
  BY <1>2
<1> HIDE DEF Less
<1> QED
  BY <1>3, Zenon DEF First

-----------------------------------------------------------------------------
(***************************************************************************)
(* The shape of the state: types, references between the tables, and the   *)
(* registers the worker relies on.                                         *)
(***************************************************************************)
\* Where the worker is on a row.
RowLabels == {"rename", "renameCheck", "renameDo", "renameSync", "renameDone",
              "fallback", "copy", "copyCheck", "copyDo", "copying", "copied",
              "verify", "verifying", "commit", "commitSync", "commitRemove",
              "commitDone", "rowDone", "error"}

Keys ==
    /\ \A s \in DOMAIN steps : steps[s].file \in DOMAIN files
    /\ \A f \in DOMAIN files : files[f].op \in DOMAIN status

Registers ==
    /\ pc \in RowLabels => row \in DOMAIN files
    /\ pc \in {"healStep", "healRow"} => cands # {}

Shape == TypeOK /\ Keys /\ Registers

OpStatus == {"pending", "running", "completed", "failed", "cancelled"}

WorldType ==
    disk \in [Path -> Stored \cup {NoFile}] /\ catalog \in [CatId -> Path]

\* Everything but the two world variables, for the steps that share a frame.
RestShape ==
    /\ status \in Seq(OpStatus)
    /\ files \in Seq(FileRow)
    /\ steps \in Seq(StepRow)
    /\ queue \in Seq(0..Len(status))
    /\ cancel \subseteq DOMAIN status
    /\ plan \in Requests \cup {NoPlan}
    /\ pc \in Labels
    /\ op \in 0..Len(status)
    /\ todo \subseteq DOMAIN files
    /\ row \in 0..Len(files)
    /\ step \in 0..Len(steps) /\ outer \in 0..Len(steps)
    /\ prior \in BOOLEAN
    /\ cands \subseteq DOMAIN steps
    /\ healed \subseteq DOMAIN status
    /\ {faults, crashes, resumes, externals} \subseteq Nat
    /\ Keys /\ Registers

LEMMA ShapeSplit == Shape <=> WorldType /\ RestShape
BY DEF Shape, TypeOK, WorldType, RestShape, OpStatus

StepStatus == {"in_progress", "done", "failed"}

\* An edit of a step's status and hash is still a step.
LEMMA StepRowEdit ==
    ASSUME NEW r \in StepRow, NEW v \in StepStatus, NEW h \in Hashes \cup {NoHash}
    PROVE  /\ [r EXCEPT !.status = v] \in StepRow
           /\ [r EXCEPT !.status = v, !.hash = h] \in StepRow
BY DEF StepRow, StepStatus

RowDisp == {"pending", "in_progress", "done", "failed"}

\* The three kinds of edit the worker makes to the journal.
MarkStep(ss, i, v)     == [ss EXCEPT ![i].status = v]
CloseStep(ss, i, v, h) == [ss EXCEPT ![i] = [@ EXCEPT !.status = v, !.hash = h]]
MarkRow(fs, i, v)      == [fs EXCEPT ![i].disp = v]

\* A journal with the same steps, up to their status and hash.
SameSteps(tt, ss) ==
    /\ tt \in Seq(StepRow)
    /\ Len(tt) = Len(ss) /\ DOMAIN tt = DOMAIN ss
    /\ \A s \in DOMAIN ss : tt[s].file = ss[s].file /\ tt[s].stage = ss[s].stage

\* The same rows, with the disposition of one of them replaced.
SameRows(gs, fs, i, v) ==
    /\ gs \in Seq(FileRow)
    /\ Len(gs) = Len(fs) /\ DOMAIN gs = DOMAIN fs
    /\ \A f \in DOMAIN fs :
          /\ gs[f].op = fs[f].op
          /\ gs[f].src = fs[f].src /\ gs[f].dst = fs[f].dst /\ gs[f].cat = fs[f].cat
          /\ gs[f].disp = IF f = i THEN v ELSE fs[f].disp

\* Putting an edited copy of a step in its place keeps the journal's steps.
LEMMA StepPut ==
    ASSUME NEW ss \in Seq(StepRow), NEW i, NEW r, NEW tt,
           tt = [ss EXCEPT ![i] = r],
           i \in DOMAIN ss =>
               r \in StepRow /\ r.file = ss[i].file /\ r.stage = ss[i].stage
    PROVE  SameSteps(tt, ss)
<1>1. tt \in Seq(StepRow) /\ Len(tt) = Len(ss) /\ DOMAIN tt = DOMAIN ss
  BY SeqUpdate
<1>2. \A s \in DOMAIN ss : tt[s] = IF s = i THEN r ELSE ss[s]
  OBVIOUS
<1> QED
  BY <1>1, <1>2 DEF SameSteps

LEMMA MarkEdit ==
    ASSUME NEW ss \in Seq(StepRow), NEW i, NEW v \in StepStatus
    PROVE  SameSteps(MarkStep(ss, i, v), ss)
<1> DEFINE r == [ss[i] EXCEPT !.status = v]
<1>0. \A s \in DOMAIN ss : ss[s] \in StepRow
  OBVIOUS
<1>1. i \in DOMAIN ss => r \in StepRow
  BY <1>0, StepRowEdit
<1>2. MarkStep(ss, i, v) = [ss EXCEPT ![i] = r]
  BY DEF MarkStep
<1>3. i \in DOMAIN ss => r.file = ss[i].file /\ r.stage = ss[i].stage
  BY <1>0 DEF StepRow
<1> HIDE DEF r
<1> QED
  BY <1>1, <1>2, <1>3, StepPut

LEMMA CloseEdit ==
    ASSUME NEW ss \in Seq(StepRow), NEW i, NEW v \in StepStatus,
           NEW h \in Hashes \cup {NoHash}
    PROVE  SameSteps(CloseStep(ss, i, v, h), ss)
<1> DEFINE r == [ss[i] EXCEPT !.status = v, !.hash = h]
<1>0. \A s \in DOMAIN ss : ss[s] \in StepRow
  OBVIOUS
<1>1. i \in DOMAIN ss => r \in StepRow
  BY <1>0, StepRowEdit
<1>2. CloseStep(ss, i, v, h) = [ss EXCEPT ![i] = r]
  BY DEF CloseStep
<1>3. i \in DOMAIN ss => r.file = ss[i].file /\ r.stage = ss[i].stage
  BY <1>0 DEF StepRow
<1> HIDE DEF r
<1> QED
  BY <1>1, <1>2, <1>3, StepPut

LEMMA RowEdit ==
    ASSUME NEW fs \in Seq(FileRow), NEW i, NEW v \in RowDisp
    PROVE  SameRows(MarkRow(fs, i, v), fs, i, v)
<1> DEFINE r == [fs[i] EXCEPT !.disp = v]
           gs == MarkRow(fs, i, v)
<1>0. \A f \in DOMAIN fs : fs[f] \in FileRow
  OBVIOUS
<1>1. i \in DOMAIN fs => r \in FileRow
  BY <1>0 DEF FileRow, RowDisp
<1>2. gs = [fs EXCEPT ![i] = r]
  BY DEF MarkRow
<1>3. i \in DOMAIN fs =>
        /\ r.op = fs[i].op /\ r.src = fs[i].src /\ r.dst = fs[i].dst
        /\ r.cat = fs[i].cat /\ r.disp = v
  BY <1>0 DEF FileRow
<1> HIDE DEF r, gs
<1>4. gs \in Seq(FileRow) /\ Len(gs) = Len(fs) /\ DOMAIN gs = DOMAIN fs
  BY <1>1, <1>2, SeqUpdate
<1>5. \A f \in DOMAIN fs : gs[f] = IF f = i THEN r ELSE fs[f]
  BY <1>2
<1>6. SameRows(gs, fs, i, v)
  BY <1>3, <1>4, <1>5 DEF SameRows
<1> QED
  BY <1>6 DEF gs

-----------------------------------------------------------------------------
(***************************************************************************)
(* The shape is kept by each of the frames the worker's actions share.     *)
(***************************************************************************)
\* A move of the worker's position that touches no table.
LEMMA GoShape ==
    ASSUME RestShape, pc \in RowLabels, NEW next \in RowLabels, Go(next)
    PROVE  RestShape'
<1>1. next \in Labels /\ next \notin {"healStep", "healRow"}
  BY DEF RowLabels, Labels
<1> QED
  BY <1>1 DEF RestShape, Keys, Registers, Go, journal, intake, loop, heal, spent

LEMMA AbortShape ==
    ASSUME RestShape, pc \in RowLabels, Abort, faults' \in Nat
    PROVE  RestShape'
<1>1. "error" \in RowLabels \cap Labels
  BY DEF RowLabels, Labels
<1> QED
  BY <1>1 DEF RestShape, Keys, Registers, Abort, journal, intake, loop, heal, spent

\* A new step of the current row.
LEMMA OpenStepShape ==
    ASSUME RestShape, pc \in RowLabels, pc' \in RowLabels,
           NEW stage \in {"copy", "verify", "commit_move"}, OpenStep(stage),
           outer' = outer, prior' \in BOOLEAN
    PROVE  RestShape'
<1> DEFINE r == [file |-> row, stage |-> stage, status |-> "in_progress", hash |-> NoHash]
<1>1. row \in DOMAIN files /\ row \in Nat /\ steps \in Seq(StepRow)
  BY DEF RestShape, Registers
<1>2. r \in StepRow /\ r.file = row
  BY <1>1 DEF StepRow
<1> HIDE DEF r
<1>3. /\ steps' \in Seq(StepRow) /\ Len(steps') = Len(steps) + 1
      /\ \A s \in DOMAIN steps : s \in DOMAIN steps' /\ steps'[s] = steps[s]
      /\ \A s \in DOMAIN steps' : s \notin DOMAIN steps => steps'[s] = r
  <2>1. steps' = Append(steps, r)
    BY DEF OpenStep, r
  <2> QED
    BY <1>1, <1>2, <2>1
<1>4. Keys'
  BY <1>1, <1>2, <1>3 DEF Keys, RestShape, OpenStep
<1>5. Registers' /\ pc' \in Labels
  BY <1>1 DEF Registers, OpenStep, RowLabels, Labels
<1>6. step' \in 0..Len(steps') /\ outer' \in 0..Len(steps')
  BY <1>1, <1>3 DEF OpenStep, RestShape
<1>7. cands' \subseteq DOMAIN steps'
  BY <1>3 DEF OpenStep, RestShape, heal
<1> QED
  BY <1>3, <1>4, <1>5, <1>6, <1>7 DEF RestShape, OpenStep, intake, heal, spent

LEMMA StepDoneShape ==
    ASSUME RestShape, pc \in RowLabels, NEW next \in RowLabels,
           NEW hash \in Hashes \cup {NoHash}, StepDone(hash, next)
    PROVE  RestShape'
<1>1. /\ steps' \in Seq(StepRow) /\ Len(steps') = Len(steps)
      /\ DOMAIN steps' = DOMAIN steps
      /\ \A s \in DOMAIN steps : steps'[s].file = steps[s].file
  <2>1. /\ steps \in Seq(StepRow) /\ "done" \in StepStatus
        /\ steps' = CloseStep(steps, step, "done", hash)
    BY DEF RestShape, StepDone, StepStatus, CloseStep
  <2> QED
    BY <2>1, CloseEdit DEF SameSteps
<1>2. next \in Labels /\ next \notin {"healStep", "healRow"}
  BY DEF RowLabels, Labels
<1>3. Keys' /\ Registers'
  BY <1>1, <1>2 DEF RestShape, Keys, Registers, StepDone, intake, loop, heal
<1> QED
  BY <1>1, <1>2, <1>3 DEF RestShape, StepDone, intake, loop, heal, spent

LEMMA StepFailedShape ==
    ASSUME RestShape, pc \in RowLabels, NEW hash \in Hashes \cup {NoHash},
           StepFailed(hash), faults' \in Nat
    PROVE  RestShape'
<1>1. /\ steps' \in Seq(StepRow) /\ Len(steps') = Len(steps)
      /\ DOMAIN steps' = DOMAIN steps
      /\ \A s \in DOMAIN steps : steps'[s].file = steps[s].file
  <2>1. /\ steps \in Seq(StepRow) /\ "failed" \in StepStatus
        /\ steps' = CloseStep(steps, step, "failed", hash)
    BY DEF RestShape, StepFailed, StepStatus, CloseStep
  <2> QED
    BY <2>1, CloseEdit DEF SameSteps
<1>2. /\ files' \in Seq(FileRow) /\ Len(files') = Len(files)
      /\ DOMAIN files' = DOMAIN files
      /\ \A f \in DOMAIN files : files'[f].op = files[f].op
  <2>1. /\ files \in Seq(FileRow) /\ "failed" \in RowDisp
        /\ files' = MarkRow(files, row, "failed")
    BY DEF RestShape, StepFailed, RowDisp, MarkRow
  <2> QED
    BY <2>1, RowEdit DEF SameRows
<1>3. "error" \in RowLabels \cap Labels
  BY DEF RowLabels, Labels
<1>4. Keys' /\ Registers'
  BY <1>1, <1>2, <1>3 DEF RestShape, Keys, Registers, StepFailed, intake, loop, heal
<1> QED
  BY <1>1, <1>2, <1>3, <1>4 DEF RestShape, StepFailed, intake, loop, heal, spent

\* The end of a job.
LEMMA EndRunShape ==
    ASSUME RestShape, NEW st \in {"completed", "failed", "cancelled"}, EndRun(st),
           \/ steps' = steps
           \/ steps' = [steps EXCEPT ![outer].status = "failed"]
    PROVE  RestShape'
<1>1. /\ steps' \in Seq(StepRow) /\ Len(steps') = Len(steps)
      /\ DOMAIN steps' = DOMAIN steps
      /\ \A s \in DOMAIN steps : steps'[s].file = steps[s].file
  <2>1. /\ steps \in Seq(StepRow) /\ "failed" \in StepStatus
        /\ NoHash \in Hashes \cup {NoHash}
        /\ steps' = steps \/ steps' = MarkStep(steps, outer, "failed")
    BY DEF RestShape, StepStatus, MarkStep
  <2> QED
    BY <2>1, MarkEdit DEF SameSteps
<1>2. /\ status' \in Seq(OpStatus)
      /\ Len(status') = Len(status) /\ DOMAIN status' = DOMAIN status
  <2>1. /\ status \in Seq(OpStatus) /\ st \in OpStatus
        /\ status' = [status EXCEPT ![op] = st]
    BY DEF RestShape, EndRun, OpStatus
  <2> QED
    BY <2>1, SeqUpdate
<1>3. pc' = "idle" /\ pc' \in Labels /\ pc' \notin RowLabels
  BY DEF EndRun, Labels, RowLabels
<1>4. Keys' /\ Registers'
  BY <1>1, <1>2, <1>3 DEF RestShape, Keys, Registers, EndRun, intake, loop, heal
<1> QED
  BY <1>1, <1>2, <1>3, <1>4 DEF RestShape, EndRun, intake, loop, heal, spent

-----------------------------------------------------------------------------
(***************************************************************************)
(* The steps of a row keep the shape.                                      *)
(***************************************************************************)
\* What is known of the row the worker is on.
LEMMA RowTypes ==
    ASSUME WorldType, RestShape, pc \in RowLabels
    PROVE  /\ row \in DOMAIN files
           /\ Src(row) \in Path /\ Dst(row) \in Path
           /\ files[row].hash \in Hashes \cup {NoHash}
           /\ disk[Src(row)] \in Stored \cup {NoFile}
           /\ disk[Dst(row)] \in Stored \cup {NoFile}
           /\ Exists(Src(row)) => Digest[disk[Src(row)]] \in Hashes
           /\ Exists(Dst(row)) => Digest[disk[Dst(row)]] \in Hashes
<1>1. row \in DOMAIN files /\ files \in Seq(FileRow)
  BY DEF RestShape, Registers
<1>2. files[row] \in FileRow
  BY <1>1
<1>3. Src(row) \in Path /\ Dst(row) \in Path /\ files[row].hash \in Hashes \cup {NoHash}
  BY <1>2 DEF FileRow, Src, Dst
<1>4. disk \in [Path -> Stored \cup {NoFile}] /\ Digest \in [Stored -> Hashes]
  BY ContentAssumption DEF WorldType
<1> QED
  BY <1>1, <1>3, <1>4 DEF Exists

LEMMA SyncType ==
    ASSUME WorldType, NEW f, Dst(f) \in Path, sync_catalog_path(f), disk' = disk
    PROVE  WorldType'
BY DEF WorldType, sync_catalog_path

\* Writing or removing one file keeps the type of the disk.
LEMMA WriteType ==
    ASSUME WorldType, NEW p, NEW c \in Stored \cup {NoFile},
           disk' = [disk EXCEPT ![p] = c], catalog' = catalog
    PROVE  WorldType'
BY DEF WorldType

LEMMA FaultType == ASSUME faults \in Nat, Fault PROVE faults' \in Nat
BY DEF Fault

LEMMA ToVerifyLabel == \A f : ToVerify(f) \in RowLabels /\ AfterCopy(f) \in RowLabels
BY DEF ToVerify, AfterCopy, RowLabels

LEMMA RenameShape ==
    ASSUME WorldType, RestShape, RenameStep
    PROVE  WorldType' /\ RestShape'
<1>1. pc \in RowLabels
  BY DEF RenameStep, ResumeDegraded, RenameBegin, RenameResume, RenameRefuse,
         RenameNoParent, RenameReady, RenameDo, RenameError, RenameExdev,
         RenameSync, RenameDone, Fallback, FallbackError, RowLabels
<1>2. row \in DOMAIN files /\ Src(row) \in Path /\ Dst(row) \in Path
  BY <1>1, RowTypes
<1>3. faults \in Nat /\ NoHash \in Hashes \cup {NoHash}
  BY DEF RestShape
<1>4. {"renameCheck", "renameDo", "renameSync", "renameDone", "fallback", "copy",
       "rowDone", "error"} \subseteq RowLabels
  BY DEF RowLabels
<1>5. ASSUME UNCHANGED world PROVE WorldType'
  BY <1>5 DEF WorldType, world
<1>a. CASE ResumeDegraded
  BY <1>a, <1>1, <1>4, <1>5, GoShape DEF ResumeDegraded
<1>b. CASE RenameBegin
  <2>1. OpenStep("commit_move") /\ pc' \in RowLabels /\ outer' = outer /\ prior' = prior
    BY <1>b, <1>4 DEF RenameBegin
  <2>2. prior' \in BOOLEAN
    BY <2>1 DEF RestShape
  <2>3. UNCHANGED world
    BY <2>1 DEF OpenStep
  <2> QED
    BY <1>1, <1>5, <2>1, <2>2, <2>3, OpenStepShape
<1>c. CASE RenameResume
  <2>1. CASE sync_catalog_path(row) /\ Go("renameDone")
    BY <1>c, <2>1, <1>1, <1>2, <1>4, SyncType, GoShape DEF RenameResume
  <2>2. CASE Abort /\ UNCHANGED <<catalog, faults>>
    BY <1>c, <2>2, <1>1, <1>3, <1>5, AbortShape DEF RenameResume, world
  <2> QED
    BY <1>c, <2>1, <2>2 DEF RenameResume
<1>d. CASE RenameRefuse
  BY <1>d, <1>1, <1>3, <1>5, StepFailedShape DEF RenameRefuse
<1>e. CASE RenameNoParent
  BY <1>e, <1>1, <1>3, <1>5, FaultType, AbortShape DEF RenameNoParent
<1>f. CASE RenameReady
  BY <1>f, <1>1, <1>4, <1>5, GoShape DEF RenameReady
<1>g. CASE RenameDo
  <2>1. WorldType'
    BY <1>g, <1>2, <1>1, RowTypes DEF RenameDo, WorldType
  <2> QED
    BY <1>g, <2>1, <1>1, <1>4, GoShape DEF RenameDo
<1>h. CASE RenameError
  BY <1>h, <1>1, <1>3, <1>5, FaultType, StepFailedShape DEF RenameError
<1>i. CASE RenameExdev
  BY <1>i, <1>2, <1>4, <1>5
     DEF RenameExdev, RestShape, Keys, Registers, journal, intake, heal, spent,
         RowLabels, Labels
<1>j. CASE RenameSync
  <2>1. CASE sync_catalog_path(row) /\ Go("renameDone")
    BY <1>j, <2>1, <1>1, <1>2, <1>4, SyncType, GoShape DEF RenameSync
  <2>2. CASE StepFailed(NoHash) /\ UNCHANGED <<catalog, faults>>
    BY <1>j, <2>2, <1>1, <1>3, <1>5, StepFailedShape DEF RenameSync, world
  <2> QED
    BY <1>j, <2>1, <2>2 DEF RenameSync
<1>k. CASE RenameDone
  BY <1>k, <1>1, <1>3, <1>4, <1>5, StepDoneShape DEF RenameDone
<1>l. CASE Fallback
  <2> DEFINE h == IF files[row].hash = NoHash THEN Digest[disk[Src(row)]]
                                              ELSE files[row].hash
             r == [files[row] EXCEPT !.hash = h]
  <2>1. h \in Hashes \cup {NoHash}
    BY <1>l, <1>1, RowTypes DEF Fallback
  <2>2. files \in Seq(FileRow) /\ files[row] \in FileRow
    BY <1>2 DEF RestShape
  <2>3. files' = [files EXCEPT ![row] = r]
    BY <1>l DEF Fallback
  <2> HIDE DEF h
  <2>4. r \in FileRow /\ r.op = files[row].op
    BY <2>1, <2>2 DEF FileRow
  <2> HIDE DEF r
  <2>5. files' \in Seq(FileRow) /\ Len(files') = Len(files) /\ DOMAIN files' = DOMAIN files
    BY <2>2, <2>3, <2>4, SeqUpdate
  <2>6. \A f \in DOMAIN files : files'[f].op = files[f].op
    BY <2>3, <2>4
  <2>7. Keys' /\ Registers' /\ pc' \in Labels
    BY <1>l, <1>2, <2>5, <2>6
       DEF Fallback, RestShape, Keys, Registers, loop, heal, RowLabels, Labels
  <2> QED
    BY <1>l, <1>5, <2>5, <2>7 DEF Fallback, RestShape, intake, loop, heal, spent
<1>m. CASE FallbackError
  BY <1>m, <1>1, <1>3, <1>5, FaultType, AbortShape DEF FallbackError
<1> QED
  BY <1>a, <1>b, <1>c, <1>d, <1>e, <1>f, <1>g, <1>h, <1>i, <1>j, <1>k, <1>l, <1>m
     DEF RenameStep

LEMMA CopyShape ==
    ASSUME WorldType, RestShape, CopyStep
    PROVE  WorldType' /\ RestShape'
<1>1. pc \in RowLabels
  BY DEF CopyStep, CopyBegin, CopyNoParent, CopyRefuse, CopyFresh, CopyReuse,
         CopyDiscard, CopyDiscardError, CopyOpen, CopyFill, CopyError, CopyDone,
         RowLabels
<1>2. row \in DOMAIN files /\ Src(row) \in Path /\ Dst(row) \in Path
  BY <1>1, RowTypes
<1>3. faults \in Nat /\ NoHash \in Hashes \cup {NoHash} /\ NoFile \in Stored \cup {NoFile}
  BY DEF RestShape
<1>4. {"copyCheck", "copyDo", "copying", "copied", "error"} \subseteq RowLabels
  BY DEF RowLabels
<1>5. ASSUME UNCHANGED world PROVE WorldType'
  BY <1>5 DEF WorldType, world
<1>6. files[row].hash \in Hashes \cup {NoHash}
  BY <1>1, RowTypes
<1>a. CASE CopyBegin
  <2>1. OpenStep("copy") /\ pc' \in RowLabels /\ outer' = outer /\ prior' \in BOOLEAN
    BY <1>a, <1>4 DEF CopyBegin, prior_step_exists
  <2>2. UNCHANGED world
    BY <2>1 DEF OpenStep
  <2> QED
    BY <1>1, <1>5, <2>1, <2>2, OpenStepShape
<1>b. CASE CopyNoParent
  BY <1>b, <1>1, <1>3, <1>5, FaultType, AbortShape DEF CopyNoParent
<1>c. CASE CopyRefuse
  BY <1>c, <1>1, <1>3, <1>5, StepFailedShape DEF CopyRefuse
<1>d. CASE CopyFresh
  BY <1>d, <1>1, <1>4, <1>5, GoShape DEF CopyFresh
<1>e. CASE CopyReuse
  BY <1>e, <1>1, <1>5, <1>6, ToVerifyLabel, StepDoneShape DEF CopyReuse
<1>f. CASE CopyDiscard
  <2>1. faults' \in Nat
    BY <1>f, <1>3, FaultType DEF CopyDiscard
  <2>2. WorldType'
    BY <1>f, <1>3, WriteType DEF CopyDiscard
  <2> QED
    BY <1>f, <1>2, <2>1, <2>2
       DEF CopyDiscard, RestShape, Keys, Registers, journal, intake, loop, heal, spent,
           RowLabels, Labels
<1>g. CASE CopyDiscardError
  BY <1>g, <1>1, <1>3, <1>5, FaultType, StepFailedShape DEF CopyDiscardError
<1>h. CASE CopyOpen
  <2>1. WorldType'
    BY <1>h, WriteType DEF CopyOpen, Stored
  <2> QED
    BY <1>h, <1>1, <1>4, <2>1, GoShape DEF CopyOpen
<1>i. CASE CopyFill
  <2>1. disk[Src(row)] \in Stored \cup {NoFile}
    BY <1>1, RowTypes
  <2>2. WorldType'
    BY <1>i, <2>1, WriteType DEF CopyFill
  <2> QED
    BY <1>i, <1>1, <1>4, <2>2, GoShape DEF CopyFill
<1>j. CASE CopyError
  BY <1>j, <1>1, <1>3, <1>5, FaultType, StepFailedShape DEF CopyError
<1>k. CASE CopyDone
  BY <1>k, <1>1, <1>3, <1>5, ToVerifyLabel, StepDoneShape DEF CopyDone
<1> QED
  BY <1>a, <1>b, <1>c, <1>d, <1>e, <1>f, <1>g, <1>h, <1>i, <1>j, <1>k DEF CopyStep

LEMMA CommitShape ==
    ASSUME WorldType, RestShape, CommitStep
    PROVE  WorldType' /\ RestShape'
<1>1. pc \in RowLabels
  BY DEF CommitStep, VerifyBegin, VerifyDone, VerifyError, CommitBegin, CommitSync,
         CommitRemove, CommitError, CommitDone, RowLabels
<1>2. row \in DOMAIN files /\ Src(row) \in Path /\ Dst(row) \in Path
  BY <1>1, RowTypes
<1>3. faults \in Nat /\ NoHash \in Hashes \cup {NoHash} /\ NoFile \in Stored \cup {NoFile}
  BY DEF RestShape
<1>4. {"verifying", "commit", "commitSync", "commitRemove", "commitDone", "rowDone",
       "error"} \subseteq RowLabels
  BY DEF RowLabels
<1>5. ASSUME UNCHANGED world PROVE WorldType'
  BY <1>5 DEF WorldType, world
<1>6. /\ files[row].hash \in Hashes \cup {NoHash}
      /\ Exists(Dst(row)) => Digest[disk[Dst(row)]] \in Hashes \cup {NoHash}
  BY <1>1, RowTypes
<1>7. ASSUME NEW stage \in {"verify", "commit_move"}, OpenStep(stage),
             pc' \in RowLabels, UNCHANGED <<outer, prior>>
      PROVE  WorldType' /\ RestShape'
  <2>1. prior' \in BOOLEAN /\ UNCHANGED world
    BY <1>7 DEF RestShape, OpenStep
  <2> QED
    BY <1>1, <1>5, <1>7, <2>1, OpenStepShape
<1>a. CASE VerifyBegin
  BY <1>a, <1>4, <1>7 DEF VerifyBegin
<1>b. CASE VerifyDone
  BY <1>b, <1>1, <1>4, <1>5, <1>6, StepDoneShape DEF VerifyDone
<1>c. CASE VerifyError
  <2>1. faults' \in Nat /\ UNCHANGED world
    BY <1>c, <1>3, FaultType DEF VerifyError
  <2>2. PICK h \in Hashes \cup {NoHash} : StepFailed(h)
    BY <1>c, <1>3, <1>6 DEF VerifyError
  <2> QED
    BY <1>1, <1>5, <2>1, <2>2, StepFailedShape
<1>d. CASE CommitBegin
  BY <1>d, <1>4, <1>7 DEF CommitBegin
<1>e. CASE CommitSync
  <2>1. CASE sync_catalog_path(row) /\ Go("commitRemove")
    BY <1>e, <2>1, <1>1, <1>2, <1>4, SyncType, GoShape DEF CommitSync
  <2>2. CASE StepFailed(NoHash) /\ UNCHANGED <<catalog, faults>>
    BY <1>e, <2>2, <1>1, <1>3, <1>5, StepFailedShape DEF CommitSync, world
  <2> QED
    BY <1>e, <2>1, <2>2 DEF CommitSync
<1>f. CASE CommitRemove
  <2>1. WorldType'
    BY <1>f, <1>3, WriteType DEF CommitRemove
  <2> QED
    BY <1>f, <1>1, <1>4, <2>1, GoShape DEF CommitRemove
<1>g. CASE CommitError
  BY <1>g, <1>1, <1>3, <1>5, FaultType, StepFailedShape DEF CommitError
<1>h. CASE CommitDone
  BY <1>h, <1>1, <1>3, <1>4, <1>5, StepDoneShape DEF CommitDone
<1> QED
  BY <1>a, <1>b, <1>c, <1>d, <1>e, <1>f, <1>g, <1>h DEF CommitStep

-----------------------------------------------------------------------------
(***************************************************************************)
(* The job queue, the reconcile pass and the loop over the rows.           *)
(***************************************************************************)
LEMMA LoopShape ==
    ASSUME WorldType, RestShape, RunLoop
    PROVE  WorldType' /\ RestShape'
<1>1. ASSUME UNCHANGED world PROVE WorldType'
  BY <1>1 DEF WorldType, world
<1>2. ASSUME todo # {} PROVE First(todo) \in todo /\ First(todo) \in DOMAIN files
  <2>1. todo \subseteq DOMAIN files /\ DOMAIN files \subseteq Nat
    BY DEF RestShape
  <2>2. todo \subseteq Nat
    BY <2>1
  <2>3. First(todo) \in todo
    BY <1>2, <2>2, FirstIn
  <2> QED
    BY <2>1, <2>3
<1>a. CASE Start
  <2>1. /\ status \in Seq(OpStatus) /\ "running" \in OpStatus
        /\ status' = [status EXCEPT ![op] = "running"]
    BY <1>a DEF RestShape, Start, OpStatus
  <2>2. status' \in Seq(OpStatus) /\ Len(status') = Len(status) /\ DOMAIN status' = DOMAIN status
    BY <2>1, SeqUpdate
  <2>3. todo' \subseteq DOMAIN files
    BY <1>a DEF Start, FilesOf
  <2> QED
    BY <1>a, <1>1, <2>2, <2>3
       DEF Start, RestShape, Keys, Registers, intake, heal, spent, Labels, RowLabels
<1>b. CASE Complete
  BY <1>b, <1>1, EndRunShape DEF Complete, EndRun
<1>c. CASE Cancelled
  BY <1>c, <1>1, EndRunShape DEF Cancelled, EndRun
<1>d. CASE SkipRow
  BY <1>d, <1>1
     DEF SkipRow, RestShape, Keys, Registers, journal, intake, heal, spent
<1>e. CASE BeginRow
  <2>1. First(todo) \in DOMAIN files
    BY <1>e, <1>2 DEF BeginRow
  <2>2. /\ files \in Seq(FileRow) /\ "in_progress" \in RowDisp
        /\ files' = MarkRow(files, First(todo), "in_progress")
    BY <1>e DEF BeginRow, RestShape, RowDisp, MarkRow
  <2>3. /\ files' \in Seq(FileRow) /\ Len(files') = Len(files)
        /\ DOMAIN files' = DOMAIN files
        /\ \A f \in DOMAIN files : files'[f].op = files[f].op
    BY <2>2, RowEdit DEF SameRows
  <2>4. row' \in DOMAIN files' /\ row' \in 0..Len(files')
    BY <1>e, <2>1, <2>2, <2>3 DEF BeginRow
  <2>5. pc' \in RowLabels /\ pc' \in Labels /\ pc' \notin {"healStep", "healRow"}
    BY <1>e, ToVerifyLabel DEF BeginRow, RowLabels, Labels
  <2>6. Keys' /\ Registers'
    BY <1>e, <2>3, <2>4, <2>5 DEF BeginRow, RestShape, Keys, Registers, heal
  <2>7. todo' \subseteq DOMAIN files' /\ outer' \in 0..Len(steps)
    BY <1>e, <2>3 DEF BeginRow, RestShape
  <2> QED
    BY <1>e, <1>1, <2>3, <2>4, <2>5, <2>6, <2>7 DEF BeginRow, RestShape, intake, heal, spent
<1>f. CASE EndRow
  <2>0. pc \in RowLabels /\ row \in DOMAIN files
    BY <1>f DEF EndRow, RowLabels, RestShape, Registers
  <2>1. /\ files \in Seq(FileRow) /\ "done" \in RowDisp
        /\ files' = MarkRow(files, row, "done")
    BY <1>f DEF EndRow, RestShape, RowDisp, MarkRow
  <2>2. /\ files' \in Seq(FileRow) /\ Len(files') = Len(files)
        /\ DOMAIN files' = DOMAIN files
        /\ \A f \in DOMAIN files : files'[f].op = files[f].op
    BY <2>1, RowEdit DEF SameRows
  <2>3. /\ steps \in Seq(StepRow) /\ "done" \in StepStatus
        /\ steps' = steps \/ steps' = MarkStep(steps, outer, "done")
    BY <1>f DEF EndRow, RestShape, StepStatus, MarkStep
  <2>4. /\ steps' \in Seq(StepRow) /\ Len(steps') = Len(steps)
        /\ DOMAIN steps' = DOMAIN steps
        /\ \A s \in DOMAIN steps : steps'[s].file = steps[s].file
    BY <2>3, MarkEdit DEF SameSteps
  <2>5. Keys' /\ Registers' /\ pc' \in Labels
    BY <1>f, <2>2, <2>4
       DEF EndRow, RestShape, Keys, Registers, loop, heal, RowLabels, Labels
  <2> QED
    BY <1>f, <1>1, <2>2, <2>4, <2>5 DEF EndRow, RestShape, intake, loop, heal, spent
<1>g. CASE Fail
  BY <1>g, <1>1, EndRunShape DEF Fail, EndRun
<1> QED
  BY <1>a, <1>b, <1>c, <1>d, <1>e, <1>f, <1>g DEF RunLoop

LEMMA DequeueShape ==
    ASSUME WorldType, RestShape, Dequeue
    PROVE  WorldType' /\ RestShape'
<1>1. /\ queue \in Seq(0..Len(status)) /\ queue # <<>>
  BY DEF RestShape, Dequeue
<1>2. Head(queue) \in 0..Len(status) /\ Tail(queue) \in Seq(0..Len(status))
  BY <1>1
<1>3. cands' \subseteq DOMAIN steps
  BY DEF Dequeue, list_failed_commit_move_candidates
<1>4. WorldType'
  BY DEF Dequeue, WorldType, world
<1> QED
  BY <1>2, <1>3, <1>4
     DEF Dequeue, RestShape, Keys, Registers, journal, spent, RowLabels, Labels

LEMMA ReconcileShape ==
    ASSUME WorldType, RestShape, Reconcile
    PROVE  WorldType' /\ RestShape'
<1>1. ASSUME UNCHANGED world PROVE WorldType'
  BY <1>1 DEF WorldType, world
<1>2. ASSUME cands # {}
      PROVE  /\ First(cands) \in cands /\ First(cands) \in DOMAIN steps
             /\ steps[First(cands)].file \in DOMAIN files
             /\ files[steps[First(cands)].file].op \in DOMAIN status
  <2>1. cands \subseteq DOMAIN steps /\ DOMAIN steps \subseteq Nat
    BY DEF RestShape
  <2>2. cands \subseteq Nat
    BY <2>1
  <2>3. First(cands) \in cands
    BY <1>2, <2>2, FirstIn
  <2> QED
    BY <2>1, <2>3 DEF RestShape, Keys
<1>3. faults \in Nat
  BY DEF RestShape
<1>a. CASE HealSkip
  <2>1. faults' \in Nat
    BY <1>a, <1>3, FaultType DEF HealSkip
  <2> QED
    BY <1>a, <1>1, <2>1
       DEF HealSkip, RestShape, Keys, Registers, journal, intake, loop, spent, RowLabels
<1>b. CASE HealRemove
  <2>1. WorldType'
    BY <1>b, WriteType DEF HealRemove
  <2> QED
    BY <1>b, <2>1
       DEF HealRemove, RestShape, Keys, Registers, journal, intake, loop, heal, spent,
           RowLabels, Labels
<1>c. CASE HealStep
  <2>1. /\ steps \in Seq(StepRow) /\ "done" \in StepStatus
        /\ steps' = MarkStep(steps, First(cands), "done")
    BY <1>c DEF HealStep, RestShape, StepStatus, MarkStep
  <2>2. /\ steps' \in Seq(StepRow) /\ Len(steps') = Len(steps)
        /\ DOMAIN steps' = DOMAIN steps
        /\ \A s \in DOMAIN steps : steps'[s].file = steps[s].file
    BY <2>1, MarkEdit DEF SameSteps
  <2>3. Keys' /\ Registers' /\ pc' \in Labels
    BY <1>c, <2>2
       DEF HealStep, RestShape, Keys, Registers, loop, heal, RowLabels, Labels
  <2> QED
    BY <1>c, <1>1, <2>2, <2>3 DEF HealStep, RestShape, intake, loop, heal, spent
<1>d. CASE HealRow
  <2>0. cands # {}
    BY <1>d DEF HealRow, RestShape, Registers
  <2>1. /\ files \in Seq(FileRow) /\ "done" \in RowDisp
        /\ files' = MarkRow(files, steps[First(cands)].file, "done")
    BY <1>d DEF HealRow, RestShape, RowDisp, MarkRow
  <2>2. /\ files' \in Seq(FileRow) /\ Len(files') = Len(files)
        /\ DOMAIN files' = DOMAIN files
        /\ \A f \in DOMAIN files : files'[f].op = files[f].op
    BY <2>1, RowEdit DEF SameRows
  <2>3. healed' \subseteq DOMAIN status
    BY <1>d, <1>2, <2>0 DEF HealRow, RestShape
  <2>4. Keys' /\ Registers' /\ pc' \in Labels
    BY <1>d, <2>2
       DEF HealRow, RestShape, Keys, Registers, loop, RowLabels, Labels
  <2> QED
    BY <1>d, <1>1, <2>2, <2>3, <2>4 DEF HealRow, RestShape, intake, loop, spent
<1>e. CASE HealEnd
  <2>1. status \in Seq(OpStatus) /\ Len(status) \in Nat /\ DOMAIN status = 1..Len(status)
    BY DEF RestShape
  <2>2. status' \in [1..Len(status) -> OpStatus]
    BY <1>e, <2>1 DEF HealEnd, OpStatus
  <2>3. status' \in Seq(OpStatus) /\ Len(status') = Len(status) /\ DOMAIN status' = DOMAIN status
    BY <2>1, <2>2, SeqMap
  <2>4. Keys' /\ Registers' /\ pc' \in Labels
    BY <1>e, <2>3
       DEF HealEnd, RestShape, Keys, Registers, loop, heal, RowLabels, Labels
  <2> QED
    BY <1>e, <1>1, <2>3, <2>4 DEF HealEnd, RestShape, intake, loop, heal, spent
<1> QED
  BY <1>a, <1>b, <1>c, <1>d, <1>e DEF Reconcile

-----------------------------------------------------------------------------
(***************************************************************************)
(* Requests, and the process and its surroundings.                         *)
(***************************************************************************)
\* A row the planner writes for a source that exists.
LEMMA PlannedRowType ==
    ASSUME WorldType, NEW o \in Nat, NEW p \in Path, NEW d \in Dir, Exists(p)
    PROVE  /\ PlannedRow(o, p, d) \in FileRow
           /\ PlannedRow(o, p, d).op = o
           /\ PlannedRow(o, p, d).src = p
           /\ PlannedRow(o, p, d).dst = DestOf(p, d)
           /\ PlannedRow(o, p, d).disp = "pending"
           /\ PlannedRow(o, p, d).cat # NoCat => catalog[PlannedRow(o, p, d).cat] = p
<1>1. DestOf(p, d) \in Path
  BY DEF DestOf, Path
<1>2. Digest[disk[p]] \in Hashes
  BY ContentAssumption DEF WorldType, Exists
<1> DEFINE at == {i \in CatId : catalog[i] = p}
           cat == IF at = {} THEN NoCat ELSE CHOOSE i \in at : TRUE
           same == Device[p[1]] = Device[d]
           h == IF same THEN NoHash ELSE Digest[disk[p]]
           st == IF same THEN "atomic_rename" ELSE "copy_verify_delete"
<1>3. cat \in CatId \cup {NoCat} /\ (cat # NoCat => catalog[cat] = p)
  <2>1. CASE at = {}
    BY <2>1
  <2>2. CASE at # {}
    <3>1. (CHOOSE i \in at : TRUE) \in at
      BY <2>2
    <3> QED
      BY <2>2, <3>1
  <2> QED
    BY <2>1, <2>2
<1>4. h \in Hashes \cup {NoHash} /\ st \in {"atomic_rename", "copy_verify_delete"}
  BY <1>2
<1>5. PlannedRow(o, p, d) =
        [op |-> o, src |-> p, dst |-> DestOf(p, d), strategy |-> st, cat |-> cat,
         hash |-> h, disp |-> "pending"]
  BY DEF PlannedRow
<1> HIDE DEF cat, h, st, at, same
<1> QED
  BY <1>1, <1>3, <1>4, <1>5 DEF FileRow

\* Rows added at the end of a table.
Extended(s, t) == s \o t

LEMMA SeqExtend ==
    ASSUME NEW S, NEW s \in Seq(S), NEW t \in Seq(S)
    PROVE  /\ Extended(s, t) \in Seq(S)
           /\ Len(Extended(s, t)) = Len(s) + Len(t)
           /\ DOMAIN s \subseteq DOMAIN Extended(s, t)
           /\ \A k \in DOMAIN s : Extended(s, t)[k] = s[k]
           /\ \A k \in DOMAIN Extended(s, t) : k \notin DOMAIN s =>
                 k - Len(s) \in DOMAIN t /\ Extended(s, t)[k] = t[k - Len(s)]
<1>1. s \o t \in Seq(S) /\ Len(s \o t) = Len(s) + Len(t)
  BY ConcatProperties
<1>2. /\ DOMAIN s = 1..Len(s) /\ DOMAIN (s \o t) = 1..(Len(s) + Len(t))
      /\ DOMAIN t = 1..Len(t) /\ Len(s) \in Nat /\ Len(t) \in Nat
  BY <1>1
<1>3. \A k \in 1..(Len(s) + Len(t)) :
         (s \o t)[k] = IF k <= Len(s) THEN s[k] ELSE t[k - Len(s)]
  BY ConcatProperties
<1> QED
  BY <1>1, <1>2, <1>3 DEF Extended

LEMMA PersistShape ==
    ASSUME WorldType, RestShape, PersistPlan
    PROVE  /\ WorldType' /\ RestShape'
           /\ \A f \in DOMAIN files : f \in DOMAIN files' /\ files'[f] = files[f]
           /\ \A f \in DOMAIN files' : f \notin DOMAIN files =>
                 /\ files'[f].op = Len(status) + 1 /\ files'[f].disp = "pending"
                 /\ files'[f].cat # NoCat => catalog[files'[f].cat] = files'[f].src
                 /\ \E i \in DOMAIN plan.srcs :
                       /\ files'[f].src = plan.srcs[i]
                       /\ files'[f].dst = DestOf(plan.srcs[i], plan.dir)
           /\ \/ queue' = queue
              \/ queue' = Append(queue, Len(status) + 1)
<1> DEFINE o == Len(status) + 1
<1>1. /\ plan \in Requests /\ plan.dir \in Dir /\ Len(plan.srcs) \in Nat
      /\ \A i \in 1..Len(plan.srcs) : plan.srcs[i] \in Path
      /\ DOMAIN plan.srcs = 1..Len(plan.srcs)
  BY RequestAssumption DEF RestShape, PersistPlan
<1>2. PICK n \in 0..Len(plan.srcs) :
        /\ \A i \in 1..n : Exists(plan.srcs[i])
        /\ status' = Append(status, "pending")
        /\ files' = files \o [i \in 1..n |-> PlannedRow(o, plan.srcs[i], plan.dir)]
        /\ queue' = IF n = Len(plan.srcs) THEN Append(queue, o) ELSE queue
  BY DEF PersistPlan
<1>3. /\ status \in Seq(OpStatus) /\ "pending" \in OpStatus
      /\ Len(status) \in Nat /\ o \in Nat /\ DOMAIN status = 1..Len(status)
      /\ files \in Seq(FileRow) /\ queue \in Seq(0..Len(status))
  BY DEF RestShape, OpStatus
<1>4. /\ status' \in Seq(OpStatus) /\ Len(status') = o
      /\ DOMAIN status' = 1..o /\ DOMAIN status \subseteq DOMAIN status'
  BY <1>2, <1>3
<1> HIDE DEF o
<1> DEFINE t == [i \in 1..n |-> PlannedRow(o, plan.srcs[i], plan.dir)]
<1>5. ASSUME NEW i \in 1..n
      PROVE  /\ i \in DOMAIN plan.srcs
             /\ t[i] \in FileRow /\ t[i].op = o /\ t[i].disp = "pending"
             /\ t[i].src = plan.srcs[i]
             /\ t[i].cat # NoCat => catalog[t[i].cat] = t[i].src
             /\ t[i].dst = DestOf(plan.srcs[i], plan.dir)
  <2>1. i \in 1..Len(plan.srcs) /\ i \in DOMAIN plan.srcs
    BY <1>1
  <2>2. t[i] = PlannedRow(o, plan.srcs[i], plan.dir)
    OBVIOUS
  <2>3. plan.srcs[i] \in Path /\ Exists(plan.srcs[i]) /\ plan.dir \in Dir /\ o \in Nat
    BY <1>1, <1>2, <1>3, <2>1
  <2> QED
    BY <2>1, <2>2, <2>3, PlannedRowType
<1>6. n \in Nat /\ t \in [1..n -> FileRow] /\ files' = Extended(files, t)
  BY <1>1, <1>2, <1>5 DEF Extended
<1> HIDE DEF t
<1>6a. t \in Seq(FileRow) /\ Len(t) = n /\ DOMAIN t = 1..n
  BY <1>6, SeqMap
<1>7. /\ files' \in Seq(FileRow) /\ Len(files') = Len(files) + n
      /\ DOMAIN files \subseteq DOMAIN files'
      /\ \A f \in DOMAIN files : files'[f] = files[f]
      /\ \A f \in DOMAIN files' : f \notin DOMAIN files =>
            f - Len(files) \in 1..n /\ files'[f] = t[f - Len(files)]
  <2> DEFINE u == Extended(files, t)
  <2>1. /\ u \in Seq(FileRow) /\ Len(u) = Len(files) + Len(t)
        /\ DOMAIN files \subseteq DOMAIN u
        /\ \A f \in DOMAIN files : u[f] = files[f]
        /\ \A f \in DOMAIN u : f \notin DOMAIN files =>
              f - Len(files) \in DOMAIN t /\ u[f] = t[f - Len(files)]
    <3>1. files \in Seq(FileRow) /\ t \in Seq(FileRow)
      BY <1>3, <1>6a
    <3> QED
      BY <3>1, SeqExtend
  <2>2. files' = u
    BY <1>6
  <2> HIDE DEF u
  <2> QED
    BY <1>6a, <2>1, <2>2
<1>7a. \A f \in DOMAIN files' : f \notin DOMAIN files =>
         /\ files'[f].op = o /\ files'[f].disp = "pending"
         /\ files'[f].cat # NoCat => catalog[files'[f].cat] = files'[f].src
         /\ \E i \in DOMAIN plan.srcs :
               /\ files'[f].src = plan.srcs[i]
               /\ files'[f].dst = DestOf(plan.srcs[i], plan.dir)
  BY <1>5, <1>7
<1>8. queue' \in Seq(0..Len(status'))
  <2>1. 0..Len(status) \subseteq 0..o /\ o \in 0..o
    BY <1>3 DEF o
  <2>2. queue \in Seq(0..o)
    BY <1>3, <2>1, SeqWiden
  <2>3. Append(queue, o) \in Seq(0..o)
    BY <2>1, <2>2
  <2> QED
    BY <1>2, <1>4, <2>2, <2>3
<1>9. Keys'
  <2>1. steps' = steps
    BY DEF PersistPlan
  <2>2. \A f \in DOMAIN files' : files'[f].op \in DOMAIN status'
    <3> TAKE f \in DOMAIN files'
    <3>1. CASE f \in DOMAIN files
      BY <3>1, <1>4, <1>7 DEF RestShape, Keys
    <3>2. CASE f \notin DOMAIN files
      BY <3>2, <1>3, <1>4, <1>7a DEF o
    <3> QED
      BY <3>1, <3>2
  <2> QED
    BY <1>7, <2>1, <2>2 DEF RestShape, Keys
<1>10. Registers' /\ plan' \in Requests \cup {NoPlan} /\ pc' \in Labels
  BY <1>7 DEF PersistPlan, RestShape, Registers, loop, heal
<1>11. /\ op' \in 0..Len(status') /\ row' \in 0..Len(files')
       /\ todo' \subseteq DOMAIN files' /\ cancel' \subseteq DOMAIN status'
       /\ healed' \subseteq DOMAIN status'
  <2>1. /\ UNCHANGED <<op, row, todo, cancel, healed>>
        /\ op \in 0..Len(status) /\ row \in 0..Len(files) /\ todo \subseteq DOMAIN files
        /\ cancel \subseteq DOMAIN status /\ healed \subseteq DOMAIN status
    BY DEF PersistPlan, RestShape, loop, heal
  <2>2. 0..Len(status) \subseteq 0..Len(status') /\ 0..Len(files) \subseteq 0..Len(files')
    BY <1>3, <1>4, <1>6, <1>7 DEF o
  <2> QED
    BY <1>4, <1>7, <2>1, <2>2
<1>12. RestShape'
  BY <1>4, <1>7, <1>8, <1>9, <1>10, <1>11
     DEF PersistPlan, RestShape, loop, heal, spent
<1>13. WorldType'
  BY DEF PersistPlan, WorldType, world
<1> QED
  BY <1>2, <1>7, <1>7a, <1>12, <1>13 DEF o

LEMMA UserShape ==
    ASSUME WorldType, RestShape, User
    PROVE  WorldType' /\ RestShape'
<1>a. ASSUME NEW r \in Requests, Plan(r) PROVE WorldType' /\ RestShape'
  BY <1>a DEF Plan, WorldType, RestShape, Keys, Registers, world, journal, loop, heal, spent
<1>b. CASE PersistPlan
  BY <1>b, PersistShape
<1>c. ASSUME NEW o \in DOMAIN status, Cancel(o) PROVE WorldType' /\ RestShape'
  BY <1>c DEF Cancel, WorldType, RestShape, Keys, Registers, world, journal, loop, heal, spent
<1>d. ASSUME NEW o \in DOMAIN status, Resume(o) PROVE WorldType' /\ RestShape'
  <2>1. queue \in Seq(0..Len(status)) /\ o \in 0..Len(status)
    BY DEF RestShape
  <2>2. queue' \in Seq(0..Len(status))
    BY <1>d, <2>1 DEF Resume
  <2> QED
    BY <1>d, <2>2
       DEF Resume, WorldType, RestShape, Keys, Registers, world, journal, loop, heal
<1> QED
  BY <1>a, <1>b, <1>c, <1>d DEF User

LEMMA SurroundingsShape ==
    ASSUME WorldType, RestShape, Surroundings
    PROVE  WorldType' /\ RestShape'
<1>a. CASE Crash
  <2>1. <<>> \in Seq(0..Len(status)) /\ 0 \in 0..Len(status) /\ 0 \in 0..Len(files)
        /\ 0 \in 0..Len(steps)
    BY DEF RestShape
  <2>2. Keys' /\ Registers' /\ pc' \in Labels
    BY <1>a DEF Crash, RestShape, Keys, Registers, journal, RowLabels, Labels
  <2>3. WorldType'
    BY <1>a DEF Crash, WorldType, world
  <2>4. crashes' \in Nat
    BY <1>a DEF Crash, RestShape
  <2> QED
    BY <1>a, <2>1, <2>2, <2>3, <2>4 DEF Crash, RestShape, journal
<1>b. CASE Restart
  <2>1. 0 \in 0..Len(status)
    BY DEF RestShape
  <2>2. queue' \in Seq(0..Len(status))
    <3>1. <<0>> \in Seq(0..Len(status)) /\ <<>> \in Seq(0..Len(status))
      BY <2>1
    <3> QED
      BY <1>b, <3>1 DEF Restart
  <2> QED
    BY <1>b, <2>2
       DEF Restart, WorldType, RestShape, Keys, Registers, world, journal, loop, heal,
           spent, RowLabels, Labels
<1>c. ASSUME NEW p \in Path, NEW c \in Content \cup {NoFile}, External(p, c)
      PROVE  WorldType' /\ RestShape'
  <2>1. WorldType'
    BY <1>c, WriteType DEF External, Stored
  <2> QED
    BY <1>c, <2>1
       DEF External, RestShape, Keys, Registers, journal, intake, loop, heal
<1> QED
  BY <1>a, <1>b, <1>c DEF Surroundings

-----------------------------------------------------------------------------
LEMMA InitShape == Init => Shape
<1> SUFFICES ASSUME Init PROVE Shape
  OBVIOUS
<1>1. WorldType
  BY WorldAssumption DEF Init, WorldType
<1>2. RestShape
  <2>1. /\ status = <<>> /\ files = <<>> /\ steps = <<>> /\ queue = <<>>
        /\ cancel = {} /\ plan = NoPlan /\ pc = "idle" /\ op = 0 /\ todo = {}
        /\ row = 0 /\ step = 0 /\ outer = 0 /\ prior = FALSE /\ cands = {} /\ healed = {}
        /\ faults = 0 /\ crashes = 0 /\ resumes = 0 /\ externals = 0
    BY DEF Init
  <2>2. /\ status \in Seq(OpStatus) /\ files \in Seq(FileRow) /\ steps \in Seq(StepRow)
        /\ queue \in Seq(0..Len(status))
    BY <2>1
  <2>3. /\ DOMAIN files = {} /\ DOMAIN steps = {}
        /\ 0 \in 0..Len(status) /\ 0 \in 0..Len(files) /\ 0 \in 0..Len(steps)
    BY <2>1
  <2>4. Keys /\ Registers /\ pc \in Labels
    BY <2>1, <2>3 DEF Keys, Registers, RowLabels, Labels
  <2>5. /\ cancel \subseteq DOMAIN status /\ todo \subseteq DOMAIN files
        /\ cands \subseteq DOMAIN steps /\ healed \subseteq DOMAIN status
        /\ plan \in Requests \cup {NoPlan}
    BY <2>1
  <2>6. prior \in BOOLEAN
    BY <2>1
  <2>7. {faults, crashes, resumes, externals} \subseteq Nat
    BY <2>1
  <2>8. /\ op \in 0..Len(status) /\ row \in 0..Len(files)
        /\ step \in 0..Len(steps) /\ outer \in 0..Len(steps)
    BY <2>1, <2>3
  <2> QED
    BY <2>2, <2>4, <2>5, <2>6, <2>7, <2>8 DEF RestShape
<1> QED
  BY <1>1, <1>2, ShapeSplit

LEMMA ShapeStep == Shape /\ [Next]_vars => Shape'
<1> SUFFICES ASSUME Shape, [Next]_vars PROVE Shape'
  OBVIOUS
<1>1. WorldType /\ RestShape
  BY ShapeSplit
<1>2. WorldType' /\ RestShape' => Shape'
  BY DEF Shape, TypeOK, WorldType, RestShape, OpStatus
<1>3. CASE Next
  BY <1>1, <1>2, <1>3, DequeueShape, ReconcileShape, LoopShape, RenameShape, CopyShape,
     CommitShape, UserShape, SurroundingsShape DEF Next, Worker
<1>4. CASE UNCHANGED vars
  BY <1>1, <1>2, <1>4
     DEF WorldType, RestShape, Keys, Registers, vars, world, journal, intake, loop,
         heal, spent
<1> QED
  BY <1>3, <1>4

THEOREM ShapeInvariance == Spec => []Shape
<1>1. Init => Shape
  BY InitShape
<1>2. Shape /\ [Next]_vars => Shape'
  BY ShapeStep
<1> QED
  BY <1>1, <1>2, PTL DEF Spec

\* Every table keeps its type, and no journal edit, however interrupted,
\* leaves a register pointing outside its table (executor.rs, reconcile.rs).
THEOREM TypeInvariance == Spec => []TypeOK
<1>1. Shape => TypeOK
  BY DEF Shape
<1> QED
  BY <1>1, ShapeInvariance, PTL

-----------------------------------------------------------------------------
(***************************************************************************)
(* The executor keeps every file, as long as nobody else writes to the     *)
(* scan roots and no operation is run twice.  What it knows of the disk at *)
(* each step it knows from the step before; the rest of the invariant says *)
(* that the first steps of a row really find a row nobody worked on yet:   *)
(* no journal step authorises discarding what is at the destination.       *)
(***************************************************************************)
Fresh(o) == \A f \in DOMAIN files : files[f].op = o => files[f].disp = "pending"

\* No row has its source as its destination.
Apart ==
    /\ \A f \in DOMAIN files : files[f].src # files[f].dst
    /\ plan # NoPlan =>
          \A i \in DOMAIN plan.srcs : DestOf(plan.srcs[i], plan.dir) # plan.srcs[i]

\* Operations are queued once, and their rows are untouched until they start.
Queued ==
    /\ \A i, j \in DOMAIN queue : queue[i] = queue[j] => i = j
    /\ \A i \in DOMAIN queue : Fresh(queue[i])
    /\ pc \notin {"idle", "down"} => \A i \in DOMAIN queue : queue[i] # op
    /\ pc \in {"heal", "healStep", "healRow", "start"} => Fresh(op)

\* Only rows that were started have steps; the rows to come were not started.
Started ==
    /\ \A s \in DOMAIN steps : files[steps[s].file].disp # "pending"
    /\ pc \in RowLabels \cup {"next"} =>
          \A f \in todo : files[f].op = op /\ files[f].disp = "pending"
    /\ pc \in RowLabels =>
          files[row].op = op /\ row \notin todo /\ files[row].disp # "pending"

Order == Apart /\ Queued /\ Started

\* The copy of a row is its first.
FirstTry ==
    /\ pc \in {"rename", "renameCheck", "renameDo", "fallback", "copy"} =>
          ~prior_step_exists(row, "copy")
    /\ pc = "copyCheck" => ~prior

\* What the executor has seen of the disk is still so.
OnDisk ==
    /\ pc = "renameDo" => ~Exists(Dst(row))
    /\ pc = "copyDo" => ~Exists(Dst(row))
    /\ pc = "copying" => disk[Dst(row)] = Partial
    /\ pc \in {"copied", "verify", "verifying", "commit", "commitSync", "commitRemove"} =>
          disk[Dst(row)] = disk[Src(row)]

Careful == Shape /\ Order /\ FirstTry /\ OnDisk

\* What a step of the executor on its row may change in the journal.
RowFrame ==
    /\ UNCHANGED <<queue, plan, op, todo, row>>
    /\ DOMAIN files' = DOMAIN files
    /\ \A f \in DOMAIN files :
          /\ files'[f].op = files[f].op
          /\ files'[f].src = files[f].src /\ files'[f].dst = files[f].dst
          /\ files'[f].disp = "pending" <=> files[f].disp = "pending"
    /\ \A s \in DOMAIN steps' :
          \/ s \in DOMAIN steps /\ steps'[s].file = steps[s].file
          \/ pc \in RowLabels /\ steps'[s].file = row
    /\ pc \in RowLabels \cup {"next"} /\ pc' \in RowLabels \cup {"next", "idle"}
    /\ pc' \in RowLabels => pc \in RowLabels

LEMMA OrderFrame ==
    ASSUME RestShape, Order, RowFrame
    PROVE  Order' /\ (pc' \in RowLabels => Src(row)' = Src(row) /\ Dst(row)' = Dst(row))
<1>1. pc' \notin {"heal", "healStep", "healRow", "start", "down"} /\ pc \notin {"idle", "down"}
  BY DEF RowFrame, RowLabels
<1>2. \A s \in DOMAIN steps : steps[s].file \in DOMAIN files
  BY DEF RestShape, Keys
<1>3. todo \subseteq DOMAIN files /\ (pc \in RowLabels => row \in DOMAIN files)
  BY DEF RestShape, Registers
<1>4. Apart'
  BY DEF Order, Apart, RowFrame
<1>5. ASSUME NEW o, Fresh(o) PROVE Fresh(o)'
  BY <1>5 DEF Fresh, RowFrame
<1>6. Queued'
  BY <1>1, <1>5 DEF Order, Queued, RowFrame
<1>7. Started'
  <2>1. ASSUME NEW s \in DOMAIN steps' PROVE files'[steps'[s].file].disp # "pending"
    BY <2>1, <1>2, <1>3 DEF Order, Started, RowFrame
  <2>2. ASSUME pc' \in RowLabels \cup {"next"}, NEW f \in todo'
        PROVE  files'[f].op = op' /\ files'[f].disp = "pending"
    BY <2>2, <1>3 DEF Order, Started, RowFrame
  <2>3. ASSUME pc' \in RowLabels
        PROVE  files'[row'].op = op' /\ row' \notin todo' /\ files'[row'].disp # "pending"
    BY <2>3, <1>3 DEF Order, Started, RowFrame
  <2> QED
    BY <2>1, <2>2, <2>3 DEF Started
<1>8. pc' \in RowLabels => Src(row)' = Src(row) /\ Dst(row)' = Dst(row)
  BY <1>3 DEF RowFrame, Src, Dst
<1> QED
  BY <1>4, <1>6, <1>7, <1>8 DEF Order

LEMMA GoFrame ==
    ASSUME pc \in RowLabels, pc' \in RowLabels, UNCHANGED <<journal, intake, loop>>
    PROVE  RowFrame
BY DEF RowFrame, journal, intake, loop

LEMMA OpenFrame ==
    ASSUME RestShape, pc \in RowLabels, pc' \in RowLabels, NEW stage, OpenStep(stage)
    PROVE  /\ RowFrame
           /\ \A s \in DOMAIN steps' :
                 (s \in DOMAIN steps /\ steps'[s] = steps[s]) \/ steps'[s].stage = stage
<1> DEFINE r == [file |-> row, stage |-> stage, status |-> "in_progress", hash |-> NoHash]
<1>1. steps \in Seq(StepRow) /\ steps' = Append(steps, r)
  BY DEF RestShape, OpenStep
<1>2. r.file = row /\ r.stage = stage
  OBVIOUS
<1> HIDE DEF r
<1>3. \A s \in DOMAIN steps' : (s \in DOMAIN steps /\ steps'[s] = steps[s]) \/ steps'[s] = r
  BY <1>1
<1> QED
  BY <1>2, <1>3 DEF RowFrame, OpenStep, intake

LEMMA DoneFrame ==
    ASSUME RestShape, pc \in RowLabels, NEW next \in RowLabels,
           NEW hash \in Hashes \cup {NoHash}, StepDone(hash, next)
    PROVE  RowFrame
<1>1. /\ steps \in Seq(StepRow) /\ "done" \in StepStatus
      /\ steps' = CloseStep(steps, step, "done", hash)
  BY DEF RestShape, StepDone, StepStatus, CloseStep
<1>2. /\ DOMAIN steps' = DOMAIN steps
      /\ \A s \in DOMAIN steps : steps'[s].file = steps[s].file
  BY <1>1, CloseEdit DEF SameSteps
<1> QED
  BY <1>2 DEF RowFrame, StepDone, intake, loop

\* A row that is marked was started before.
LEMMA MarkedRow ==
    ASSUME RestShape, Order, pc \in RowLabels, NEW v \in {"done", "failed"},
           files' = [files EXCEPT ![row].disp = v]
    PROVE  /\ DOMAIN files' = DOMAIN files
           /\ \A f \in DOMAIN files :
                 /\ files'[f].op = files[f].op
                 /\ files'[f].src = files[f].src /\ files'[f].dst = files[f].dst
                 /\ files'[f].disp = "pending" <=> files[f].disp = "pending"
<1>1. files \in Seq(FileRow) /\ v \in RowDisp /\ files' = MarkRow(files, row, v)
  BY DEF RestShape, RowDisp, MarkRow
<1>2. /\ DOMAIN files' = DOMAIN files
      /\ \A f \in DOMAIN files :
            /\ files'[f].op = files[f].op
            /\ files'[f].src = files[f].src /\ files'[f].dst = files[f].dst
            /\ files'[f].disp = IF f = row THEN v ELSE files[f].disp
  BY <1>1, RowEdit DEF SameRows
<1>3. files[row].disp # "pending" /\ v # "pending"
  BY DEF Order, Started
<1> QED
  BY <1>2, <1>3

LEMMA FailedFrame ==
    ASSUME RestShape, Order, pc \in RowLabels, NEW hash \in Hashes \cup {NoHash},
           StepFailed(hash)
    PROVE  RowFrame
<1>1. /\ steps \in Seq(StepRow) /\ "failed" \in StepStatus
      /\ steps' = CloseStep(steps, step, "failed", hash)
  BY DEF RestShape, StepFailed, StepStatus, CloseStep
<1>2. /\ DOMAIN steps' = DOMAIN steps
      /\ \A s \in DOMAIN steps : steps'[s].file = steps[s].file
  BY <1>1, CloseEdit DEF SameSteps
<1>3. files' = [files EXCEPT ![row].disp = "failed"]
  BY DEF StepFailed
<1>4. "error" \in RowLabels
  BY DEF RowLabels
<1> QED
  BY <1>2, <1>3, <1>4, MarkedRow DEF RowFrame, StepFailed, intake, loop

-----------------------------------------------------------------------------
(***************************************************************************)
(* What each step does to the files on disk.                               *)
(***************************************************************************)
LEMMA SameDiskKeeps == ASSUME disk' = disk PROVE Keeps
BY DEF Keeps, Whole

\* Writing one file loses nothing when it holds no complete file, or one that
\* is also somewhere else.
LEMMA OverwriteKeeps ==
    ASSUME WorldType, NEW p, NEW c, disk' = [disk EXCEPT ![p] = c],
           disk[p] \notin Content \/ \E q \in Path : q # p /\ disk[q] = disk[p]
    PROVE  Keeps
<1> SUFFICES ASSUME NEW d \in Content, NEW q \in Path, disk[q] = d
             PROVE  \E z \in Path : disk'[z] = d
  BY DEF Keeps, Whole
<1>1. \A z \in Path : z # p => disk'[z] = disk[z]
  BY DEF WorldType
<1> QED
  BY <1>1

\* Labels at which nothing is claimed about the row or the disk.
Loose == {"idle", "down", "heal", "healStep", "healRow", "start", "next",
          "renameSync", "renameDone", "commitDone", "rowDone", "error"}

LEMMA LooseStep == ASSUME pc' \in Loose PROVE FirstTry' /\ OnDisk'
BY DEF Loose, FirstTry, OnDisk

LEMMA RenameCareful ==
    ASSUME WorldType, RestShape, Order, FirstTry, OnDisk, RenameStep
    PROVE  Order' /\ FirstTry' /\ OnDisk' /\ Keeps
<1>1. pc \in RowLabels
  BY DEF RenameStep, ResumeDegraded, RenameBegin, RenameResume, RenameRefuse,
         RenameNoParent, RenameReady, RenameDo, RenameError, RenameExdev,
         RenameSync, RenameDone, Fallback, FallbackError, RowLabels
<1>2. row \in DOMAIN files /\ Src(row) \in Path /\ Dst(row) \in Path /\ Src(row) # Dst(row)
  BY <1>1, RowTypes DEF Order, Apart, Src, Dst
<1>3. NoHash \in Hashes \cup {NoHash}
  OBVIOUS
<1>4. /\ {"renameCheck", "renameDo", "renameSync", "renameDone", "fallback", "copy",
          "rowDone", "error"} \subseteq RowLabels
      /\ {"renameSync", "renameDone", "rowDone", "error"} \subseteq Loose
  BY DEF RowLabels, Loose
<1>5. ASSUME UNCHANGED world PROVE Keeps
  BY <1>5, SameDiskKeeps DEF world
<1>6. ASSUME NEW next \in RowLabels, Go(next) PROVE RowFrame /\ pc' = next
  BY <1>1, <1>6, GoFrame DEF Go
<1>7. ASSUME Abort PROVE RowFrame /\ pc' \in Loose
  BY <1>1, <1>4, <1>7, GoFrame DEF Abort
<1>8. ASSUME StepFailed(NoHash) PROVE RowFrame /\ pc' \in Loose
  BY <1>1, <1>3, <1>4, <1>8, FailedFrame DEF StepFailed
<1>9. RowFrame => Order'
  BY OrderFrame
<1>a. CASE ResumeDegraded
  BY <1>a DEF ResumeDegraded, FirstTry
<1>b. CASE RenameBegin
  <2>1. pc = "rename" /\ OpenStep("commit_move") /\ pc' = "renameCheck" /\ pc' \in RowLabels
    BY <1>b, <1>4 DEF RenameBegin
  <2>2. /\ RowFrame /\ row' = row
        /\ \A s \in DOMAIN steps' :
              (s \in DOMAIN steps /\ steps'[s] = steps[s]) \/ steps'[s].stage = "commit_move"
    BY <1>1, <2>1, OpenFrame DEF RowFrame
  <2>3. ~prior_step_exists(row, "copy")'
    BY <2>1, <2>2 DEF FirstTry, prior_step_exists
  <2>4. FirstTry' /\ OnDisk'
    BY <2>1, <2>3 DEF FirstTry, OnDisk
  <2>5. Keeps
    BY <2>1, <1>5 DEF OpenStep
  <2> QED
    BY <1>9, <2>2, <2>4, <2>5
<1>c. CASE RenameResume
  <2>1. RowFrame /\ pc' \in Loose /\ disk' = disk
    BY <1>c, <1>4, <1>6, <1>7 DEF RenameResume
  <2> QED
    BY <1>9, <2>1, LooseStep, SameDiskKeeps
<1>d. CASE RenameRefuse
  BY <1>d, <1>5, <1>8, <1>9, LooseStep DEF RenameRefuse
<1>e. CASE RenameNoParent
  BY <1>e, <1>5, <1>7, <1>9, LooseStep DEF RenameNoParent
<1>f. CASE RenameReady
  <2>1. RowFrame /\ pc' = "renameDo" /\ UNCHANGED <<row, files, steps, disk>>
    BY <1>f, <1>4, <1>6 DEF RenameReady, Go, journal, loop, world
  <2>2. FirstTry' /\ OnDisk'
    BY <1>f, <2>1 DEF RenameReady, FirstTry, OnDisk, prior_step_exists, Exists, Dst
  <2> QED
    BY <1>9, <2>1, <2>2, SameDiskKeeps
<1>g. CASE RenameDo
  <2>1. RowFrame /\ pc' = "renameSync" /\ pc' \in Loose
    BY <1>g, <1>4, <1>6 DEF RenameDo
  <2>2. ~Exists(Dst(row))
    BY <1>g DEF RenameDo, OnDisk
  <2>3. Keeps
    <3> SUFFICES ASSUME NEW c \in Content, NEW q \in Path, disk[q] = c
                 PROVE  \E z \in Path : disk'[z] = c
      BY DEF Keeps, Whole
    <3>1. c # NoFile
      BY ContentAssumption
    <3>2. q # Dst(row)
      BY <2>2, <3>1 DEF Exists
    <3>3. disk'[Dst(row)] = disk[Src(row)]
      BY <1>g, <1>2 DEF RenameDo, WorldType
    <3>4. q # Src(row) => disk'[q] = disk[q]
      BY <1>g, <1>2, <3>2 DEF RenameDo, WorldType
    <3> QED
      BY <1>2, <3>3, <3>4
  <2> QED
    BY <1>9, <2>1, <2>3, LooseStep
<1>h. CASE RenameError
  BY <1>h, <1>5, <1>8, <1>9, LooseStep DEF RenameError
<1>i. CASE RenameExdev
  <2>1. pc' = "fallback" /\ UNCHANGED <<row, files, steps, disk, queue, plan, op, todo>>
    BY <1>i DEF RenameExdev, journal, intake, world
  <2>2. RowFrame
    BY <1>1, <1>4, <2>1 DEF RowFrame
  <2>3. FirstTry' /\ OnDisk'
    BY <1>i, <2>1 DEF RenameExdev, FirstTry, OnDisk, prior_step_exists
  <2> QED
    BY <1>9, <2>1, <2>2, <2>3, SameDiskKeeps
<1>j. CASE RenameSync
  <2>1. RowFrame /\ pc' \in Loose /\ disk' = disk
    BY <1>j, <1>4, <1>6, <1>8 DEF RenameSync
  <2> QED
    BY <1>9, <2>1, LooseStep, SameDiskKeeps
<1>k. CASE RenameDone
  <2>1. RowFrame /\ pc' \in Loose
    BY <1>k, <1>1, <1>3, <1>4, DoneFrame DEF RenameDone, StepDone
  <2> QED
    BY <1>k, <1>5, <1>9, <2>1, LooseStep DEF RenameDone
<1>l. CASE Fallback
  <2> DEFINE h == IF files[row].hash = NoHash THEN Digest[disk[Src(row)]]
                                              ELSE files[row].hash
             r == [files[row] EXCEPT !.hash = h]
  <2>1. files \in Seq(FileRow) /\ files[row] \in FileRow
    BY <1>2 DEF RestShape
  <2>2. files' = [files EXCEPT ![row] = r]
    BY <1>l DEF Fallback
  <2>3. /\ r.op = files[row].op /\ r.disp = files[row].disp
        /\ r.src = files[row].src /\ r.dst = files[row].dst
    BY <2>1 DEF FileRow
  <2> HIDE DEF h, r
  <2>4. DOMAIN files' = DOMAIN files /\ \A f \in DOMAIN files :
           files'[f] = IF f = row THEN r ELSE files[f]
    BY <2>1, <2>2
  <2>5. pc' = "copy" /\ UNCHANGED <<row, steps, disk, queue, plan, op, todo>>
    BY <1>l DEF Fallback, intake, loop, world
  <2>6. RowFrame
    BY <1>1, <1>4, <2>3, <2>4, <2>5 DEF RowFrame
  <2>7. FirstTry' /\ OnDisk'
    BY <1>l, <2>5 DEF Fallback, FirstTry, OnDisk, prior_step_exists
  <2> QED
    BY <1>9, <2>5, <2>6, <2>7, SameDiskKeeps
<1>m. CASE FallbackError
  BY <1>m, <1>5, <1>7, <1>9, LooseStep DEF FallbackError
<1> QED
  BY <1>a, <1>b, <1>c, <1>d, <1>e, <1>f, <1>g, <1>h, <1>i, <1>j, <1>k, <1>l, <1>m
     DEF RenameStep

LEMMA CopyCareful ==
    ASSUME WorldType, RestShape, Order, FirstTry, OnDisk, CopyStep
    PROVE  Order' /\ FirstTry' /\ OnDisk' /\ Keeps
<1>1. pc \in RowLabels
  BY DEF CopyStep, CopyBegin, CopyNoParent, CopyRefuse, CopyFresh, CopyReuse,
         CopyDiscard, CopyDiscardError, CopyOpen, CopyFill, CopyError, CopyDone,
         RowLabels
<1>2. row \in DOMAIN files /\ Src(row) \in Path /\ Dst(row) \in Path /\ Src(row) # Dst(row)
  BY <1>1, RowTypes DEF Order, Apart, Src, Dst
<1>3. NoHash \in Hashes \cup {NoHash}
  OBVIOUS
<1>4. /\ {"copyCheck", "copyDo", "copying", "copied", "error"} \subseteq RowLabels
      /\ "error" \in Loose
  BY DEF RowLabels, Loose
<1>5. ASSUME UNCHANGED world PROVE Keeps
  BY <1>5, SameDiskKeeps DEF world
<1>6. ASSUME NEW next \in RowLabels, Go(next)
      PROVE  RowFrame /\ pc' = next /\ row' = row /\ files' = files
  BY <1>1, <1>6, GoFrame DEF Go, loop, journal
<1>7. ASSUME StepFailed(NoHash) PROVE RowFrame /\ pc' \in Loose
  BY <1>1, <1>3, <1>4, <1>7, FailedFrame DEF StepFailed
<1>8. RowFrame => Order'
  BY OrderFrame
<1>9. NoFile \notin Content /\ Partial \notin Content
  BY ContentAssumption
<1>a. CASE CopyBegin
  <2>1. pc = "copy" /\ OpenStep("copy") /\ pc' = "copyCheck" /\ pc' \in RowLabels
    BY <1>a, <1>4 DEF CopyBegin
  <2>2. RowFrame
    BY <1>1, <2>1, OpenFrame
  <2>3. ~prior'
    BY <1>a DEF CopyBegin, FirstTry
  <2>4. FirstTry' /\ OnDisk'
    BY <2>1, <2>3 DEF FirstTry, OnDisk
  <2> QED
    BY <1>5, <1>8, <2>1, <2>2, <2>4 DEF OpenStep
<1>b. CASE CopyNoParent
  <2>1. RowFrame /\ pc' \in Loose
    BY <1>b, <1>1, <1>4, GoFrame DEF CopyNoParent, Abort
  <2> QED
    BY <1>b, <1>5, <1>8, <2>1, LooseStep DEF CopyNoParent
<1>c. CASE CopyRefuse
  BY <1>c, <1>5, <1>7, <1>8, LooseStep DEF CopyRefuse
<1>d. CASE CopyFresh
  <2>1. RowFrame /\ pc' = "copyDo" /\ row' = row /\ files' = files /\ disk' = disk
    BY <1>d, <1>4, <1>6 DEF CopyFresh, world
  <2>2. FirstTry' /\ OnDisk'
    BY <1>d, <2>1 DEF CopyFresh, FirstTry, OnDisk, Exists, Dst
  <2> QED
    BY <1>8, <2>1, <2>2, SameDiskKeeps
<1>e. CASE CopyReuse \/ CopyDiscard \/ CopyDiscardError
  BY <1>e DEF CopyReuse, CopyDiscard, CopyDiscardError, FirstTry
<1>f. CASE CopyOpen
  <2>1. RowFrame /\ pc' = "copying" /\ row' = row /\ files' = files
    BY <1>f, <1>4, <1>6 DEF CopyOpen
  <2>2. disk' = [disk EXCEPT ![Dst(row)] = Partial] /\ disk[Dst(row)] \notin Content
    BY <1>f, <1>9 DEF CopyOpen, OnDisk, Exists
  <2>3. Keeps
    BY <2>2, OverwriteKeeps
  <2>4. disk'[Dst(row)] = Partial
    BY <1>2, <2>2 DEF WorldType
  <2>5. FirstTry' /\ OnDisk'
    BY <2>1, <2>4 DEF FirstTry, OnDisk, Dst
  <2> QED
    BY <1>8, <2>1, <2>3, <2>5
<1>g. CASE CopyFill
  <2>1. RowFrame /\ pc' = "copied" /\ row' = row /\ files' = files
    BY <1>g, <1>4, <1>6 DEF CopyFill
  <2>2. disk' = [disk EXCEPT ![Dst(row)] = disk[Src(row)]] /\ disk[Dst(row)] \notin Content
    BY <1>g, <1>9 DEF CopyFill, OnDisk
  <2>3. Keeps
    BY <2>2, OverwriteKeeps
  <2>4. disk'[Dst(row)] = disk[Src(row)] /\ disk'[Src(row)] = disk[Src(row)]
    BY <1>2, <2>2 DEF WorldType
  <2>5. FirstTry' /\ OnDisk'
    BY <2>1, <2>4 DEF FirstTry, OnDisk, Dst, Src
  <2> QED
    BY <1>8, <2>1, <2>3, <2>5
<1>h. CASE CopyError
  BY <1>h, <1>5, <1>7, <1>8, LooseStep DEF CopyError
<1>i. CASE CopyDone
  <2>1. RowFrame
    BY <1>i, <1>1, <1>3, ToVerifyLabel, DoneFrame DEF CopyDone
  <2>2. pc' \in {"verify", "commit"} /\ row' = row /\ files' = files /\ disk' = disk
    BY <1>i DEF CopyDone, StepDone, ToVerify, AfterCopy, loop, world
  <2>3. FirstTry' /\ OnDisk'
    BY <1>i, <2>2 DEF CopyDone, FirstTry, OnDisk, Dst, Src
  <2> QED
    BY <1>8, <2>1, <2>2, <2>3, SameDiskKeeps
<1> QED
  BY <1>a, <1>b, <1>c, <1>d, <1>e, <1>f, <1>g, <1>h, <1>i DEF CopyStep

LEMMA CommitCareful ==
    ASSUME WorldType, RestShape, Order, FirstTry, OnDisk, CommitStep
    PROVE  Order' /\ FirstTry' /\ OnDisk' /\ Keeps
<1>1. pc \in RowLabels
  BY DEF CommitStep, VerifyBegin, VerifyDone, VerifyError, CommitBegin, CommitSync,
         CommitRemove, CommitError, CommitDone, RowLabels
<1>2. row \in DOMAIN files /\ Src(row) \in Path /\ Dst(row) \in Path /\ Src(row) # Dst(row)
  BY <1>1, RowTypes DEF Order, Apart, Src, Dst
<1>3. /\ NoHash \in Hashes \cup {NoHash} /\ files[row].hash \in Hashes \cup {NoHash}
      /\ Exists(Dst(row)) => Digest[disk[Dst(row)]] \in Hashes \cup {NoHash}
  BY <1>1, RowTypes
<1>4. /\ {"verifying", "commit", "commitSync", "commitRemove", "commitDone", "rowDone",
          "error"} \subseteq RowLabels
      /\ {"error", "commitDone", "rowDone"} \subseteq Loose
  BY DEF RowLabels, Loose
<1>5. ASSUME UNCHANGED world PROVE Keeps
  BY <1>5, SameDiskKeeps DEF world
<1>6. ASSUME NEW next \in RowLabels, Go(next)
      PROVE  RowFrame /\ pc' = next /\ row' = row /\ files' = files
  BY <1>1, <1>6, GoFrame DEF Go, loop, journal
<1>7. ASSUME NEW h \in Hashes \cup {NoHash}, StepFailed(h) PROVE RowFrame /\ pc' \in Loose
  BY <1>1, <1>4, <1>7, FailedFrame DEF StepFailed
<1>8. RowFrame => Order'
  BY OrderFrame
\* From one of the labels of a complete copy to another.
<1>9. ASSUME pc \in {"verify", "verifying", "commit", "commitSync"},
             pc' \in {"verifying", "commit", "commitSync", "commitRemove"},
             row' = row, files' = files, disk' = disk
      PROVE  FirstTry' /\ OnDisk'
  BY <1>9 DEF FirstTry, OnDisk, Dst, Src
<1>10. ASSUME NEW stage, OpenStep(stage), pc' \in RowLabels
       PROVE  RowFrame /\ row' = row /\ files' = files /\ disk' = disk
  BY <1>1, <1>10, OpenFrame DEF OpenStep, world
<1>a. CASE VerifyBegin
  BY <1>a, <1>4, <1>8, <1>9, <1>10, SameDiskKeeps DEF VerifyBegin
<1>b. CASE VerifyDone
  <2>1. RowFrame
    BY <1>b, <1>1, <1>3, <1>4, DoneFrame DEF VerifyDone
  <2>2. pc = "verifying" /\ pc' = "commit" /\ row' = row /\ files' = files /\ disk' = disk
    BY <1>b DEF VerifyDone, StepDone, loop, world
  <2> QED
    BY <1>8, <1>9, <2>1, <2>2, SameDiskKeeps
<1>c. CASE VerifyError
  <2>1. RowFrame /\ pc' \in Loose
    BY <1>c, <1>3, <1>7 DEF VerifyError
  <2> QED
    BY <1>c, <1>5, <1>8, <2>1, LooseStep DEF VerifyError
<1>d. CASE CommitBegin
  BY <1>d, <1>4, <1>8, <1>9, <1>10, SameDiskKeeps DEF CommitBegin
<1>e. CASE CommitSync
  <2>1. CASE Go("commitRemove")
    <3>1. pc = "commitSync" /\ disk' = disk
      BY <1>e DEF CommitSync
    <3> QED
      BY <2>1, <3>1, <1>4, <1>6, <1>8, <1>9, SameDiskKeeps
  <2>2. CASE StepFailed(NoHash)
    BY <1>e, <2>2, <1>3, <1>7, <1>8, LooseStep, SameDiskKeeps DEF CommitSync
  <2> QED
    BY <1>e, <2>1, <2>2 DEF CommitSync
<1>f. CASE CommitRemove
  <2>1. RowFrame /\ pc' \in Loose
    BY <1>f, <1>4, <1>6 DEF CommitRemove
  <2>2. disk[Dst(row)] = disk[Src(row)] /\ disk' = [disk EXCEPT ![Src(row)] = NoFile]
    BY <1>f DEF CommitRemove, OnDisk
  <2>3. Keeps
    BY <1>2, <2>2, OverwriteKeeps
  <2> QED
    BY <1>8, <2>1, <2>3, LooseStep
<1>g. CASE CommitError
  BY <1>g, <1>3, <1>5, <1>7, <1>8, LooseStep DEF CommitError
<1>h. CASE CommitDone
  <2>1. RowFrame /\ pc' \in Loose
    BY <1>h, <1>1, <1>3, <1>4, DoneFrame DEF CommitDone, StepDone
  <2> QED
    BY <1>h, <1>5, <1>8, <2>1, LooseStep DEF CommitDone
<1> QED
  BY <1>a, <1>b, <1>c, <1>d, <1>e, <1>f, <1>g, <1>h DEF CommitStep

LEMMA LoopCareful ==
    ASSUME WorldType, RestShape, Order, FirstTry, OnDisk, RunLoop
    PROVE  Order' /\ FirstTry' /\ OnDisk' /\ Keeps
<1>1. ASSUME UNCHANGED world PROVE Keeps
  BY <1>1, SameDiskKeeps DEF world
<1>2. ASSUME todo # {} PROVE First(todo) \in todo /\ First(todo) \in DOMAIN files
  <2>1. todo \subseteq DOMAIN files /\ DOMAIN files \subseteq Nat
    BY DEF RestShape
  <2>2. todo \subseteq Nat
    BY <2>1
  <2>3. First(todo) \in todo
    BY <1>2, <2>2, FirstIn
  <2> QED
    BY <2>1, <2>3
<1>3. \A s \in DOMAIN steps : steps[s].file \in DOMAIN files
  BY DEF RestShape, Keys
<1>4. ASSUME NEW st, EndRun(st), pc \in RowLabels \cup {"next"},
             \/ steps' = steps
             \/ steps' = [steps EXCEPT ![outer].status = "failed"]
      PROVE  Order' /\ FirstTry' /\ OnDisk' /\ Keeps
  <2>1. steps \in Seq(StepRow) /\ "failed" \in StepStatus
        /\ (steps' = steps \/ steps' = MarkStep(steps, outer, "failed"))
    BY <1>4 DEF RestShape, StepStatus, MarkStep
  <2>2. /\ DOMAIN steps' = DOMAIN steps
        /\ \A s \in DOMAIN steps : steps'[s].file = steps[s].file
    BY <2>1, MarkEdit DEF SameSteps
  <2>3. pc' = "idle" /\ "idle" \notin RowLabels /\ "idle" \in Loose
    BY <1>4 DEF EndRun, RowLabels, Loose
  <2>4. RowFrame
    BY <1>4, <2>2, <2>3 DEF RowFrame, EndRun, intake, loop
  <2> QED
    BY <1>1, <1>4, <2>3, <2>4, OrderFrame, LooseStep DEF EndRun
<1>a. CASE Start
  <2>1. /\ pc = "start" /\ pc' = "next" /\ todo' = FilesOf(op)
        /\ UNCHANGED <<disk, files, steps, queue, plan, op>>
    BY <1>a DEF Start, intake, world
  <2>2. Apart'
    BY <2>1 DEF Order, Apart
  <2>3. Queued'
    BY <2>1 DEF Order, Queued, Fresh
  <2>4. Started'
    BY <2>1 DEF Order, Started, Queued, Fresh, FilesOf, RowLabels
  <2> QED
    BY <2>1, <2>2, <2>3, <2>4, LooseStep, SameDiskKeeps DEF Order, Loose
<1>b. CASE Complete
  BY <1>b, <1>4 DEF Complete
<1>c. CASE Cancelled
  BY <1>c, <1>4 DEF Cancelled
<1>d. CASE SkipRow
  <2>1. /\ pc = "next" /\ pc' = "next" /\ todo' \subseteq todo
        /\ UNCHANGED <<disk, files, steps, queue, plan, op, row>>
    BY <1>d DEF SkipRow, journal, intake, world
  <2>2. Apart'
    BY <2>1 DEF Order, Apart
  <2>3. Queued'
    BY <2>1 DEF Order, Queued, Fresh
  <2>4. Started'
    BY <2>1 DEF Order, Started, RowLabels
  <2> QED
    BY <2>1, <2>2, <2>3, <2>4, LooseStep, SameDiskKeeps DEF Order, Loose
<1>e. CASE BeginRow
  <2> DEFINE f0 == First(todo)
  <2>1. f0 \in todo /\ f0 \in DOMAIN files
    BY <1>e, <1>2 DEF BeginRow
  <2>2. /\ pc = "next" /\ row' = f0 /\ todo' = todo \ {f0}
        /\ UNCHANGED <<disk, steps, queue, plan, op>>
        /\ files' = [files EXCEPT ![f0].disp = "in_progress"]
    BY <1>e DEF BeginRow, intake, world
  <2>3. files[f0].op = op /\ files[f0].disp = "pending"
    BY <2>1, <2>2 DEF Order, Started
  <2>4. \A s \in DOMAIN steps : steps[s].file # f0
    BY <2>3 DEF Order, Started
  <2>5. pc' \in {"rename", "copy"}
    BY <1>e, <2>4 DEF BeginRow, done_file_ids_for_stage
  <2> HIDE DEF f0
  <2>6. files \in Seq(FileRow) /\ "in_progress" \in RowDisp
        /\ files' = MarkRow(files, f0, "in_progress")
    BY <2>2 DEF RestShape, RowDisp, MarkRow
  <2>7. /\ DOMAIN files' = DOMAIN files
        /\ \A f \in DOMAIN files :
              /\ files'[f].op = files[f].op
              /\ files'[f].src = files[f].src /\ files'[f].dst = files[f].dst
              /\ files'[f].disp = IF f = f0 THEN "in_progress" ELSE files[f].disp
    BY <2>6, RowEdit DEF SameRows
  <2>8. Apart'
    BY <2>2, <2>7 DEF Order, Apart
  <2>9. Queued'
    <3>1. \A i \in DOMAIN queue : queue[i] # op
      BY <2>2 DEF Order, Queued
    <3>2. \A i \in DOMAIN queue : Fresh(queue[i])'
      BY <3>1, <2>2, <2>3, <2>7 DEF Order, Queued, Fresh
    <3> QED
      BY <2>2, <2>5, <3>1, <3>2 DEF Order, Queued
  <2>10. Started'
    <3>1. \A s \in DOMAIN steps : files'[steps[s].file].disp # "pending"
      BY <1>3, <2>4, <2>7 DEF Order, Started
    <3>2. \A f \in todo' : files'[f].op = op /\ files'[f].disp = "pending"
      <4>1. todo \subseteq DOMAIN files
        BY DEF RestShape
      <4> QED
        BY <2>2, <2>7, <4>1 DEF Order, Started
    <3>3. files'[row'].op = op /\ row' \notin todo' /\ files'[row'].disp # "pending"
      <4>1. files'[f0].op = op /\ files'[f0].disp = "in_progress"
        BY <2>1, <2>3, <2>7
      <4> QED
        BY <2>2, <4>1
    <3> QED
      BY <2>2, <3>1, <3>2, <3>3 DEF Started
  <2>11. FirstTry' /\ OnDisk'
    BY <2>2, <2>4, <2>5 DEF FirstTry, OnDisk, prior_step_exists
  <2> QED
    BY <2>2, <2>8, <2>9, <2>10, <2>11, SameDiskKeeps DEF Order
<1>f. CASE EndRow
  <2>1. pc \in RowLabels /\ pc' = "next" /\ "next" \in Loose /\ "next" \notin RowLabels
    BY <1>f DEF EndRow, RowLabels, Loose
  <2>2. steps \in Seq(StepRow) /\ "done" \in StepStatus
        /\ (steps' = steps \/ steps' = MarkStep(steps, outer, "done"))
    BY <1>f DEF EndRow, RestShape, StepStatus, MarkStep
  <2>3. /\ DOMAIN steps' = DOMAIN steps
        /\ \A s \in DOMAIN steps : steps'[s].file = steps[s].file
    BY <2>2, MarkEdit DEF SameSteps
  <2>4. files' = [files EXCEPT ![row].disp = "done"]
    BY <1>f DEF EndRow
  <2>5. RowFrame
    BY <1>f, <2>1, <2>3, <2>4, MarkedRow DEF RowFrame, EndRow, intake, loop
  <2> QED
    BY <1>f, <1>1, <2>1, <2>5, OrderFrame, LooseStep DEF EndRow
<1>g. CASE Fail
  <2>1. pc \in RowLabels
    BY <1>g DEF Fail, RowLabels
  <2> QED
    BY <1>g, <1>4, <2>1 DEF Fail
<1> QED
  BY <1>a, <1>b, <1>c, <1>d, <1>e, <1>f, <1>g DEF RunLoop

LEMMA DequeueCareful ==
    ASSUME RestShape, Order, Dequeue
    PROVE  Order' /\ FirstTry' /\ OnDisk' /\ Keeps
<1>1. /\ pc = "idle" /\ pc' = "heal" /\ op' = Head(queue) /\ queue' = Tail(queue)
      /\ queue \in Seq(0..Len(status)) /\ queue # <<>>
      /\ UNCHANGED <<disk, files, steps, plan, todo, row>>
  BY DEF Dequeue, RestShape, journal, world
<1>2. /\ 1 \in DOMAIN queue /\ Head(queue) = queue[1]
      /\ \A i \in DOMAIN Tail(queue) :
            i + 1 \in DOMAIN queue /\ i + 1 # 1 /\ Tail(queue)[i] = queue[i + 1]
  BY <1>1
<1>3. Apart'
  BY <1>1 DEF Order, Apart
<1>4. Queued'
  <2>0. ASSUME NEW o, Fresh(o) PROVE Fresh(o)'
    BY <2>0, <1>1 DEF Fresh
  <2>1. \A i \in DOMAIN queue' : Fresh(queue[i])' /\ queue'[i] # op'
    <3> TAKE i \in DOMAIN queue'
    <3>1. queue'[i] = queue[i + 1] /\ i + 1 \in DOMAIN queue /\ i + 1 # 1 /\ op' = queue[1]
      BY <1>1, <1>2
    <3>2. PICK o : o = queue[i + 1]
      OBVIOUS
    <3>3. Fresh(o)'
      BY <2>0, <3>1, <3>2 DEF Order, Queued
    <3>4. Fresh(queue[i])'
      BY <3>1, <3>2, <3>3 DEF Fresh
    <3> QED
      BY <1>2, <3>1, <3>4 DEF Order, Queued
  <2>2. \A i, j \in DOMAIN queue' : queue'[i] = queue'[j] => i = j
    <3> TAKE i, j \in DOMAIN queue'
    <3>1. i \in Nat /\ j \in Nat
      BY <1>1
    <3> QED
      BY <1>1, <1>2, <3>1 DEF Order, Queued
  <2>3. Fresh(op)'
    <3>1. PICK o : o = queue[1]
      OBVIOUS
    <3>2. Fresh(o)'
      BY <1>2, <2>0, <3>1 DEF Order, Queued
    <3> QED
      BY <1>1, <1>2, <3>1, <3>2 DEF Fresh
  <2> QED
    BY <2>1, <2>2, <2>3 DEF Queued
<1>5. Started'
  BY <1>1 DEF Order, Started, RowLabels
<1> QED
  BY <1>1, <1>3, <1>4, <1>5, LooseStep, SameDiskKeeps DEF Order, Loose

\* The reconcile pass marks only rows that were started: those with a step.
LEMMA ReconcileCareful ==
    ASSUME RestShape, Order, Reconcile
    PROVE  /\ Order' /\ FirstTry' /\ OnDisk'
           /\ pc # "heal" => Keeps
<1>1. ASSUME UNCHANGED <<files, steps, queue, plan, op>>,
             pc \in {"heal", "healStep", "healRow"},
             pc' \in {"heal", "healStep", "healRow", "start", "idle"}
      PROVE  Order'
  <2>1. Apart' /\ Queued'
    BY <1>1 DEF Order, Apart, Queued, Fresh
  <2>2. Started'
    BY <1>1 DEF Order, Started, RowLabels
  <2> QED
    BY <2>1, <2>2 DEF Order
<1>2. {"heal", "healStep", "healRow", "start", "idle"} \subseteq Loose
  BY DEF Loose
<1>a. CASE HealSkip
  BY <1>a, <1>1, <1>2, LooseStep DEF HealSkip, journal, intake, loop
<1>b. CASE HealRemove
  BY <1>b, <1>1, <1>2, LooseStep DEF HealRemove, journal, intake, loop
<1>c. CASE HealStep
  <2>1. steps \in Seq(StepRow) /\ "done" \in StepStatus
        /\ steps' = MarkStep(steps, First(cands), "done")
    BY <1>c DEF HealStep, RestShape, StepStatus, MarkStep
  <2>2. /\ DOMAIN steps' = DOMAIN steps
        /\ \A s \in DOMAIN steps : steps'[s].file = steps[s].file
    BY <2>1, MarkEdit DEF SameSteps
  <2>3. /\ pc = "healStep" /\ pc' = "healRow"
        /\ UNCHANGED <<disk, files, queue, plan, op, todo, row>>
    BY <1>c DEF HealStep, intake, loop, world
  <2>4. Apart' /\ Queued'
    BY <2>3 DEF Order, Apart, Queued, Fresh
  <2>5. Started'
    BY <2>2, <2>3 DEF Order, Started, RowLabels
  <2> QED
    BY <1>2, <2>3, <2>4, <2>5, LooseStep, SameDiskKeeps DEF Order
<1>d. CASE HealRow
  <2> DEFINE g == steps[First(cands)].file
  <2>1. /\ pc = "healRow" /\ pc' = "heal" /\ files' = [files EXCEPT ![g].disp = "done"]
        /\ UNCHANGED <<disk, steps, queue, plan, op, todo, row>>
    BY <1>d DEF HealRow, intake, loop, world
  <2>2. g \in DOMAIN files /\ files[g].disp # "pending"
    <3>1. cands # {} /\ cands \subseteq DOMAIN steps /\ DOMAIN steps \subseteq Nat
      BY <2>1 DEF RestShape, Registers
    <3>2. cands \subseteq Nat
      BY <3>1
    <3>3. First(cands) \in DOMAIN steps
      BY <3>1, <3>2, FirstIn
    <3> QED
      BY <3>3 DEF RestShape, Keys, Order, Started
  <2> HIDE DEF g
  <2>3. files \in Seq(FileRow) /\ "done" \in RowDisp /\ files' = MarkRow(files, g, "done")
    BY <2>1 DEF RestShape, RowDisp, MarkRow
  <2>4. /\ DOMAIN files' = DOMAIN files
        /\ \A f \in DOMAIN files :
              /\ files'[f].op = files[f].op
              /\ files'[f].src = files[f].src /\ files'[f].dst = files[f].dst
              /\ files'[f].disp = IF f = g THEN "done" ELSE files[f].disp
    BY <2>3, RowEdit DEF SameRows
  <2>5. \A f \in DOMAIN files : files'[f].disp = "pending" <=> files[f].disp = "pending"
    BY <2>2, <2>4
  <2>6. Apart'
    BY <2>1, <2>4 DEF Order, Apart
  <2>7. \A o : Fresh(o) => Fresh(o)'
    BY <2>4, <2>5 DEF Fresh
  <2>8. Queued'
    BY <2>1, <2>7 DEF Order, Queued
  <2>9. Started'
    <3>1. \A s \in DOMAIN steps : steps[s].file \in DOMAIN files
      BY DEF RestShape, Keys
    <3> QED
      BY <3>1, <2>1, <2>5 DEF Order, Started, RowLabels
  <2> QED
    BY <1>2, <2>1, <2>6, <2>8, <2>9, LooseStep, SameDiskKeeps DEF Order
<1>e. CASE HealEnd
  BY <1>e, <1>1, <1>2, LooseStep DEF HealEnd, intake, loop
<1> QED
  BY <1>a, <1>b, <1>c, <1>d, <1>e DEF Reconcile

\* Whatever leaves the worker's row, its journal and the disk alone.
LEMMA BystanderCareful ==
    ASSUME RestShape, FirstTry, OnDisk,
           UNCHANGED <<disk, steps, pc, row, prior>>,
           \A f \in DOMAIN files : f \in DOMAIN files' /\ files'[f] = files[f]
    PROVE  FirstTry' /\ OnDisk' /\ Keeps
<1>1. FirstTry'
  BY DEF FirstTry, prior_step_exists
<1>2. pc \in RowLabels => Src(row)' = Src(row) /\ Dst(row)' = Dst(row)
  BY DEF RestShape, Registers, Src, Dst
<1>3. OnDisk'
  BY <1>2 DEF OnDisk, Exists, RowLabels
<1> QED
  BY <1>1, <1>3, SameDiskKeeps

LEMMA UserCareful ==
    ASSUME MaxResumes = 0, WorldType, RestShape, Order, FirstTry, OnDisk, User
    PROVE  Order' /\ FirstTry' /\ OnDisk' /\ Keeps
<1>a. ASSUME NEW r \in Requests, Plan(r) PROVE Order' /\ FirstTry' /\ OnDisk' /\ Keeps
  <2>1. plan' = r /\ UNCHANGED <<disk, files, steps, queue, pc, op, todo, row, prior>>
    BY <1>a DEF Plan, journal, loop, world
  <2>2. Apart'
    BY <1>a, <2>1 DEF Plan, Order, Apart
  <2>3. Queued' /\ Started'
    BY <2>1 DEF Order, Queued, Started, Fresh
  <2> QED
    BY <2>1, <2>2, <2>3, BystanderCareful DEF Order
<1>b. CASE PersistPlan
  <2>1. /\ \A f \in DOMAIN files : f \in DOMAIN files' /\ files'[f] = files[f]
        /\ \A f \in DOMAIN files' : f \notin DOMAIN files =>
              /\ files'[f].op = Len(status) + 1 /\ files'[f].disp = "pending"
              /\ \E i \in DOMAIN plan.srcs :
                    /\ files'[f].src = plan.srcs[i]
                    /\ files'[f].dst = DestOf(plan.srcs[i], plan.dir)
        /\ queue' = queue \/ queue' = Append(queue, Len(status) + 1)
    BY <1>b, PersistShape
  <2>2. /\ plan # NoPlan /\ plan' = NoPlan
        /\ UNCHANGED <<disk, steps, pc, op, todo, row, prior>>
    BY <1>b DEF PersistPlan, loop, world
  <2>3. /\ queue \in Seq(0..Len(status)) /\ op \in 0..Len(status) /\ Len(status) \in Nat
        /\ \A f \in DOMAIN files : files[f].op \in 1..Len(status)
    BY DEF RestShape, Keys
  <2>4. Apart'
    BY <2>1, <2>2 DEF Order, Apart
  <2>5. \A o : Fresh(o) => Fresh(o)'
    BY <2>1 DEF Fresh
  <2> PICK o : o = Len(status) + 1
    OBVIOUS
  <2>6. Fresh(o)'
    BY <2>1, <2>3 DEF Fresh
  <2>7. Queued'
    <3>1. CASE queue' = queue
      BY <2>2, <2>5, <3>1 DEF Order, Queued
    <3>2. CASE queue' = Append(queue, Len(status) + 1)
      <4>1. /\ DOMAIN queue' = 1..(Len(queue) + 1) /\ DOMAIN queue = 1..Len(queue)
            /\ Len(queue) \in Nat
            /\ \A i \in DOMAIN queue : queue'[i] = queue[i] /\ queue[i] # o
            /\ queue'[Len(queue) + 1] = o /\ op # o
        BY <2>3, <3>2
      <4>3. \A i \in DOMAIN queue' : i \in DOMAIN queue \/ i = Len(queue) + 1
        BY <4>1
      <4>4. \A i, j \in DOMAIN queue' : queue'[i] = queue'[j] => i = j
        BY <4>1, <4>3 DEF Order, Queued
      <4>5. \A i \in DOMAIN queue' : Fresh(queue[i])'
        <5> TAKE i \in DOMAIN queue'
        <5>1. CASE i \in DOMAIN queue
          <6>1. PICK q : q = queue[i]
            OBVIOUS
          <6>2. Fresh(q)'
            BY <2>5, <5>1, <6>1 DEF Order, Queued
          <6> QED
            BY <4>1, <5>1, <6>1, <6>2 DEF Fresh
        <5>2. CASE i = Len(queue) + 1
          BY <2>6, <4>1, <5>2 DEF Fresh
        <5> QED
          BY <4>3, <5>1, <5>2
      <4>6. pc' \notin {"idle", "down"} => \A i \in DOMAIN queue' : queue'[i] # op'
        BY <2>2, <4>1, <4>3 DEF Order, Queued
      <4>7. pc' \in {"heal", "healStep", "healRow", "start"} => Fresh(op)'
        <5>1. PICK q : q = op
          OBVIOUS
        <5>2. Fresh(q) => Fresh(q)'
          BY <2>5
        <5> QED
          BY <2>2, <5>1, <5>2 DEF Order, Queued, Fresh
      <4> QED
        BY <4>4, <4>5, <4>6, <4>7 DEF Queued
    <3> QED
      BY <2>1, <3>1, <3>2
  <2>8. Started'
    <3>1. /\ \A s \in DOMAIN steps : steps[s].file \in DOMAIN files
          /\ todo \subseteq DOMAIN files /\ (pc \in RowLabels => row \in DOMAIN files)
      BY DEF RestShape, Keys, Registers
    <3> QED
      BY <3>1, <2>1, <2>2 DEF Order, Started
  <2> QED
    BY <2>1, <2>2, <2>4, <2>7, <2>8, BystanderCareful DEF Order
<1>c. ASSUME NEW o \in DOMAIN status, Cancel(o) PROVE Order' /\ FirstTry' /\ OnDisk' /\ Keeps
  <2>1. UNCHANGED <<disk, files, steps, queue, plan, pc, op, todo, row, prior>>
    BY <1>c DEF Cancel, journal, loop, world
  <2>2. Order'
    BY <2>1 DEF Order, Apart, Queued, Started, Fresh
  <2> QED
    BY <2>1, <2>2, BystanderCareful
<1>d. ASSUME NEW o \in DOMAIN status, Resume(o) PROVE FALSE
  BY <1>d DEF Resume, RestShape
<1> QED
  BY <1>a, <1>b, <1>c, <1>d DEF User

LEMMA SurroundingsCareful ==
    ASSUME MaxExternal = 0, RestShape, Order, Surroundings
    PROVE  Order' /\ FirstTry' /\ OnDisk' /\ Keeps
<1>a. CASE Crash
  <2>1. /\ pc' = "down" /\ queue' = <<>> /\ plan' = NoPlan
        /\ UNCHANGED <<disk, files, steps>>
    BY <1>a DEF Crash, journal, world
  <2>2. Apart' /\ Queued'
    BY <2>1 DEF Order, Apart, Queued
  <2>3. Started'
    BY <2>1 DEF Order, Started, RowLabels
  <2> QED
    BY <2>1, <2>2, <2>3, LooseStep, SameDiskKeeps DEF Order, Loose
<1>b. CASE Restart
  <2>1. pc' = "idle" /\ UNCHANGED <<disk, files, steps, plan>>
    BY <1>b DEF Restart, journal, world
  <2>2. Fresh(0)'
    BY <2>1 DEF RestShape, Keys, Fresh
  <2>3. \A i \in DOMAIN queue' : i = 1 /\ queue'[i] = 0
    <3>1. CASE queue' = <<>>
      BY <3>1
    <3>2. CASE queue' = <<0>>
      BY <3>2
    <3> QED
      BY <1>b, <3>1, <3>2 DEF Restart
  <2>4. Queued'
    BY <2>1, <2>2, <2>3 DEF Queued
  <2>5. Apart' /\ Started'
    BY <2>1 DEF Order, Apart, Started, RowLabels
  <2> QED
    BY <2>1, <2>4, <2>5, LooseStep, SameDiskKeeps DEF Order, Loose
<1>c. ASSUME NEW p \in Path, NEW c \in Content \cup {NoFile}, External(p, c) PROVE FALSE
  BY <1>c DEF External, RestShape
<1> QED
  BY <1>a, <1>b, <1>c DEF Surroundings

-----------------------------------------------------------------------------
LEMMA InitCareful == Init => Careful
<1> SUFFICES ASSUME Init PROVE Careful
  OBVIOUS
<1>1. /\ pc = "idle" /\ queue = <<>> /\ plan = NoPlan /\ files = <<>> /\ steps = <<>>
  BY DEF Init
<1>2. DOMAIN files = {} /\ DOMAIN steps = {} /\ DOMAIN queue = {}
  BY <1>1
<1>3. Order
  BY <1>1, <1>2 DEF Order, Apart, Queued, Started, RowLabels
<1>4. FirstTry /\ OnDisk
  BY <1>1 DEF FirstTry, OnDisk
<1> QED
  BY <1>3, <1>4, InitShape DEF Careful

LEMMA CarefulStep ==
    ASSUME MaxExternal = 0, MaxResumes = 0, Careful, [Next]_vars
    PROVE  Careful' /\ (pc # "heal" => Keeps)
<1>1. Shape' /\ WorldType /\ RestShape /\ Order /\ FirstTry /\ OnDisk
  BY ShapeStep, ShapeSplit DEF Careful
<1>2. CASE Worker
  <2>1. Order' /\ FirstTry' /\ OnDisk' /\ (pc # "heal" => Keeps)
    BY <1>1, <1>2, DequeueCareful, ReconcileCareful, LoopCareful, RenameCareful,
       CopyCareful, CommitCareful DEF Worker
  <2> QED
    BY <1>1, <2>1 DEF Careful
<1>3. CASE User
  BY <1>1, <1>3, UserCareful DEF Careful
<1>4. CASE Surroundings
  BY <1>1, <1>4, SurroundingsCareful DEF Careful
<1>5. CASE UNCHANGED vars
  <2>1. UNCHANGED <<disk, files, steps, queue, plan, pc, op, todo, row, prior>>
    BY <1>5 DEF vars, world, journal, intake, loop
  <2>2. Order'
    BY <1>1, <2>1 DEF Order, Apart, Queued, Started, Fresh
  <2> QED
    BY <1>1, <2>1, <2>2, BystanderCareful DEF Careful
<1> QED
  BY <1>2, <1>3, <1>4, <1>5 DEF Next

\* For any directories, mounts, files and requests, any number of operations
\* queued at once, any file system failures and any number of kills: as long
\* as nothing else writes to the scan roots and no operation is run a second
\* time, no step of the executor destroys the last complete copy of a file.
THEOREM ExecutorIsCareful ==
    ASSUME MaxExternal = 0, MaxResumes = 0
    PROVE  Spec => ExecutorKeepsContent
<1>1. Init => Careful
  BY InitCareful
<1>2. Careful /\ [Next]_vars => Careful'
  BY CarefulStep
<1>3. Careful /\ [Next]_vars =>
        [externals' = externals /\ pc # "heal" => Keeps]_vars
  BY CarefulStep
<1> QED
  BY <1>1, <1>2, <1>3, PTL DEF Spec, ExecutorKeepsContent

-----------------------------------------------------------------------------
(***************************************************************************)
(* Disk and catalog agree whenever no job runs, when the user waits for    *)
(* each move to end, the process is not killed, and every row of the       *)
(* catalog starts at a file that is there.  Between the rename of a file   *)
(* and the update of its row they do not; the rest of the invariant says   *)
(* that this update cannot fail and moves the right row.                   *)
(***************************************************************************)
\* One move is planned, queued or run at a time.
Alone ==
    /\ pc # "down"
    /\ plan # NoPlan => pc = "idle" /\ queue = <<>>
    /\ queue # <<>> => pc = "idle" /\ Len(queue) = 1

\* The rows of a move go to one directory, and none comes from it.
OneTrip ==
    \A f, g \in DOMAIN files : files[f].op = files[g].op =>
        /\ files[f].dst # files[g].src
        /\ files[f].src = files[g].src => files[f].dst = files[g].dst

\* The catalog row the planner found is where the move left it.
Tracked ==
    \A f \in DOMAIN files : Active(files[f].op) /\ files[f].cat # NoCat =>
        catalog[files[f].cat] \in {Src(f), Dst(f)}

\* Every catalog row is at its file, or about to be.
Agreed ==
    /\ \A i \in CatId :
          IF pc = "renameSync" /\ catalog[i] = Src(row)
            THEN disk[Dst(row)] = Original(i) ELSE disk[catalog[i]] = Original(i)
    /\ pc = "renameSync" => \A i \in CatId : catalog[i] # Dst(row)
    /\ pc = "commitRemove" => \A i \in CatId : catalog[i] # Src(row)

Steady == Alone /\ OneTrip /\ Tracked /\ Agreed

AllPresent == \A i \in CatId : Original(i) \in Content

\* A step of the worker within its job keeps what the rows were planned for.
KeptRows ==
    /\ DOMAIN files' = DOMAIN files
    /\ \A f \in DOMAIN files :
          /\ files'[f].op = files[f].op /\ files'[f].cat = files[f].cat
          /\ files'[f].src = files[f].src /\ files'[f].dst = files[f].dst

Routine ==
    /\ KeptRows
    /\ UNCHANGED <<queue, plan, op>>
    /\ pc \notin {"idle", "down"} /\ pc' # "down"

LEMMA MarkKept ==
    ASSUME RestShape, NEW i, NEW v \in RowDisp, files' = [files EXCEPT ![i].disp = v]
    PROVE  KeptRows
<1>1. files \in Seq(FileRow) /\ files' = MarkRow(files, i, v)
  BY DEF RestShape, MarkRow
<1> QED
  BY <1>1, RowEdit DEF SameRows, KeptRows

LEMMA SameKept == ASSUME files' = files PROVE KeptRows
BY DEF KeptRows

LEMMA ReconcileRoutine ==
    ASSUME RestShape, Reconcile
    PROVE  Routine /\ pc \in {"heal", "healStep", "healRow"}
                   /\ pc' \in {"heal", "healStep", "healRow", "start", "idle"}
<1>1. KeptRows
  <2>1. CASE HealRow
    BY <2>1, MarkKept DEF HealRow, RowDisp
  <2> QED
    BY <2>1, SameKept DEF Reconcile, HealSkip, HealRemove, HealStep, HealEnd, journal
<1>2. /\ UNCHANGED <<queue, plan, op>> /\ pc \in {"heal", "healStep", "healRow"}
      /\ pc' \in {"heal", "healStep", "healRow", "start", "idle"}
  BY DEF Reconcile, HealSkip, HealRemove, HealStep, HealRow, HealEnd, intake, loop
<1> QED
  BY <1>1, <1>2 DEF Routine

LEMMA LoopRoutine ==
    ASSUME RestShape, RunLoop
    PROVE  Routine /\ UNCHANGED world /\ pc \in {"start", "next", "rowDone", "error"}
                   /\ pc' \notin {"renameSync", "commitRemove"}
<1>1. KeptRows
  <2>1. CASE BeginRow
    BY <2>1, MarkKept DEF BeginRow, RowDisp
  <2>2. CASE EndRow
    BY <2>2, MarkKept DEF EndRow, RowDisp
  <2> QED
    BY <2>1, <2>2, SameKept
       DEF RunLoop, Start, Complete, Cancelled, SkipRow, Fail, EndRun, journal
<1>2. CASE BeginRow
  <2>1. pc' \in {"rename", "commit", "verify", "copy"}
    BY <1>2, Zenon DEF BeginRow, AfterCopy
  <2> QED
    BY <1>1, <1>2, <2>1 DEF BeginRow, Routine, intake, world
<1>3. CASE ~BeginRow
  <2>1. /\ UNCHANGED world /\ UNCHANGED <<queue, plan, op>>
        /\ pc \in {"start", "next", "rowDone", "error"} /\ pc' \in {"next", "idle"}
    BY <1>3 DEF RunLoop, Start, Complete, Cancelled, SkipRow, EndRow, Fail, EndRun,
                intake, loop
  <2> QED
    BY <1>1, <2>1 DEF Routine
<1> QED
  BY <1>2, <1>3

LEMMA RenameRoutine ==
    ASSUME RestShape, RenameStep
    PROVE  Routine /\ row' = row
<1>1. KeptRows
  <2>1. CASE Fallback
    <3> DEFINE h == IF files[row].hash = NoHash THEN Digest[disk[Src(row)]]
                                                ELSE files[row].hash
               r == [files[row] EXCEPT !.hash = h]
    <3>1. row \in DOMAIN files /\ files \in Seq(FileRow) /\ files[row] \in FileRow
      BY <2>1 DEF Fallback, RestShape, Registers, RowLabels
    <3>2. files' = [files EXCEPT ![row] = r]
      BY <2>1 DEF Fallback
    <3>3. /\ r.op = files[row].op /\ r.cat = files[row].cat
          /\ r.src = files[row].src /\ r.dst = files[row].dst
      BY <3>1 DEF FileRow
    <3> HIDE DEF h, r
    <3>4. DOMAIN files' = DOMAIN files /\ \A f \in DOMAIN files :
             files'[f] = IF f = row THEN r ELSE files[f]
      BY <3>1, <3>2
    <3> QED
      BY <3>3, <3>4 DEF KeptRows
  <2>2. CASE \E h : StepFailed(h)
    BY <2>2, MarkKept DEF StepFailed, RowDisp
  <2>3. CASE ~Fallback /\ ~\E h : StepFailed(h)
    <3>1. files' = files
      BY <2>3 DEF RenameStep, ResumeDegraded, RenameBegin, RenameResume, RenameRefuse,
         RenameNoParent, RenameReady, RenameDo, RenameError, RenameExdev,
         RenameSync, RenameDone, FallbackError, Go, Abort, OpenStep, StepDone, journal
    <3> QED
      BY <3>1, SameKept
  <2> QED
    BY <2>1, <2>2, <2>3
<1>2. UNCHANGED <<queue, plan, op, row>> /\ pc \notin {"idle", "down"} /\ pc' # "down"
  BY DEF RenameStep, ResumeDegraded, RenameBegin, RenameResume, RenameRefuse,
         RenameNoParent, RenameReady, RenameDo, RenameError, RenameExdev,
         RenameSync, RenameDone, Fallback, FallbackError,
         Go, Abort, OpenStep, StepDone, StepFailed, intake, loop
<1> QED
  BY <1>1, <1>2 DEF Routine

LEMMA CopyRoutine ==
    ASSUME RestShape, CopyStep
    PROVE  Routine /\ row' = row
                   /\ pc \in {"copy", "copyCheck", "copyDo", "copying", "copied"}
                   /\ pc' \notin {"renameSync", "commitRemove"}
<1>1. KeptRows
  <2>1. CASE \E h : StepFailed(h)
    BY <2>1, MarkKept DEF StepFailed, RowDisp
  <2>2. CASE ~\E h : StepFailed(h)
    <3>1. files' = files
      BY <2>2 DEF CopyStep, CopyBegin, CopyNoParent, CopyRefuse, CopyFresh, CopyReuse,
         CopyDiscard, CopyDiscardError, CopyOpen, CopyFill, CopyError, CopyDone,
         Go, Abort, OpenStep, StepDone, journal
    <3> QED
      BY <3>1, SameKept
  <2> QED
    BY <2>1, <2>2
<1>2. /\ UNCHANGED <<queue, plan, op, row>>
      /\ pc \in {"copy", "copyCheck", "copyDo", "copying", "copied"}
      /\ pc' \notin {"down", "renameSync", "commitRemove"}
  BY DEF CopyStep, CopyBegin, CopyNoParent, CopyRefuse, CopyFresh, CopyReuse,
         CopyDiscard, CopyDiscardError, CopyOpen, CopyFill, CopyError, CopyDone,
         Go, Abort, OpenStep, StepDone, StepFailed, ToVerify, AfterCopy, intake, loop
<1> QED
  BY <1>1, <1>2 DEF Routine

LEMMA CommitRoutine ==
    ASSUME RestShape, CommitStep
    PROVE  Routine /\ row' = row
                   /\ pc \in {"verify", "verifying", "commit", "commitSync",
                              "commitRemove", "commitDone"}
                   /\ pc' # "renameSync"
<1>1. KeptRows
  <2>1. CASE \E h : StepFailed(h)
    BY <2>1, MarkKept DEF StepFailed, RowDisp
  <2>2. CASE ~\E h : StepFailed(h)
    <3>1. files' = files
      BY <2>2 DEF CommitStep, VerifyBegin, VerifyDone, VerifyError, CommitBegin,
         CommitSync, CommitRemove, CommitError, CommitDone,
         Go, OpenStep, StepDone, journal
    <3> QED
      BY <3>1, SameKept
  <2> QED
    BY <2>1, <2>2
<1>2. /\ UNCHANGED <<queue, plan, op, row>>
      /\ pc \in {"verify", "verifying", "commit", "commitSync", "commitRemove", "commitDone"}
      /\ pc' \notin {"down", "renameSync"}
  BY DEF CommitStep, VerifyBegin, VerifyDone, VerifyError, CommitBegin,
         CommitSync, CommitRemove, CommitError, CommitDone,
         Go, OpenStep, StepDone, StepFailed, intake, loop
<1> QED
  BY <1>1, <1>2 DEF Routine

\* Such a step keeps the order of jobs, and the planner's rows if the catalog
\* stays as it is.
LEMMA RoutineSteady ==
    ASSUME RestShape, Alone, OneTrip, Routine
    PROVE  Alone' /\ OneTrip' /\ (Tracked /\ catalog' = catalog => Tracked')
<1>1. Alone'
  BY DEF Alone, Routine
<1>2. OneTrip'
  BY DEF OneTrip, Routine, KeptRows
<1>3. \A o : Active(o)' => Active(o)
  BY DEF Active, Routine
<1>4. ASSUME Tracked, catalog' = catalog PROVE Tracked'
  BY <1>3, <1>4 DEF Tracked, Routine, KeptRows, Src, Dst
<1> QED
  BY <1>1, <1>2, <1>4

\* Outside the two windows the catalog agrees with the disk, and goes on to.
LEMMA QuietAgreed ==
    ASSUME Agreed, UNCHANGED world, pc # "renameSync",
           pc' \notin {"renameSync", "commitRemove"}
    PROVE  Agreed'
BY DEF Agreed, world

\* sync_catalog_path moves the rows found at the source, and no other.
LEMMA SyncMoves ==
    ASSUME WorldType, RestShape, Started, Alone, OneTrip, Tracked,
           pc \in RowLabels, Routine, sync_catalog_path(row)
    PROVE  /\ \A i \in CatId :
                 catalog'[i] = IF catalog[i] = Src(row) THEN Dst(row) ELSE catalog[i]
           /\ Tracked'
<1>0. \A f \in DOMAIN files : files[f].cat \in CatId \cup {NoCat}
  <2>1. \A f \in DOMAIN files : files[f] \in FileRow
    BY DEF RestShape
  <2> QED
    BY <2>1 DEF FileRow
<1>1. row \in DOMAIN files /\ files[row].op = op /\ Active(op)
  BY DEF Started, RestShape, Registers, Active, Routine
<1>2. ASSUME NEW i \in CatId
      PROVE  catalog'[i] = IF catalog[i] = Src(row) THEN Dst(row) ELSE catalog[i]
  <2>1. catalog'[i] = IF i \in SyncRows(row) THEN Dst(row) ELSE catalog[i]
    BY DEF sync_catalog_path
  <2>2. CASE {j \in CatId : catalog[j] = Src(row)} # {}
    BY <2>1, <2>2 DEF SyncRows
  <2>3. CASE {j \in CatId : catalog[j] = Src(row)} = {}
    <3>1. catalog[i] # Src(row)
      BY <2>3
    <3>2. i \in SyncRows(row) => i = files[row].cat /\ files[row].cat # NoCat
      BY <2>3 DEF SyncRows
    <3>3. i \in SyncRows(row) => catalog[i] = Dst(row)
      BY <1>0, <1>1, <3>1, <3>2 DEF Tracked
    <3> QED
      BY <2>1, <3>1, <3>3
  <2> QED
    BY <2>2, <2>3
<1>3. ASSUME NEW f \in DOMAIN files', Active(files[f].op)', files'[f].cat # NoCat
      PROVE  catalog'[files'[f].cat] \in {Src(f)', Dst(f)'}
  <2>1. /\ f \in DOMAIN files /\ files'[f].cat = files[f].cat
        /\ Src(f)' = Src(f) /\ Dst(f)' = Dst(f) /\ files'[f].op = files[f].op
    BY DEF Routine, KeptRows, Src, Dst
  <2>2. queue = <<>> /\ queue' = <<>> /\ op' = op
    BY DEF Routine, Alone
  <2>3. files[f].op = op
    BY <1>3, <2>1, <2>2 DEF Active
  <2>4. files[f].cat \in CatId
    BY <1>0, <1>3, <2>1
  <2>5. catalog[files[f].cat] \in {Src(f), Dst(f)}
    BY <1>1, <1>3, <2>1, <2>3 DEF Tracked
  <2>6. Dst(f) # Src(row) /\ (Src(f) = Src(row) => Dst(f) = Dst(row))
    BY <1>1, <2>1, <2>3 DEF OneTrip, Src, Dst
  <2> QED
    BY <1>2, <2>1, <2>4, <2>5, <2>6
<1> QED
  BY <1>2, <1>3 DEF Tracked

LEMMA RenameSteady ==
    ASSUME AllPresent, WorldType, RestShape, Order, FirstTry, OnDisk, Steady, RenameStep
    PROVE  Steady'
<1>1. Routine /\ row' = row /\ Alone /\ OneTrip /\ Tracked /\ Agreed /\ Started
  BY RenameRoutine DEF Steady, Order
<1>2. Alone' /\ OneTrip' /\ (catalog' = catalog => Tracked')
  BY <1>1, RoutineSteady
<1>3. pc \in RowLabels
  BY DEF RenameStep, ResumeDegraded, RenameBegin, RenameResume, RenameRefuse,
         RenameNoParent, RenameReady, RenameDo, RenameError, RenameExdev,
         RenameSync, RenameDone, Fallback, FallbackError, RowLabels
<1>4. row \in DOMAIN files /\ Src(row) \in Path /\ Dst(row) \in Path /\ Src(row) # Dst(row)
  BY <1>3, RowTypes DEF Order, Apart, Src, Dst
<1>5. Src(row)' = Src(row) /\ Dst(row)' = Dst(row)
  BY <1>1, <1>4 DEF Routine, KeptRows, Src, Dst
<1>6. \A i \in CatId : catalog[i] \in Path /\ Original(i) # NoFile
  BY ContentAssumption DEF WorldType, AllPresent
<1>a. CASE RenameResume
  <2>1. pc = "renameCheck" /\ disk' = disk /\ pc' \notin {"renameSync", "commitRemove"}
    BY <1>a DEF RenameResume, Go, Abort
  <2>2. \A i \in CatId : disk[catalog[i]] = Original(i)
    BY <1>1, <2>1 DEF Agreed
  <2>3. CASE sync_catalog_path(row)
    <3>1. Tracked' /\ \A i \in CatId :
             catalog'[i] = IF catalog[i] = Src(row) THEN Dst(row) ELSE catalog[i]
      BY <1>1, <1>3, <2>3, SyncMoves
    <3>2. \A i \in CatId : catalog[i] # Src(row)
      BY <1>a, <1>6, <2>2 DEF RenameResume, Exists
    <3>3. Agreed'
      BY <2>1, <2>2, <3>1, <3>2 DEF Agreed, Original
    <3> QED
      BY <1>2, <3>1, <3>3 DEF Steady
  <2>4. CASE catalog' = catalog
    BY <1>1, <1>2, <2>1, <2>4, QuietAgreed DEF Steady, world
  <2> QED
    BY <1>a, <2>3, <2>4 DEF RenameResume
<1>b. CASE RenameDo
  <2>1. /\ pc = "renameDo" /\ pc' = "renameSync" /\ catalog' = catalog
        /\ disk' = [disk EXCEPT ![Dst(row)] = disk[Src(row)], ![Src(row)] = NoFile]
    BY <1>b DEF RenameDo, Go
  <2>2. disk'[Dst(row)] = disk[Src(row)] /\ \A p \in Path :
           p \notin {Src(row), Dst(row)} => disk'[p] = disk[p]
    BY <1>4, <2>1 DEF WorldType
  <2>3. \A i \in CatId : disk[catalog[i]] = Original(i)
    BY <1>1, <2>1 DEF Agreed
  <2>4. \A i \in CatId : catalog[i] # Dst(row)
    BY <1>6, <2>1, <2>3 DEF OnDisk, Exists
  <2>5. Agreed'
    <3>1. ASSUME NEW i \in CatId
          PROVE  IF catalog[i] = Src(row) THEN disk'[Dst(row)] = Original(i)
                                         ELSE disk'[catalog[i]] = Original(i)
      BY <1>6, <2>2, <2>3, <2>4
    <3> QED
      BY <1>5, <2>1, <2>4, <3>1 DEF Agreed, Original
  <2> QED
    BY <1>2, <2>1, <2>5 DEF Steady
<1>c. CASE RenameSync
  <2>1. pc = "renameSync" /\ disk' = disk
    BY <1>c DEF RenameSync
  <2>2. SyncOk(row)
    BY <1>1, <2>1 DEF Agreed, SyncOk
  <2>3. sync_catalog_path(row) /\ pc' = "renameDone"
    BY <1>c, <2>2 DEF RenameSync, Go
  <2>4. Tracked' /\ \A i \in CatId :
           catalog'[i] = IF catalog[i] = Src(row) THEN Dst(row) ELSE catalog[i]
    BY <1>1, <1>3, <2>3, SyncMoves
  <2>5. Agreed'
    BY <1>1, <2>1, <2>3, <2>4 DEF Agreed, Original
  <2> QED
    BY <1>2, <2>4, <2>5 DEF Steady
<1>d. CASE ~RenameResume /\ ~RenameDo /\ ~RenameSync
  <2>1. UNCHANGED world /\ pc # "renameSync" /\ pc' \notin {"renameSync", "commitRemove"}
    BY <1>d DEF RenameStep, ResumeDegraded, RenameBegin, RenameRefuse,
         RenameNoParent, RenameReady, RenameError, RenameExdev, RenameDone, Fallback,
         FallbackError, Go, Abort, OpenStep, StepDone, StepFailed
  <2> QED
    BY <1>1, <1>2, <2>1, QuietAgreed DEF Steady, world
<1> QED
  BY <1>a, <1>b, <1>c, <1>d

LEMMA CopySteady ==
    ASSUME AllPresent, WorldType, RestShape, Order, FirstTry, OnDisk, Steady, CopyStep
    PROVE  Steady'
<1>1. /\ Routine /\ row' = row /\ Alone /\ OneTrip /\ Tracked /\ Agreed
      /\ pc \in {"copy", "copyCheck", "copyDo", "copying", "copied"}
      /\ pc' \notin {"renameSync", "commitRemove"}
  BY CopyRoutine DEF Steady
<1>2. Alone' /\ OneTrip' /\ (catalog' = catalog => Tracked')
  BY <1>1, RoutineSteady
<1>3. \A i \in CatId : /\ catalog[i] \in Path /\ disk[catalog[i]] = Original(i)
                       /\ Original(i) \notin {NoFile, Partial}
  BY <1>1, ContentAssumption DEF WorldType, AllPresent, Agreed
<1>4. ~CopyReuse /\ ~CopyDiscard /\ ~CopyDiscardError
  BY DEF CopyReuse, CopyDiscard, CopyDiscardError, FirstTry
<1>a. CASE CopyOpen \/ CopyFill
  <2>1. /\ catalog' = catalog /\ disk[Dst(row)] \in {NoFile, Partial}
        /\ \E c : disk' = [disk EXCEPT ![Dst(row)] = c]
    BY <1>a DEF CopyOpen, CopyFill, OnDisk, Exists
  <2>2. \A i \in CatId : catalog[i] # Dst(row)
    BY <1>3, <2>1
  <2>3. \A i \in CatId : disk'[catalog[i]] = disk[catalog[i]]
    BY <1>3, <2>1, <2>2 DEF WorldType
  <2>4. Agreed'
    BY <1>1, <1>3, <2>1, <2>3 DEF Agreed, Original
  <2> QED
    BY <1>2, <2>1, <2>4 DEF Steady
<1>b. CASE ~CopyOpen /\ ~CopyFill
  <2>1. UNCHANGED world
    BY <1>4, <1>b DEF CopyStep, CopyBegin, CopyNoParent, CopyRefuse, CopyFresh,
                      CopyError, CopyDone, OpenStep
  <2> QED
    BY <1>1, <1>2, <2>1, QuietAgreed DEF Steady, world
<1> QED
  BY <1>a, <1>b

LEMMA CommitSteady ==
    ASSUME WorldType, RestShape, Order, OnDisk, Steady, CommitStep
    PROVE  Steady'
<1>1. /\ Routine /\ row' = row /\ Alone /\ OneTrip /\ Tracked /\ Agreed /\ Started
      /\ pc \in {"verify", "verifying", "commit", "commitSync", "commitRemove", "commitDone"}
      /\ pc' # "renameSync"
  BY CommitRoutine DEF Steady, Order
<1>2. Alone' /\ OneTrip' /\ (catalog' = catalog => Tracked')
  BY <1>1, RoutineSteady
<1>3. pc \in RowLabels
  BY <1>1 DEF RowLabels
<1>4. row \in DOMAIN files /\ Src(row) \in Path /\ Dst(row) \in Path /\ Src(row) # Dst(row)
  BY <1>3, RowTypes DEF Order, Apart, Src, Dst
<1>5. Src(row)' = Src(row)
  BY <1>1, <1>4 DEF Routine, KeptRows, Src
<1>6. \A i \in CatId : catalog[i] \in Path /\ disk[catalog[i]] = Original(i)
  BY <1>1 DEF WorldType, Agreed
<1>a. CASE CommitSync
  <2>1. pc = "commitSync" /\ disk' = disk /\ disk[Dst(row)] = disk[Src(row)]
    BY <1>a DEF CommitSync, OnDisk
  <2>2. CASE sync_catalog_path(row)
    <3>1. Tracked' /\ \A i \in CatId :
             catalog'[i] = IF catalog[i] = Src(row) THEN Dst(row) ELSE catalog[i]
      BY <1>1, <1>3, <2>2, SyncMoves
    <3>2. Agreed'
      BY <1>1, <1>4, <1>5, <1>6, <2>1, <3>1 DEF Agreed, Original
    <3> QED
      BY <1>2, <3>1, <3>2 DEF Steady
  <2>3. CASE catalog' = catalog /\ StepFailed(NoHash)
    <3>1. pc' = "error"
      BY <2>3 DEF StepFailed
    <3> QED
      BY <1>1, <1>2, <2>1, <2>3, <3>1, QuietAgreed DEF Steady, world
  <2> QED
    BY <1>a, <2>2, <2>3 DEF CommitSync
<1>b. CASE CommitRemove
  <2>1. /\ pc = "commitRemove" /\ pc' = "commitDone" /\ catalog' = catalog
        /\ disk' = [disk EXCEPT ![Src(row)] = NoFile]
    BY <1>b DEF CommitRemove, Go
  <2>2. \A i \in CatId : catalog[i] # Src(row)
    BY <1>1, <2>1 DEF Agreed
  <2>3. \A i \in CatId : disk'[catalog[i]] = disk[catalog[i]]
    BY <1>6, <2>1, <2>2 DEF WorldType
  <2>4. Agreed'
    BY <1>6, <2>1, <2>3 DEF Agreed, Original
  <2> QED
    BY <1>2, <2>1, <2>4 DEF Steady
<1>c. CASE ~CommitSync /\ ~CommitRemove
  <2>1. UNCHANGED world /\ pc' # "commitRemove"
    BY <1>c DEF CommitStep, VerifyBegin, VerifyDone, VerifyError, CommitBegin,
                CommitError, CommitDone, OpenStep, StepDone, StepFailed
  <2> QED
    BY <1>1, <1>2, <2>1, QuietAgreed DEF Steady, world
<1> QED
  BY <1>a, <1>b, <1>c

\* The reconcile pass removes no file the catalog knows.
LEMMA ReconcileSteady ==
    ASSUME WorldType, RestShape, Steady, Reconcile
    PROVE  Steady'
<1>1. /\ Routine /\ Alone /\ OneTrip /\ Tracked /\ Agreed
      /\ pc \in {"heal", "healStep", "healRow"}
      /\ pc' \in {"heal", "healStep", "healRow", "start", "idle"}
  BY ReconcileRoutine DEF Steady
<1>2. Alone' /\ OneTrip' /\ (catalog' = catalog => Tracked')
  BY <1>1, RoutineSteady
<1>a. CASE HealRemove
  <2> DEFINE p == Src(steps[First(cands)].file)
  <2>1. /\ catalog' = catalog /\ disk' = [disk EXCEPT ![p] = NoFile]
        /\ \A i \in CatId : catalog[i] # p
    BY <1>a DEF HealRemove, SafeToHeal, catalog_row_exists_at_path
  <2> HIDE DEF p
  <2>2. \A i \in CatId : disk'[catalog[i]] = disk[catalog[i]]
    BY <2>1 DEF WorldType
  <2>3. Agreed'
    BY <1>1, <2>1, <2>2 DEF Agreed, Original
  <2> QED
    BY <1>2, <2>1, <2>3 DEF Steady
<1>b. CASE ~HealRemove
  <2>1. UNCHANGED world
    BY <1>b DEF Reconcile, HealSkip, HealStep, HealRow, HealEnd
  <2> QED
    BY <1>1, <1>2, <2>1, QuietAgreed DEF Steady, world
<1> QED
  BY <1>a, <1>b

LEMMA LoopSteady == ASSUME RestShape, Steady, RunLoop PROVE Steady'
<1>1. /\ Routine /\ UNCHANGED world /\ pc \in {"start", "next", "rowDone", "error"}
      /\ pc' \notin {"renameSync", "commitRemove"}
  BY LoopRoutine
<1> QED
  BY <1>1, RoutineSteady, QuietAgreed DEF Steady, world

LEMMA DequeueSteady == ASSUME RestShape, Steady, Dequeue PROVE Steady'
<1>1. /\ pc = "idle" /\ pc' = "heal" /\ op' = Head(queue) /\ queue' = Tail(queue)
      /\ queue \in Seq(0..Len(status)) /\ queue # <<>> /\ Len(queue) = 1 /\ plan = NoPlan
      /\ UNCHANGED <<disk, catalog, files, plan>>
  BY DEF Dequeue, RestShape, Steady, Alone, journal, world
<1>2. queue' = <<>> /\ 1 \in DOMAIN queue /\ op' = queue[1]
  BY <1>1
<1>3. Alone'
  BY <1>1, <1>2 DEF Alone
<1>4. \A o : Active(o)' => Active(o)
  BY <1>2 DEF Active
<1>5. OneTrip' /\ Tracked'
  BY <1>1, <1>4 DEF Steady, OneTrip, Tracked, Src, Dst
<1>6. Agreed'
  BY <1>1, QuietAgreed DEF Steady, world
<1> QED
  BY <1>3, <1>5, <1>6 DEF Steady

LEMMA UserSteady ==
    ASSUME Patient, MaxResumes = 0, WorldType, RestShape, Order, Steady, User
    PROVE  Steady'
<1>a. ASSUME NEW r \in Requests, Plan(r) PROVE Steady'
  <2>1. /\ pc = "idle" /\ queue = <<>> /\ plan' = r
        /\ UNCHANGED <<world, files, queue, pc, op, row>>
    BY <1>a DEF Plan, journal, loop
  <2>2. Alone' /\ OneTrip' /\ Tracked' /\ Agreed'
    BY <2>1 DEF Steady, Alone, OneTrip, Tracked, Agreed, Active, Src, Dst, world
  <2> QED
    BY <2>2 DEF Steady
<1>b. CASE PersistPlan
  <2>1. /\ \A f \in DOMAIN files : f \in DOMAIN files' /\ files'[f] = files[f]
        /\ \A f \in DOMAIN files' : f \notin DOMAIN files =>
              /\ files'[f].op = Len(status) + 1
              /\ files'[f].cat # NoCat => catalog[files'[f].cat] = files'[f].src
              /\ \E i \in DOMAIN plan.srcs :
                    /\ files'[f].src = plan.srcs[i]
                    /\ files'[f].dst = DestOf(plan.srcs[i], plan.dir)
        /\ queue' = queue \/ queue' = Append(queue, Len(status) + 1)
    BY <1>b, PersistShape
  <2>2. /\ plan # NoPlan /\ plan' = NoPlan /\ pc = "idle" /\ queue = <<>>
        /\ UNCHANGED <<world, pc, op, row>>
    BY <1>b DEF PersistPlan, Steady, Alone, loop
  <2>3. queue' = <<>> \/ queue' = <<Len(status) + 1>>
    BY <2>1, <2>2
  <2>4. Alone'
    BY <2>2, <2>3 DEF Alone
  <2>5. Len(status) \in Nat /\ \A f \in DOMAIN files : files[f].op # Len(status) + 1
    BY DEF RestShape, Keys
  <2>6. /\ plan \in Requests
        /\ \A i \in DOMAIN plan.srcs : plan.srcs[i] \in Path
        /\ plan.dir \in Dir
        /\ \A i \in DOMAIN plan.srcs : DestOf(plan.srcs[i], plan.dir) # plan.srcs[i]
    BY <2>2, RequestAssumption DEF RestShape, Order, Apart
  <2>7. ASSUME NEW p \in Path, NEW q \in Path,
               DestOf(p, plan.dir) # p, DestOf(q, plan.dir) # q
        PROVE  DestOf(p, plan.dir) # q
    BY <2>6, <2>7 DEF DestOf, Path
  <2>8. ASSUME NEW f \in DOMAIN files', NEW g \in DOMAIN files', files'[f].op = files'[g].op
        PROVE  /\ files'[f].dst # files'[g].src
               /\ files'[f].src = files'[g].src => files'[f].dst = files'[g].dst
    <3>1. CASE f \in DOMAIN files
      <4>1. g \in DOMAIN files
        BY <2>1, <2>5, <2>8, <3>1
      <4> QED
        BY <2>1, <2>8, <3>1, <4>1 DEF Steady, OneTrip
    <3>2. CASE f \notin DOMAIN files
      <4>1. g \notin DOMAIN files
        BY <2>1, <2>5, <2>8, <3>2
      <4>2. PICK i \in DOMAIN plan.srcs : /\ files'[f].src = plan.srcs[i]
                                         /\ files'[f].dst = DestOf(plan.srcs[i], plan.dir)
        BY <2>1, <3>2
      <4>3. PICK j \in DOMAIN plan.srcs : /\ files'[g].src = plan.srcs[j]
                                         /\ files'[g].dst = DestOf(plan.srcs[j], plan.dir)
        BY <2>1, <4>1
      <4> QED
        BY <2>6, <2>7, <4>2, <4>3
    <3> QED
      BY <3>1, <3>2
  <2>9. OneTrip'
    BY <2>8 DEF OneTrip
  <2>10. Tracked'
    <3>1. \A o : Active(o)' => o = Len(status) + 1
      BY <2>2, <2>3 DEF Active
    <3>2. ASSUME NEW f \in DOMAIN files', Active(files[f].op)'
          PROVE  f \notin DOMAIN files
      BY <2>1, <2>5, <3>1, <3>2
    <3> QED
      BY <2>1, <2>2, <3>2 DEF Tracked, Src, world
  <2>11. Agreed'
    BY <2>2, QuietAgreed DEF Steady
  <2> QED
    BY <2>4, <2>9, <2>10, <2>11 DEF Steady
<1>c. ASSUME NEW o \in DOMAIN status, Cancel(o) PROVE Steady'
  <2>1. UNCHANGED <<world, files, queue, plan, pc, op, row>>
    BY <1>c DEF Cancel, journal, loop
  <2>2. Alone' /\ OneTrip' /\ Tracked' /\ Agreed'
    BY <2>1 DEF Steady, Alone, OneTrip, Tracked, Agreed, Active, Src, Dst, world
  <2> QED
    BY <2>2 DEF Steady
<1>d. ASSUME NEW o \in DOMAIN status, Resume(o) PROVE FALSE
  BY <1>d DEF Resume, RestShape
<1> QED
  BY <1>a, <1>b, <1>c, <1>d DEF User

LEMMA SurroundingsNone ==
    ASSUME MaxExternal = 0, MaxCrashes = 0, RestShape, Alone PROVE ~Surroundings
<1>1. crashes \in Nat /\ externals \in Nat
  BY DEF RestShape
<1> QED
  BY <1>1 DEF Surroundings, Crash, Restart, External, Alone

LEMMA InitSteady == ASSUME Init PROVE Steady
<1>1. /\ pc = "idle" /\ queue = <<>> /\ plan = NoPlan /\ files = <<>>
      /\ disk = InitDisk /\ catalog = InitCatalog
  BY DEF Init
<1>2. DOMAIN files = {}
  BY <1>1
<1> QED
  BY <1>1, <1>2 DEF Steady, Alone, OneTrip, Tracked, Agreed, Original

\* For any directories, mounts, files and requests and any file system
\* failures: when the user waits for each move to end, the process is not
\* killed, nothing else writes to the scan roots and every row of the catalog
\* starts at a file that is there, each row is at its file whenever no job
\* runs, however the moves ended.
THEOREM CatalogIsFollowed ==
    ASSUME Patient, MaxCrashes = 0, MaxExternal = 0, MaxResumes = 0, AllPresent
    PROVE  Spec => []CatalogFollowsFile
<1> DEFINE I == Careful /\ Steady
<1>1. Init => I
  BY InitCareful, InitSteady
<1>2. I /\ [Next]_vars => I'
  <2> SUFFICES ASSUME I, [Next]_vars PROVE Steady'
    BY CarefulStep
  <2>1. WorldType /\ RestShape /\ Order /\ FirstTry /\ OnDisk /\ Steady /\ Alone
    BY ShapeSplit DEF Careful, Steady
  <2>2. CASE Worker
    BY <2>1, <2>2, DequeueSteady, ReconcileSteady, LoopSteady, RenameSteady,
       CopySteady, CommitSteady DEF Worker
  <2>3. CASE User
    BY <2>1, <2>3, UserSteady
  <2>4. CASE UNCHANGED vars
    <3>1. UNCHANGED <<world, files, queue, plan, pc, op, row>>
      BY <2>4 DEF vars, world, journal, intake, loop
    <3>2. Alone' /\ OneTrip' /\ Tracked' /\ Agreed'
      BY <2>1, <3>1 DEF Steady, Alone, OneTrip, Tracked, Agreed, Active, Src, Dst, world
    <3> QED
      BY <3>2 DEF Steady
  <2> QED
    BY <2>1, <2>2, <2>3, <2>4, SurroundingsNone DEF Next
<1>3. I => CatalogFollowsFile
  BY DEF Steady, Agreed, CatalogFollowsFile
<1> QED
  BY <1>1, <1>2, <1>3, PTL DEF Spec

=============================================================================
