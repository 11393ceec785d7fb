--------------------------- MODULE ArchiveProofs ---------------------------
(***************************************************************************)
(* Proofs about Archive, for any sets and frames, any number of operations *)
(* and any failures, cancellations and kills.                              *)
(***************************************************************************)
EXTENDS Archive, FiniteSetTheorems, WellFoundedInduction, TLAPS

-----------------------------------------------------------------------------
(***************************************************************************)
(* The shape of the state.                                                 *)
(***************************************************************************)
Statuses == {"none", "open", "rolling_back", "completed", "rolled_back"}

\* Where the worker is: ahead with an operation, taking it back, or restoring.
Ahead == {"copy", "copying", "verify", "zip", "publish", "added", "check", "delete",
          "deleting", "deleted", "finalize", "mark", "sweep"}
Back == {"return", "drop", "clean", "unmark"}
Out == {"preflight", "extract", "release", "discard"}
Labels == Ahead \cup Back \cup Out \cup {"idle", "rollback"}

Manifest == UNION {[S -> Path] : S \in SUBSET Frame}

OpRec == [status : Statuses, set : FrameSet \cup {"none"}, to : Manifest,
          copied : SUBSET Frame, verified : SUBSET Frame, zipped : SUBSET Frame,
          published : SUBSET Path, deleting : SUBSET Frame, deleted : SUBSET Frame]

JobRec == [kind : {"none", "archive", "rollback", "restore"}, op : Op \cup {0},
           keep : BOOLEAN, cancel : BOOLEAN, pc : Labels,
           todo : SUBSET (Frame \cup Path), cur : Frame \cup Path \cup {NoPath},
           pub : SUBSET Path, bad : SUBSET Frame]

\* A job that waits has not begun.
Waiting == [kind : {"archive", "rollback", "restore"}, op : Op,
            keep : BOOLEAN, cancel : BOOLEAN, pc : {"idle"},
            todo : {{}}, cur : {NoPath}, pub : {{}}, bad : {{}}]

\* A zip holds the frames of its builder that go to that path.
ZipType ==
    /\ zip = [p \in Path |-> zip[p]]
    /\ \A p \in Path : zip[p] # NoZip =>
          /\ zip[p].by \in Started
          /\ zip[p].has \in [Group(zip[p].by, p) -> Copies \ {"none"}]

\* What each step log has, and in which order it comes there.
Logs ==
    \A o \in Op :
        /\ op[o].published \subseteq Zips(o)
        /\ op[o].verified \subseteq op[o].copied /\ op[o].copied \subseteq Files(o)
        /\ op[o].deleted \subseteq op[o].deleting /\ op[o].deleting \subseteq op[o].zipped
        /\ op[o].zipped \subseteq op[o].verified

\* Operations are numbered as they come, and are never forgotten.
Numbered ==
    /\ \E n \in 0 .. MaxOps : Started = 1 .. n
    /\ \A s \in FrameSet : mark[s] # 0 => mark[s] \in Started
    /\ \A i \in DOMAIN queue : queue[i].op \in Started

\* Everything but the job of the worker.
Tables ==
    /\ disk \subseteq Frame
    /\ staged \in [Op -> [Frame -> Copies]]
    /\ row \in [Frame -> Path \cup {NoPath}]
    /\ mark \in [FrameSet -> Op \cup {0}]
    /\ op \in [Op -> OpRec]
    /\ queue \in Seq(Waiting) /\ Len(queue) <= MaxQueue
    /\ ZipType /\ Logs /\ Numbered

\* The job: an operation of its kind, in the status that goes with its label.
JobKind ==
    /\ job \in JobRec
    /\ job.pc = "idle" => job = NoJob
    /\ job.pc # "idle" => Me \in Started
    /\ job.pc \in Ahead => job.kind = "archive" /\ op[Me].status = "open"
    /\ job.pc \in Back =>
          job.kind \in {"archive", "rollback"} /\ op[Me].status = "rolling_back"
    /\ job.pc = "rollback" => job.kind \in {"archive", "rollback"}
    /\ job.pc \in Out => job.kind = "restore"

\* How far each phase has come, by the step log.
Doing ==
    /\ job.pc \in {"copy", "copying"} =>
          job.todo \subseteq Files(Me) /\ Files(Me) \ job.todo \subseteq op[Me].copied
    /\ job.pc = "copying" => job.cur \in job.todo \ op[Me].copied
    /\ job.pc = "verify" =>
          /\ job.todo \subseteq Files(Me) /\ Files(Me) \subseteq op[Me].copied
          /\ Files(Me) \ job.todo \subseteq op[Me].verified
    /\ job.pc \in {"zip", "publish", "added"} =>
          /\ job.todo \subseteq Zips(Me) /\ Files(Me) \subseteq op[Me].verified
          /\ \A f \in Files(Me) : op[Me].to[f] \in job.todo \/ f \in op[Me].zipped
    /\ job.pc \in {"publish", "added"} => job.cur \in job.todo
    /\ job.pc \in {"check", "delete", "deleting", "deleted", "finalize", "mark", "sweep"} =>
          Files(Me) \subseteq op[Me].zipped
    /\ job.pc \in {"delete", "deleting", "deleted", "return", "unmark", "extract"} =>
          job.todo \subseteq Files(Me)
    /\ job.pc \in {"deleting", "deleted"} =>
          job.cur \in job.todo \cap op[Me].deleting \cap Moved
    /\ job.pc = "mark" => job.todo \subseteq Files(Me) \cap Moved
    /\ job.pc \in {"return", "drop"} => job.pub \subseteq op[Me].published
    /\ job.pc \in {"check", "drop", "discard"} => job.todo \subseteq Zips(Me)
    /\ job.pc = "release" => job.todo \subseteq Files(Me) \ job.bad

Shape == Tables /\ JobKind /\ Doing

-----------------------------------------------------------------------------
LEMMA MinIn ==
    ASSUME NEW S, S \subseteq Nat, S # {}
    PROVE  Min(S) \in S
<1> DEFINE Less == {ss \in Nat \X Nat : ss[1] < ss[2]}
<1>0. IsWellFoundedOn(Less, Nat)
  BY NatLessThanWellFounded DEF OpToRel
<1>1. PICK x \in S : \A y \in S : ~(<<y, x>> \in Less)
  BY <1>0, WFMin
<1>2. ASSUME NEW y \in S PROVE x <= y
  <2>1. ~(<<y, x>> \in Less) /\ x \in Nat /\ y \in Nat
    BY <1>1
  <2>2. <<y, x>> \in Nat \X Nat /\ <<y, x>>[1] = y /\ <<y, x>>[2] = x
    BY <2>1
  <2> QED
    BY <2>1, <2>2
<1>3. \E i \in S : \A j \in S : i <= j
  BY <1>2
<1> HIDE DEF Less
<1> QED
  BY <1>3, Zenon DEF Min

LEMMA NoPathApart == NoPath \notin Path
BY DEF NoPath, Path

LEMMA NoManifest == <<>> \in Manifest /\ DOMAIN <<>> = {}
<1>1. DOMAIN <<>> = {}
  OBVIOUS
<1>2. <<>> \in [{} -> Path]
  OBVIOUS
<1> QED
  BY <1>1, <1>2 DEF Manifest

LEMMA NoOpType == NoOp \in OpRec
BY NoManifest DEF NoOp, OpRec, Statuses

LEMMA ManifestType ==
    ASSUME NEW m \in Manifest
    PROVE  DOMAIN m \subseteq Frame /\ \A f \in DOMAIN m : m[f] \in Path
BY DEF Manifest

LEMMA FrameNat == Frame \subseteq Nat
BY ArchiveAssumption DEF Frame

LEMMA NoJobType == NoJob \in JobRec
BY Zenon DEF NoJob, JobRec, Labels


LEMMA JobMoves ==
    ASSUME job \in JobRec
    PROVE  /\ \A pc \in Labels, todo \in SUBSET (Frame \cup Path) : Go(pc, todo) =>
                /\ job' \in JobRec
                /\ job'.pc = pc /\ job'.todo = todo /\ job'.kind = job.kind
                /\ job'.op = job.op /\ job'.pub = job.pub /\ job'.bad = job.bad
           /\ \A pc \in Labels, x \in Frame \cup Path : At(pc, x) =>
                /\ job' \in JobRec
                /\ job'.pc = pc /\ job'.todo = job.todo /\ job'.cur = x /\ job'.kind = job.kind
                /\ job'.op = job.op /\ job'.pub = job.pub /\ job'.bad = job.bad
<1>1. ASSUME NEW pc \in Labels, NEW todo \in SUBSET (Frame \cup Path), Go(pc, todo)
      PROVE  /\ job' \in JobRec
             /\ job'.pc = pc /\ job'.todo = todo /\ job'.kind = job.kind
             /\ job'.op = job.op /\ job'.pub = job.pub /\ job'.bad = job.bad
  BY <1>1, Zenon DEF JobRec, Go, NoPath
<1>2. ASSUME NEW pc \in Labels, NEW x \in Frame \cup Path, At(pc, x)
      PROVE  /\ job' \in JobRec
             /\ job'.pc = pc /\ job'.todo = job.todo /\ job'.cur = x /\ job'.kind = job.kind
             /\ job'.op = job.op /\ job'.pub = job.pub /\ job'.bad = job.bad
  BY <1>2, Zenon DEF JobRec, At
<1> QED
  BY <1>1, <1>2

\* Edits of the log of the job's operation.
Edit(st, c, v, z, p, d, e) ==
    /\ op' \in [Op -> OpRec]
    /\ \A u \in Op : u # Me => op'[u] = op[u]
    /\ op'[Me].set = op[Me].set /\ op'[Me].to = op[Me].to /\ op'[Me].status = st
    /\ op'[Me].copied = c /\ op'[Me].verified = v /\ op'[Me].zipped = z
    /\ op'[Me].published = p /\ op'[Me].deleting = d /\ op'[Me].deleted = e

LEMMA LogCopied ==
    ASSUME op \in [Op -> OpRec], Me \in Op, NEW S \in SUBSET Frame, Log("copied", S)
    PROVE  Edit(op[Me].status, op[Me].copied \cup S, op[Me].verified, op[Me].zipped,
                op[Me].published, op[Me].deleting, op[Me].deleted)
BY DEF Log, OpRec, Edit

LEMMA LogVerified ==
    ASSUME op \in [Op -> OpRec], Me \in Op, NEW S \in SUBSET Frame, Log("verified", S)
    PROVE  Edit(op[Me].status, op[Me].copied, op[Me].verified \cup S, op[Me].zipped,
                op[Me].published, op[Me].deleting, op[Me].deleted)
BY DEF Log, OpRec, Edit

LEMMA LogZipped ==
    ASSUME op \in [Op -> OpRec], Me \in Op, NEW S \in SUBSET Frame, Log("zipped", S)
    PROVE  Edit(op[Me].status, op[Me].copied, op[Me].verified, op[Me].zipped \cup S,
                op[Me].published, op[Me].deleting, op[Me].deleted)
BY DEF Log, OpRec, Edit

LEMMA LogPublished ==
    ASSUME op \in [Op -> OpRec], Me \in Op, NEW S \in SUBSET Path, Log("published", S)
    PROVE  Edit(op[Me].status, op[Me].copied, op[Me].verified, op[Me].zipped,
                op[Me].published \cup S, op[Me].deleting, op[Me].deleted)
BY DEF Log, OpRec, Edit

LEMMA LogDeleting ==
    ASSUME op \in [Op -> OpRec], Me \in Op, NEW S \in SUBSET Frame, Log("deleting", S)
    PROVE  Edit(op[Me].status, op[Me].copied, op[Me].verified, op[Me].zipped,
                op[Me].published, op[Me].deleting \cup S, op[Me].deleted)
BY DEF Log, OpRec, Edit

LEMMA LogDeleted ==
    ASSUME op \in [Op -> OpRec], Me \in Op, NEW S \in SUBSET Frame, Log("deleted", S)
    PROVE  Edit(op[Me].status, op[Me].copied, op[Me].verified, op[Me].zipped,
                op[Me].published, op[Me].deleting, op[Me].deleted \cup S)
BY DEF Log, OpRec, Edit

LEMMA LogDone ==
    ASSUME op \in [Op -> OpRec], Me \in Op, NEW f \in Frame,
           op' = [op EXCEPT ![Me].deleting = @ \cup {f}, ![Me].deleted = @ \cup {f}]
    PROVE  Edit(op[Me].status, op[Me].copied, op[Me].verified, op[Me].zipped,
                op[Me].published, op[Me].deleting \cup {f}, op[Me].deleted \cup {f})
BY DEF OpRec, Edit

LEMMA NewStatus ==
    ASSUME op \in [Op -> OpRec], Me \in Op, NEW st \in Statuses, Status(st)
    PROVE  Edit(st, op[Me].copied, op[Me].verified, op[Me].zipped,
                op[Me].published, op[Me].deleting, op[Me].deleted)
BY DEF Status, OpRec, Edit

\* The manifests and the operations stay what they are.
SameOps ==
    /\ op' \in [Op -> OpRec] /\ Started' = Started
    /\ \A u \in Op :
          /\ op'[u].to = op[u].to /\ op'[u].set = op[u].set
          /\ Files(u)' = Files(u) /\ Zips(u)' = Zips(u)
          /\ \A p \in Path : Group(u, p)' = Group(u, p)

LEMMA EditSame ==
    ASSUME op \in [Op -> OpRec], Me \in Started, NEW st, NEW c, NEW v, NEW z, NEW p, NEW d, NEW e,
           Edit(st, c, v, z, p, d, e), st # "none"
    PROVE  SameOps
BY DEF SameOps, Edit, Started, Files, Zips, Group

LEMMA UnchangedSame ==
    ASSUME op \in [Op -> OpRec], op' = op
    PROVE  SameOps
BY DEF SameOps, Started, Files, Zips, Group

LEMMA ZipTypeKept ==
    ASSUME Tables, SameOps, zip' = zip
    PROVE  ZipType'
BY DEF Tables, ZipType, SameOps, Started

LEMMA NumberedKept ==
    ASSUME Tables, SameOps, mark' = mark, queue' = queue
    PROVE  Numbered'
BY DEF Tables, Numbered, SameOps

LEMMA LogsKept ==
    ASSUME Tables, op' = op
    PROVE  Logs'
BY DEF Tables, Logs, Files, Zips

LEMMA QuietTables ==
    ASSUME Tables, UNCHANGED <<disk, staged, zip, row, mark, op, queue>>
    PROVE  Tables' /\ SameOps
<1>1. SameOps
  BY UnchangedSame DEF Tables
<1> QED
  BY <1>1, ZipTypeKept, NumberedKept, LogsKept DEF Tables

-----------------------------------------------------------------------------
(***************************************************************************)
(* The shape is kept.                                                      *)
(***************************************************************************)
LEMMA MyParts ==
    ASSUME Shape, job.pc # "idle"
    PROVE  /\ Me \in Op /\ Me \in Started /\ op[Me] \in OpRec
           /\ Files(Me) \subseteq Frame /\ Zips(Me) \subseteq Path
           /\ \A f \in Files(Me) : op[Me].to[f] \in Path
           /\ op \in [Op -> OpRec] /\ job \in JobRec
           /\ job.todo \in SUBSET (Frame \cup Path)
<1>1. Me \in Op /\ Me \in Started /\ op[Me] \in OpRec /\ job \in JobRec
  BY DEF Shape, JobKind, Started, Tables
<1>2. op[Me].to \in Manifest
  BY <1>1 DEF OpRec
<1>3. job.todo \in SUBSET (Frame \cup Path)
  BY <1>1, Zenon DEF JobRec
<1> QED
  BY <1>1, <1>2, <1>3, ManifestType DEF Files, Zips, Shape, Tables

\* The job goes on at pc with S to do.
StepsTo(pc, S) ==
    /\ job' \in JobRec /\ job'.pc = pc /\ job'.todo = S
    /\ Me' = Me /\ job'.kind = job.kind /\ job'.pub = job.pub /\ job'.bad = job.bad

LEMMA Steps ==
    ASSUME Shape, job.pc # "idle", NEW pc \in Labels
    PROVE  /\ \A S \in SUBSET (Frame \cup Path) : Go(pc, S) => StepsTo(pc, S)
           /\ \A x : Continue(pc, x) => StepsTo(pc, job.todo \ {x})
           /\ \A x \in Frame \cup Path : At(pc, x) => StepsTo(pc, job.todo) /\ job'.cur = x
<1>1. job \in JobRec /\ job.todo \in SUBSET (Frame \cup Path)
  BY MyParts
<1>2. \A S \in SUBSET (Frame \cup Path) : Go(pc, S) => StepsTo(pc, S)
  BY <1>1, JobMoves DEF StepsTo, Me
<1>3. ASSUME NEW x, Continue(pc, x)
      PROVE  StepsTo(pc, job.todo \ {x})
  BY <1>1, <1>2, <1>3 DEF Continue
<1> QED
  BY <1>1, <1>2, <1>3, JobMoves DEF StepsTo, Me

\* The frame whose turn it is is one of those to do.
LEMMA TurnIn ==
    ASSUME Shape, NEW pc, NEW f, Turn(pc, f), job.pc # "idle", job.todo \subseteq Files(Me)
    PROVE  f \in job.todo /\ f \in Files(Me) /\ f \in Frame
<1>1. job.todo \subseteq Nat /\ job.todo # {} /\ f = Min(job.todo)
  BY MyParts, FrameNat DEF Turn
<1> QED
  BY <1>1, MinIn, MyParts

LEMMA EndShape ==
    ASSUME End
    PROVE  JobKind' /\ Doing'
<1>1. job' = NoJob /\ job'.pc = "idle"
  BY DEF End, NoJob
<1>2. JobKind'
  BY <1>1, NoJobType DEF JobKind, Ahead, Back, Out
<1> QED
  BY <1>1, <1>2 DEF Doing

LEMMA FailShape ==
    ASSUME Shape, job.pc \in Ahead, Fail, SameOps
    PROVE  JobKind' /\ Doing'
<1>1. job.pc # "idle" /\ "rollback" \in Labels
  BY DEF Ahead, Labels
<1>2. /\ job' \in JobRec /\ job'.pc = "rollback"
      /\ job'.kind = job.kind /\ job'.op = job.op
  BY <1>1, MyParts, JobMoves DEF Fail
<1>3. JobKind'
  BY <1>1, <1>2, MyParts DEF Shape, JobKind, SameOps, Ahead, Back, Out, Me
<1> QED
  BY <1>2, <1>3 DEF Doing

LEMMA AdvanceShape ==
    ASSUME Shape, Advance
    PROVE  Shape'
<1>1. Tables' /\ SameOps /\ op' = op
  BY QuietTables DEF Shape, Advance
<1>2. job.pc # "idle" /\ job.todo = {}
  BY DEF Advance
<1>3. Files(Me) \in SUBSET (Frame \cup Path) /\ Zips(Me) \in SUBSET (Frame \cup Path)
  BY <1>2, MyParts
<1> USE DEF Labels, Ahead, Back, Out, StepsTo
<1>4. CASE job.pc = "copy" /\ Go("verify", Files(Me))
  <2>1. StepsTo("verify", Files(Me))
    BY <1>2, <1>3, <1>4, Steps
  <2> QED
    BY <1>1, <1>2, <1>4, <2>1, MyParts DEF Shape, JobKind, Doing, SameOps
<1>5. CASE job.pc = "verify" /\ Go("zip", Zips(Me))
  <2>1. StepsTo("zip", Zips(Me))
    BY <1>2, <1>3, <1>5, Steps
  <2> QED
    BY <1>1, <1>2, <1>5, <2>1, MyParts DEF Shape, JobKind, Doing, SameOps, Zips
<1>6. CASE job.pc = "zip" /\ Go("check", Zips(Me))
  <2>1. StepsTo("check", Zips(Me))
    BY <1>2, <1>3, <1>6, Steps
  <2> QED
    BY <1>1, <1>2, <1>6, <2>1, MyParts DEF Shape, JobKind, Doing, SameOps
<1>7. CASE job.pc = "check" /\ Go("delete", Files(Me))
  <2>1. StepsTo("delete", Files(Me))
    BY <1>2, <1>3, <1>7, Steps
  <2> QED
    BY <1>1, <1>2, <1>7, <2>1, MyParts DEF Shape, JobKind, Doing, SameOps
<1>8. CASE job.pc = "delete" /\ Go("finalize", {})
  <2>1. StepsTo("finalize", {})
    BY <1>2, <1>3, <1>8, Steps
  <2> QED
    BY <1>1, <1>2, <1>8, <2>1, MyParts DEF Shape, JobKind, Doing, SameOps
<1>9. CASE job.pc = "return" /\ Go("drop", Zips(Me))
  <2>1. StepsTo("drop", Zips(Me))
    BY <1>2, <1>3, <1>9, Steps
  <2> QED
    BY <1>1, <1>2, <1>9, <2>1, MyParts DEF Shape, JobKind, Doing, SameOps
<1>10. CASE job.pc = "drop" /\ Go("clean", {})
  <2>1. StepsTo("clean", {})
    BY <1>2, <1>3, <1>10, Steps
  <2> QED
    BY <1>1, <1>2, <1>10, <2>1, MyParts DEF Shape, JobKind, Doing, SameOps
<1> QED
  BY <1>4, <1>5, <1>6, <1>7, <1>8, <1>9, <1>10 DEF Advance

LEMMA NoticeShape ==
    ASSUME Shape, NoticeCancel
    PROVE  Shape'
<1>1. Tables' /\ SameOps
  BY QuietTables DEF Shape, NoticeCancel
<1> QED
  BY <1>1, FailShape, EndShape DEF Shape, NoticeCancel, Ahead

LEMMA CopyShape ==
    ASSUME Shape, NEW f \in Frame, Copy(f)
    PROVE  Shape'
<1>1. job.pc = "copy" /\ Turn("copy", f) /\ job.pc # "idle" /\ job.pc \in Ahead
  BY DEF Copy, Item, Turn, Ahead
<1>2. f \in job.todo /\ f \in Files(Me)
  BY <1>1, TurnIn DEF Shape, Doing
<1>3. op' = op /\ SameOps
  BY UnchangedSame DEF Shape, Tables, Copy
<1>4. staged' \in [Op -> [Frame -> Copies]]
  BY <1>1, MyParts DEF Shape, Tables, Copy, Copies
<1>5. Tables'
  BY <1>3, <1>4, ZipTypeKept, NumberedKept, LogsKept DEF Shape, Tables, Copy
<1>6. CASE f \in op[Me].copied /\ Continue("copy", f)
  <2>1. StepsTo("copy", job.todo \ {f})
    BY <1>1, <1>6, Steps DEF Labels, Ahead
  <2> QED
    BY <1>1, <1>2, <1>3, <1>5, <1>6, <2>1, MyParts
    DEF Shape, JobKind, Doing, SameOps, StepsTo, Ahead, Back, Out
<1>7. CASE Fail
  BY <1>1, <1>3, <1>5, <1>7, FailShape DEF Shape
<1>8. CASE f \notin op[Me].copied /\ At("copying", f)
  <2>1. StepsTo("copying", job.todo) /\ job'.cur = f
    BY <1>1, <1>8, Steps DEF Labels, Ahead
  <2> QED
    BY <1>1, <1>2, <1>3, <1>5, <1>8, <2>1, MyParts
    DEF Shape, JobKind, Doing, SameOps, StepsTo, Ahead, Back, Out
<1> QED
  BY <1>6, <1>7, <1>8 DEF Copy

\* An edit of the job's own log.
LEMMA EditTables ==
    ASSUME Shape, job.pc # "idle", NEW st, NEW c, NEW v, NEW z, NEW p, NEW d, NEW e,
           Edit(st, c, v, z, p, d, e), st # "none",
           v \subseteq c, c \subseteq Files(Me), p \subseteq Zips(Me), e \subseteq d, d \subseteq z, z \subseteq v,
           disk' \subseteq Frame, staged' \in [Op -> [Frame -> Copies]],
           row' \in [Frame -> Path \cup {NoPath}],
           UNCHANGED <<zip, mark, queue>>
    PROVE  Tables' /\ SameOps
<1>1. SameOps
  BY MyParts, EditSame
<1>2. Logs'
  BY <1>1, MyParts DEF Edit, SameOps, Logs, Shape, Tables
<1> QED
  BY <1>1, <1>2, ZipTypeKept, NumberedKept DEF Shape, Tables, Edit

LEMMA MyLog ==
    ASSUME Shape, job.pc # "idle"
    PROVE  /\ op[Me].published \subseteq Zips(Me) /\ op[Me].status # "none"
           /\ op[Me].verified \subseteq op[Me].copied /\ op[Me].copied \subseteq Files(Me)
           /\ op[Me].deleted \subseteq op[Me].deleting /\ op[Me].deleting \subseteq op[Me].zipped
           /\ op[Me].zipped \subseteq op[Me].verified
           /\ disk \subseteq Frame /\ staged \in [Op -> [Frame -> Copies]]
           /\ row \in [Frame -> Path \cup {NoPath}]
BY MyParts DEF Shape, Tables, Logs, Started

LEMMA CopyEndsShape ==
    ASSUME Shape, CopyEnds
    PROVE  Shape'
<1>1. job.pc = "copying" /\ job.pc # "idle" /\ job.pc \in Ahead
  BY DEF CopyEnds, Ahead
<1>2. job.cur \in job.todo /\ job.cur \in Files(Me) /\ job.cur \in Frame
  BY <1>1, MyParts DEF Shape, Doing
<1>3. staged' \in [Op -> [Frame -> Copies]]
  BY <1>1, <1>2, MyParts DEF Shape, Tables, CopyEnds, Copies
<1>4. CASE Continue("copy", job.cur) /\ Log("copied", {job.cur})
  <2>1. StepsTo("copy", job.todo \ {job.cur})
    BY <1>1, <1>4, Steps DEF Labels, Ahead
  <2>2. Edit(op[Me].status, op[Me].copied \cup {job.cur}, op[Me].verified, op[Me].zipped,
             op[Me].published, op[Me].deleting, op[Me].deleted)
    BY <1>1, <1>2, <1>4, MyParts, LogCopied
  <2>3. Tables' /\ SameOps
    BY <1>1, <1>2, <1>3, <2>2, EditTables, MyLog DEF CopyEnds
  <2> QED
    BY <1>1, <1>2, <2>1, <2>2, <2>3, MyParts
    DEF Shape, JobKind, Doing, SameOps, StepsTo, Edit, Ahead, Back, Out
<1>5. CASE Fail /\ UNCHANGED <<staged, op>>
  <2>1. Tables' /\ SameOps
    BY <1>5, QuietTables DEF Shape, CopyEnds
  <2> QED
    BY <1>1, <1>5, <2>1, FailShape DEF Shape
<1> QED
  BY <1>4, <1>5 DEF CopyEnds

LEMMA VerifyShape ==
    ASSUME Shape, NEW f \in Frame, Verify(f)
    PROVE  Shape'
<1>1. job.pc = "verify" /\ Turn("verify", f) /\ job.pc # "idle" /\ job.pc \in Ahead
  BY DEF Verify, Item, Turn, Ahead
<1>2. f \in job.todo /\ f \in Files(Me)
  BY <1>1, TurnIn DEF Shape, Doing
<1>3. CASE Continue("verify", f) /\ Log("verified", {f})
  <2>1. StepsTo("verify", job.todo \ {f})
    BY <1>1, <1>3, Steps DEF Labels, Ahead
  <2>2. Edit(op[Me].status, op[Me].copied, op[Me].verified \cup {f}, op[Me].zipped,
             op[Me].published, op[Me].deleting, op[Me].deleted)
    BY <1>1, <1>2, <1>3, MyParts, LogVerified
  <2>3. Tables' /\ SameOps
    BY <1>1, <1>2, <2>2, EditTables, MyLog DEF Shape, Doing, Verify
  <2> QED
    BY <1>1, <1>2, <2>1, <2>2, <2>3, MyParts
    DEF Shape, JobKind, Doing, SameOps, StepsTo, Edit, Ahead, Back, Out
<1>4. CASE Fail /\ UNCHANGED op
  <2>1. Tables' /\ SameOps
    BY <1>4, QuietTables DEF Shape, Verify
  <2> QED
    BY <1>1, <1>4, <2>1, FailShape DEF Shape
<1> QED
  BY <1>3, <1>4 DEF Verify

LEMMA ZipPut ==
    ASSUME Tables, NEW p \in Path, NEW z, zip' = [zip EXCEPT ![p] = z], op' = op,
           z # NoZip => z.by \in Started /\ z.has \in [Group(z.by, p) -> Copies \ {"none"}]
    PROVE  ZipType' /\ \A q \in Path : zip'[q] = IF q = p THEN z ELSE zip[q]
<1>1. \A q \in Path : zip'[q] = IF q = p THEN z ELSE zip[q]
  BY DEF Tables, ZipType
<1>2. SameOps
  BY UnchangedSame DEF Tables
<1>3. zip' = [q \in Path |-> zip'[q]]
  BY DEF Tables, ZipType
<1> QED
  BY <1>1, <1>2, <1>3 DEF Tables, ZipType, SameOps, Started

\* A zip comes or goes and nothing else does.
LEMMA ZipTables ==
    ASSUME Tables, ZipType', UNCHANGED <<disk, staged, row, mark, op, queue>>
    PROVE  Tables' /\ SameOps
<1>1. SameOps
  BY UnchangedSame DEF Tables
<1> QED
  BY <1>1, NumberedKept, LogsKept DEF Tables

\* The zip that is built, when it is not refused.
LEMMA BuiltZip ==
    ASSUME Shape, NEW p \in Path, job.pc = "zip",
           \A f \in Group(Me, p) : staged[Me][f] # "none",
           NEW z, z = [by |-> Me, has |-> [f \in Group(Me, p) |-> staged[Me][f]]]
    PROVE  /\ z # NoZip /\ z.by = Me /\ Me \in Started
           /\ z.has \in [Group(Me, p) -> Copies \ {"none"}]
           /\ z.has = [f \in Group(Me, p) |-> staged[Me][f]]
<1>1. Me \in Op /\ Me \in Started /\ Me # 0
  BY MyParts DEF Op
<1>2. z.by = Me /\ NoZip.by = 0
  BY DEF NoZip
<1>3. Group(Me, p) \subseteq Frame
  BY MyParts DEF Group
<1> QED
  BY <1>1, <1>2, <1>3 DEF Shape, Tables

LEMMA BuildZipShape ==
    ASSUME Shape, NEW p \in Path, BuildZip(p)
    PROVE  Shape'
<1>1. job.pc = "zip" /\ p \in job.todo /\ job.pc # "idle" /\ job.pc \in Ahead
  BY DEF BuildZip, ZipItem, ZipTurn, Ahead
<1>2. op' = op /\ SameOps
  BY UnchangedSame DEF Shape, Tables, BuildZip
<1>3. CASE Group(Me, p) \subseteq op[Me].zipped /\ Continue("zip", p) /\ UNCHANGED zip
  <2>1. StepsTo("zip", job.todo \ {p})
    BY <1>1, <1>3, Steps DEF Labels, Ahead
  <2>2. Tables'
    BY <1>3, QuietTables DEF Shape, BuildZip
  <2>3. \A f \in Files(Me) : op[Me].to[f] = p => f \in op[Me].zipped
    BY <1>3 DEF Group
  <2> QED
    BY <1>1, <1>2, <2>1, <2>2, <2>3, MyParts
    DEF Shape, JobKind, Doing, SameOps, StepsTo, Ahead, Back, Out
<1>4. CASE Fail /\ UNCHANGED zip
  <2>1. Tables' /\ SameOps
    BY <1>4, QuietTables DEF Shape, BuildZip
  <2> QED
    BY <1>1, <1>4, <2>1, FailShape DEF Shape
<1>5. ASSUME \A f \in Group(Me, p) : staged[Me][f] # "none", At("publish", p),
             zip' = [zip EXCEPT ![p] =
                       [by |-> Me, has |-> [f \in Group(Me, p) |-> staged[Me][f]]]]
      PROVE  Shape'
  <2>1. StepsTo("publish", job.todo) /\ job'.cur = p
    BY <1>1, <1>5, Steps DEF Labels, Ahead
  <2> PICK z : z = [by |-> Me, has |-> [f \in Group(Me, p) |-> staged[Me][f]]]
    OBVIOUS
  <2>2. z # NoZip /\ z.by = Me /\ Me \in Started /\ z.has \in [Group(Me, p) -> Copies \ {"none"}]
    BY <1>1, <1>5, BuiltZip
  <2>3. ZipType'
    BY <1>2, <1>5, <2>2, ZipPut DEF Shape
  <2>4. Tables'
    BY <2>3, ZipTables DEF Shape, BuildZip
  <2> QED
    BY <1>1, <1>2, <2>1, <2>4, MyParts
    DEF Shape, JobKind, Doing, SameOps, StepsTo, Ahead, Back, Out
<1> QED
  BY <1>3, <1>4, <1>5 DEF BuildZip

LEMMA RecordPublishShape ==
    ASSUME Shape, RecordPublish
    PROVE  Shape'
<1>1. job.pc = "publish" /\ job.pc # "idle" /\ job.pc \in Ahead
  BY DEF RecordPublish, Ahead
<1>2. job.cur \in job.todo /\ job.cur \in Zips(Me) /\ job.cur \in Path
  BY <1>1, MyParts DEF Shape, Doing
<1>3. StepsTo("added", job.todo) /\ job'.cur = job.cur
  BY <1>1, <1>2, Steps DEF RecordPublish, Labels, Ahead
<1>4. Edit(op[Me].status, op[Me].copied, op[Me].verified, op[Me].zipped,
           op[Me].published \cup {job.cur}, op[Me].deleting, op[Me].deleted)
  BY <1>1, <1>2, MyParts, LogPublished DEF RecordPublish
<1>5. Tables' /\ SameOps
  BY <1>1, <1>2, <1>4, EditTables, MyLog DEF RecordPublish
<1> QED
  BY <1>1, <1>2, <1>3, <1>4, <1>5, MyParts
  DEF Shape, JobKind, Doing, SameOps, StepsTo, Edit, Ahead, Back, Out

LEMMA RecordAddedShape ==
    ASSUME Shape, RecordAdded
    PROVE  Shape'
<1>1. job.pc = "added" /\ job.pc # "idle" /\ job.pc \in Ahead
  BY DEF RecordAdded, Ahead
<1>2. Group(Me, job.cur) \subseteq Files(Me) /\ Group(Me, job.cur) \in SUBSET Frame
  BY <1>1, MyParts DEF Group
<1>3. StepsTo("zip", job.todo \ {job.cur})
  BY <1>1, Steps DEF RecordAdded, Labels, Ahead
<1>4. Edit(op[Me].status, op[Me].copied, op[Me].verified, op[Me].zipped \cup Group(Me, job.cur),
           op[Me].published, op[Me].deleting, op[Me].deleted)
  BY <1>1, <1>2, MyParts, LogZipped DEF RecordAdded
<1>5. Tables' /\ SameOps
  BY <1>1, <1>2, <1>4, EditTables, MyLog DEF Shape, Doing, RecordAdded
<1>6. \A f \in Files(Me) : op[Me].to[f] = job.cur => f \in Group(Me, job.cur)
  BY DEF Group
<1> QED
  BY <1>1, <1>2, <1>3, <1>4, <1>5, <1>6, MyParts
  DEF Shape, JobKind, Doing, SameOps, StepsTo, Edit, Ahead, Back, Out

LEMMA CheckZipShape ==
    ASSUME Shape, NEW p \in Path, CheckZip(p)
    PROVE  Shape'
<1>1. job.pc = "check" /\ job.pc # "idle" /\ job.pc \in Ahead
  BY DEF CheckZip, ZipItem, ZipTurn, Ahead
<1>2. Tables' /\ SameOps /\ op' = op
  BY QuietTables DEF Shape, CheckZip
<1>3. CASE Continue("check", p)
  <2>1. StepsTo("check", job.todo \ {p})
    BY <1>1, <1>3, Steps DEF Labels, Ahead
  <2> QED
    BY <1>1, <1>2, <2>1, MyParts
    DEF Shape, JobKind, Doing, SameOps, StepsTo, Ahead, Back, Out
<1> QED
  BY <1>1, <1>2, <1>3, FailShape DEF Shape, CheckZip

LEMMA DeleteSourceShape ==
    ASSUME Shape, NEW f \in Frame, DeleteSource(f)
    PROVE  Shape'
<1>1. job.pc = "delete" /\ Turn("delete", f) /\ job.pc # "idle" /\ job.pc \in Ahead
  BY DEF DeleteSource, Item, Turn, Ahead
<1>2. f \in job.todo /\ f \in Files(Me) /\ f \in op[Me].zipped
  BY <1>1, TurnIn DEF Shape, Doing
<1>0. UNCHANGED <<disk, staged, zip, row, mark, queue>>
  BY DEF DeleteSource
<1>3. CASE Continue("delete", f) /\ UNCHANGED op
  <2>1. StepsTo("delete", job.todo \ {f})
    BY <1>1, <1>3, Steps DEF Labels, Ahead
  <2>2. Tables' /\ SameOps
    BY <1>0, <1>3, QuietTables DEF Shape
  <2> QED
    BY <1>1, <1>2, <1>3, <2>1, <2>2, MyParts
    DEF Shape, JobKind, Doing, SameOps, StepsTo, Ahead, Back, Out
<1>4. CASE f \in Moved /\ At("deleting", f) /\ Log("deleting", {f})
  <2>1. StepsTo("deleting", job.todo) /\ job'.cur = f
    BY <1>1, <1>4, Steps DEF Labels, Ahead
  <2>2. Edit(op[Me].status, op[Me].copied, op[Me].verified, op[Me].zipped,
             op[Me].published, op[Me].deleting \cup {f}, op[Me].deleted)
    BY <1>1, <1>2, <1>4, MyParts, LogDeleting
  <2>3. Tables' /\ SameOps
    BY <1>0, <1>1, <1>2, <2>2, EditTables, MyLog
  <2> QED
    BY <1>1, <1>2, <1>4, <2>1, <2>2, <2>3, MyParts
    DEF Shape, JobKind, Doing, SameOps, StepsTo, Edit, Ahead, Back, Out
<1>5. CASE /\ Continue("delete", f)
           /\ op' = [op EXCEPT ![Me].deleting = @ \cup {f}, ![Me].deleted = @ \cup {f}]
  <2>1. StepsTo("delete", job.todo \ {f})
    BY <1>1, <1>5, Steps DEF Labels, Ahead
  <2>2. Edit(op[Me].status, op[Me].copied, op[Me].verified, op[Me].zipped,
             op[Me].published, op[Me].deleting \cup {f}, op[Me].deleted \cup {f})
    BY <1>1, <1>2, <1>5, MyParts, LogDone
  <2>3. Tables' /\ SameOps
    BY <1>0, <1>1, <1>2, <2>2, EditTables, MyLog
  <2> QED
    BY <1>1, <1>2, <2>1, <2>2, <2>3, MyParts
    DEF Shape, JobKind, Doing, SameOps, StepsTo, Edit, Ahead, Back, Out
<1> QED
  BY <1>3, <1>4, <1>5 DEF DeleteSource

LEMMA RemoveSourceShape ==
    ASSUME Shape, RemoveSource
    PROVE  Shape'
<1>1. job.pc = "deleting" /\ job.pc # "idle" /\ job.pc \in Ahead
  BY DEF RemoveSource, Ahead
<1>2. SameOps /\ op' = op /\ disk' \subseteq Frame
  BY UnchangedSame DEF Shape, Tables, RemoveSource
<1>3. Tables'
  BY <1>2, ZipTypeKept, NumberedKept, LogsKept DEF Shape, Tables, RemoveSource
<1>4. CASE At("deleted", job.cur)
  <2>1. job.cur \in Frame
    BY <1>1, MyParts DEF Shape, Doing
  <2>2. StepsTo("deleted", job.todo) /\ job'.cur = job.cur
    BY <1>1, <1>4, <2>1, Steps DEF Labels, Ahead
  <2> QED
    BY <1>1, <1>2, <1>3, <2>2, MyParts
    DEF Shape, JobKind, Doing, SameOps, StepsTo, Ahead, Back, Out
<1> QED
  BY <1>1, <1>2, <1>3, <1>4, FailShape DEF Shape, RemoveSource

LEMMA RecordDeletedShape ==
    ASSUME Shape, RecordDeleted
    PROVE  Shape'
<1>1. job.pc = "deleted" /\ job.pc # "idle" /\ job.pc \in Ahead
  BY DEF RecordDeleted, Ahead
<1>2. job.cur \in op[Me].deleting /\ job.cur \in Frame
  BY <1>1, MyParts DEF Shape, Doing
<1>3. StepsTo("delete", job.todo \ {job.cur})
  BY <1>1, Steps DEF RecordDeleted, Labels, Ahead
<1>4. Edit(op[Me].status, op[Me].copied, op[Me].verified, op[Me].zipped,
           op[Me].published, op[Me].deleting, op[Me].deleted \cup {job.cur})
  BY <1>1, <1>2, MyParts, LogDeleted DEF RecordDeleted
<1>5. Tables' /\ SameOps
  BY <1>1, <1>2, <1>4, EditTables, MyLog DEF RecordDeleted
<1> QED
  BY <1>1, <1>2, <1>3, <1>4, <1>5, MyParts
  DEF Shape, JobKind, Doing, SameOps, StepsTo, Edit, Ahead, Back, Out

LEMMA WorldTables ==
    ASSUME Tables, UNCHANGED <<zip, op, queue>>,
           disk' \subseteq Frame, staged' \in [Op -> [Frame -> Copies]],
           row' \in [Frame -> Path \cup {NoPath}], mark' \in [FrameSet -> Op \cup {0}],
           \A s \in FrameSet : mark'[s] # 0 => mark'[s] \in Started
    PROVE  Tables' /\ SameOps
<1>1. SameOps
  BY UnchangedSame DEF Tables
<1>2. Numbered'
  BY <1>1 DEF Tables, Numbered, SameOps
<1> QED
  BY <1>1, <1>2, ZipTypeKept, LogsKept DEF Tables

LEMMA FinalizeShape ==
    ASSUME Shape, Finalize
    PROVE  Shape'
<1>1. job.pc = "finalize" /\ job.pc # "idle" /\ job.pc \in Ahead
  BY DEF Finalize, Ahead
<1>2. Tables' /\ SameOps /\ op' = op
  BY QuietTables DEF Shape, Finalize
<1>3. CASE Go("mark", Files(Me) \cap Moved)
  <2>1. StepsTo("mark", Files(Me) \cap Moved)
    BY <1>1, <1>3, Steps, MyParts DEF Labels, Ahead
  <2> QED
    BY <1>1, <1>2, <2>1, MyParts
    DEF Shape, JobKind, Doing, SameOps, StepsTo, Ahead, Back, Out
<1> QED
  BY <1>1, <1>2, <1>3, FailShape DEF Shape, Finalize

LEMMA MarkFileShape ==
    ASSUME Shape, NEW f \in Frame, MarkFile(f)
    PROVE  Shape'
<1>1. job.pc = "mark" /\ Turn("mark", f) /\ job.pc # "idle" /\ job.pc \in Ahead
  BY DEF MarkFile, Turn, Ahead
<1>2. f \in job.todo /\ f \in Files(Me)
  BY <1>1, TurnIn DEF Shape, Doing
<1>3. row' \in [Frame -> Path \cup {NoPath}]
  BY <1>1, <1>2, MyParts DEF MarkFile, Shape, Tables
<1>4. Tables' /\ SameOps /\ op' = op
  BY <1>3, WorldTables DEF Shape, Tables, Numbered, MarkFile
<1>5. StepsTo("mark", job.todo \ {f})
  BY <1>1, Steps DEF MarkFile, Labels, Ahead
<1> QED
  BY <1>1, <1>4, <1>5, MyParts
  DEF Shape, JobKind, Doing, SameOps, StepsTo, Ahead, Back, Out

\* The set of the job's operation is marked, or its mark is cleared.
LEMMA MarkType ==
    ASSUME Shape, job.pc # "idle", NEW m \in {0, Me}, mark' = [mark EXCEPT ![op[Me].set] = m]
    PROVE  /\ mark' \in [FrameSet -> Op \cup {0}]
           /\ \A s \in FrameSet : mark'[s] # 0 => mark'[s] \in Started
<1>1. \A s \in FrameSet : mark'[s] = IF s = op[Me].set THEN m ELSE mark[s]
  BY DEF Shape, Tables
<1> QED
  BY <1>1, MyParts DEF Shape, Tables, Numbered

LEMMA MarkSetShape ==
    ASSUME Shape, MarkSet
    PROVE  Shape'
<1>1. job.pc = "mark" /\ job.pc # "idle" /\ job.pc \in Ahead
  BY DEF MarkSet, Ahead
<1>2. CASE mark' = [mark EXCEPT ![op[Me].set] = Me] /\ Go("sweep", {})
  <2>1. Tables' /\ SameOps /\ op' = op
    BY <1>1, <1>2, MarkType, WorldTables DEF Shape, Tables, MarkSet
  <2>2. StepsTo("sweep", {})
    BY <1>1, <1>2, Steps DEF Labels, Ahead
  <2> QED
    BY <1>1, <2>1, <2>2, MyParts
    DEF Shape, JobKind, Doing, SameOps, StepsTo, Ahead, Back, Out
<1>3. CASE Fail /\ UNCHANGED mark
  <2>1. Tables' /\ SameOps
    BY <1>3, QuietTables DEF Shape, MarkSet
  <2> QED
    BY <1>1, <1>3, <2>1, FailShape DEF Shape
<1> QED
  BY <1>2, <1>3 DEF MarkSet

LEMMA CleanFileShape ==
    ASSUME Shape, NEW f \in Frame, CleanFile(f)
    PROVE  Shape'
<1>1. job.pc # "idle" /\ job' = job /\ Me' = Me
  BY DEF CleanFile, Me
<1>2. staged' \in [Op -> [Frame -> Copies]]
  BY <1>1, MyParts DEF Shape, Tables, CleanFile, Copies
<1>3. Tables' /\ SameOps /\ op' = op
  BY <1>2, WorldTables DEF Shape, Tables, Numbered, CleanFile
<1> QED
  BY <1>1, <1>3, MyParts DEF Shape, JobKind, Doing, SameOps

LEMMA CompleteShape ==
    ASSUME Shape, Complete
    PROVE  Shape'
<1>1. job.pc # "idle" /\ UNCHANGED <<disk, staged, zip, row, mark, queue>>
  BY DEF Complete
<1>2. Edit("completed", op[Me].copied, op[Me].verified, op[Me].zipped,
           op[Me].published, op[Me].deleting, op[Me].deleted)
  BY <1>1, MyParts, NewStatus DEF Complete, Statuses
<1>3. Tables' /\ SameOps
  BY <1>1, <1>2, EditTables, MyLog
<1> QED
  BY <1>3, EndShape DEF Shape, Complete

\* The rollback notes what was published when it begins.
LEMMA ReturnMoves ==
    ASSUME job \in JobRec, NEW S \in SUBSET (Frame \cup Path), NEW P \in SUBSET Path,
           job' = [job EXCEPT !.pc = "return", !.todo = S, !.pub = P]
    PROVE  /\ job' \in JobRec /\ job'.pc = "return" /\ job'.todo = S /\ job'.pub = P
           /\ job'.op = job.op /\ job'.kind = job.kind /\ job'.bad = job.bad
<1>1. "return" \in Labels
  BY DEF Labels, Back
<1> QED
  BY <1>1, Zenon DEF JobRec

LEMMA RollbackBeginsShape ==
    ASSUME Shape, RollbackBegins
    PROVE  Shape'
<1>1. job.pc = "rollback" /\ job.pc # "idle" /\ UNCHANGED <<disk, staged, zip, row, mark, queue>>
  BY DEF RollbackBegins
<1>2. CASE End /\ UNCHANGED op
  BY <1>1, <1>2, QuietTables, EndShape DEF Shape
<1>3. CASE /\ Status("rolling_back")
           /\ job' = [job EXCEPT !.pc = "return", !.todo = Removed(Me), !.pub = op[Me].published]
  <2>1. Edit("rolling_back", op[Me].copied, op[Me].verified, op[Me].zipped,
             op[Me].published, op[Me].deleting, op[Me].deleted)
    BY <1>1, <1>3, MyParts, NewStatus DEF Statuses
  <2>2. Tables' /\ SameOps
    BY <1>1, <2>1, EditTables, MyLog
  <2>3. Removed(Me) \subseteq Files(Me) /\ Removed(Me) \in SUBSET (Frame \cup Path)
    BY <1>1, MyParts DEF Removed
  <2>4. op[Me].published \in SUBSET Path
    BY <1>1, MyParts, MyLog
  <2>5. /\ job' \in JobRec /\ job'.pc = "return" /\ job'.todo = Removed(Me)
        /\ job'.pub = op[Me].published /\ job'.kind = job.kind /\ Me' = Me
    BY <1>1, <1>3, <2>3, <2>4, ReturnMoves, MyParts DEF Me
  <2> QED
    BY <1>1, <2>1, <2>2, <2>3, <2>5, MyParts
    DEF Shape, JobKind, Doing, SameOps, Edit, Ahead, Back, Out
<1> QED
  BY <1>2, <1>3 DEF RollbackBegins

LEMMA ReturnSourceShape ==
    ASSUME Shape, NEW f \in Frame, ReturnSource(f)
    PROVE  Shape'
<1>1. job.pc = "return" /\ job.pc # "idle"
  BY DEF ReturnSource, Turn
<1>2. disk' \subseteq Frame
  BY DEF ReturnSource, Shape, Tables
<1>3. Tables' /\ SameOps /\ op' = op
  BY <1>2, WorldTables DEF Shape, Tables, Numbered, ReturnSource
<1>4. CASE Continue("return", f)
  <2>1. StepsTo("return", job.todo \ {f})
    BY <1>1, <1>4, Steps DEF Labels, Back
  <2> QED
    BY <1>1, <1>3, <2>1, MyParts
    DEF Shape, JobKind, Doing, SameOps, StepsTo, Ahead, Back, Out
<1> QED
  BY <1>3, <1>4, EndShape DEF Shape, ReturnSource

\* A zip is removed or stays.
LEMMA ZipGoes ==
    ASSUME Tables, NEW p \in Path, NEW z \in {NoZip, zip[p]}, zip' = [zip EXCEPT ![p] = z],
           UNCHANGED <<disk, staged, row, mark, op, queue>>
    PROVE  /\ Tables' /\ SameOps
           /\ \A q \in Path : zip'[q] = IF q = p THEN z ELSE zip[q]
<1>1. z # NoZip => z.by \in Started /\ z.has \in [Group(z.by, p) -> Copies \ {"none"}]
  BY DEF Tables, ZipType
<1> QED
  BY <1>1, ZipPut, ZipTables

LEMMA DropZipShape ==
    ASSUME Shape, NEW p \in Path, DropZip(p)
    PROVE  Shape'
<1>1. job.pc = "drop" /\ job.pc # "idle" /\ Continue("drop", p)
  BY DEF DropZip, ZipTurn
<1>2. UNCHANGED <<disk, staged, row, mark, op, queue>>
  BY DEF DropZip
<1>3. Tables' /\ SameOps
  <2>1. CASE zip' = [zip EXCEPT ![p] = IF p \in job.pub THEN NoZip ELSE @]
    BY <1>2, <2>1, ZipGoes DEF Shape
  <2> QED
    BY <1>2, <2>1, QuietTables DEF Shape, DropZip
<1>4. StepsTo("drop", job.todo \ {p})
  BY <1>1, Steps DEF Labels, Back
<1> QED
  BY <1>1, <1>2, <1>3, <1>4, MyParts
  DEF Shape, JobKind, Doing, SameOps, StepsTo, Ahead, Back, Out

LEMMA UnmarkSetShape ==
    ASSUME Shape, UnmarkSet
    PROVE  Shape'
<1>1. job.pc = "clean" /\ job.pc # "idle" /\ UNCHANGED <<disk, staged, zip, row, op, queue>>
  BY DEF UnmarkSet
<1>2. CASE mark' = [mark EXCEPT ![op[Me].set] = 0] /\ Go("unmark", Files(Me))
  <2>1. Tables' /\ SameOps
    BY <1>1, <1>2, MarkType, WorldTables DEF Shape, Tables
  <2>2. StepsTo("unmark", Files(Me))
    BY <1>1, <1>2, Steps, MyParts DEF Labels, Back
  <2> QED
    BY <1>1, <2>1, <2>2, MyParts
    DEF Shape, JobKind, Doing, SameOps, StepsTo, Ahead, Back, Out
<1>3. CASE End /\ UNCHANGED mark
  BY <1>1, <1>3, QuietTables, EndShape DEF Shape
<1> QED
  BY <1>2, <1>3 DEF UnmarkSet

\* A row that no longer names a zip.
LEMMA RowCleared ==
    ASSUME Tables, NEW f, row' = [row EXCEPT ![f] = NoPath], UNCHANGED <<disk, staged, zip, mark, op, queue>>
    PROVE  Tables' /\ SameOps
<1>1. row' \in [Frame -> Path \cup {NoPath}]
  BY DEF Tables
<1> QED
  BY <1>1, WorldTables DEF Tables, Numbered

LEMMA UnmarkFileShape ==
    ASSUME Shape, NEW f \in Frame, UnmarkFile(f)
    PROVE  Shape'
<1>1. job.pc = "unmark" /\ job.pc # "idle"
  BY DEF UnmarkFile, Turn
<1>2. Tables' /\ SameOps /\ op' = op
  BY RowCleared DEF Shape, UnmarkFile
<1>3. StepsTo("unmark", job.todo \ {f})
  BY <1>1, Steps DEF UnmarkFile, Labels, Back
<1> QED
  BY <1>1, <1>2, <1>3, MyParts
  DEF Shape, JobKind, Doing, SameOps, StepsTo, Ahead, Back, Out

LEMMA RolledBackShape ==
    ASSUME Shape, RolledBack
    PROVE  Shape'
<1>1. job.pc # "idle" /\ UNCHANGED <<disk, staged, zip, row, mark, queue>>
  BY DEF RolledBack
<1>2. Edit("rolled_back", op[Me].copied, op[Me].verified, op[Me].zipped,
           op[Me].published, op[Me].deleting, op[Me].deleted)
  BY <1>1, MyParts, NewStatus DEF RolledBack, Statuses
<1>3. Tables' /\ SameOps
  BY <1>1, <1>2, EditTables, MyLog
<1> QED
  BY <1>3, EndShape DEF Shape, RolledBack

LEMMA PreflightShape ==
    ASSUME Shape, Preflight
    PROVE  Shape'
<1>1. job.pc = "preflight" /\ job.pc # "idle"
  BY DEF Preflight
<1>2. Tables' /\ SameOps /\ op' = op
  BY QuietTables DEF Shape, Preflight
<1>3. CASE Go("extract", Files(Me))
  <2>1. StepsTo("extract", Files(Me))
    BY <1>1, <1>3, Steps, MyParts DEF Labels, Out
  <2> QED
    BY <1>1, <1>2, <2>1, MyParts
    DEF Shape, JobKind, Doing, SameOps, StepsTo, Ahead, Back, Out
<1> QED
  BY <1>2, <1>3, EndShape DEF Shape, Preflight

\* A conflict is put down and left out.
LEMMA ConflictMoves ==
    ASSUME job \in JobRec, NEW f \in Frame,
           job' = [job EXCEPT !.todo = @ \ {f}, !.bad = @ \cup {f}]
    PROVE  /\ job' \in JobRec /\ job'.pc = job.pc /\ job'.todo = job.todo \ {f}
           /\ job'.bad = job.bad \cup {f} /\ job'.op = job.op /\ job'.kind = job.kind
<1>1. job.todo \ {f} \in SUBSET (Frame \cup Path) /\ job.bad \cup {f} \in SUBSET Frame
  BY Zenon DEF JobRec
<1> QED
  BY <1>1, Zenon DEF JobRec

LEMMA ExtractShape ==
    ASSUME Shape, NEW f \in Frame, Extract(f)
    PROVE  Shape'
<1>1. job.pc = "extract" /\ job.pc # "idle"
  BY DEF Extract, Item, Turn
<1>2. disk' \subseteq Frame /\ UNCHANGED <<staged, zip, row, mark, op, queue>>
  BY DEF Extract, Shape, Tables
<1>3. Tables' /\ SameOps /\ op' = op
  BY <1>2, WorldTables DEF Shape, Tables, Numbered
<1>4. CASE Continue("extract", f)
  <2>1. StepsTo("extract", job.todo \ {f})
    BY <1>1, <1>4, Steps DEF Labels, Out
  <2> QED
    BY <1>1, <1>3, <2>1, MyParts
    DEF Shape, JobKind, Doing, SameOps, StepsTo, Ahead, Back, Out
<1>5. CASE job' = [job EXCEPT !.todo = @ \ {f}, !.bad = @ \cup {f}]
  <2>1. /\ job' \in JobRec /\ job'.pc = "extract" /\ job'.todo = job.todo \ {f}
        /\ Me' = Me /\ job'.kind = job.kind
    BY <1>1, <1>5, ConflictMoves, MyParts DEF Me
  <2> QED
    BY <1>1, <1>3, <2>1, MyParts
    DEF Shape, JobKind, Doing, SameOps, Ahead, Back, Out
<1>6. CASE End
  BY <1>3, <1>6, EndShape DEF Shape
<1> QED
  BY <1>4, <1>5, <1>6 DEF Extract

LEMMA ExtractedShape ==
    ASSUME Shape, Extracted
    PROVE  Shape'
<1>1. job.pc = "extract" /\ job.pc # "idle"
  BY DEF Extracted
<1>2. Tables' /\ SameOps /\ op' = op
  BY QuietTables DEF Shape, Extracted
<1>3. StepsTo("release", Files(Me) \ job.bad)
  BY <1>1, Steps, MyParts DEF Extracted, Labels, Out
<1> QED
  BY <1>1, <1>2, <1>3, MyParts
  DEF Shape, JobKind, Doing, SameOps, StepsTo, Ahead, Back, Out

LEMMA ReleaseFileShape ==
    ASSUME Shape, NEW f \in Frame, ReleaseFile(f)
    PROVE  Shape'
<1>1. job.pc = "release" /\ job.pc # "idle"
  BY DEF ReleaseFile, Turn
<1>2. Tables' /\ SameOps /\ op' = op
  BY RowCleared DEF Shape, ReleaseFile
<1>3. StepsTo("release", job.todo \ {f})
  BY <1>1, Steps DEF ReleaseFile, Labels, Out
<1> QED
  BY <1>1, <1>2, <1>3, MyParts
  DEF Shape, JobKind, Doing, SameOps, StepsTo, Ahead, Back, Out

LEMMA ReleaseSetShape ==
    ASSUME Shape, ReleaseSet
    PROVE  Shape'
<1>1. job.pc = "release" /\ job.pc # "idle" /\ UNCHANGED <<disk, staged, zip, row, op, queue>>
  BY DEF ReleaseSet
<1>2. mark' = [mark EXCEPT ![op[Me].set] = 0] \/ mark' = mark
  BY DEF ReleaseSet
<1>3. Tables' /\ SameOps
  BY <1>1, <1>2, MarkType, WorldTables DEF Shape, Tables, Numbered
<1>4. CASE Go("discard", Zips(Me))
  <2>1. StepsTo("discard", Zips(Me))
    BY <1>1, <1>4, Steps, MyParts DEF Labels, Out
  <2> QED
    BY <1>1, <1>3, <2>1, MyParts
    DEF Shape, JobKind, Doing, SameOps, StepsTo, Ahead, Back, Out
<1> QED
  BY <1>3, <1>4, EndShape DEF Shape, ReleaseSet

LEMMA DiscardZipShape ==
    ASSUME Shape, NEW p \in Path, DiscardZip(p)
    PROVE  Shape'
<1>1. job.pc = "discard" /\ job.pc # "idle" /\ Continue("discard", p)
  BY DEF DiscardZip, ZipTurn
<1>2. UNCHANGED <<disk, staged, row, mark, op, queue>>
  BY DEF DiscardZip
<1>3. Tables' /\ SameOps
  <2>1. CASE zip' = [zip EXCEPT ![p] = IF \E f \in Frame : row[f] = p THEN @ ELSE NoZip]
    BY <1>2, <2>1, ZipGoes DEF Shape
  <2> QED
    BY <1>2, <2>1, QuietTables DEF Shape, DiscardZip
<1>4. StepsTo("discard", job.todo \ {p})
  BY <1>1, Steps DEF Labels, Out
<1> QED
  BY <1>1, <1>2, <1>3, <1>4, MyParts
  DEF Shape, JobKind, Doing, SameOps, StepsTo, Ahead, Back, Out

LEMMA DiscardedShape ==
    ASSUME Shape, Discarded
    PROVE  Shape'
BY QuietTables, EndShape DEF Shape, Discarded

-----------------------------------------------------------------------------
\* The first of the jobs that wait, and the others.
LEMMA FirstWaiting ==
    ASSUME Tables, queue # <<>>
    PROVE  /\ Head(queue) \in Waiting /\ Head(queue).op \in Started
           /\ Tail(queue) \in Seq(Waiting) /\ Len(Tail(queue)) <= MaxQueue
           /\ \A i \in DOMAIN Tail(queue) : i + 1 \in DOMAIN queue /\ Tail(queue)[i] = queue[i + 1]
           /\ 1 \in DOMAIN queue /\ Head(queue) = queue[1]
<1>1. queue \in Seq(Waiting) /\ Len(queue) <= MaxQueue /\ MaxQueue \in Nat
  BY ArchiveAssumption DEF Tables
<1>2. /\ Head(queue) \in Waiting /\ Tail(queue) \in Seq(Waiting) /\ Len(Tail(queue)) <= MaxQueue
      /\ \A i \in DOMAIN Tail(queue) : i + 1 \in DOMAIN queue /\ Tail(queue)[i] = queue[i + 1]
      /\ 1 \in DOMAIN queue /\ Head(queue) = queue[1]
  BY <1>1
<1> QED
  BY <1>2 DEF Tables, Numbered

LEMMA WaitingType ==
    ASSUME NEW j \in Waiting
    PROVE  /\ j.kind \in {"archive", "rollback", "restore"} /\ j.op \in Op
           /\ j.keep \in BOOLEAN /\ j.cancel \in BOOLEAN /\ j.pc = "idle"
           /\ j.todo = {} /\ j.cur = NoPath /\ j.pub = {} /\ j.bad = {}
           /\ j \in JobRec
<1>1. /\ j.kind \in {"archive", "rollback", "restore"} /\ j.op \in Op
      /\ j.keep \in BOOLEAN /\ j.cancel \in BOOLEAN /\ j.pc = "idle"
      /\ j.todo = {} /\ j.cur = NoPath /\ j.pub = {} /\ j.bad = {}
      /\ j = [kind |-> j.kind, op |-> j.op, keep |-> j.keep, cancel |-> j.cancel, pc |-> j.pc,
              todo |-> j.todo, cur |-> j.cur, pub |-> j.pub, bad |-> j.bad]
  BY Zenon DEF Waiting
<1>2. j.kind \in {"none", "archive", "rollback", "restore"} /\ j.op \in Op \cup {0}
      /\ j.cur \in Frame \cup Path \cup {NoPath} /\ j.pub \in SUBSET Path /\ j.bad \in SUBSET Frame
      /\ j.pc \in Labels /\ j.todo \in SUBSET (Frame \cup Path)
  BY <1>1 DEF Labels
<1>3. j \in JobRec
  BY <1>1, <1>2, Zenon DEF JobRec
<1> QED
  BY <1>1, <1>3

LEMMA TakeMoves ==
    ASSUME NEW j \in Waiting, NEW pc \in Labels, NEW S \in SUBSET (Frame \cup Path),
           \/ job' = [j EXCEPT !.pc = pc, !.todo = S]
           \/ S = {} /\ job' = [j EXCEPT !.pc = pc]
    PROVE  job' \in JobRec /\ job'.pc = pc /\ job'.todo = S /\ job'.kind = j.kind /\ job'.op = j.op
<1>1. j \in JobRec /\ j.todo = {}
  BY WaitingType
<1>2. CASE job' = [j EXCEPT !.pc = pc, !.todo = S]
  BY <1>1, <1>2, Zenon DEF JobRec
<1>3. CASE S = {} /\ job' = [j EXCEPT !.pc = pc]
  BY <1>1, <1>3, Zenon DEF JobRec
<1> QED
  BY <1>2, <1>3

LEMMA TakeShape ==
    ASSUME Shape, Take
    PROVE  Shape'
<1> PICK j : j = Head(queue)
  OBVIOUS
<1>1. /\ j \in Waiting /\ j.op \in Started
      /\ queue' \in Seq(Waiting) /\ Len(queue') <= MaxQueue
      /\ \A i \in DOMAIN queue' : i + 1 \in DOMAIN queue /\ queue'[i] = queue[i + 1]
  BY FirstWaiting DEF Shape, Take
<1>2. j.op \in Op /\ op[j.op] \in OpRec
  BY <1>1 DEF Started, Shape, Tables
<1>3. Files(j.op) \in SUBSET (Frame \cup Path)
  BY <1>2, ManifestType DEF OpRec, Files
<1>4. ASSUME SameOps, Logs' PROVE Tables'
  BY <1>1, <1>4, ZipTypeKept DEF Shape, Tables, Numbered, Take, SameOps
<1>5. CASE /\ j.kind = "archive" /\ job' = [j EXCEPT !.pc = "copy", !.todo = Files(j.op)]
           /\ op' = [op EXCEPT ![j.op].status = "open"]
  <2>1. /\ op' \in [Op -> OpRec] /\ op'[j.op].status = "open"
        /\ \A u \in Op : /\ op'[u].to = op[u].to /\ op'[u].set = op[u].set
                         /\ op'[u].copied = op[u].copied /\ op'[u].verified = op[u].verified
                         /\ op'[u].zipped = op[u].zipped /\ op'[u].published = op[u].published
                         /\ op'[u].deleting = op[u].deleting /\ op'[u].deleted = op[u].deleted
                         /\ (op'[u].status = "none" <=> op[u].status = "none")
    BY <1>1, <1>2, <1>5 DEF OpRec, Statuses, Shape, Tables, Started
  <2>2. SameOps
    BY <2>1 DEF SameOps, Started, Files, Zips, Group
  <2>3. Logs'
    BY <2>1, <2>2 DEF Logs, SameOps, Shape, Tables
  <2>4. "copy" \in Labels
    BY DEF Labels, Ahead
  <2>5. job' \in JobRec /\ job'.pc = "copy" /\ job'.todo = Files(j.op) /\ job'.kind = j.kind /\ job'.op = j.op
    BY <1>1, <1>3, <1>5, <2>4, TakeMoves, Zenon
  <2>6. Me' = j.op /\ job'.kind = "archive"
    BY <1>5, <2>5 DEF Me
  <2> QED
    BY <1>1, <1>2, <1>4, <2>1, <2>2, <2>3, <2>5, <2>6 DEF Shape, JobKind, Doing, SameOps, Ahead, Back, Out
<1>6. ASSUME NEW pc \in {"rollback", "preflight"}, job' = [j EXCEPT !.pc = pc], UNCHANGED op,
             j.kind = IF pc = "rollback" THEN "rollback" ELSE "restore"
      PROVE  Shape'
  <2>1. SameOps /\ Logs'
    BY <1>6, UnchangedSame, LogsKept DEF Shape, Tables
  <2>2. pc \in Labels
    BY DEF Labels, Out
  <2>3. {} \in SUBSET (Frame \cup Path)
    OBVIOUS
  <2>4. job' \in JobRec /\ job'.pc = pc /\ job'.kind = j.kind /\ job'.op = j.op
    BY <1>1, <1>6, <2>2, <2>3, TakeMoves, Zenon
  <2>5. Me' = j.op
    BY <2>4 DEF Me
  <2> QED
    BY <1>1, <1>2, <1>4, <1>6, <2>1, <2>4, <2>5 DEF Shape, JobKind, Doing, SameOps, Ahead, Back, Out
<1>7. j.kind \in {"archive", "rollback", "restore"}
  BY <1>1, WaitingType
<1>8. CASE j.kind = "archive"
  BY <1>5, <1>8 DEF Take
<1>9. CASE j.kind = "rollback"
  BY <1>6, <1>9 DEF Take
<1>10. CASE j.kind = "restore"
  BY <1>6, <1>10 DEF Take
<1> QED
  BY <1>7, <1>8, <1>9, <1>10

\* A request joins the queue.
LEMMA Enqueued ==
    ASSUME Tables, NEW kind \in {"archive", "rollback", "restore"}, NEW o \in Op,
           NEW keep \in BOOLEAN, Enqueue(kind, o, keep)
    PROVE  /\ queue' \in Seq(Waiting) /\ Len(queue') <= MaxQueue
           /\ \A i \in DOMAIN queue' :
                 \/ i \in DOMAIN queue /\ queue'[i] = queue[i]
                 \/ queue'[i].op = o /\ queue'[i].kind = kind
<1> PICK j : j = [NoJob EXCEPT !.kind = kind, !.op = o, !.keep = keep]
  OBVIOUS
<1>1. j \in Waiting /\ j.op = o /\ j.kind = kind
  BY Zenon DEF NoJob, Waiting
<1>2. queue' = Append(queue, j) /\ Len(queue) < MaxQueue /\ queue \in Seq(Waiting)
  BY DEF Enqueue, Tables
<1>3. MaxQueue \in Nat
  BY ArchiveAssumption
<1>4. queue' \in Seq(Waiting) /\ Len(queue') = Len(queue) + 1
  BY <1>1, <1>2
<1>5. \A i \in DOMAIN queue' : queue'[i] = IF i \in DOMAIN queue THEN queue[i] ELSE j
  BY <1>1, <1>2
<1> QED
  BY <1>1, <1>2, <1>3, <1>4, <1>5

\* A request for an operation that is there.
LEMMA RequestShape ==
    ASSUME Shape, NEW kind \in {"archive", "rollback", "restore"}, NEW o \in Started,
           NEW keep \in BOOLEAN, Enqueue(kind, o, keep),
           UNCHANGED <<disk, staged, zip, row, mark, op, job>>
    PROVE  Shape'
<1>1. o \in Op
  BY DEF Started
<1>2. /\ queue' \in Seq(Waiting) /\ Len(queue') <= MaxQueue
      /\ \A i \in DOMAIN queue' : \/ i \in DOMAIN queue /\ queue'[i] = queue[i]
                                  \/ queue'[i].op = o /\ queue'[i].kind = kind
  BY <1>1, Enqueued DEF Shape
<1>3. SameOps /\ Logs'
  BY UnchangedSame, LogsKept DEF Shape, Tables
<1>4. Tables'
  BY <1>2, <1>3, ZipTypeKept DEF Shape, Tables, Numbered, SameOps
<1>5. job' = job /\ Me' = Me /\ op' = op
  BY DEF Me
<1>6. JobKind'
  BY <1>3, <1>5 DEF Shape, JobKind, SameOps
<1>7. Doing'
  <2>1. Files(Me)' = Files(Me) /\ Zips(Me)' = Zips(Me)
    BY <1>5 DEF Files, Zips
  <2> QED
    BY <1>5, <2>1 DEF Shape, Doing
<1> QED
  BY <1>4, <1>6, <1>7 DEF Shape

LEMMA ResumeShape ==
    ASSUME Shape, NEW o \in Op, Resume(o) \/ Rollback(o)
    PROVE  Shape'
<1>1. o \in Started
  BY DEF Resume, Rollback, Unfinished, Started
<1> QED
  BY <1>1, RequestShape DEF Resume, Rollback

LEMMA UnarchiveShape ==
    ASSUME Shape, NEW s \in FrameSet, NEW keep \in BOOLEAN, Unarchive(s, keep)
    PROVE  Shape'
<1>1. mark[s] \in Started
  BY DEF Unarchive, Shape, Tables, Numbered
<1> QED
  BY <1>1, RequestShape DEF Unarchive

LEMMA CrashShape ==
    ASSUME Shape, Crash
    PROVE  Shape'
<1>1. SameOps /\ Logs' /\ ZipType'
  BY UnchangedSame, LogsKept, ZipTypeKept DEF Shape, Tables, Crash
<1>2. queue' = <<>> /\ queue' \in Seq(Waiting) /\ Len(queue') = 0 /\ DOMAIN queue' = {}
  BY DEF Crash
<1>3. 0 <= MaxQueue
  BY ArchiveAssumption
<1>4. Tables'
  BY <1>1, <1>2, <1>3 DEF Shape, Tables, Numbered, SameOps, Crash
<1> QED
  BY <1>4, EndShape DEF Shape, Crash, End

\* The number of a new operation, and that the operations stay numbered.
LEMMA NextNumber ==
    ASSUME Tables, NEW o \in Op, o = Cardinality(Started) + 1
    PROVE  o \notin Started /\ \E n \in 0 .. MaxOps : Started \cup {o} = 1 .. n
<1>1. PICK n \in 0 .. MaxOps : Started = 1 .. n
  BY DEF Tables, Numbered
<1>2. n \in Nat /\ Cardinality(1 .. n) = n
  BY <1>1, FS_Interval, ArchiveAssumption
<1>3. o = n + 1 /\ o \in 1 .. MaxOps
  BY <1>1, <1>2 DEF Op
<1>4. Started \cup {o} = 1 .. (n + 1)
  BY <1>1, <1>2, <1>3
<1> QED
  BY <1>1, <1>2, <1>3, <1>4, ArchiveAssumption

\* What Start puts into a manifest: the frames planned, each with a free path.
LEMMA PlanType ==
    ASSUME NEW s \in FrameSet, NEW flag \in BOOLEAN,
           flag => \A f \in build_plan(s) : Unused(Base[f]) # {},
           NEW to, to = [f \in build_plan(s) |->
                           <<Base[f], IF flag THEN Min(Unused(Base[f])) ELSE 1>>]
    PROVE  /\ to \in Manifest /\ DOMAIN to = build_plan(s)
           /\ build_plan(s) \subseteq Member[s] /\ build_plan(s) \subseteq Frame
           /\ \A f \in build_plan(s) : to[f] \in Path /\ to[f][1] = Base[f]
<1>1. build_plan(s) \subseteq Member[s] /\ build_plan(s) \subseteq Frame
  BY DEF build_plan, Frame
<1>2. ASSUME NEW f \in build_plan(s)
      PROVE  to[f] \in Path /\ to[f][1] = Base[f]
  <2>1. flag => Min(Unused(Base[f])) \in 1 .. MaxSuffix
    <3>1. Unused(Base[f]) \subseteq 1 .. MaxSuffix /\ Unused(Base[f]) \subseteq Nat
      BY ArchiveAssumption DEF Unused
    <3> QED
      BY <3>1, MinIn
  <2>2. 1 \in 1 .. MaxSuffix
    BY ArchiveAssumption
  <2> QED
    BY <1>1, <2>1, <2>2 DEF Path
<1>3. to \in [build_plan(s) -> Path]
  BY <1>2
<1> QED
  BY <1>1, <1>2, <1>3 DEF Manifest

\* Start adds one operation and its job, and touches no other.
LEMMA StartEffect ==
    ASSUME Tables, NEW s \in FrameSet, NEW flag \in BOOLEAN, Start(s, flag)
    PROVE  \E o \in Op : \E to \in Manifest :
              /\ o \notin Started /\ Started' = Started \cup {o}
              /\ \E n \in 0 .. MaxOps : Started \cup {o} = 1 .. n
              /\ DOMAIN to = build_plan(s)
              /\ build_plan(s) \subseteq Member[s] /\ build_plan(s) \subseteq Frame
              /\ \A f \in build_plan(s) : to[f] \in Path /\ to[f][1] = Base[f]
              /\ op' \in [Op -> OpRec]
              /\ op'[o] = [NoOp EXCEPT !.status = "open", !.set = s, !.to = to]
              /\ \A u \in Op : u # o => op'[u] = op[u]
              /\ Enqueue("archive", o, FALSE)
              /\ UNCHANGED <<disk, staged, zip, row, mark, job>>
<1> PICK to : to = [f \in build_plan(s) |->
                      <<Base[f], IF flag THEN Min(Unused(Base[f])) ELSE 1>>]
  OBVIOUS
<1> PICK o : o = Cardinality(Started) + 1
  OBVIOUS
<1>1. /\ o \in Op
      /\ flag => \A f \in build_plan(s) : Unused(Base[f]) # {}
      /\ op' = [op EXCEPT ![o] = [NoOp EXCEPT !.status = "open", !.set = s, !.to = to]]
      /\ Enqueue("archive", o, FALSE) /\ UNCHANGED <<disk, staged, zip, row, mark, job>>
  BY DEF Start
<1>2. /\ to \in Manifest /\ DOMAIN to = build_plan(s)
      /\ build_plan(s) \subseteq Member[s] /\ build_plan(s) \subseteq Frame
      /\ \A f \in build_plan(s) : to[f] \in Path /\ to[f][1] = Base[f]
  BY <1>1, PlanType
<1>3. o \notin Started /\ \E n \in 0 .. MaxOps : Started \cup {o} = 1 .. n
  BY <1>1, NextNumber
<1> PICK r : r = [NoOp EXCEPT !.status = "open", !.set = s, !.to = to]
  OBVIOUS
<1>4. r \in OpRec /\ r.status = "open"
  BY <1>2, NoOpType DEF OpRec, Statuses
<1>5. op' \in [Op -> OpRec] /\ op'[o] = r /\ \A u \in Op : u # o => op'[u] = op[u]
  BY <1>1, <1>4 DEF Tables
<1>6. Started' = Started \cup {o}
  BY <1>1, <1>4, <1>5 DEF Started
<1>7. op'[o] = [NoOp EXCEPT !.status = "open", !.set = s, !.to = to] /\ to \in Manifest
  BY <1>2, <1>5
<1> QED
  BY <1>1, <1>2, <1>3, <1>5, <1>6, <1>7, Zenon

LEMMA StartShape ==
    ASSUME Shape, NEW s \in FrameSet, NEW flag \in BOOLEAN, Start(s, flag)
    PROVE  Shape'
<1> PICK o \in Op, to \in Manifest :
              /\ o \notin Started /\ Started' = Started \cup {o}
              /\ \E n \in 0 .. MaxOps : Started \cup {o} = 1 .. n
              /\ op' \in [Op -> OpRec]
              /\ op'[o] = [NoOp EXCEPT !.status = "open", !.set = s, !.to = to]
              /\ \A u \in Op : u # o => op'[u] = op[u]
              /\ Enqueue("archive", o, FALSE)
              /\ UNCHANGED <<disk, staged, zip, row, mark, job>>
  BY StartEffect DEF Shape
<1>1. /\ queue' \in Seq(Waiting) /\ Len(queue') <= MaxQueue
      /\ \A i \in DOMAIN queue' : \/ i \in DOMAIN queue /\ queue'[i] = queue[i]
                                  \/ queue'[i].op = o /\ queue'[i].kind = "archive"
  BY Enqueued DEF Shape
<1>2. \A u \in Started : /\ u \in Op /\ op'[u] = op[u] /\ Files(u)' = Files(u) /\ Zips(u)' = Zips(u)
                         /\ \A p : Group(u, p)' = Group(u, p)
  BY DEF Started, Files, Zips, Group
<1>3. ZipType'
  BY <1>2 DEF ZipType, Shape, Tables
<1>4. Numbered'
  BY <1>1 DEF Numbered, Shape, Tables
<1>5. Logs'
  <2>1. /\ op'[o].published = {} /\ op'[o].copied = {} /\ op'[o].verified = {}
        /\ op'[o].zipped = {} /\ op'[o].deleting = {} /\ op'[o].deleted = {}
    BY DEF NoOp
  <2>2. \A u \in Op : u # o => Files(u)' = Files(u) /\ Zips(u)' = Zips(u) /\ op'[u] = op[u]
    BY DEF Files, Zips
  <2>3. Logs
    BY DEF Shape, Tables
  <2> QED
    BY ONLY <2>1, <2>2, <2>3 DEF Logs
<1>6. Tables'
  BY <1>1, <1>3, <1>4, <1>5 DEF Shape, Tables
<1>7. job' = job /\ Me' = Me
  BY DEF Me
<1>8. JobKind'
  BY <1>2, <1>7 DEF Shape, JobKind, Ahead, Back, Out
<1>9. Doing'
  <2>1. CASE job.pc = "idle"
    BY <1>7, <2>1 DEF Doing
  <2>2. CASE job.pc # "idle"
    <3>1. op'[Me] = op[Me] /\ Files(Me)' = Files(Me) /\ Zips(Me)' = Zips(Me)
      BY <1>2, <1>7, <2>2, MyParts DEF Files, Zips
    <3> QED
      BY <1>7, <3>1 DEF Shape, Doing
  <2> QED
    BY <2>1, <2>2
<1> QED
  BY <1>6, <1>8, <1>9 DEF Shape

\* A cancel request sets a flag and nothing else.
LEMMA CancelledJob ==
    ASSUME NEW j \in JobRec, NEW b \in BOOLEAN, NEW k, k = [j EXCEPT !.cancel = b]
    PROVE  /\ k \in JobRec /\ k.pc = j.pc /\ k.todo = j.todo /\ k.cur = j.cur /\ k.op = j.op
           /\ k.kind = j.kind /\ k.pub = j.pub /\ k.bad = j.bad
           /\ j \in Waiting => k \in Waiting
<1>1. /\ k \in JobRec /\ k.pc = j.pc /\ k.todo = j.todo /\ k.cur = j.cur /\ k.op = j.op
      /\ k.kind = j.kind /\ k.pub = j.pub /\ k.bad = j.bad
  BY Zenon DEF JobRec
<1>2. j \in Waiting => k \in Waiting
  BY Zenon DEF Waiting
<1> QED
  BY <1>1, <1>2

LEMMA CancelEffect ==
    ASSUME Shape, NEW o \in Op, Cancel(o)
    PROVE  /\ job' \in JobRec /\ job'.pc = job.pc /\ job'.todo = job.todo /\ job'.cur = job.cur
           /\ Me' = Me /\ job'.kind = job.kind /\ job'.pub = job.pub /\ job'.bad = job.bad
           /\ job = NoJob => job' = NoJob
           /\ queue' \in Seq(Waiting) /\ Len(queue') = Len(queue) /\ DOMAIN queue' = DOMAIN queue
           /\ \A i \in DOMAIN queue : queue'[i].kind = queue[i].kind /\ queue'[i].op = queue[i].op
           /\ UNCHANGED <<disk, staged, zip, row, mark, op>>
<1>1. /\ job' = [job EXCEPT !.cancel = job.cancel \/ job \in Forward(o)]
      /\ queue' = [i \in DOMAIN queue |->
                     [queue[i] EXCEPT !.cancel = queue[i].cancel \/ queue[i] \in Forward(o)]]
      /\ UNCHANGED <<disk, staged, zip, row, mark, op>>
  BY Zenon DEF Cancel
<1>2. job \in JobRec /\ queue \in Seq(Waiting)
  BY DEF Shape, JobKind, Tables
<1>3. /\ job' \in JobRec /\ job'.pc = job.pc /\ job'.todo = job.todo /\ job'.cur = job.cur
      /\ job'.op = job.op /\ job'.kind = job.kind /\ job'.pub = job.pub /\ job'.bad = job.bad
  <2>1. (job.cancel \/ job \in Forward(o)) \in BOOLEAN
    BY Zenon
  <2> QED
    BY <1>1, <1>2, <2>1, CancelledJob, Zenon
<1>4. ASSUME job = NoJob PROVE job' = NoJob
  <2>1. job \notin Forward(o)
    BY <1>4 DEF Forward, NoJob
  <2>2. job' = [NoJob EXCEPT !.cancel = FALSE]
    BY <1>1, <1>4, <2>1, Zenon DEF NoJob
  <2> QED
    BY <2>2, Zenon DEF NoJob
<1>5. \A i \in DOMAIN queue : queue[i] \in Waiting
  BY <1>2
<1>6. ASSUME NEW i \in DOMAIN queue
      PROVE  queue'[i] \in Waiting /\ queue'[i].kind = queue[i].kind /\ queue'[i].op = queue[i].op
  <2>1. queue'[i] = [queue[i] EXCEPT !.cancel = queue[i].cancel \/ queue[i] \in Forward(o)]
    BY <1>1, Zenon
  <2>2. (queue[i].cancel \/ queue[i] \in Forward(o)) \in BOOLEAN
    BY Zenon
  <2>3. queue[i] \in Waiting /\ queue[i] \in JobRec
    BY <1>5, WaitingType
  <2> QED
    BY <2>1, <2>2, <2>3, CancelledJob, Zenon
<1>7. DOMAIN queue' = DOMAIN queue /\ queue' = [i \in DOMAIN queue |-> queue'[i]]
  BY <1>1, Zenon
<1>8. DOMAIN queue = 1 .. Len(queue) /\ Len(queue) \in Nat
  BY <1>2
<1>9. queue' \in Seq(Waiting) /\ Len(queue') = Len(queue)
  <2>1. queue' \in [1 .. Len(queue) -> Waiting]
    BY <1>6, <1>7, <1>8
  <2> QED
    BY <1>8, <2>1
<1> QED
  BY <1>1, <1>3, <1>4, <1>6, <1>7, <1>9 DEF Me

LEMMA CancelShape ==
    ASSUME Shape, NEW o \in Op, Cancel(o)
    PROVE  Shape'
<1>1. SameOps /\ Logs' /\ ZipType' /\ op' = op
  BY CancelEffect, UnchangedSame, LogsKept, ZipTypeKept DEF Shape, Tables
<1>2. Tables'
  BY <1>1, CancelEffect DEF Shape, Tables, Numbered, SameOps
<1>3. JobKind'
  BY <1>1, CancelEffect DEF Shape, JobKind, SameOps
<1>4. Doing'
  <2>1. Files(Me)' = Files(Me) /\ Zips(Me)' = Zips(Me)
    BY <1>1, CancelEffect DEF Files, Zips
  <2> QED
    BY <1>1, <2>1, CancelEffect DEF Shape, Doing
<1> QED
  BY <1>2, <1>3, <1>4 DEF Shape

LEMMA InitShape == Init => Shape
<1> SUFFICES ASSUME Init PROVE Shape
  OBVIOUS
<1>1. op \in [Op -> OpRec] /\ \A o \in Op : op[o] = NoOp
  BY NoOpType DEF Init
<1>2. Started = {} /\ Started = 1 .. 0 /\ 0 \in 0 .. MaxOps
  BY <1>1, ArchiveAssumption DEF Started, NoOp
<1>3. queue = <<>> /\ queue \in Seq(Waiting) /\ Len(queue) = 0 /\ DOMAIN queue = {}
  BY DEF Init
<1>4. Logs
  BY <1>1 DEF Logs, NoOp
<1>5. ZipType
  BY DEF ZipType, Init
<1>6. Numbered
  BY <1>2, <1>3 DEF Numbered, Init
<1>7. Tables
  BY <1>1, <1>3, <1>4, <1>5, <1>6, ArchiveAssumption DEF Tables, Init, Copies
<1>8. job = NoJob /\ job.pc = "idle"
  BY DEF Init, NoJob
<1>9. JobKind
  BY <1>8, NoJobType DEF JobKind, Ahead, Back, Out
<1>10. Doing
  BY <1>8 DEF Doing
<1> QED
  BY <1>7, <1>9, <1>10 DEF Shape

LEMMA StutterShape ==
    ASSUME Shape, UNCHANGED vars
    PROVE  Shape'
<1>1. Tables' /\ SameOps
  BY QuietTables DEF Shape, vars
<1>2. job' = job /\ Me' = Me /\ op' = op
  BY DEF vars, Me
<1>3. Files(Me)' = Files(Me) /\ Zips(Me)' = Zips(Me)
  BY <1>2 DEF Files, Zips
<1>4. JobKind'
  BY <1>1, <1>2 DEF Shape, JobKind, SameOps
<1>5. Doing'
  BY <1>2, <1>3 DEF Shape, Doing
<1> QED
  BY <1>1, <1>4, <1>5 DEF Shape

LEMMA StepShape ==
    ASSUME Shape, [Next]_vars
    PROVE  Shape'
<1>1. CASE Work
  <2>1. ASSUME NEW f \in Frame,
               \/ Copy(f) \/ Verify(f) \/ DeleteSource(f) \/ MarkFile(f) \/ CleanFile(f)
               \/ ReturnSource(f) \/ UnmarkFile(f) \/ Extract(f) \/ ReleaseFile(f)
        PROVE  Shape'
    BY <2>1, CopyShape, VerifyShape, DeleteSourceShape, MarkFileShape, CleanFileShape,
       ReturnSourceShape, UnmarkFileShape, ExtractShape, ReleaseFileShape
  <2>2. ASSUME NEW p \in Path, BuildZip(p) \/ CheckZip(p) \/ DropZip(p) \/ DiscardZip(p)
        PROVE  Shape'
    BY <2>2, BuildZipShape, CheckZipShape, DropZipShape, DiscardZipShape
  <2> QED
    BY <1>1, <2>1, <2>2, TakeShape, NoticeShape, AdvanceShape, CopyEndsShape,
       RecordPublishShape, RecordAddedShape, RemoveSourceShape, RecordDeletedShape,
       FinalizeShape, MarkSetShape, CompleteShape, RollbackBeginsShape, UnmarkSetShape,
       RolledBackShape, PreflightShape, ExtractedShape, ReleaseSetShape, DiscardedShape
    DEF Work
<1>2. CASE User
  BY <1>2, StartShape, UnarchiveShape, ResumeShape, CancelShape DEF User
<1> QED
  BY <1>1, <1>2, CrashShape, StutterShape DEF Next

LEMMA ShapeType == Shape => TypeOK
<1> SUFFICES ASSUME Shape PROVE TypeOK
  OBVIOUS
<1>1. \A p \in Path : zip[p] = NoZip \/ (/\ zip[p].by \in Op
                                        /\ zip[p].has \in [Group(zip[p].by, p) -> Copies \ {"none"}])
  BY DEF Shape, Tables, ZipType, Started
<1>2. \A o \in Op : op[o].status \in Statuses
  BY DEF Shape, Tables, OpRec
<1>3. ASSUME NEW j \in Pending PROVE j.op \in Op \cup {0}
  <2>1. CASE j = job
    <3>1. job \in JobRec
      BY DEF Shape, JobKind
    <3> QED
      BY <2>1, <3>1, Zenon DEF JobRec
  <2>2. ASSUME NEW i \in DOMAIN queue, j = queue[i] PROVE j.op \in Op
    BY <2>2 DEF Shape, Tables, Numbered, Started
  <2> QED
    BY <2>1, <2>2 DEF Pending
<1> QED
  BY <1>1, <1>2, <1>3 DEF Shape, Tables, Logs, TypeOK, Statuses

\* The tables, the step logs and the zips fit together in every reachable
\* state, whatever is requested, fails or is killed: a zip holds what its
\* builder's manifest sends there, and no log is ahead of the step before it
\* (executor.rs and the step rows of archive/db.rs).
THEOREM TypeInvariance == Spec => []TypeOK
<1>1. Shape /\ [Next]_vars => Shape'
  BY StepShape
<1> QED
  BY InitShape, <1>1, ShapeType, PTL DEF Spec

-----------------------------------------------------------------------------
(***************************************************************************)
(* What keeps the frames.                                                  *)
(***************************************************************************)
\* No frame set sends a frame to a name that a moved frame of another set
\* has.  Two sets under one name would share a zip, and unarchiving the one
\* could discard the zip of the other while that one is interrupted.
NamesApart ==
    \A s, t \in FrameSet : s # t =>
        \A f \in Member[s] \cap Moved, g \in Member[t] : Base[f] # Base[g]

\* The operations that a step may still carry on or take back, and those
\* together with the ones being restored.
Live == {o \in Op : o \in Unfinished \/ \E j \in Pending : j.kind = "archive" /\ j.op = o}
Busy == {o \in Op : \/ o \in Unfinished
                    \/ \E j \in Pending : j.kind \in {"archive", "restore"} /\ j.op = o}

\* At most one operation is under way: none is started before the last ended.
Alone == \A o, u \in Live : o = u

\* A manifest sends frames of its set to zips of their names.
Known ==
    \A o \in Started :
        /\ op[o].set \in FrameSet /\ Files(o) \subseteq Member[op[o].set]
        /\ \A f \in Files(o) : op[o].to[f] \in Path /\ op[o].to[f][1] = Base[f]

\* A set is marked by an operation of its own, and by no other than the one
\* that is busy with it.
Marks ==
    /\ \A s \in FrameSet : mark[s] # 0 => op[mark[s]].set = s
    /\ \A o \in Busy : mark[op[o].set] \in {0, o}
    /\ \A o, u \in Busy : op[o].set = op[u].set => o = u

\* A copy that was verified is not torn, so what is zipped is whole.
Fresh == \A o \in Op : \A f \in op[o].verified : staged[o][f] # "torn"
Whole == \A p \in Path : zip[p] # NoZip => \A f \in DOMAIN zip[p].has : zip[p].has[f] = "whole"

\* A source goes only after its delete step is in the log.
Sources ==
    /\ Frame \ Moved \subseteq disk
    /\ \A o \in Live : Files(o) \ op[o].deleting \subseteq disk

\* A row names a zip that has the frame, of a set that can be unarchived,
\* unless an unfinished operation has the frame.
RowsHold ==
    \A f \in Frame : row[f] # NoPath =>
        /\ f \in Moved
        /\ InZip(f, row[f]) \/ \E o \in Unfinished : f \in Files(o)
        /\ \/ \E s \in FrameSet : mark[s] # 0 /\ f \in Files(mark[s])
           \/ \E o \in Unfinished : f \in Files(o)

\* What a live operation published is its own, and so are the rows there.
Own ==
    \A o \in Live : \A p \in op[o].published :
        /\ zip[p] = NoZip \/ zip[p].by = o
        /\ \A f \in Frame : row[f] = p => f \in Files(o)

\* Where each frame is.
Kept ==
    \A f \in Frame :
        \/ f \in disk
        \/ row[f] # NoPath /\ InZip(f, row[f])
        \/ \E o \in Unfinished :
              f \in Files(o) /\ (staged[o][f] = "whole" \/ InZip(f, op[o].to[f]))

Deep == Alone /\ Known /\ Marks /\ Fresh /\ Whole /\ Sources /\ RowsHold /\ Own /\ Kept

\* How far each phase has come, on disk and in the catalog.
Standing ==
    /\ job.pc \in {"publish", "added"} =>
          /\ zip[job.cur] # NoZip /\ zip[job.cur].by = Me
          /\ \A f \in Frame : row[f] = job.cur => f \in Files(Me)
    /\ job.pc = "check" => \A f \in Files(Me) : op[Me].to[f] \in job.todo \/ InZip(f, op[Me].to[f])
    /\ job.pc \in {"delete", "deleting", "deleted", "finalize", "mark", "sweep"} =>
          \A f \in Files(Me) : InZip(f, op[Me].to[f])
    /\ job.pc = "mark" => \A f \in Files(Me) \cap Moved : f \in job.todo \/ row[f] = op[Me].to[f]
    /\ job.pc = "sweep" =>
          /\ mark[op[Me].set] = Me
          /\ \A f \in Files(Me) \cap Moved : row[f] = op[Me].to[f]
    /\ job.pc = "return" =>
          \A f \in Files(Me) : f \in disk \/ (f \in job.todo /\ staged[Me][f] = "whole")
    /\ job.pc \in {"drop", "clean", "unmark", "discard"} => Files(Me) \subseteq disk
    /\ job.pc = "unmark" =>
          mark[op[Me].set] = 0 /\ \A f \in Files(Me) : f \in job.todo \/ row[f] = NoPath
    /\ job.pc = "extract" => \A f \in Files(Me) : f \in job.todo \/ f \in disk \/ f \in job.bad
    /\ job.pc = "release" =>
          \A f \in Files(Me) : f \in job.bad \/ (f \in disk /\ (f \in job.todo \/ row[f] = NoPath))

Safe == Shape /\ Deep /\ Standing

-----------------------------------------------------------------------------
\* The parts that a step does not disturb.
LEMMA LiveShrinks ==
    ASSUME queue' = queue, Unfinished' \subseteq Unfinished,
           job' = NoJob \/ (job'.kind = job.kind /\ job'.op = job.op)
    PROVE  Live' \subseteq Live /\ Busy' \subseteq Busy
<1>1. NoJob.kind = "none"
  BY DEF NoJob
<1>2. \A k \in Pending' : k.kind \in {"archive", "restore"} =>
         \E j \in Pending : j.kind = k.kind /\ j.op = k.op
  BY <1>1 DEF Pending
<1>3. Live' \subseteq Live
  BY <1>2 DEF Live
<1>4. Busy' \subseteq Busy
  BY <1>2 DEF Busy
<1> QED
  BY <1>3, <1>4

LEMMA InZipKept ==
    ASSUME zip' = zip, NEW f, NEW p
    PROVE  InZip(f, p)' <=> InZip(f, p)
BY DEF InZip

LEMMA BusyStarted ==
    ASSUME Shape
    PROVE  Live \subseteq Busy /\ Busy \subseteq Started /\ Unfinished \subseteq Live /\ Started \subseteq Op
<1>1. \A j \in Pending : j.kind \in {"archive", "restore"} => j.op \in Started
  <2>1. job.kind # "none" => job.op \in Started
    BY DEF Shape, JobKind, NoJob, Me
  <2>2. \A i \in DOMAIN queue : queue[i].op \in Started
    BY DEF Shape, Tables, Numbered
  <2> QED
    BY <2>1, <2>2 DEF Pending
<1>2. Unfinished \subseteq Started /\ Started \subseteq Op
  BY DEF Unfinished, Started
<1> QED
  BY <1>1, <1>2 DEF Live, Busy

LEMMA AloneKept ==
    ASSUME Deep, Live' \subseteq Live
    PROVE  Alone'
BY DEF Deep, Alone

LEMMA KnownKept ==
    ASSUME Deep, SameOps
    PROVE  Known'
BY DEF Deep, Known, SameOps, Started

LEMMA MarksKept ==
    ASSUME Shape, Deep, SameOps, mark' = mark, Busy' \subseteq Busy
    PROVE  Marks'
<1>1. \A s \in FrameSet : mark[s] # 0 => mark[s] \in Op
  BY DEF Shape, Tables
<1> QED
  BY <1>1, BusyStarted DEF Deep, Marks, SameOps

LEMMA FreshKept ==
    ASSUME Deep, staged' = staged, \A u \in Op : op'[u].verified = op[u].verified
    PROVE  Fresh'
BY DEF Deep, Fresh

LEMMA WholeKept ==
    ASSUME Deep, zip' = zip
    PROVE  Whole'
BY DEF Deep, Whole

LEMMA SourcesKept ==
    ASSUME Deep, SameOps, disk \subseteq disk', Live' \subseteq Live,
           \A u \in Op : op[u].deleting \subseteq op'[u].deleting
    PROVE  Sources'
<1>1. Live \subseteq Op
  BY DEF Live
<1> QED
  BY <1>1 DEF Deep, Sources, SameOps

LEMMA RowsHoldKept ==
    ASSUME Shape, Deep, SameOps, UNCHANGED <<row, zip, mark>>, Unfinished \subseteq Unfinished'
    PROVE  RowsHold'
<1>1. \A s \in FrameSet : mark[s] # 0 => mark[s] \in Op
  BY DEF Shape, Tables
<1>2. Unfinished \subseteq Op
  BY DEF Unfinished
<1> QED
  BY <1>1, <1>2, InZipKept DEF Deep, RowsHold, SameOps

LEMMA OwnKept ==
    ASSUME Deep, SameOps, UNCHANGED <<row, zip>>, Live' \subseteq Live,
           \A u \in Op : op'[u].published = op[u].published
    PROVE  Own'
<1>1. Live \subseteq Op
  BY DEF Live
<1> QED
  BY <1>1 DEF Deep, Own, SameOps

LEMMA KeptKept ==
    ASSUME Deep, SameOps, UNCHANGED <<row, zip, staged>>, disk \subseteq disk',
           Unfinished \subseteq Unfinished'
    PROVE  Kept'
<1>1. Unfinished \subseteq Op
  BY DEF Unfinished
<1> QED
  BY <1>1, InZipKept DEF Deep, Kept, SameOps

LEMMA Calm ==
    ASSUME Shape, Deep, SameOps, UNCHANGED <<staged, zip, row, mark>>, disk \subseteq disk',
           Live' \subseteq Live, Busy' \subseteq Busy, Unfinished \subseteq Unfinished',
           \A u \in Op : /\ op'[u].published = op[u].published /\ op'[u].verified = op[u].verified
                         /\ op[u].deleting \subseteq op'[u].deleting
    PROVE  Deep'
BY AloneKept, KnownKept, MarksKept, FreshKept, WholeKept, SourcesKept, RowsHoldKept, OwnKept, KeptKept
DEF Deep

\* The job goes on with its operation, or ends.
SameJob == job' = NoJob \/ (job'.kind = job.kind /\ job'.op = job.op)

LEMMA QuietDeep ==
    ASSUME Safe, UNCHANGED <<staged, zip, row, mark, op, queue>>, disk \subseteq disk', SameJob
    PROVE  Deep' /\ SameOps
<1>1. SameOps
  BY UnchangedSame DEF Safe, Shape, Tables
<1>2. Unfinished' = Unfinished
  BY DEF Unfinished
<1> QED
  BY <1>1, <1>2, LiveShrinks, Calm DEF Safe, SameJob

\* A step is added to the log that is neither a verification nor a publication.
LEMMA LoggedDeep ==
    ASSUME Safe, job.pc # "idle", NEW c, NEW z, NEW d, NEW e, op[Me].deleting \subseteq d,
           Edit(op[Me].status, c, op[Me].verified, z, op[Me].published, d, e),
           UNCHANGED <<disk, staged, zip, row, mark, queue>>, SameJob
    PROVE  Deep' /\ SameOps
<1>1. SameOps
  BY MyParts, MyLog, EditSame DEF Safe
<1>2. Unfinished' = Unfinished
  BY MyParts DEF Unfinished, Edit, Safe
<1>3. \A u \in Op : /\ op'[u].published = op[u].published /\ op'[u].verified = op[u].verified
                    /\ op[u].deleting \subseteq op'[u].deleting
  BY DEF Edit
<1> QED
  BY <1>1, <1>2, <1>3, LiveShrinks, Calm DEF Safe, SameJob

\* A job at work on its operation is at work on the only one.
LEMMA Mine ==
    ASSUME Safe, job.pc \in Ahead \cup Back
    PROVE  /\ Me \in Unfinished /\ Me \in Live /\ Me \in Busy /\ Me \in Op
           /\ \A o \in Live : o = Me
           /\ \A o \in Unfinished : o = Me
           /\ mark[op[Me].set] \in {0, Me} /\ op[Me].set \in FrameSet
<1>1. job.pc # "idle"
  BY DEF Ahead, Back
<1>2. Me \in Started /\ op[Me].status \in {"open", "rolling_back"}
  BY <1>1 DEF Safe, Shape, JobKind
<1>3. Me \in Unfinished
  BY <1>2 DEF Unfinished, Started
<1> QED
  BY <1>2, <1>3, BusyStarted DEF Safe, Deep, Alone, Marks, Known

LEMMA SameJobs ==
    ASSUME Safe
    PROVE  /\ End => SameJob
           /\ \A pc, S : StepsTo(pc, S) => SameJob
           /\ job.pc # "idle" /\ Fail => SameJob /\ job'.pc = "rollback"
<1>1. job.pc # "idle" /\ Fail => StepsTo("rollback", {})
  <2>1. "rollback" \in Labels /\ {} \in SUBSET (Frame \cup Path)
    BY DEF Labels
  <2> QED
    BY <2>1, Steps DEF Fail, Safe
<1> QED
  BY <1>1 DEF End, StepsTo, SameJob, Me

\* At these labels nothing is claimed of the disk or the catalog.
LEMMA Unclaimed ==
    ASSUME job'.pc \in {"idle", "rollback", "copy", "copying", "verify", "zip", "preflight"}
    PROVE  Standing'
BY DEF Standing

LEMMA EndStanding ==
    ASSUME End
    PROVE  Standing'
<1>1. job'.pc = "idle"
  BY DEF End, NoJob
<1> QED
  BY <1>1, Unclaimed

LEMMA FailStanding ==
    ASSUME Safe, job.pc # "idle", Fail
    PROVE  Standing' /\ SameJob
BY SameJobs, Unclaimed

LEMMA AdvanceSafe ==
    ASSUME Safe, Advance
    PROVE  Deep' /\ Standing'
<1>1. job.pc # "idle" /\ job.todo = {} /\ UNCHANGED <<disk, staged, zip, row, mark, op, queue>>
  BY DEF Advance
<1>2. Files(Me) \in SUBSET (Frame \cup Path) /\ Zips(Me) \in SUBSET (Frame \cup Path)
  BY <1>1, MyParts DEF Safe
<1>3. ASSUME SameJob PROVE Deep' /\ SameOps
  BY <1>1, <1>3, QuietDeep
<1>4. Me \in Op
  BY <1>1, MyParts DEF Safe
<1> USE DEF Labels, Ahead, Back, Out
<1>5. CASE job.pc = "copy" /\ Go("verify", Files(Me))
  <2>1. StepsTo("verify", Files(Me))
    BY <1>1, <1>2, <1>5, Steps DEF Safe
  <2>2. Deep' /\ SameOps
    BY <1>3, <2>1, SameJobs
  <2> QED
    BY <2>1, <2>2, Unclaimed DEF StepsTo
<1>6. CASE job.pc = "verify" /\ Go("zip", Zips(Me))
  <2>1. StepsTo("zip", Zips(Me))
    BY <1>1, <1>2, <1>6, Steps DEF Safe
  <2>2. Deep' /\ SameOps
    BY <1>3, <2>1, SameJobs
  <2> QED
    BY <2>1, <2>2, Unclaimed DEF StepsTo
<1>7. CASE job.pc = "zip" /\ Go("check", Zips(Me))
  <2>1. StepsTo("check", Zips(Me))
    BY <1>1, <1>2, <1>7, Steps DEF Safe
  <2>2. Deep' /\ SameOps
    BY <1>3, <2>1, SameJobs
  <2> QED
    BY <1>1, <1>4, <1>7, <2>1, <2>2, InZipKept DEF StepsTo, Safe, Standing, SameOps, Zips
<1>8. CASE job.pc = "check" /\ Go("delete", Files(Me))
  <2>1. StepsTo("delete", Files(Me))
    BY <1>1, <1>2, <1>8, Steps DEF Safe
  <2>2. Deep' /\ SameOps
    BY <1>3, <2>1, SameJobs
  <2> QED
    BY <1>1, <1>4, <1>8, <2>1, <2>2, InZipKept DEF StepsTo, Safe, Standing, SameOps
<1>9. CASE job.pc = "delete" /\ Go("finalize", {})
  <2>1. StepsTo("finalize", {})
    BY <1>1, <1>2, <1>9, Steps DEF Safe
  <2>2. Deep' /\ SameOps
    BY <1>3, <2>1, SameJobs
  <2> QED
    BY <1>1, <1>4, <1>9, <2>1, <2>2, InZipKept DEF StepsTo, Safe, Standing, SameOps
<1>10. CASE job.pc = "return" /\ Go("drop", Zips(Me))
  <2>1. StepsTo("drop", Zips(Me))
    BY <1>1, <1>2, <1>10, Steps DEF Safe
  <2>2. Deep' /\ SameOps
    BY <1>3, <2>1, SameJobs
  <2> QED
    BY <1>1, <1>4, <1>10, <2>1, <2>2, InZipKept DEF StepsTo, Safe, Standing, SameOps
<1>11. CASE job.pc = "drop" /\ Go("clean", {})
  <2>1. StepsTo("clean", {})
    BY <1>1, <1>2, <1>11, Steps DEF Safe
  <2>2. Deep' /\ SameOps
    BY <1>3, <2>1, SameJobs
  <2> QED
    BY <1>1, <1>4, <1>11, <2>1, <2>2, InZipKept DEF StepsTo, Safe, Standing, SameOps
<1> QED
  BY <1>5, <1>6, <1>7, <1>8, <1>9, <1>10, <1>11 DEF Advance

LEMMA NoticeSafe ==
    ASSUME Safe, NoticeCancel
    PROVE  Deep' /\ Standing'
<1>1. Fail \/ End
  BY DEF NoticeCancel
<1>2. job.pc # "idle" /\ UNCHANGED <<disk, staged, zip, row, mark, op, queue>>
  BY DEF NoticeCancel
<1> QED
  BY <1>1, <1>2, FailStanding, EndStanding, SameJobs, QuietDeep

LEMMA CopySafe ==
    ASSUME Safe, NEW f \in Frame, Copy(f)
    PROVE  Deep' /\ Standing'
<1>1. /\ job.pc = "copy" /\ job.pc # "idle" /\ job.pc \in Ahead \cup Back
      /\ UNCHANGED <<disk, zip, row, mark, op, queue>>
  BY DEF Copy, Item, Turn, Ahead
<1>2. CASE UNCHANGED staged /\ (Fail \/ Continue("copy", f))
  <2>1. Continue("copy", f) => StepsTo("copy", job.todo \ {f})
    BY <1>1, Steps DEF Labels, Ahead, Safe
  <2>2. SameJob /\ Standing'
    BY <1>1, <1>2, <2>1, SameJobs, FailStanding, Unclaimed DEF StepsTo
  <2> QED
    BY <1>1, <1>2, <2>2, QuietDeep
<1>3. CASE /\ f \notin op[Me].copied /\ f \in disk
           /\ At("copying", f) /\ staged' = [staged EXCEPT ![Me][f] = "torn"]
  <2>1. StepsTo("copying", job.todo)
    BY <1>1, <1>3, Steps DEF Labels, Ahead, Safe
  <2>2. SameJob /\ Standing'
    BY <2>1, SameJobs, Unclaimed DEF StepsTo
  <2>3. SameOps /\ Unfinished' = Unfinished
    BY <1>1, UnchangedSame DEF Safe, Shape, Tables, Unfinished
  <2>4. Live' \subseteq Live /\ Busy' \subseteq Busy
    BY <1>1, <2>2, <2>3, LiveShrinks DEF SameJob
  <2>5. \A o \in Op, g \in Frame : staged'[o][g] = IF o = Me /\ g = f THEN "torn" ELSE staged[o][g]
    BY <1>3, MyParts DEF Safe, Shape, Tables
  <2>6. \A o \in Op : op[o].verified \subseteq op[o].copied /\ op[o].verified \subseteq Frame
    BY DEF Safe, Shape, Tables, Logs, OpRec
  <2>7. Fresh'
    BY <1>1, <1>3, <2>5, <2>6 DEF Safe, Deep, Fresh
  <2>8. Kept'
    <3>1. \A o \in Unfinished : o \in Op
      BY DEF Unfinished
    <3> QED
      BY <1>1, <1>3, <2>3, <2>5, <3>1, InZipKept DEF Safe, Deep, Kept, SameOps
  <2> QED
    BY <1>1, <2>2, <2>3, <2>4, <2>7, <2>8, AloneKept, KnownKept, MarksKept, WholeKept,
       SourcesKept, RowsHoldKept, OwnKept DEF Deep, Safe
<1> QED
  BY <1>2, <1>3 DEF Copy

LEMMA CopyEndsSafe ==
    ASSUME Safe, CopyEnds
    PROVE  Deep' /\ Standing'
<1>1. /\ job.pc = "copying" /\ job.pc # "idle" /\ job.pc \in Ahead \cup Back
      /\ UNCHANGED <<disk, zip, row, mark, queue>>
  BY DEF CopyEnds, Ahead
<1>2. job.cur \in Frame /\ Me \in Op
  BY <1>1, MyParts DEF Safe, Shape, Doing
<1>3. CASE Fail /\ UNCHANGED <<staged, op>>
  BY <1>1, <1>3, FailStanding, QuietDeep
<1>4. CASE /\ Continue("copy", job.cur) /\ Log("copied", {job.cur})
           /\ \/ staged' = [staged EXCEPT ![Me][job.cur] = "whole"]
              \/ UNCHANGED staged
  <2>1. StepsTo("copy", job.todo \ {job.cur})
    BY <1>1, <1>4, Steps DEF Labels, Ahead, Safe
  <2>2. SameJob /\ Standing'
    BY <2>1, SameJobs, Unclaimed DEF StepsTo
  <2>3. Edit(op[Me].status, op[Me].copied \cup {job.cur}, op[Me].verified, op[Me].zipped,
             op[Me].published, op[Me].deleting, op[Me].deleted)
    BY <1>1, <1>2, <1>4, MyParts, LogCopied DEF Safe
  <2>4. CASE UNCHANGED staged
    BY <1>1, <2>2, <2>3, <2>4, LoggedDeep
  <2>5. CASE staged' = [staged EXCEPT ![Me][job.cur] = "whole"]
    <3>1. \A o \in Op, g \in Frame :
            staged'[o][g] = IF o = Me /\ g = job.cur THEN "whole" ELSE staged[o][g]
      BY <1>2, <2>5 DEF Safe, Shape, Tables
    <3>2. SameOps
      BY <1>1, <2>3, MyParts, MyLog, EditSame DEF Safe
    <3>3. Unfinished' = Unfinished
      BY <1>2, <2>3 DEF Unfinished, Edit
    <3>4. \A u \in Op : /\ op'[u].published = op[u].published /\ op'[u].verified = op[u].verified
                        /\ op'[u].deleting = op[u].deleting /\ op[u].verified \subseteq Frame
      BY <2>3 DEF Edit, Safe, Shape, Tables, OpRec
    <3>5. Live' \subseteq Live /\ Busy' \subseteq Busy
      BY <1>1, <2>2, <3>3, LiveShrinks DEF SameJob
    <3>6. Fresh'
      BY <3>1, <3>4 DEF Safe, Deep, Fresh
    <3>7. Kept'
      <4>1. \A o \in Unfinished : o \in Op
        BY DEF Unfinished
      <4> QED
        BY <1>1, <3>1, <3>2, <3>3, <4>1, InZipKept DEF Safe, Deep, Kept, SameOps
    <3> QED
      BY <1>1, <2>2, <3>2, <3>3, <3>4, <3>5, <3>6, <3>7, AloneKept, KnownKept, MarksKept,
         WholeKept, SourcesKept, RowsHoldKept, OwnKept DEF Deep, Safe
  <2> QED
    BY <1>4, <2>4, <2>5, <2>2
<1> QED
  BY <1>3, <1>4 DEF CopyEnds

LEMMA VerifySafe ==
    ASSUME Safe, NEW f \in Frame, Verify(f)
    PROVE  Deep' /\ Standing'
<1>1. /\ job.pc = "verify" /\ job.pc # "idle" /\ job.pc \in Ahead \cup Back /\ Me \in Op
      /\ UNCHANGED <<disk, staged, zip, row, mark, queue>>
  BY MyParts DEF Verify, Item, Turn, Ahead, Safe
<1>2. CASE Fail /\ UNCHANGED op
  BY <1>1, <1>2, FailStanding, QuietDeep
<1>3. CASE /\ f \in op[Me].verified \/ staged[Me][f] = "whole"
           /\ Continue("verify", f) /\ Log("verified", {f})
  <2>1. StepsTo("verify", job.todo \ {f})
    BY <1>1, <1>3, Steps DEF Labels, Ahead, Safe
  <2>2. SameJob /\ Standing'
    BY <2>1, SameJobs, Unclaimed DEF StepsTo
  <2>3. Edit(op[Me].status, op[Me].copied, op[Me].verified \cup {f}, op[Me].zipped,
             op[Me].published, op[Me].deleting, op[Me].deleted)
    BY <1>1, <1>3, MyParts, LogVerified DEF Safe
  <2>4. SameOps
    BY <1>1, <2>3, MyParts, MyLog, EditSame DEF Safe
  <2>5. Unfinished' = Unfinished
    BY <1>1, <2>3 DEF Unfinished, Edit
  <2>6. \A u \in Op : op'[u].published = op[u].published /\ op'[u].deleting = op[u].deleting
    BY <2>3 DEF Edit
  <2>7. Live' \subseteq Live /\ Busy' \subseteq Busy
    BY <1>1, <2>2, <2>5, LiveShrinks DEF SameJob
  <2>8. Fresh'
    BY <1>1, <1>3, <2>3 DEF Safe, Deep, Fresh, Edit
  <2> QED
    BY <1>1, <2>2, <2>4, <2>5, <2>6, <2>7, <2>8, AloneKept, KnownKept, MarksKept,
       WholeKept, SourcesKept, RowsHoldKept, OwnKept, KeptKept DEF Deep, Safe
<1> QED
  BY <1>2, <1>3 DEF Verify

LEMMA BuildZipSafe ==
    ASSUME Safe, NEW p \in Path, BuildZip(p)
    PROVE  Deep' /\ Standing'
<1>1. /\ job.pc = "zip" /\ job.pc # "idle" /\ job.pc \in Ahead \cup Back /\ Me \in Op
      /\ UNCHANGED <<disk, staged, row, mark, op, queue>>
  BY MyParts DEF BuildZip, ZipItem, ZipTurn, Ahead, Safe
<1>2. CASE UNCHANGED zip /\ (Fail \/ Continue("zip", p))
  <2>1. Continue("zip", p) => StepsTo("zip", job.todo \ {p})
    BY <1>1, Steps DEF Labels, Ahead, Safe
  <2>2. SameJob /\ Standing'
    BY <1>1, <1>2, <2>1, SameJobs, FailStanding, Unclaimed DEF StepsTo
  <2> QED
    BY <1>1, <1>2, <2>2, QuietDeep
<1>3. ASSUME ensure_zip_holds_no_cataloged_frames(p),
             \A f \in Group(Me, p) : staged[Me][f] # "none", At("publish", p),
             zip' = [zip EXCEPT ![p] =
                       [by |-> Me, has |-> [f \in Group(Me, p) |-> staged[Me][f]]]]
      PROVE  Deep' /\ Standing'
  <2>1. StepsTo("publish", job.todo) /\ job'.cur = p
    BY <1>1, <1>3, Steps DEF Labels, Ahead, Safe
  <2>2. SameOps /\ Unfinished' = Unfinished
    BY <1>1, UnchangedSame DEF Safe, Shape, Tables, Unfinished
  <2>3. Live' \subseteq Live /\ Busy' \subseteq Busy
    BY <1>1, <2>1, <2>2, SameJobs, LiveShrinks DEF SameJob
  <2> PICK z : z = [by |-> Me, has |-> [f \in Group(Me, p) |-> staged[Me][f]]]
    OBVIOUS
  <2>4. /\ z # NoZip /\ z.by = Me /\ Me \in Started
        /\ z.has \in [Group(Me, p) -> Copies \ {"none"}]
        /\ z.has = [f \in Group(Me, p) |-> staged[Me][f]]
    BY <1>1, <1>3, BuiltZip DEF Safe
  <2>5. \A q \in Path : zip'[q] = IF q = p THEN z ELSE zip[q]
    BY <1>1, <1>3, <2>4, ZipPut DEF Safe, Shape
  <2>6. \A f \in Group(Me, p) : f \in Files(Me) /\ z.has[f] = "whole"
    <3>1. Group(Me, p) \subseteq op[Me].verified /\ Group(Me, p) \subseteq Files(Me)
      BY <1>1 DEF Safe, Shape, Doing, Group
    <3> QED
      BY <1>1, <2>4, <3>1 DEF Safe, Deep, Fresh, Copies
  <2>7. /\ \A f, q : q # p => (InZip(f, q)' <=> InZip(f, q))
        /\ \A f \in Group(Me, p) : InZip(f, p)'
    BY <2>4, <2>5, <2>6 DEF InZip
  <2>8. \A f \in Frame : row[f] = p => ~InZip(f, p) /\ f \in Files(Me)
    <3>1. \A f \in Frame : row[f] = p => zip[p] = NoZip
      BY <1>3 DEF ensure_zip_holds_no_cataloged_frames
    <3>2. \A f : zip[p] = NoZip => ~InZip(f, p)
      BY DEF InZip, NoZip
    <3> QED
      BY <1>1, <3>1, <3>2, NoPathApart, Mine DEF Safe, Deep, RowsHold
  <2>9. Whole'
    BY <2>4, <2>5, <2>6 DEF Safe, Deep, Whole
  <2>10. RowsHold'
    <3>1. \A s \in FrameSet : mark[s] # 0 => mark[s] \in Op
      BY DEF Safe, Shape, Tables
    <3> QED
      BY <1>1, <2>2, <2>7, <2>8, <3>1, Mine DEF Safe, Deep, RowsHold, SameOps
  <2>11. Own'
    <3>1. op[Me].published \subseteq Path
      BY <1>1, MyLog, MyParts DEF Safe
    <3>2. \A o \in Live' : o = Me
      BY <1>1, <2>3, Mine
    <3> QED
      BY <1>1, <2>2, <2>4, <2>5, <3>1, <3>2, Mine DEF Safe, Deep, Own, SameOps
  <2>12. Kept'
    <3>1. \A f \in Files(Me) : op[Me].to[f] = p => f \in Group(Me, p)
      BY DEF Group
    <3> QED
      BY <1>1, <2>2, <2>7, <2>8, <3>1, Mine DEF Safe, Deep, Kept, SameOps
  <2>13. Standing'
    BY <1>1, <2>1, <2>2, <2>4, <2>5, <2>8 DEF StepsTo, Standing, SameOps
  <2> QED
    BY <1>1, <2>2, <2>3, <2>9, <2>10, <2>11, <2>12, <2>13, AloneKept, KnownKept, MarksKept,
       FreshKept, SourcesKept DEF Deep, Safe
<1> QED
  BY <1>2, <1>3 DEF BuildZip

LEMMA RecordPublishSafe ==
    ASSUME Safe, RecordPublish
    PROVE  Deep' /\ Standing'
<1>1. /\ job.pc = "publish" /\ job.pc # "idle" /\ job.pc \in Ahead \cup Back /\ Me \in Op
      /\ UNCHANGED <<disk, staged, zip, row, mark, queue>>
  BY MyParts DEF RecordPublish, Ahead, Safe
<1>2. job.cur \in Path
  BY <1>1, MyParts DEF Safe, Shape, Doing
<1>3. StepsTo("added", job.todo) /\ job'.cur = job.cur
  BY <1>1, <1>2, Steps DEF RecordPublish, Labels, Ahead, Safe
<1>4. Edit(op[Me].status, op[Me].copied, op[Me].verified, op[Me].zipped,
           op[Me].published \cup {job.cur}, op[Me].deleting, op[Me].deleted)
  BY <1>1, <1>2, MyParts, LogPublished DEF RecordPublish, Safe
<1>5. SameOps
  BY <1>1, <1>4, MyParts, MyLog, EditSame DEF Safe
<1>6. Unfinished' = Unfinished
  BY <1>1, <1>4 DEF Unfinished, Edit
<1>7. \A u \in Op : op'[u].verified = op[u].verified /\ op'[u].deleting = op[u].deleting
  BY <1>4 DEF Edit
<1>8. Live' \subseteq Live /\ Busy' \subseteq Busy
  BY <1>1, <1>3, <1>6, SameJobs, LiveShrinks DEF SameJob
<1>9. Own'
  <2>1. \A o \in Live' : o = Me
    BY <1>1, <1>8, Mine
  <2> QED
    BY <1>1, <1>4, <1>5, <2>1, Mine DEF Safe, Deep, Own, Standing, Edit, SameOps
<1>10. Standing'
  BY <1>1, <1>3, <1>5 DEF Safe, Standing, StepsTo, SameOps
<1> QED
  BY <1>1, <1>5, <1>6, <1>7, <1>8, <1>9, <1>10, AloneKept, KnownKept, MarksKept, FreshKept,
     WholeKept, SourcesKept, RowsHoldKept, KeptKept DEF Deep, Safe

LEMMA RecordAddedSafe ==
    ASSUME Safe, RecordAdded
    PROVE  Deep' /\ Standing'
<1>1. /\ job.pc = "added" /\ job.pc # "idle"
      /\ UNCHANGED <<disk, staged, zip, row, mark, queue>>
  BY DEF RecordAdded
<1>2. Group(Me, job.cur) \in SUBSET Frame
  BY <1>1, MyParts DEF Group, Safe
<1>3. StepsTo("zip", job.todo \ {job.cur})
  BY <1>1, Steps DEF RecordAdded, Labels, Ahead, Safe
<1>4. Edit(op[Me].status, op[Me].copied, op[Me].verified, op[Me].zipped \cup Group(Me, job.cur),
           op[Me].published, op[Me].deleting, op[Me].deleted)
  BY <1>1, <1>2, MyParts, LogZipped DEF RecordAdded, Safe
<1>5. SameJob /\ Standing'
  BY <1>3, SameJobs, Unclaimed DEF StepsTo
<1> QED
  BY <1>1, <1>4, <1>5, LoggedDeep

LEMMA CheckZipSafe ==
    ASSUME Safe, NEW p \in Path, CheckZip(p)
    PROVE  Deep' /\ Standing'
<1>1. /\ job.pc = "check" /\ job.pc # "idle" /\ Me \in Op
      /\ UNCHANGED <<disk, staged, zip, row, mark, op, queue>>
  BY MyParts DEF CheckZip, ZipItem, ZipTurn, Safe
<1>2. CASE Fail
  BY <1>1, <1>2, FailStanding, QuietDeep
<1>3. CASE zip[p] # NoZip /\ DOMAIN zip[p].has = Group(Me, p) /\ Continue("check", p)
  <2>1. StepsTo("check", job.todo \ {p})
    BY <1>1, <1>3, Steps DEF Labels, Ahead, Safe
  <2>2. Deep' /\ SameOps
    BY <1>1, <2>1, SameJobs, QuietDeep
  <2>3. \A f \in Files(Me) : op[Me].to[f] = p => InZip(f, p)
    BY <1>3 DEF Safe, Deep, Whole, InZip, Group
  <2> QED
    BY <1>1, <2>1, <2>2, <2>3, InZipKept DEF Safe, Standing, StepsTo, SameOps
<1> QED
  BY <1>2, <1>3 DEF CheckZip

LEMMA DeleteSourceSafe ==
    ASSUME Safe, NEW f \in Frame, DeleteSource(f)
    PROVE  Deep' /\ Standing'
<1>1. /\ job.pc = "delete" /\ job.pc # "idle" /\ Me \in Op
      /\ UNCHANGED <<disk, staged, zip, row, mark, queue>>
  BY MyParts DEF DeleteSource, Item, Turn, Safe
<1>2. ASSUME NEW pc \in {"delete", "deleting"}, NEW S, StepsTo(pc, S), SameOps
      PROVE  Standing'
  BY <1>1, <1>2, InZipKept DEF Safe, Standing, StepsTo, SameOps
<1>3. Continue("delete", f) => StepsTo("delete", job.todo \ {f})
  BY <1>1, Steps DEF Labels, Ahead, Safe
<1>4. CASE Continue("delete", f) /\ UNCHANGED op
  BY <1>1, <1>2, <1>3, <1>4, SameJobs, QuietDeep
<1>5. CASE At("deleting", f) /\ Log("deleting", {f})
  <2>1. StepsTo("deleting", job.todo)
    BY <1>1, <1>5, Steps DEF Labels, Ahead, Safe
  <2>2. Edit(op[Me].status, op[Me].copied, op[Me].verified, op[Me].zipped,
             op[Me].published, op[Me].deleting \cup {f}, op[Me].deleted)
    BY <1>1, <1>5, MyParts, LogDeleting DEF Safe
  <2>3. Deep' /\ SameOps
    BY <1>1, <2>1, <2>2, SameJobs, LoggedDeep
  <2> QED
    BY <1>2, <2>1, <2>3
<1>6. CASE /\ Continue("delete", f)
           /\ op' = [op EXCEPT ![Me].deleting = @ \cup {f}, ![Me].deleted = @ \cup {f}]
  <2>1. Edit(op[Me].status, op[Me].copied, op[Me].verified, op[Me].zipped,
             op[Me].published, op[Me].deleting \cup {f}, op[Me].deleted \cup {f})
    BY <1>1, <1>6, MyParts, LogDone DEF Safe
  <2>2. Deep' /\ SameOps
    BY <1>1, <1>3, <1>6, <2>1, SameJobs, LoggedDeep
  <2> QED
    BY <1>2, <1>3, <1>6, <2>2
<1> QED
  BY <1>4, <1>5, <1>6 DEF DeleteSource

LEMMA RemoveSourceSafe ==
    ASSUME Safe, RemoveSource
    PROVE  Deep' /\ Standing'
<1>1. /\ job.pc = "deleting" /\ job.pc # "idle" /\ job.pc \in Ahead \cup Back /\ Me \in Op
      /\ UNCHANGED <<staged, zip, row, mark, op, queue>>
  BY MyParts DEF RemoveSource, Ahead, Safe
<1>2. CASE Fail /\ UNCHANGED disk
  BY <1>1, <1>2, FailStanding, QuietDeep
<1>3. CASE disk' = disk \ {job.cur} /\ At("deleted", job.cur)
  <2>1. job.cur \in Files(Me) /\ job.cur \in Frame /\ job.cur \in Moved /\ job.cur \in op[Me].deleting
    BY <1>1, MyParts DEF Safe, Shape, Doing
  <2>2. StepsTo("deleted", job.todo)
    BY <1>1, <1>3, <2>1, Steps DEF Labels, Ahead, Safe
  <2>3. SameOps /\ Unfinished' = Unfinished
    BY <1>1, UnchangedSame DEF Safe, Shape, Tables, Unfinished
  <2>4. Live' \subseteq Live /\ Busy' \subseteq Busy
    BY <1>1, <2>2, <2>3, SameJobs, LiveShrinks DEF SameJob
  <2>5. Sources'
    <3>1. \A o \in Live' : o = Me
      BY <1>1, <2>4, Mine
    <3> QED
      BY <1>1, <1>3, <2>1, <2>3, <3>1, Mine DEF Safe, Deep, Sources, SameOps
  <2>6. Kept'
    <3>1. InZip(job.cur, op[Me].to[job.cur])
      BY <1>1, <2>1 DEF Safe, Standing
    <3> QED
      BY <1>1, <1>3, <2>1, <2>3, <3>1, Mine, InZipKept DEF Safe, Deep, Kept, SameOps
  <2>7. Standing'
    BY <1>1, <2>2, <2>3, InZipKept DEF Safe, Standing, StepsTo, SameOps
  <2> QED
    BY <1>1, <2>3, <2>4, <2>5, <2>6, <2>7, AloneKept, KnownKept, MarksKept, FreshKept,
       WholeKept, RowsHoldKept, OwnKept DEF Deep, Safe
<1> QED
  BY <1>2, <1>3 DEF RemoveSource

LEMMA RecordDeletedSafe ==
    ASSUME Safe, RecordDeleted
    PROVE  Deep' /\ Standing'
<1>1. /\ job.pc = "deleted" /\ job.pc # "idle" /\ Me \in Op
      /\ UNCHANGED <<disk, staged, zip, row, mark, queue>>
  BY MyParts DEF RecordDeleted, Safe
<1>2. job.cur \in Frame
  BY <1>1, MyParts DEF Safe, Shape, Doing
<1>3. StepsTo("delete", job.todo \ {job.cur})
  BY <1>1, Steps DEF RecordDeleted, Labels, Ahead, Safe
<1>4. Edit(op[Me].status, op[Me].copied, op[Me].verified, op[Me].zipped,
           op[Me].published, op[Me].deleting, op[Me].deleted \cup {job.cur})
  BY <1>1, <1>2, MyParts, LogDeleted DEF RecordDeleted, Safe
<1>5. Deep' /\ SameOps
  BY <1>1, <1>3, <1>4, SameJobs, LoggedDeep
<1> QED
  BY <1>1, <1>3, <1>5, InZipKept DEF Safe, Standing, StepsTo, SameOps

LEMMA FinalizeSafe ==
    ASSUME Safe, Finalize
    PROVE  Deep' /\ Standing'
<1>1. /\ job.pc = "finalize" /\ job.pc # "idle" /\ Me \in Op
      /\ UNCHANGED <<disk, staged, zip, row, mark, op, queue>>
  BY MyParts DEF Finalize, Safe
<1>2. CASE Fail
  BY <1>1, <1>2, FailStanding, QuietDeep
<1>3. CASE Go("mark", Files(Me) \cap Moved)
  <2>1. StepsTo("mark", Files(Me) \cap Moved)
    BY <1>1, <1>3, Steps, MyParts DEF Labels, Ahead, Safe
  <2>2. Deep' /\ SameOps
    BY <1>1, <2>1, SameJobs, QuietDeep
  <2> QED
    BY <1>1, <2>1, <2>2, InZipKept DEF Safe, Standing, StepsTo, SameOps
<1> QED
  BY <1>2, <1>3 DEF Finalize

LEMMA MarkFileSafe ==
    ASSUME Safe, NEW f \in Frame, MarkFile(f)
    PROVE  Deep' /\ Standing'
<1>1. /\ job.pc = "mark" /\ Turn("mark", f) /\ job.pc # "idle" /\ job.pc \in Ahead \cup Back /\ Me \in Op
      /\ UNCHANGED <<disk, staged, zip, mark, op, queue>>
  BY MyParts DEF MarkFile, Turn, Ahead, Safe
<1>2. f \in job.todo /\ f \in Files(Me) /\ f \in Moved /\ op[Me].to[f] \in Path
  BY <1>1, TurnIn, MyParts DEF Safe, Shape, Doing
<1>3. \A g \in Frame : row'[g] = IF g = f THEN op[Me].to[f] ELSE row[g]
  BY DEF MarkFile, Safe, Shape, Tables
<1>4. StepsTo("mark", job.todo \ {f})
  BY <1>1, Steps DEF MarkFile, Labels, Ahead, Safe
<1>5. SameOps /\ Unfinished' = Unfinished
  BY <1>1, UnchangedSame DEF Safe, Shape, Tables, Unfinished
<1>6. Live' \subseteq Live /\ Busy' \subseteq Busy
  BY <1>1, <1>4, <1>5, SameJobs, LiveShrinks DEF SameJob
<1>7. RowsHold'
  <2>1. \A s \in FrameSet : mark[s] # 0 => mark[s] \in Op
    BY DEF Safe, Shape, Tables
  <2> QED
    BY <1>1, <1>2, <1>3, <1>5, <2>1, Mine, InZipKept DEF Safe, Deep, RowsHold, SameOps
<1>8. Own'
  <2>1. \A o \in Live' : o = Me
    BY <1>1, <1>6, Mine
  <2> QED
    BY <1>1, <1>2, <1>3, <1>5, <2>1, Mine DEF Safe, Deep, Own, SameOps
<1>9. Kept'
  <2>1. InZip(f, op[Me].to[f]) /\ op[Me].to[f] # NoPath
    BY <1>1, <1>2, NoPathApart DEF Safe, Standing
  <2> QED
    BY <1>1, <1>3, <1>5, <2>1, Mine, InZipKept DEF Safe, Deep, Kept, SameOps
<1>10. Standing'
  <2>1. Files(Me) \subseteq Frame
    BY <1>1, MyParts DEF Safe
  <2> QED
    BY <1>1, <1>3, <1>4, <1>5, <2>1, InZipKept DEF Safe, Standing, StepsTo, SameOps
<1> QED
  BY <1>1, <1>5, <1>6, <1>7, <1>8, <1>9, <1>10, AloneKept, KnownKept, MarksKept, FreshKept,
     WholeKept, SourcesKept DEF Deep, Safe

\* The mark of the job's set is its own or not there.
LEMMA MyMark ==
    ASSUME Safe, job.pc \in Ahead \cup Back \cup Out
    PROVE  Me \in Busy /\ Me \in Op /\ op[Me].set \in FrameSet /\ mark[op[Me].set] \in {0, Me}
<1>1. job.pc # "idle"
  BY DEF Ahead, Back, Out
<1>2. Me \in Started /\ Me \in Op
  BY <1>1, MyParts DEF Safe
<1>3. job.pc \in Out => Me \in Busy
  BY <1>2 DEF Safe, Shape, JobKind, Busy, Pending, Me
<1> QED
  BY <1>2, <1>3, Mine DEF Safe, Deep, Known, Marks

\* The mark is set or cleared.
LEMMA MarkMoves ==
    ASSUME Safe, job.pc \in Ahead \cup Back \cup Out, NEW m \in {0, Me},
           mark' = [mark EXCEPT ![op[Me].set] = m], SameOps, Busy' \subseteq Busy
    PROVE  /\ Marks'
           /\ \A s \in FrameSet : mark'[s] = IF s = op[Me].set THEN m ELSE mark[s]
<1>1. \A s \in FrameSet : mark'[s] = IF s = op[Me].set THEN m ELSE mark[s]
  BY DEF Safe, Shape, Tables
<1>2. \A s \in FrameSet : mark[s] # 0 => mark[s] \in Op
  BY DEF Safe, Shape, Tables
<1>3. \A o \in Busy : o \in Op /\ op[o].set \in FrameSet
  BY BusyStarted DEF Safe, Deep, Known
<1> QED
  BY <1>1, <1>2, <1>3, MyMark DEF Safe, Deep, Marks, SameOps

LEMMA MarkSetSafe ==
    ASSUME Safe, MarkSet
    PROVE  Deep' /\ Standing'
<1>1. /\ job.pc = "mark" /\ job.todo = {} /\ job.pc # "idle" /\ job.pc \in Ahead \cup Back /\ Me \in Op
      /\ UNCHANGED <<disk, staged, zip, row, op, queue>>
  BY MyParts DEF MarkSet, Ahead, Safe
<1>2. CASE Fail /\ UNCHANGED mark
  BY <1>1, <1>2, FailStanding, QuietDeep
<1>3. CASE mark' = [mark EXCEPT ![op[Me].set] = Me] /\ Go("sweep", {})
  <2>1. StepsTo("sweep", {})
    BY <1>1, <1>3, Steps DEF Labels, Ahead, Safe
  <2>2. SameOps /\ Unfinished' = Unfinished
    BY <1>1, UnchangedSame DEF Safe, Shape, Tables, Unfinished
  <2>3. Live' \subseteq Live /\ Busy' \subseteq Busy
    BY <1>1, <2>1, <2>2, SameJobs, LiveShrinks DEF SameJob
  <2>4. Marks' /\ \A s \in FrameSet : mark'[s] = IF s = op[Me].set THEN Me ELSE mark[s]
    BY <1>1, <1>3, <2>2, <2>3, MarkMoves
  <2>5. RowsHold'
    <3>1. \A s \in FrameSet : mark[s] # 0 => mark[s] \in Op
      BY DEF Safe, Shape, Tables
    <3>2. Me # 0 /\ mark[op[Me].set] \in {0, Me} /\ op[Me].set \in FrameSet
      BY <1>1, Mine DEF Op
    <3> QED
      BY <1>1, <2>2, <2>4, <3>1, <3>2, InZipKept, Mine DEF Safe, Deep, RowsHold, SameOps
  <2>6. Standing'
    BY <1>1, <2>1, <2>2, <2>4, Mine, InZipKept DEF Safe, Standing, StepsTo, SameOps
  <2> QED
    BY <1>1, <2>2, <2>3, <2>4, <2>5, <2>6, AloneKept, KnownKept, FreshKept,
       WholeKept, SourcesKept, OwnKept, KeptKept DEF Deep, Safe
<1> QED
  BY <1>2, <1>3 DEF MarkSet

LEMMA CleanFileSafe ==
    ASSUME Safe, NEW f \in Frame, CleanFile(f)
    PROVE  Deep' /\ Standing'
<1>1. /\ job.pc \in {"sweep", "clean"} /\ job.pc \in Ahead \cup Back /\ Me \in Op /\ Me' = Me
      /\ UNCHANGED <<disk, zip, row, mark, op, queue, job>>
  BY MyParts DEF CleanFile, Ahead, Back, Safe, Me
<1>2. \A o \in Op, g \in Frame : staged'[o][g] = IF o = Me /\ g = f THEN "none" ELSE staged[o][g]
  BY <1>1 DEF CleanFile, Safe, Shape, Tables
<1>3. SameOps /\ Unfinished' = Unfinished
  BY <1>1, UnchangedSame DEF Safe, Shape, Tables, Unfinished
<1>4. Live' \subseteq Live /\ Busy' \subseteq Busy
  BY <1>1, <1>3, LiveShrinks
<1>5. Fresh'
  <2>1. \A o \in Op : op[o].verified \subseteq Frame
    BY DEF Safe, Shape, Tables, OpRec
  <2> QED
    BY <1>1, <1>2, <2>1 DEF Safe, Deep, Fresh
<1>6. Kept'
  <2>1. \A g \in Files(Me) : g \in disk \/ (row[g] # NoPath /\ InZip(g, row[g]))
    <3>1. \A g \in Files(Me) \cap Moved : op[Me].to[g] # NoPath
      BY <1>1, MyParts, NoPathApart DEF Safe
    <3>2. Files(Me) \subseteq Frame
      BY <1>1, MyParts DEF Safe
    <3> QED
      BY <1>1, <3>1, <3>2 DEF Safe, Standing, Deep, Sources
  <2> QED
    BY <1>1, <1>2, <1>3, <2>1, Mine, InZipKept DEF Safe, Deep, Kept, SameOps
<1>7. Standing'
  BY <1>1, <1>3, InZipKept DEF Safe, Standing, SameOps
<1> QED
  BY <1>1, <1>3, <1>4, <1>5, <1>6, <1>7, AloneKept, KnownKept, MarksKept,
     WholeKept, SourcesKept, RowsHoldKept, OwnKept DEF Deep, Safe

\* The operation of the job ends: its frames are found without it.
LEMMA OpEnds ==
    ASSUME Safe, job.pc \in Ahead \cup Back, NEW st \in {"completed", "rolled_back"}, Status(st), End,
           UNCHANGED <<disk, staged, zip, row, mark, queue>>,
           \A f \in Files(Me) :
               \/ row[f] = NoPath /\ f \in disk
               \/ /\ row[f] # NoPath /\ InZip(f, row[f])
                  /\ \E s \in FrameSet : mark[s] # 0 /\ f \in Files(mark[s])
    PROVE  Deep' /\ Standing'
<1>1. job.pc # "idle" /\ Me \in Op /\ Me \in Started
  BY MyParts DEF Ahead, Back, Safe
<1>2. Edit(st, op[Me].copied, op[Me].verified, op[Me].zipped,
           op[Me].published, op[Me].deleting, op[Me].deleted)
  BY <1>1, MyParts, NewStatus DEF Safe, Statuses
<1>3. SameOps
  BY <1>1, <1>2, MyParts, EditSame DEF Safe
<1>4. Unfinished' = Unfinished \ {Me} /\ Unfinished' = {}
  BY <1>1, <1>2, Mine DEF Unfinished, Edit
<1>5. Live' \subseteq Live /\ Busy' \subseteq Busy
  BY <1>4, LiveShrinks DEF End
<1>6. \A u \in Op : /\ op'[u].published = op[u].published /\ op'[u].verified = op[u].verified
                    /\ op[u].deleting \subseteq op'[u].deleting
  BY <1>2 DEF Edit
<1>7. RowsHold'
  <2>1. \A s \in FrameSet : mark[s] # 0 => mark[s] \in Op
    BY DEF Safe, Shape, Tables
  <2> QED
    BY <1>3, <2>1, Mine, InZipKept DEF Safe, Deep, RowsHold, SameOps
<1>8. Kept'
  BY <1>3, Mine, InZipKept DEF Safe, Deep, Kept, SameOps
<1> QED
  BY <1>3, <1>5, <1>6, <1>7, <1>8, EndStanding, AloneKept, KnownKept, MarksKept, FreshKept,
     WholeKept, SourcesKept, OwnKept DEF Deep, Safe

LEMMA CompleteSafe ==
    ASSUME Safe, Complete
    PROVE  Deep' /\ Standing'
<1>1. job.pc = "sweep" /\ job.pc # "idle" /\ job.pc \in Ahead \cup Back
  BY DEF Complete, Ahead
<1>2. Me # 0 /\ Files(Me) \subseteq Frame /\ \A f \in Files(Me) : op[Me].to[f] # NoPath
  BY <1>1, MyParts, NoPathApart DEF Safe, Op
<1>3. \A f \in Files(Me) :
         \/ row[f] = NoPath /\ f \in disk
         \/ /\ row[f] # NoPath /\ InZip(f, row[f])
            /\ \E s \in FrameSet : mark[s] # 0 /\ f \in Files(mark[s])
  <2>1. ASSUME NEW f \in Files(Me), f \in Moved
        PROVE  /\ row[f] # NoPath /\ InZip(f, row[f])
               /\ \E s \in FrameSet : mark[s] # 0 /\ f \in Files(mark[s])
    BY <1>1, <1>2, <2>1, Mine DEF Safe, Standing
  <2>2. ASSUME NEW f \in Files(Me), f \notin Moved
        PROVE  row[f] = NoPath /\ f \in disk
    BY <1>2, <2>2 DEF Safe, Deep, Sources, RowsHold
  <2> QED
    BY <2>1, <2>2
<1> QED
  BY <1>1, <1>3, OpEnds DEF Complete

LEMMA RolledBackSafe ==
    ASSUME Safe, RolledBack
    PROVE  Deep' /\ Standing'
<1>1. job.pc = "unmark" /\ job.todo = {} /\ job.pc \in Ahead \cup Back
  BY DEF RolledBack, Back
<1> QED
  BY <1>1, OpEnds DEF RolledBack, Safe, Standing

LEMMA RollbackBeginsSafe ==
    ASSUME Safe, RollbackBegins
    PROVE  Deep' /\ Standing'
<1>1. /\ job.pc = "rollback" /\ job.pc # "idle" /\ Me \in Op /\ Me \in Started
      /\ UNCHANGED <<disk, staged, zip, row, mark, queue>>
  BY MyParts DEF RollbackBegins, Safe
<1>2. CASE End /\ UNCHANGED op
  BY <1>1, <1>2, EndStanding, SameJobs, QuietDeep
<1>3. CASE /\ op[Me].status \notin {"completed", "rolled_back"} /\ Lost(Me) = {}
           /\ Status("rolling_back")
           /\ job' = [job EXCEPT !.pc = "return", !.todo = Removed(Me), !.pub = op[Me].published]
  <2>1. Edit("rolling_back", op[Me].copied, op[Me].verified, op[Me].zipped,
             op[Me].published, op[Me].deleting, op[Me].deleted)
    BY <1>1, <1>3, MyParts, NewStatus DEF Statuses, Safe
  <2>2. Me \in Unfinished /\ Me \in Live
    <3>1. op[Me].status \in Statuses /\ op[Me].status # "none"
      BY <1>1, MyParts DEF Safe, OpRec, Started
    <3> QED
      BY <1>1, <1>3, <3>1, BusyStarted DEF Unfinished, Statuses, Safe
  <2>3. Unfinished' = Unfinished
    BY <1>1, <2>1, <2>2 DEF Unfinished, Edit
  <2>4. SameOps
    BY <1>1, <2>1, MyParts, EditSame DEF Safe
  <2>5. Removed(Me) \in SUBSET (Frame \cup Path) /\ op[Me].published \in SUBSET Path /\ Files(Me) \subseteq Frame
    BY <1>1, MyParts, MyLog DEF Removed, Safe
  <2>6. job'.pc = "return" /\ job'.todo = Removed(Me) /\ job'.kind = job.kind /\ job'.op = job.op /\ Me' = Me
    BY <1>1, <1>3, <2>5, ReturnMoves, MyParts DEF Me, Safe
  <2>7. Live' \subseteq Live /\ Busy' \subseteq Busy
    BY <1>1, <2>3, <2>6, LiveShrinks
  <2>8. \A u \in Op : /\ op'[u].published = op[u].published /\ op'[u].verified = op[u].verified
                      /\ op[u].deleting \subseteq op'[u].deleting
    BY <2>1 DEF Edit
  <2>9. Deep'
    BY <1>1, <2>3, <2>4, <2>7, <2>8, Calm DEF Safe
  <2>10. ASSUME NEW f \in Files(Me), f \notin disk
         PROVE  f \in Removed(Me) /\ staged[Me][f] = "whole"
    <3>1. f \in Moved /\ f \in op[Me].deleting
      BY <2>2, <2>5, <2>10 DEF Safe, Deep, Sources
    <3>2. f \in Removed(Me)
      BY <2>10, <3>1 DEF Removed
    <3>3. staged[Me][f] # "none"
      BY <1>3, <2>10, <3>2 DEF Lost
    <3>4. f \in op[Me].verified
      BY <1>1, <3>1, MyLog DEF Safe
    <3>5. staged[Me][f] # "torn" /\ staged[Me][f] \in Copies
      BY <1>1, <2>5, <2>10, <3>4 DEF Safe, Deep, Fresh, Shape, Tables
    <3> QED
      BY <3>2, <3>3, <3>5 DEF Copies
  <2>11. Standing'
    BY <1>1, <2>4, <2>6, <2>10 DEF Standing, SameOps
  <2> QED
    BY <2>9, <2>11
<1> QED
  BY <1>2, <1>3 DEF RollbackBegins

LEMMA ReturnSourceSafe ==
    ASSUME Safe, NEW f \in Frame, ReturnSource(f)
    PROVE  Deep' /\ Standing'
<1>1. /\ job.pc = "return" /\ job.pc # "idle" /\ Me \in Op
      /\ UNCHANGED <<staged, zip, row, mark, op, queue>> /\ disk \subseteq disk'
  BY MyParts DEF ReturnSource, Turn, Safe
<1>2. CASE End
  BY <1>1, <1>2, EndStanding, SameJobs, QuietDeep
<1>3. CASE /\ disk' = disk \cup (IF staged[Me][f] = "whole" THEN {f} ELSE {})
           /\ Continue("return", f)
  <2>1. StepsTo("return", job.todo \ {f})
    BY <1>1, <1>3, Steps DEF Labels, Back, Safe
  <2>2. Deep' /\ SameOps
    BY <1>1, <2>1, SameJobs, QuietDeep
  <2> QED
    BY <1>1, <1>3, <2>1, <2>2 DEF Safe, Standing, StepsTo, SameOps
<1> QED
  BY <1>2, <1>3 DEF ReturnSource

\* A zip goes, or stays: nothing comes into one.
LEMMA ZipsShrink ==
    ASSUME \A q \in Path : zip'[q] \in {zip[q], NoZip}, NEW f, NEW q
    PROVE  /\ q \in Path /\ zip'[q] = zip[q] => (InZip(f, q)' <=> InZip(f, q))
           /\ q \notin Path => (InZip(f, q)' <=> InZip(f, q))
BY DEF InZip

LEMMA DropZipSafe ==
    ASSUME Safe, NEW p \in Path, DropZip(p)
    PROVE  Deep' /\ Standing'
<1>1. /\ job.pc = "drop" /\ job.pc # "idle" /\ job.pc \in Ahead \cup Back /\ Me \in Op
      /\ UNCHANGED <<disk, staged, row, mark, op, queue>> /\ Continue("drop", p)
  BY MyParts DEF DropZip, ZipTurn, Back, Safe
<1>2. StepsTo("drop", job.todo \ {p})
  BY <1>1, Steps DEF Labels, Back, Safe
<1>3. SameOps /\ Unfinished' = Unfinished
  BY <1>1, UnchangedSame DEF Safe, Shape, Tables, Unfinished
<1>4. Live' \subseteq Live /\ Busy' \subseteq Busy
  BY <1>1, <1>2, <1>3, SameJobs, LiveShrinks DEF SameJob
<1>5. \A q \in Path : zip'[q] = zip[q] \/ (zip'[q] = NoZip /\ q \in op[Me].published)
  <2>1. job.pub \subseteq op[Me].published
    BY <1>1 DEF Safe, Shape, Doing
  <2>2. CASE zip' = [zip EXCEPT ![p] = IF p \in job.pub THEN NoZip ELSE @]
    BY <2>1, <2>2 DEF Safe, Shape, Tables, ZipType
  <2> QED
    BY <2>2 DEF DropZip
<1>6. Files(Me) \subseteq disk
  BY <1>1 DEF Safe, Standing
<1>7. Whole'
  BY <1>5 DEF Safe, Deep, Whole
<1>8. \A f \in Frame : row[f] \in op[Me].published => f \in Files(Me)
  BY <1>1, Mine DEF Safe, Deep, Own
<1>9. \A f \in Frame : row[f] # NoPath /\ InZip(f, row[f]) => InZip(f, row[f])' \/ f \in Files(Me)
  BY <1>1, <1>5, <1>8, ZipsShrink
<1>10. RowsHold'
  <2>1. \A s \in FrameSet : mark[s] # 0 => mark[s] \in Op
    BY DEF Safe, Shape, Tables
  <2> QED
    BY <1>1, <1>3, <1>9, <2>1, Mine DEF Safe, Deep, RowsHold, SameOps
<1>11. Own'
  <2>1. op[Me].published \subseteq Path
    BY <1>1, MyLog, MyParts DEF Safe
  <2>2. \A o \in Live' : o = Me
    BY <1>1, <1>4, Mine
  <2> QED
    BY <1>1, <1>3, <1>5, <2>1, <2>2, Mine DEF Safe, Deep, Own, SameOps
<1>12. Kept'
  BY <1>1, <1>3, <1>6, <1>9, Mine DEF Safe, Deep, Kept, SameOps
<1>13. Standing'
  BY <1>1, <1>2, <1>3, <1>6 DEF Standing, StepsTo, SameOps
<1> QED
  BY <1>1, <1>3, <1>4, <1>7, <1>10, <1>11, <1>12, <1>13, AloneKept, KnownKept, MarksKept,
     FreshKept, SourcesKept DEF Deep, Safe

LEMMA UnmarkSetSafe ==
    ASSUME Safe, UnmarkSet
    PROVE  Deep' /\ Standing'
<1>1. /\ job.pc = "clean" /\ job.pc # "idle" /\ job.pc \in Ahead \cup Back /\ Me \in Op
      /\ UNCHANGED <<disk, staged, zip, row, op, queue>>
  BY MyParts DEF UnmarkSet, Back, Safe
<1>2. CASE End /\ UNCHANGED mark
  BY <1>1, <1>2, EndStanding, SameJobs, QuietDeep
<1>3. CASE mark' = [mark EXCEPT ![op[Me].set] = 0] /\ Go("unmark", Files(Me))
  <2>1. StepsTo("unmark", Files(Me))
    BY <1>1, <1>3, Steps, MyParts DEF Labels, Back, Safe
  <2>2. SameOps /\ Unfinished' = Unfinished
    BY <1>1, UnchangedSame DEF Safe, Shape, Tables, Unfinished
  <2>3. Live' \subseteq Live /\ Busy' \subseteq Busy
    BY <1>1, <2>1, <2>2, SameJobs, LiveShrinks DEF SameJob
  <2>4. Marks' /\ \A s \in FrameSet : mark'[s] = IF s = op[Me].set THEN 0 ELSE mark[s]
    BY <1>1, <1>3, <2>2, <2>3, MarkMoves
  <2>5. RowsHold'
    <3>1. \A s \in FrameSet : mark[s] # 0 => mark[s] \in Op
      BY DEF Safe, Shape, Tables
    <3> QED
      BY <1>1, <2>2, <2>4, <3>1, InZipKept, Mine DEF Safe, Deep, RowsHold, SameOps
  <2>6. Standing'
    BY <1>1, <2>1, <2>2, <2>4, Mine DEF Safe, Standing, StepsTo, SameOps
  <2> QED
    BY <1>1, <2>2, <2>3, <2>4, <2>5, <2>6, AloneKept, KnownKept, FreshKept,
       WholeKept, SourcesKept, OwnKept, KeptKept DEF Deep, Safe
<1> QED
  BY <1>2, <1>3 DEF UnmarkSet

\* The row of a frame that is on disk is cleared.
LEMMA RowFreed ==
    ASSUME Safe, NEW f \in Frame, f \in disk, row' = [row EXCEPT ![f] = NoPath],
           UNCHANGED <<disk, staged, zip, mark, op, queue>>, SameJob
    PROVE  /\ Deep' /\ SameOps
           /\ \A g \in Frame : row'[g] = IF g = f THEN NoPath ELSE row[g]
<1>1. \A g \in Frame : row'[g] = IF g = f THEN NoPath ELSE row[g]
  BY DEF Safe, Shape, Tables
<1>2. SameOps /\ Unfinished' = Unfinished
  BY UnchangedSame DEF Safe, Shape, Tables, Unfinished
<1>3. Live' \subseteq Live /\ Busy' \subseteq Busy
  BY <1>2, LiveShrinks DEF SameJob
<1>4. Unfinished \subseteq Op /\ Live \subseteq Op /\ \A s \in FrameSet : mark[s] # 0 => mark[s] \in Op
  BY DEF Unfinished, Live, Safe, Shape, Tables
<1>5. RowsHold'
  BY <1>1, <1>2, <1>4, InZipKept DEF Safe, Deep, RowsHold, SameOps
<1>6. Own'
  <2>1. \A o \in Op : NoPath \notin op[o].published
    BY NoPathApart DEF Safe, Shape, Tables, OpRec
  <2> QED
    BY <1>1, <1>2, <1>3, <1>4, <2>1 DEF Safe, Deep, Own, SameOps
<1>7. Kept'
  BY <1>1, <1>2, <1>4, InZipKept DEF Safe, Deep, Kept, SameOps
<1> QED
  BY <1>1, <1>2, <1>3, <1>5, <1>6, <1>7, AloneKept, KnownKept, MarksKept, FreshKept,
     WholeKept, SourcesKept DEF Deep, Safe

LEMMA UnmarkFileSafe ==
    ASSUME Safe, NEW f \in Frame, UnmarkFile(f)
    PROVE  Deep' /\ Standing'
<1>1. /\ job.pc = "unmark" /\ Turn("unmark", f) /\ job.pc # "idle" /\ Me \in Op
      /\ UNCHANGED <<disk, staged, zip, mark, op, queue>>
  BY MyParts DEF UnmarkFile, Turn, Safe
<1>2. f \in Files(Me) /\ f \in disk /\ Files(Me) \subseteq Frame
  BY <1>1, TurnIn, MyParts DEF Safe, Shape, Doing, Standing
<1>3. StepsTo("unmark", job.todo \ {f})
  BY <1>1, Steps DEF UnmarkFile, Labels, Back, Safe
<1>4. Deep' /\ SameOps /\ \A g \in Frame : row'[g] = IF g = f THEN NoPath ELSE row[g]
  BY <1>1, <1>2, <1>3, SameJobs, RowFreed DEF UnmarkFile
<1> QED
  BY <1>1, <1>2, <1>3, <1>4 DEF Safe, Standing, StepsTo, SameOps

LEMMA PreflightSafe ==
    ASSUME Safe, Preflight
    PROVE  Deep' /\ Standing'
<1>1. /\ job.pc = "preflight" /\ job.pc # "idle" /\ Me \in Op
      /\ UNCHANGED <<disk, staged, zip, row, mark, op, queue>>
  BY MyParts DEF Preflight, Safe
<1>2. CASE End
  BY <1>1, <1>2, EndStanding, SameJobs, QuietDeep
<1>3. CASE Go("extract", Files(Me))
  <2>1. StepsTo("extract", Files(Me))
    BY <1>1, <1>3, Steps, MyParts DEF Labels, Out, Safe
  <2>2. Deep' /\ SameOps
    BY <1>1, <2>1, SameJobs, QuietDeep
  <2> QED
    BY <1>1, <2>1, <2>2 DEF Standing, StepsTo, SameOps
<1> QED
  BY <1>2, <1>3 DEF Preflight

LEMMA ExtractSafe ==
    ASSUME Safe, NEW f \in Frame, Extract(f)
    PROVE  Deep' /\ Standing'
<1>1. /\ job.pc = "extract" /\ job.pc # "idle" /\ Me \in Op
      /\ UNCHANGED <<staged, zip, row, mark, op, queue>> /\ disk \subseteq disk'
  BY MyParts DEF Extract, Item, Turn, Safe
<1>2. CASE End
  BY <1>1, <1>2, EndStanding, SameJobs, QuietDeep
<1>3. CASE Continue("extract", f) /\ f \in disk'
  <2>1. StepsTo("extract", job.todo \ {f})
    BY <1>1, <1>3, Steps DEF Labels, Out, Safe
  <2>2. Deep' /\ SameOps
    BY <1>1, <2>1, SameJobs, QuietDeep
  <2> QED
    BY <1>1, <1>3, <2>1, <2>2 DEF Safe, Standing, StepsTo, SameOps
<1>4. CASE job' = [job EXCEPT !.todo = @ \ {f}, !.bad = @ \cup {f}]
  <2>1. /\ job'.pc = "extract" /\ job'.todo = job.todo \ {f} /\ job'.bad = job.bad \cup {f}
        /\ job'.kind = job.kind /\ job'.op = job.op /\ Me' = Me
    BY <1>1, <1>4, ConflictMoves, MyParts DEF Me, Safe
  <2>2. Deep' /\ SameOps
    BY <1>1, <2>1, QuietDeep DEF SameJob
  <2> QED
    BY <1>1, <2>1, <2>2 DEF Safe, Standing, SameOps
<1> QED
  BY <1>2, <1>3, <1>4 DEF Extract

LEMMA ExtractedSafe ==
    ASSUME Safe, Extracted
    PROVE  Deep' /\ Standing'
<1>1. /\ job.pc = "extract" /\ job.todo = {} /\ job.pc # "idle" /\ Me \in Op
      /\ UNCHANGED <<disk, staged, zip, row, mark, op, queue>>
  BY MyParts DEF Extracted, Safe
<1>2. StepsTo("release", Files(Me) \ job.bad)
  BY <1>1, Steps, MyParts DEF Extracted, Labels, Out, Safe
<1>3. Deep' /\ SameOps
  BY <1>1, <1>2, SameJobs, QuietDeep
<1> QED
  BY <1>1, <1>2, <1>3 DEF Safe, Standing, StepsTo, SameOps

LEMMA ReleaseFileSafe ==
    ASSUME Safe, NEW f \in Frame, ReleaseFile(f)
    PROVE  Deep' /\ Standing'
<1>1. /\ job.pc = "release" /\ Turn("release", f) /\ job.pc # "idle" /\ Me \in Op
      /\ UNCHANGED <<disk, staged, zip, mark, op, queue>>
  BY MyParts DEF ReleaseFile, Turn, Safe
<1>2. job.todo \subseteq Files(Me) \ job.bad /\ Files(Me) \subseteq Frame
  BY <1>1, MyParts DEF Safe, Shape, Doing
<1>3. f \in job.todo
  BY <1>1, <1>2, TurnIn DEF Safe
<1>4. f \in disk
  BY <1>1, <1>2, <1>3 DEF Safe, Standing
<1>5. StepsTo("release", job.todo \ {f})
  BY <1>1, Steps DEF ReleaseFile, Labels, Out, Safe
<1>6. Deep' /\ SameOps /\ \A g \in Frame : row'[g] = IF g = f THEN NoPath ELSE row[g]
  BY <1>1, <1>4, <1>5, SameJobs, RowFreed DEF ReleaseFile
<1> QED
  BY <1>1, <1>2, <1>5, <1>6 DEF Safe, Standing, StepsTo, SameOps

LEMMA ReleaseSetSafe ==
    ASSUME Safe, ReleaseSet
    PROVE  Deep' /\ Standing'
<1>1. /\ job.pc = "release" /\ job.todo = {} /\ job.pc # "idle" /\ Me \in Op
      /\ job.pc \in Ahead \cup Back \cup Out
      /\ UNCHANGED <<disk, staged, zip, row, op, queue>>
  BY MyParts DEF ReleaseSet, Out, Safe
<1>2. StepsTo("discard", Zips(Me)) \/ End
  <2>1. "discard" \in Labels /\ Zips(Me) \in SUBSET (Frame \cup Path)
    BY <1>1, MyParts DEF Labels, Out, Safe
  <2> QED
    BY <1>1, <2>1, Steps DEF ReleaseSet, Safe
<1>3. SameOps /\ Unfinished' = Unfinished /\ SameJob
  BY <1>1, <1>2, SameJobs, UnchangedSame DEF Safe, Shape, Tables, Unfinished
<1>4. CASE UNCHANGED mark /\ End
  BY <1>1, <1>4, EndStanding, SameJobs, QuietDeep
<1>5. CASE job.bad = {} /\ mark' = [mark EXCEPT ![op[Me].set] = 0]
  <2>1. Live' \subseteq Live /\ Busy' \subseteq Busy
    BY <1>1, <1>3, LiveShrinks DEF SameJob
  <2>2. Marks' /\ \A s \in FrameSet : mark'[s] = IF s = op[Me].set THEN 0 ELSE mark[s]
    BY <1>1, <1>3, <1>5, <2>1, MarkMoves
  <2>3. \A f \in Files(Me) : row[f] = NoPath /\ f \in disk
    BY <1>1, <1>5 DEF Safe, Standing
  <2>4. RowsHold'
    <3>1. Unfinished \subseteq Op /\ \A s \in FrameSet : mark[s] # 0 => mark[s] \in Op
      BY DEF Safe, Shape, Tables, Unfinished
    <3> QED
      BY <1>1, <1>3, <2>2, <2>3, <3>1, InZipKept, MyMark DEF Safe, Deep, RowsHold, SameOps
  <2>5. Standing'
    <3>1. CASE StepsTo("discard", Zips(Me))
      BY <1>1, <1>3, <2>3, <3>1 DEF Standing, StepsTo, SameOps
    <3> QED
      BY <1>2, <3>1, EndStanding
  <2> QED
    BY <1>1, <1>3, <2>1, <2>2, <2>4, <2>5, AloneKept, KnownKept, FreshKept,
       WholeKept, SourcesKept, OwnKept, KeptKept DEF Deep, Safe
<1> QED
  BY <1>4, <1>5 DEF ReleaseSet

LEMMA DiscardZipSafe ==
    ASSUME Safe, NamesApart, NEW p \in Path, DiscardZip(p)
    PROVE  Deep' /\ Standing'
<1>1. /\ job.pc = "discard" /\ job.pc # "idle" /\ job.pc \in Ahead \cup Back \cup Out /\ Me \in Op
      /\ UNCHANGED <<disk, staged, row, mark, op, queue>> /\ Continue("discard", p) /\ p \in job.todo
  BY MyParts DEF DiscardZip, ZipTurn, Out, Safe
<1>2. StepsTo("discard", job.todo \ {p})
  BY <1>1, Steps DEF Labels, Out, Safe
<1>3. SameOps /\ Unfinished' = Unfinished
  BY <1>1, UnchangedSame DEF Safe, Shape, Tables, Unfinished
<1>4. Live' \subseteq Live /\ Busy' \subseteq Busy
  BY <1>1, <1>2, <1>3, SameJobs, LiveShrinks DEF SameJob
<1>5. \A q \in Path : zip'[q] = zip[q] \/ (zip'[q] = NoZip /\ q = p /\ \A f \in Frame : row[f] # p)
  <2>1. CASE zip' = [zip EXCEPT ![p] = IF \E f \in Frame : row[f] = p THEN @ ELSE NoZip]
    BY <2>1 DEF Safe, Shape, Tables, ZipType
  <2> QED
    BY <2>1 DEF DiscardZip
<1>6. Files(Me) \subseteq disk
  BY <1>1 DEF Safe, Standing
<1>7. Whole'
  BY <1>5 DEF Safe, Deep, Whole
<1>8. \A f \in Frame : InZip(f, row[f])' <=> InZip(f, row[f])
  BY <1>1, <1>5, ZipsShrink
<1>9. Unfinished \subseteq Op /\ Live \subseteq Op /\ \A s \in FrameSet : mark[s] # 0 => mark[s] \in Op
  BY DEF Unfinished, Live, Safe, Shape, Tables
<1>10. RowsHold'
  BY <1>1, <1>3, <1>8, <1>9 DEF Safe, Deep, RowsHold, SameOps
<1>11. Own'
  <2>1. \A o \in Op : op[o].published \subseteq Path
    BY DEF Safe, Shape, Tables, OpRec
  <2> QED
    BY <1>1, <1>3, <1>4, <1>5, <1>9, <2>1 DEF Safe, Deep, Own, SameOps
<1>12. ASSUME NEW o \in Unfinished, NEW f \in Files(o), f \in Frame, f \notin disk
       PROVE  op[o].to[f] # p
  <2>1. SUFFICES ASSUME op[o].to[f] = p PROVE FALSE
    OBVIOUS
  <2>2. o \in Busy /\ o \in Started /\ Me \in Busy /\ Me \in Started
    BY <1>1, BusyStarted, MyMark DEF Safe
  <2>3. PICK g \in Files(Me) : op[Me].to[g] = p
    BY <1>1 DEF Safe, Shape, Doing, Zips
  <2>4. Base[f] = p[1] /\ Base[g] = p[1]
    BY <2>1, <2>2, <2>3 DEF Safe, Deep, Known
  <2>5. f \in Member[op[o].set] /\ g \in Member[op[Me].set] /\ {op[o].set, op[Me].set} \subseteq FrameSet
    BY <2>2, <2>3 DEF Safe, Deep, Known
  <2>6. f \in Moved
    BY <1>12 DEF Safe, Deep, Sources
  <2>7. op[o].set = op[Me].set
    BY <2>4, <2>5, <2>6 DEF NamesApart
  <2>8. o = Me
    BY <2>2, <2>7 DEF Safe, Deep, Marks
  <2> QED
    BY <1>6, <1>12, <2>8
<1>13. Kept'
  <2>1. ASSUME NEW o \in Unfinished, NEW f \in Files(o), f \in Frame, f \notin disk
        PROVE  InZip(f, op[o].to[f])' <=> InZip(f, op[o].to[f])
    <3>1. op[o].to[f] \in Path /\ op[o].to[f] # p
      BY <1>12, <2>1, BusyStarted DEF Safe, Deep, Known
    <3> QED
      BY <1>1, <1>5, <3>1, ZipsShrink
  <2> QED
    BY <1>1, <1>3, <1>8, <1>9, <2>1 DEF Safe, Deep, Kept, SameOps
<1>14. Standing'
  BY <1>1, <1>2, <1>3, <1>6 DEF Standing, StepsTo, SameOps
<1> QED
  BY <1>1, <1>3, <1>4, <1>7, <1>10, <1>11, <1>13, <1>14, AloneKept, KnownKept, MarksKept,
     FreshKept, SourcesKept DEF Deep, Safe

LEMMA DiscardedSafe ==
    ASSUME Safe, Discarded
    PROVE  Deep' /\ Standing'
<1>1. UNCHANGED <<disk, staged, zip, row, mark, op, queue>> /\ End
  BY DEF Discarded
<1> QED
  BY <1>1, EndStanding, SameJobs, QuietDeep

-----------------------------------------------------------------------------
\* What is pending decides which operations are live and which are busy.
LEMMA PendingShrinks ==
    ASSUME \A o \in Op : o \in Unfinished' => o \in Live,
           \A j \in Pending' : j.kind = "archive" => j.op \in Live,
           \A j \in Pending' : j.kind = "restore" => j.op \in Busy
    PROVE  Live' \subseteq Live /\ Busy' \subseteq Busy
<1>1. Live \subseteq Busy
  BY DEF Live, Busy
<1> QED
  BY <1>1 DEF Live, Busy

LEMMA TakeSafe ==
    ASSUME Safe, Take
    PROVE  Deep' /\ Standing'
<1> PICK j : j = Head(queue)
  OBVIOUS
<1>1. /\ j \in Waiting /\ j.op \in Started /\ 1 \in DOMAIN queue /\ j = queue[1]
      /\ \A i \in DOMAIN queue' : i + 1 \in DOMAIN queue /\ queue'[i] = queue[i + 1]
      /\ UNCHANGED <<disk, staged, zip, row, mark>>
  BY FirstWaiting DEF Safe, Shape, Take
<1>2. j.op \in Op /\ op[j.op] \in OpRec /\ j.kind \in {"archive", "rollback", "restore"} /\ op \in [Op -> OpRec]
  BY <1>1, WaitingType DEF Started, Safe, Shape, Tables
<1>3. Files(j.op) \in SUBSET (Frame \cup Path) /\ {} \in SUBSET (Frame \cup Path)
  BY <1>2, ManifestType DEF OpRec, Files
<1>4. j \in Pending
  BY <1>1 DEF Pending
<1>5. ASSUME job'.kind = j.kind, job'.op = j.op, SameOps,
             \A u \in Op : op'[u].status = op[u].status \/ (u = j.op /\ j.kind = "archive" /\ op'[u].status = "open"),
             \A u \in Op : /\ op'[u].published = op[u].published /\ op'[u].verified = op[u].verified
                           /\ op'[u].deleting = op[u].deleting
      PROVE  Deep'
  <2>1. \A k \in Pending' : \E i \in Pending : k.kind = i.kind /\ k.op = i.op
    BY <1>1, <1>4, <1>5 DEF Pending
  <2>2. Unfinished \subseteq Unfinished'
    BY <1>5 DEF Unfinished
  <2>3. \A o \in Op : o \in Unfinished' => o \in Live
    BY <1>4, <1>5 DEF Unfinished, Live
  <2>4. Live' \subseteq Live /\ Busy' \subseteq Busy
    <3>1. \A k \in Pending' : k.kind = "archive" => k.op \in Op /\ k.op \in Live
      <4>1. \A i \in Pending : i.kind = "archive" => i.op \in Op
        <5>1. job = NoJob /\ NoJob.kind = "none"
          BY DEF Take, NoJob
        <5>2. \A i \in DOMAIN queue : queue[i].op \in Op
          BY DEF Safe, Shape, Tables, Numbered, Started
        <5> QED
          BY <5>1, <5>2 DEF Pending
      <4> QED
        BY <2>1, <4>1 DEF Live
    <3>2. \A k \in Pending' : k.kind = "restore" => k.op \in Busy
      <4>1. \A i \in Pending : i.kind = "restore" => i.op \in Op
        <5>1. job = NoJob /\ NoJob.kind = "none"
          BY DEF Take, NoJob
        <5>2. \A i \in DOMAIN queue : queue[i].op \in Op
          BY DEF Safe, Shape, Tables, Numbered, Started
        <5> QED
          BY <5>1, <5>2 DEF Pending
      <4> QED
        BY <2>1, <4>1 DEF Busy
    <3> QED
      BY <2>3, <3>1, <3>2, PendingShrinks
  <2> QED
    BY <1>1, <1>5, <2>2, <2>4, Calm DEF Safe
<1>6. CASE /\ j.kind = "archive" /\ job' = [j EXCEPT !.pc = "copy", !.todo = Files(j.op)]
           /\ op' = [op EXCEPT ![j.op].status = "open"]
  <2>1. /\ op' \in [Op -> OpRec] /\ op'[j.op].status = "open"
        /\ \A u \in Op : /\ op'[u].to = op[u].to /\ op'[u].set = op[u].set
                         /\ op'[u].verified = op[u].verified
                         /\ op'[u].published = op[u].published /\ op'[u].deleting = op[u].deleting
                         /\ (op'[u].status = "none" <=> op[u].status = "none")
                         /\ op'[u].status = op[u].status \/ u = j.op
    BY <1>1, <1>2, <1>6 DEF OpRec, Statuses, Started
  <2>2. SameOps
    BY <2>1 DEF SameOps, Started, Files, Zips, Group
  <2>3. "copy" \in Labels
    BY DEF Labels, Ahead
  <2>4. job'.pc = "copy" /\ job'.kind = j.kind /\ job'.op = j.op
    BY <1>1, <1>3, <1>6, <2>3, TakeMoves, Zenon
  <2> QED
    BY <1>5, <1>6, <2>1, <2>2, <2>4, Unclaimed
<1>7. ASSUME NEW pc \in {"rollback", "preflight"}, job' = [j EXCEPT !.pc = pc], UNCHANGED op
      PROVE  Deep' /\ Standing'
  <2>1. SameOps
    BY <1>2, <1>7, UnchangedSame
  <2>2. pc \in Labels
    BY DEF Labels, Out
  <2>3. job'.pc = pc /\ job'.kind = j.kind /\ job'.op = j.op
    BY <1>1, <1>3, <1>7, <2>2, TakeMoves, Zenon
  <2> QED
    BY <1>5, <1>7, <2>1, <2>3, Unclaimed
<1>8. CASE j.kind = "archive"
  BY <1>6, <1>8 DEF Take
<1>9. CASE j.kind = "rollback"
  BY <1>7, <1>9 DEF Take
<1>10. CASE j.kind = "restore"
  BY <1>7, <1>10 DEF Take
<1> QED
  BY <1>2, <1>8, <1>9, <1>10

\* With the job where it is, what its phase claims stays true.
LEMMA StandingKept ==
    ASSUME Safe, UNCHANGED <<disk, staged, zip, row, mark, op>>, Me' = Me,
           job'.pc = job.pc, job'.todo = job.todo, job'.cur = job.cur, job'.bad = job.bad
    PROVE  Standing'
<1>1. Files(Me)' = Files(Me)
  BY DEF Files
<1> QED
  BY <1>1, InZipKept DEF Safe, Standing

LEMMA ResumeSafe ==
    ASSUME Safe, NEW o \in Op, Resume(o) \/ Rollback(o)
    PROVE  Deep' /\ Standing'
<1>1. o \in Unfinished /\ UNCHANGED <<disk, staged, zip, row, mark, op, job>> /\ Me' = Me
  BY DEF Resume, Rollback, Me
<1> PICK kind \in {"archive", "rollback"} : Enqueue(kind, o, FALSE)
  BY DEF Resume, Rollback
<1>2. \A i \in DOMAIN queue' : \/ i \in DOMAIN queue /\ queue'[i] = queue[i]
                               \/ queue'[i].op = o /\ queue'[i].kind = kind
  BY Enqueued DEF Safe, Shape
<1>3. SameOps /\ Unfinished' = Unfinished
  BY <1>1, UnchangedSame DEF Safe, Shape, Tables, Unfinished
<1>4. \A k \in Pending' : k \in Pending \/ (k.op = o /\ k.kind = kind)
  BY <1>1, <1>2 DEF Pending
<1>5. Live' \subseteq Live /\ Busy' \subseteq Busy
  BY <1>1, <1>3, <1>4 DEF Live, Busy
<1> QED
  BY <1>1, <1>3, <1>5, Calm, StandingKept DEF Safe

LEMMA UnarchiveSafe ==
    ASSUME Safe, NEW s \in FrameSet, NEW keep \in BOOLEAN, Unarchive(s, keep)
    PROVE  Deep' /\ Standing'
<1>1. mark[s] # 0 /\ UNCHANGED <<disk, staged, zip, row, mark, op, job>> /\ Me' = Me
  BY DEF Unarchive, Me
<1>2. mark[s] \in Started /\ mark[s] \in Op
  BY <1>1 DEF Safe, Shape, Tables, Numbered, Started
<1>3. \A i \in DOMAIN queue' : \/ i \in DOMAIN queue /\ queue'[i] = queue[i]
                               \/ queue'[i].op = mark[s] /\ queue'[i].kind = "restore"
  <2>1. Enqueue("restore", mark[s], keep)
    BY DEF Unarchive
  <2> QED
    BY <1>2, <2>1, Enqueued DEF Safe, Shape
<1>4. SameOps /\ Unfinished' = Unfinished
  BY <1>1, UnchangedSame DEF Safe, Shape, Tables, Unfinished
<1>5. \A k \in Pending' : k \in Pending \/ (k.op = mark[s] /\ k.kind = "restore")
  BY <1>1, <1>3 DEF Pending
<1>6. Live' \subseteq Live
  BY <1>4, <1>5 DEF Live
<1>7. \A o \in Busy' : o \in Busy \/ o = mark[s]
  BY <1>4, <1>5 DEF Busy
<1>8. Marks'
  <2>1. \A t \in FrameSet : mark[t] # 0 => mark[t] \in Op
    BY DEF Safe, Shape, Tables
  <2>2. op[mark[s]].set = s
    BY <1>1 DEF Safe, Deep, Marks
  <2> QED
    BY <1>1, <1>2, <1>4, <1>7, <2>1, <2>2, BusyStarted DEF Safe, Deep, Marks, SameOps
<1>9. Standing'
  BY <1>1, StandingKept
<1> QED
  BY <1>1, <1>4, <1>6, <1>8, <1>9, AloneKept, KnownKept, FreshKept,
     WholeKept, SourcesKept, RowsHoldKept, OwnKept, KeptKept DEF Deep, Safe

LEMMA CancelSafe ==
    ASSUME Safe, NEW o \in Op, Cancel(o)
    PROVE  Deep' /\ Standing'
<1>1. /\ Me' = Me /\ job'.kind = job.kind /\ job'.op = job.op
      /\ DOMAIN queue' = DOMAIN queue
      /\ \A i \in DOMAIN queue : queue'[i].kind = queue[i].kind /\ queue'[i].op = queue[i].op
      /\ UNCHANGED <<disk, staged, zip, row, mark, op>>
  BY CancelEffect DEF Safe, Me
<1>2. SameOps /\ Unfinished' = Unfinished
  BY <1>1, UnchangedSame DEF Safe, Shape, Tables, Unfinished
<1>3. \A k \in Pending' : \E j \in Pending : k.kind = j.kind /\ k.op = j.op
  BY <1>1 DEF Pending
<1>4. Live' \subseteq Live /\ Busy' \subseteq Busy
  BY <1>2, <1>3 DEF Live, Busy
<1>5. Standing'
  BY <1>1, CancelEffect, StandingKept DEF Safe
<1> QED
  BY <1>1, <1>2, <1>4, <1>5, Calm DEF Safe

LEMMA CrashSafe ==
    ASSUME Safe, Crash
    PROVE  Deep' /\ Standing'
<1>1. /\ job' = NoJob /\ NoJob.kind = "none" /\ DOMAIN queue' = {} /\ End
      /\ UNCHANGED <<disk, staged, zip, row, mark, op>>
  BY DEF Crash, NoJob, End
<1>2. SameOps /\ Unfinished' = Unfinished
  BY <1>1, UnchangedSame DEF Safe, Shape, Tables, Unfinished
<1>3. \A k \in Pending' : k.kind = "none"
  BY <1>1 DEF Pending
<1>4. Live' \subseteq Live /\ Busy' \subseteq Busy
  BY <1>2, <1>3 DEF Live, Busy
<1> QED
  BY <1>1, <1>2, <1>4, Calm, EndStanding DEF Safe

LEMMA StartSafe ==
    ASSUME Safe, Guarded, NEW s \in FrameSet, NEW flag \in BOOLEAN, Start(s, flag)
    PROVE  Deep' /\ Standing'
<1>1. /\ Unfinished = {} /\ Pending = {NoJob} /\ mark[s] = 0 /\ build_plan(s) \subseteq disk
  BY DEF Start, Plannable
<1> PICK o \in Op, to \in Manifest :
              /\ o \notin Started /\ Started' = Started \cup {o}
              /\ DOMAIN to = build_plan(s)
              /\ build_plan(s) \subseteq Member[s] /\ build_plan(s) \subseteq Frame
              /\ \A f \in build_plan(s) : to[f] \in Path /\ to[f][1] = Base[f]
              /\ op'[o] = [NoOp EXCEPT !.status = "open", !.set = s, !.to = to]
              /\ \A u \in Op : u # o => op'[u] = op[u]
              /\ Enqueue("archive", o, FALSE)
              /\ UNCHANGED <<disk, staged, zip, row, mark, job>>
  BY StartEffect DEF Safe, Shape
<1>2. /\ op'[o].set = s /\ op'[o].to = to /\ op'[o].verified = {} /\ op'[o].published = {}
      /\ Files(o)' = build_plan(s) /\ op'[o].status = "open"
  BY DEF NoOp, Files
<1>3. \A u \in Started : u \in Op /\ u # o /\ op'[u] = op[u] /\ Files(u)' = Files(u)
  BY DEF Started, Files
<1>4. job = NoJob /\ NoJob.kind = "none" /\ \A i \in DOMAIN queue : queue[i].kind = "none"
  BY <1>1 DEF Pending, NoJob
<1>5. \A i \in DOMAIN queue' : \/ i \in DOMAIN queue /\ queue'[i] = queue[i]
                               \/ queue'[i].op = o /\ queue'[i].kind = "archive"
  BY Enqueued DEF Safe, Shape
<1>6. \A k \in Pending' : k.kind # "none" => k.op = o
  BY <1>4, <1>5 DEF Pending
<1>7. \A u \in Unfinished' : u = o
  BY <1>1 DEF Unfinished
<1>8. \A u \in Busy' \cup Live' : u = o
  BY <1>6, <1>7 DEF Busy, Live
<1>9. \A t \in FrameSet : mark[t] # 0 => mark[t] \in Started
  BY DEF Safe, Shape, Tables, Numbered
<1>10. Alone'
  BY <1>8 DEF Alone
<1>11. Known'
  <2>1. Known /\ Started' = Started \cup {o} /\ s \in FrameSet
    BY DEF Safe, Deep
  <2>2. /\ build_plan(s) \subseteq Member[s]
        /\ \A f \in build_plan(s) : to[f] \in Path /\ to[f][1] = Base[f]
    OBVIOUS
  <2>3. \A u \in Started : op'[u] = op[u] /\ Files(u)' = Files(u)
    BY <1>3
  <2> QED
    BY ONLY <1>2, <2>1, <2>2, <2>3 DEF Known
<1>12. Marks'
  <2>1. Marks /\ mark' = mark /\ s \in FrameSet
    BY DEF Safe, Deep
  <2>2. \A t \in FrameSet : mark[t] # 0 => op'[mark[t]] = op[mark[t]]
    BY <1>3, <1>9
  <2>3. mark[s] = 0
    BY <1>1
  <2> QED
    BY ONLY <1>2, <1>8, <2>1, <2>2, <2>3 DEF Marks
<1>13. Fresh'
  <2>1. Fresh /\ staged' = staged
    BY DEF Safe, Deep
  <2>2. \A u \in Op : op'[u].verified \subseteq op[u].verified
    <3>1. \A u \in Op : u # o => op'[u] = op[u]
      OBVIOUS
    <3> QED
      BY ONLY <1>2, <3>1
  <2> QED
    BY ONLY <2>1, <2>2 DEF Fresh
<1>14. Whole'
  BY WholeKept DEF Safe
<1>15. Sources'
  BY <1>1, <1>2, <1>8 DEF Safe, Deep, Sources
<1>16. RowsHold'
  BY <1>1, <1>3, <1>9, InZipKept DEF Safe, Deep, RowsHold
<1>17. Own'
  BY <1>2, <1>8 DEF Own
<1>18. Kept'
  BY <1>1, InZipKept DEF Safe, Deep, Kept
<1>19. Standing'
  <2>1. job'.pc = "idle"
    BY <1>4 DEF NoJob
  <2> QED
    BY <2>1, Unclaimed
<1> QED
  BY <1>10, <1>11, <1>12, <1>13, <1>14, <1>15, <1>16, <1>17, <1>18, <1>19 DEF Deep

LEMMA StutterSafe ==
    ASSUME Safe, UNCHANGED vars
    PROVE  Deep' /\ Standing'
<1>1. UNCHANGED <<disk, staged, zip, row, mark, op, queue, job>> /\ Me' = Me
  BY DEF vars, Me
<1> QED
  BY <1>1, QuietDeep, StandingKept DEF SameJob

LEMMA InitSafe == Init => Safe
<1> SUFFICES ASSUME Init PROVE Safe
  OBVIOUS
<1>1. Shape /\ job = NoJob /\ NoJob.kind = "none" /\ job.pc = "idle" /\ DOMAIN queue = {}
  BY InitShape DEF Init, NoJob
<1>2. \A o \in Op : op[o] = NoOp /\ op[o].status = "none" /\ op[o].verified = {}
  BY DEF Init, NoOp
<1>3. Started = {} /\ Unfinished = {}
  BY <1>2 DEF Started, Unfinished
<1>4. Live = {} /\ Busy = {}
  BY <1>1, <1>3 DEF Live, Busy, Pending
<1>5. /\ disk = Frame /\ \A p \in Path : zip[p] = NoZip
      /\ \A f \in Frame : row[f] = NoPath
      /\ \A s \in FrameSet : mark[s] = 0
  BY DEF Init
<1>6. Deep
  BY <1>2, <1>3, <1>4, <1>5
  DEF Deep, Alone, Known, Marks, Fresh, Whole, Sources, RowsHold, Own, Kept
<1>7. Standing
  BY <1>1 DEF Standing
<1> QED
  BY <1>1, <1>6, <1>7 DEF Safe

LEMMA StepSafe ==
    ASSUME Guarded, NamesApart, Safe, [Next]_vars
    PROVE  Safe'
<1> SUFFICES Deep' /\ Standing'
  BY StepShape DEF Safe
<1>1. CASE Work
  <2>1. ASSUME NEW f \in Frame,
               \/ Copy(f) \/ Verify(f) \/ DeleteSource(f) \/ MarkFile(f) \/ CleanFile(f)
               \/ ReturnSource(f) \/ UnmarkFile(f) \/ Extract(f) \/ ReleaseFile(f)
        PROVE  Deep' /\ Standing'
    BY <2>1, CopySafe, VerifySafe, DeleteSourceSafe, MarkFileSafe, CleanFileSafe,
       ReturnSourceSafe, UnmarkFileSafe, ExtractSafe, ReleaseFileSafe
  <2>2. ASSUME NEW p \in Path, BuildZip(p) \/ CheckZip(p) \/ DropZip(p) \/ DiscardZip(p)
        PROVE  Deep' /\ Standing'
    BY <2>2, BuildZipSafe, CheckZipSafe, DropZipSafe, DiscardZipSafe
  <2> QED
    BY <1>1, <2>1, <2>2, TakeSafe, NoticeSafe, AdvanceSafe, CopyEndsSafe,
       RecordPublishSafe, RecordAddedSafe, RemoveSourceSafe, RecordDeletedSafe,
       FinalizeSafe, MarkSetSafe, CompleteSafe, RollbackBeginsSafe, UnmarkSetSafe,
       RolledBackSafe, PreflightSafe, ExtractedSafe, ReleaseSetSafe, DiscardedSafe
    DEF Work
<1>2. CASE User
  BY <1>2, StartSafe, UnarchiveSafe, ResumeSafe, CancelSafe DEF User
<1> QED
  BY <1>1, <1>2, CrashSafe, StutterSafe DEF Next

LEMMA SafeAlways ==
    ASSUME Guarded, NamesApart
    PROVE  Spec => []Safe
<1>1. Safe /\ [Next]_vars => Safe'
  BY StepSafe
<1> QED
  BY InitSafe, <1>1, PTL DEF Spec

-----------------------------------------------------------------------------
\* No frame is lost by any mix of failures, cancellations, kills, resumed
\* runs, rollbacks and restores, if nothing is started before the last
\* operation ended and no two sets share a name (executor.rs
\* delete_sources_phase, rollback.rs, restore.rs).
THEOREM NoFrameIsLost ==
    ASSUME Guarded, NamesApart
    PROVE  Spec => []FramesKept
<1>1. Safe => FramesKept
  <2> SUFFICES ASSUME Safe, NEW f \in Frame
               PROVE  \/ f \in disk
                      \/ \E p \in Path : InZip(f, p)
                      \/ \E o \in Unfinished : staged[o][f] = "whole"
    BY DEF FramesKept
  <2>1. \A p : InZip(f, p) => p \in Path
    BY DEF InZip
  <2> QED
    BY <2>1 DEF Safe, Deep, Kept
<1> QED
  BY <1>1, SafeAlways, PTL

\* When no job runs, the catalog tells where every frame is that no
\* unfinished operation has (finalize_phase, rollback.rs, restore.rs).
THEOREM CatalogIsTrue ==
    ASSUME Guarded, NamesApart
    PROVE  Spec => []CatalogFinds
<1>1. Safe => CatalogFinds
  <2> SUFFICES ASSUME Safe, NEW f \in Frame, \A o \in Unfinished : f \notin Files(o)
               PROVE  \/ row[f] = NoPath /\ f \in disk
                      \/ InZip(f, row[f]) /\ \E s \in FrameSet : mark[s] # 0 /\ f \in Files(mark[s])
    BY DEF CatalogFinds
  <2> QED
    BY DEF Safe, Deep, Kept, RowsHold
<1> QED
  BY <1>1, SafeAlways, PTL

\* A rollback removes only zips that its own operation built (rollback.rs).
THEOREM RollbackSparesOthers ==
    ASSUME Guarded, NamesApart
    PROVE  Spec => ForeignZipsKept
<1>1. ASSUME Safe, [Next]_vars
      PROVE  [\A p \in Path :
                (job.pc = "drop" /\ zip[p] # NoZip /\ zip'[p] = NoZip) => zip[p].by = Me]_vars
  <2> SUFFICES ASSUME NEW p \in Path, job.pc = "drop", zip[p] # NoZip, zip'[p] = NoZip
               PROVE  zip[p].by = Me
    OBVIOUS
  <2>1. zip' # zip
    OBVIOUS
  <2>2. \E q \in Path : DropZip(q)
    <3>1. CASE Work
      BY <2>1, <3>1 DEF Work, Take, NoticeCancel, Advance, Copy, Verify, DeleteSource, MarkFile,
         CleanFile, ReturnSource, UnmarkFile, Extract, ReleaseFile, BuildZip, CheckZip, DiscardZip,
         CopyEnds, RecordPublish, RecordAdded, RemoveSource, RecordDeleted, Finalize, MarkSet,
         Complete, RollbackBegins, UnmarkSet, RolledBack, Preflight, Extracted, ReleaseSet,
         Discarded, ZipItem, ZipTurn
    <3>2. zip' = zip \/ Work
      BY <1>1 DEF Next, User, Start, Unarchive, Resume, Rollback, Cancel, Crash, vars
    <3> QED
      BY <2>1, <3>1, <3>2
  <2>3. PICK q \in Path : DropZip(q)
    BY <2>2
  <2>4. p \in job.pub
    <3>1. zip = [r \in Path |-> zip[r]]
      BY <1>1 DEF Safe, Shape, Tables, ZipType
    <3> QED
      BY <2>1, <2>3, <3>1 DEF DropZip
  <2>5. job.pc \in Ahead \cup Back /\ job.pub \subseteq op[Me].published
    BY <1>1 DEF Back, Safe, Shape, Doing
  <2> QED
    BY <1>1, <2>4, <2>5, Mine DEF Safe, Deep, Own
<1> QED
  BY <1>1, SafeAlways, PTL DEF Spec, ForeignZipsKept
=============================================================================
