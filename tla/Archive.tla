------------------------------ MODULE Archive ------------------------------
(***************************************************************************)
(* Frame sets moved into zips and back: the plan, the executor, the        *)
(* rollback, the resumed run and the restore of                            *)
(* crates/athenaeum-core/src/archive/, driven by the requests of the       *)
(* hosts' archive routes through the operation queue, one job at a time.   *)
(*                                                                         *)
(* The catalog and the step log are in the database, a write at a time;    *)
(* the files are on disk.  A kill may come between any two of these        *)
(* writes, and what a later run knows is what the log says.                *)
(*                                                                         *)
(* A source file is in place or not, since no other program writes here.   *)
(* A copy of it, in the staging directory or in a zip, is torn or whole.   *)
(***************************************************************************)
EXTENDS Naturals, FiniteSets, Sequences, FiniteSetsExt

CONSTANTS
    FrameSet,   \* the frame sets
    Member,     \* the frames each of them would archive
    Light,      \* the frames that are lights, which are always moved
    Moved,      \* the frames whose source is removed; the others are copied
    Base,       \* the name of the zip a frame goes to
    Guarded,    \* a set is started only when nothing is unfinished
    MaxOps,     \* bounds: operations ever started,
    MaxSuffix,  \* numbered names of a zip,
    MaxQueue,   \* jobs that wait,
    MaxTrouble  \* failures, cancellations and kills

Frame == UNION {Member[s] : s \in FrameSet}    \* by their numbers

ASSUME ArchiveAssumption ==
    /\ Member \in [FrameSet -> SUBSET Nat] /\ DOMAIN Base = Frame
    /\ Light \subseteq Moved /\ Moved \subseteq Frame
    /\ Guarded \in BOOLEAN
    /\ {MaxOps, MaxQueue, MaxTrouble} \subseteq Nat /\ MaxSuffix \in Nat \ {0}

VARIABLES
    disk,       \* the frames whose source file is in place
    staged,     \* the copies in the staging directory of each operation
    zip,        \* the zip at each path: who built it and what it holds
    row,        \* the zip that the catalog row of each frame names
    mark,       \* the operation that zipped each set, 0 for none
    op,         \* the operations, with their manifests and step logs
    queue,      \* the jobs that wait for the worker
    job,        \* the job it runs
    trouble     \* the failures, cancellations and kills so far

vars == <<disk, staged, zip, row, mark, op, queue, job, trouble>>

-----------------------------------------------------------------------------
Op == 1 .. MaxOps
Path == {Base[f] : f \in Frame} \X (1 .. MaxSuffix)
NoPath == <<>>
NoZip == [by |-> 0, has |-> <<>>]

\* `deleting` has the frames with a delete_source step in any status.
NoOp == [status |-> "none", set |-> "none", to |-> <<>>, copied |-> {}, verified |-> {},
         zipped |-> {}, published |-> {}, deleting |-> {}, deleted |-> {}]

NoJob == [kind |-> "none", op |-> 0, keep |-> FALSE, cancel |-> FALSE,
          pc |-> "idle", todo |-> {}, cur |-> NoPath, pub |-> {}, bad |-> {}]

Started == {o \in Op : op[o].status # "none"}
Unfinished == {o \in Op : op[o].status \in {"open", "rolling_back"}}
Files(o) == DOMAIN op[o].to
Zips(o) == {op[o].to[f] : f \in Files(o)}
Group(o, p) == {f \in Files(o) : op[o].to[f] = p}

Pending == {job} \cup {queue[i] : i \in DOMAIN queue}
Forward(o) == {j \in Pending : j.op = o /\ j.kind \in {"archive", "restore"}}

Init ==
    /\ disk = Frame
    /\ staged = [o \in Op |-> [f \in Frame |-> "none"]]
    /\ zip = [p \in Path |-> NoZip]
    /\ row = [f \in Frame |-> NoPath]
    /\ mark = [s \in FrameSet |-> 0]
    /\ op = [o \in Op |-> NoOp]
    /\ queue = <<>> /\ job = NoJob
    /\ trouble = 0

Trouble == trouble < MaxTrouble /\ trouble' = trouble + 1

-----------------------------------------------------------------------------
(***************************************************************************)
(* The requests.                                                           *)
(***************************************************************************)
Enqueue(kind, o, keep) ==
    /\ Len(queue) < MaxQueue
    /\ queue' = Append(queue, [NoJob EXCEPT !.kind = kind, !.op = o, !.keep = keep])

ensure_zip_holds_no_cataloged_frames(p) ==
    zip[p] = NoZip \/ \A f \in Frame : row[f] # p

\* The first name that is free: the bare one, then (2), (3) and so on.
Unused(b) == {n \in 1 .. MaxSuffix : zip[<<b, n>>] = NoZip}

\* Frames that live in a zip are left out of the plan.
build_plan(s) == {f \in Member[s] : row[f] = NoPath}

\* The set is not zipped yet, lights are left, and every source is there.
Plannable(s) ==
    /\ mark[s] = 0
    /\ build_plan(s) \cap Light # {}
    /\ build_plan(s) \subseteq disk

\* commit_plan: the zip of an older archive is replaced, or avoided with a
\* suffix.  The user has put the set into the Archive section before.
Start(s, addSuffix) ==
    LET to == [f \in build_plan(s) |->
                 <<Base[f], IF addSuffix THEN Min(Unused(Base[f])) ELSE 1>>]
        o == Cardinality(Started) + 1
    IN  /\ Guarded => Unfinished = {} /\ Pending = {NoJob}
        /\ o \in Op
        /\ Plannable(s)
        /\ addSuffix => \A f \in build_plan(s) : Unused(Base[f]) # {}
        /\ \A f \in build_plan(s) : ensure_zip_holds_no_cataloged_frames(to[f])
        /\ op' = [op EXCEPT ![o] = [NoOp EXCEPT !.status = "open", !.set = s, !.to = to]]
        /\ Enqueue("archive", o, FALSE)
        /\ UNCHANGED <<disk, staged, zip, row, mark, job, trouble>>

\* Both are offered for every unfinished operation.  At most one forward job
\* of an operation is pending here, so that its cancel flag is the one in
\* active_archives.
Resume(o) ==
    /\ o \in Unfinished /\ Forward(o) = {}
    /\ Enqueue("archive", o, FALSE)
    /\ UNCHANGED <<disk, staged, zip, row, mark, op, job, trouble>>

Rollback(o) ==
    /\ o \in Unfinished
    /\ \A j \in Pending : ~(j.op = o /\ j.kind = "rollback")
    /\ Enqueue("rollback", o, FALSE)
    /\ UNCHANGED <<disk, staged, zip, row, mark, op, job, trouble>>

\* Unarchive, offered for a zipped set when no archive is active.
Unarchive(s, keep) ==
    /\ mark[s] # 0
    /\ \A o \in Op : Forward(o) = {}
    /\ Enqueue("restore", mark[s], keep)
    /\ UNCHANGED <<disk, staged, zip, row, mark, op, job, trouble>>

Cancel(o) ==
    LET stop(j) == [j EXCEPT !.cancel = @ \/ j \in Forward(o)]
    IN  /\ Trouble
        /\ \E j \in Forward(o) : ~j.cancel
        /\ job' = stop(job) /\ queue' = [i \in DOMAIN queue |-> stop(queue[i])]
        /\ UNCHANGED <<disk, staged, zip, row, mark, op>>

-----------------------------------------------------------------------------
(***************************************************************************)
(* The job at the worker.                                                  *)
(***************************************************************************)
Me == job.op
Go(pc, todo) == job' = [job EXCEPT !.pc = pc, !.todo = todo, !.cur = NoPath]
At(pc, x) == job' = [job EXCEPT !.pc = pc, !.cur = x]
Continue(pc, x) == Go(pc, job.todo \ {x})
End == job' = NoJob

\* run_operation returned an error: fail_and_roll_back.
Fail == Go("rollback", {})

Log(field, S) == op' = [op EXCEPT ![Me][field] = @ \cup S]
Status(s) == op' = [op EXCEPT ![Me].status = s]

\* Every phase takes the files in the order of the manifest, the zips in any.
\* The planner collects a manifest in a hash map, in no known order: the
\* numbers of the frames stand for their places in it.
Turn(pc, f) == job.pc = pc /\ job.todo # {} /\ f = Min(job.todo)
ZipTurn(pc, p) == job.pc = pc /\ p \in job.todo

\* check_cancel comes first in every iteration.
Item(pc, f) == Turn(pc, f) /\ ~job.cancel
ZipItem(pc, p) == ZipTurn(pc, p) /\ ~job.cancel

Take ==
    /\ job = NoJob /\ queue # <<>>
    /\ queue' = Tail(queue)
    /\ LET j == Head(queue)
       IN  CASE j.kind = "archive" ->
                  /\ job' = [j EXCEPT !.pc = "copy", !.todo = Files(j.op)]
                  /\ op' = [op EXCEPT ![j.op].status = "open"]
             [] j.kind = "rollback" ->
                  job' = [j EXCEPT !.pc = "rollback"] /\ UNCHANGED op
             [] j.kind = "restore" ->
                  job' = [j EXCEPT !.pc = "preflight"] /\ UNCHANGED op
    /\ UNCHANGED <<disk, staged, zip, row, mark, trouble>>

NoticeCancel ==
    /\ job.cancel /\ job.todo # {}
    /\ \/ job.pc \in {"copy", "verify", "zip", "check", "delete"} /\ Fail
       \/ job.pc = "extract" /\ End
    /\ UNCHANGED <<disk, staged, zip, row, mark, op, queue, trouble>>

\* A phase whose items are done is followed by the next one.
Advance ==
    /\ job.todo = {}
    /\ \/ job.pc = "copy" /\ Go("verify", Files(Me))
       \/ job.pc = "verify" /\ Go("zip", Zips(Me))
       \/ job.pc = "zip" /\ Go("check", Zips(Me))
       \/ job.pc = "check" /\ Go("delete", Files(Me))
       \/ job.pc = "delete" /\ Go("finalize", {})
       \/ job.pc = "return" /\ Go("drop", Zips(Me))
       \/ job.pc = "drop" /\ Go("clean", {})
    /\ UNCHANGED <<disk, staged, zip, row, mark, op, queue, trouble>>

-----------------------------------------------------------------------------
(***************************************************************************)
(* The forward operation.  A step the log has as done is skipped.          *)
(***************************************************************************)
Copy(f) ==
    /\ Item("copy", f)
    /\ IF f \in op[Me].copied THEN Continue("copy", f) /\ UNCHANGED staged
       ELSE IF f \notin disk THEN Fail /\ UNCHANGED staged
       ELSE At("copying", f) /\ staged' = [staged EXCEPT ![Me][f] = "torn"]
    /\ UNCHANGED <<disk, zip, row, mark, op, queue, trouble>>

\* The copy ends well, with an error, or with bytes that are not the source's.
CopyEnds ==
    /\ job.pc = "copying"
    /\ \/ /\ Continue("copy", job.cur) /\ Log("copied", {job.cur})
          /\ staged' = [staged EXCEPT ![Me][job.cur] = "whole"]
          /\ UNCHANGED trouble
       \/ Trouble /\ Fail /\ UNCHANGED <<staged, op>>
       \/ Trouble /\ Continue("copy", job.cur) /\ Log("copied", {job.cur}) /\ UNCHANGED staged
    /\ UNCHANGED <<disk, zip, row, mark, queue>>

\* Mutant: the staged file is hashed again although the log has it verified.
Verify_Again(f) ==
    /\ Item("verify", f)
    /\ IF staged[Me][f] = "whole"
         THEN Continue("verify", f) /\ Log("verified", {f}) ELSE Fail /\ UNCHANGED op
    /\ UNCHANGED <<disk, staged, zip, row, mark, queue, trouble>>

Verify(f) ==
    /\ Item("verify", f)
    /\ IF f \in op[Me].verified \/ staged[Me][f] = "whole"
         THEN Continue("verify", f) /\ Log("verified", {f}) ELSE Fail /\ UNCHANGED op
    /\ UNCHANGED <<disk, staged, zip, row, mark, queue, trouble>>

\* Mutant: what staging does not have is left out of the zip.
BuildZip_Skipping(p) ==
    LET has == {f \in Group(Me, p) : staged[Me][f] # "none"} IN
    /\ ZipItem("zip", p)
    /\ IF Group(Me, p) \subseteq op[Me].zipped THEN Continue("zip", p) /\ UNCHANGED zip
       ELSE IF ~ensure_zip_holds_no_cataloged_frames(p) THEN Fail /\ UNCHANGED zip
       ELSE /\ At("publish", p)
            /\ zip' = [zip EXCEPT ![p] = [by |-> Me, has |-> [f \in has |-> staged[Me][f]]]]
    /\ UNCHANGED <<disk, staged, row, mark, op, queue, trouble>>

\* Built beside the target and renamed onto it, so that a build that fails
\* leaves the target as it was.
BuildZip(p) ==
    LET group == Group(Me, p)
        built == [by |-> Me, has |-> [f \in group |-> staged[Me][f]]]
        refused == \/ ~ensure_zip_holds_no_cataloged_frames(p)
                   \/ \E f \in group : staged[Me][f] = "none"
    IN  /\ ZipItem("zip", p)
        /\ \/ group \subseteq op[Me].zipped /\ Continue("zip", p) /\ UNCHANGED <<zip, trouble>>
           \/ /\ ~(group \subseteq op[Me].zipped)
              /\ \/ refused /\ Fail /\ UNCHANGED <<zip, trouble>>
                 \/ ~refused /\ Trouble /\ Fail /\ UNCHANGED zip
                 \/ /\ ~refused /\ At("publish", p)
                    /\ zip' = [zip EXCEPT ![p] = built] /\ UNCHANGED trouble
        /\ UNCHANGED <<disk, staged, row, mark, op, queue>>

RecordPublish ==
    /\ job.pc = "publish"
    /\ At("added", job.cur) /\ Log("published", {job.cur})
    /\ UNCHANGED <<disk, staged, zip, row, mark, queue, trouble>>

\* The zip_add steps become done one by one; a run that finds only some of
\* them done builds the zip again, as if there were none.
RecordAdded ==
    /\ job.pc = "added"
    /\ Continue("zip", job.cur) /\ Log("zipped", Group(Me, job.cur))
    /\ UNCHANGED <<disk, staged, zip, row, mark, queue, trouble>>

\* The zip is there, with exactly the names expected.
CheckZip(p) ==
    /\ ZipItem("check", p)
    /\ IF zip[p] # NoZip /\ DOMAIN zip[p].has = Group(Me, p) THEN Continue("check", p) ELSE Fail
    /\ UNCHANGED <<disk, staged, zip, row, mark, op, queue, trouble>>

DeleteSource(f) ==
    /\ Item("delete", f)
    /\ IF f \in op[Me].deleted THEN Continue("delete", f) /\ UNCHANGED op
       ELSE IF f \in Moved THEN At("deleting", f) /\ Log("deleting", {f})
       ELSE /\ Continue("delete", f)
            /\ op' = [op EXCEPT ![Me].deleting = @ \cup {f}, ![Me].deleted = @ \cup {f}]
    /\ UNCHANGED <<disk, staged, zip, row, mark, queue, trouble>>

RemoveSource ==
    /\ job.pc = "deleting"
    /\ \/ disk' = disk \ {job.cur} /\ At("deleted", job.cur) /\ UNCHANGED trouble
       \/ job.cur \in disk /\ Trouble /\ Fail /\ UNCHANGED disk
    /\ UNCHANGED <<staged, zip, row, mark, op, queue>>

RecordDeleted ==
    /\ job.pc = "deleted"
    /\ Continue("delete", job.cur) /\ Log("deleted", {job.cur})
    /\ UNCHANGED <<disk, staged, zip, row, mark, queue, trouble>>

\* The directories of the zips are read before any row changes.  Every
\* entry has just been found there, so no row lacks its checksum.
Finalize ==
    /\ job.pc = "finalize"
    /\ \/ /\ IF \A p \in Zips(Me) : zip[p] # NoZip
               THEN Go("mark", Files(Me) \cap Moved) ELSE Fail
          /\ UNCHANGED trouble
       \/ Trouble /\ Fail
    /\ UNCHANGED <<disk, staged, zip, row, mark, op, queue>>

MarkFile(f) ==
    /\ Turn("mark", f)
    /\ row' = [row EXCEPT ![f] = op[Me].to[f]]
    /\ Continue("mark", f)
    /\ UNCHANGED <<disk, staged, zip, mark, op, queue, trouble>>

\* Before it the zips are recorded, for which they must be readable.
MarkSet ==
    /\ job.pc = "mark" /\ job.todo = {}
    /\ \/ mark' = [mark EXCEPT ![op[Me].set] = Me] /\ Go("sweep", {}) /\ UNCHANGED trouble
       \/ Trouble /\ Fail /\ UNCHANGED mark
    /\ UNCHANGED <<disk, staged, zip, row, op, queue>>

\* Staging goes file by file, at the end of a run and of a rollback.
CleanFile(f) ==
    /\ job.pc \in {"sweep", "clean"} /\ staged[Me][f] # "none"
    /\ staged' = [staged EXCEPT ![Me][f] = "none"]
    /\ UNCHANGED <<disk, zip, row, mark, op, queue, job, trouble>>

\* After a run a directory that cannot be removed is left behind.
Complete ==
    /\ job.pc = "sweep"
    /\ \/ \A f \in Files(Me) : staged[Me][f] = "none" /\ UNCHANGED trouble
       \/ Trouble
    /\ Status("completed") /\ End
    /\ UNCHANGED <<disk, staged, zip, row, mark, queue>>

-----------------------------------------------------------------------------
(***************************************************************************)
(* The rollback.                                                           *)
(***************************************************************************)
\* The frames to put back, and those of them that could not be.
Removed(o) == {f \in Files(o) \cap Moved :
                 f \in op[o].deleting \/ (op[o].published # {} /\ f \notin disk)}
Lost(o) == {f \in Removed(o) : f \notin disk /\ staged[o][f] = "none"}

\* Mutant: nothing asks whether the frames can be put back.
RollbackBegins_Unchecked ==
    LET refused == op[Me].status \in {"completed", "rolled_back"} IN
    /\ job.pc = "rollback"
    /\ \/ refused /\ End /\ UNCHANGED op
       \/ /\ ~refused /\ Status("rolling_back")
          /\ job' = [job EXCEPT !.pc = "return", !.todo = Removed(Me), !.pub = op[Me].published]
    /\ UNCHANGED <<disk, staged, zip, row, mark, queue, trouble>>

RollbackBegins ==
    LET refused == op[Me].status \in {"completed", "rolled_back"} \/ Lost(Me) # {} IN
    /\ job.pc = "rollback"
    /\ \/ refused /\ End /\ UNCHANGED op
       \/ /\ ~refused /\ Status("rolling_back")
          /\ job' = [job EXCEPT !.pc = "return", !.todo = Removed(Me), !.pub = op[Me].published]
    /\ UNCHANGED <<disk, staged, zip, row, mark, queue, trouble>>

\* A source that is not intact comes back from staging, by a rename.  From a
\* torn copy it would come back torn, which is not in place either; when
\* Guarded, a source is gone only after its copy was found whole.
ReturnSource(f) ==
    /\ Turn("return", f)
    /\ \/ /\ disk' = disk \cup (IF staged[Me][f] = "whole" THEN {f} ELSE {})
          /\ Continue("return", f) /\ UNCHANGED trouble
       \/ f \notin disk /\ Trouble /\ End /\ UNCHANGED disk
    /\ UNCHANGED <<staged, zip, row, mark, op, queue>>

\* Mutant: the target goes whoever put it there.
DropZip_Any(p) ==
    /\ ZipTurn("drop", p)
    /\ Continue("drop", p)
    /\ zip' = [zip EXCEPT ![p] = NoZip]
    /\ UNCHANGED <<disk, staged, row, mark, op, queue, trouble>>

\* Only what this operation published goes; a zip that is held open stays.
DropZip(p) ==
    /\ ZipTurn("drop", p)
    /\ Continue("drop", p)
    /\ \/ /\ zip' = [zip EXCEPT ![p] = IF p \in job.pub THEN NoZip ELSE @]
          /\ UNCHANGED trouble
       \/ p \in job.pub /\ zip[p] # NoZip /\ Trouble /\ UNCHANGED zip
    /\ UNCHANGED <<disk, staged, row, mark, op, queue>>

\* clear_zip_markers, once staging is gone.
UnmarkSet ==
    /\ job.pc = "clean"
    /\ \/ /\ \A f \in Files(Me) : staged[Me][f] = "none"
          /\ mark' = [mark EXCEPT ![op[Me].set] = 0]
          /\ Go("unmark", Files(Me)) /\ UNCHANGED trouble
       \/ Trouble /\ End /\ UNCHANGED mark
    /\ UNCHANGED <<disk, staged, zip, row, op, queue>>

UnmarkFile(f) ==
    /\ Turn("unmark", f)
    /\ row' = [row EXCEPT ![f] = NoPath]
    /\ Continue("unmark", f)
    /\ UNCHANGED <<disk, staged, zip, mark, op, queue, trouble>>

RolledBack ==
    /\ job.pc = "unmark" /\ job.todo = {}
    /\ Status("rolled_back") /\ End
    /\ UNCHANGED <<disk, staged, zip, row, mark, queue, trouble>>

-----------------------------------------------------------------------------
(***************************************************************************)
(* The restore, to the original places and over nothing.                   *)
(***************************************************************************)
Preflight ==
    /\ job.pc = "preflight"
    /\ IF \A p \in Zips(Me) : zip[p] # NoZip THEN Go("extract", Files(Me)) ELSE End
    /\ UNCHANGED <<disk, staged, zip, row, mark, op, queue, trouble>>

\* A source in place is adopted; another one is extracted and judged by its
\* hash, and what does not match is removed again and is a conflict.
Extract(f) ==
    LET z == zip[op[Me].to[f]]
        conflict == /\ job' = [job EXCEPT !.todo = @ \ {f}, !.bad = @ \cup {f}]
                    /\ UNCHANGED disk
    IN  /\ Item("extract", f)
        /\ \/ f \in disk /\ Continue("extract", f) /\ UNCHANGED <<disk, trouble>>
           \/ /\ f \notin disk /\ f \notin DOMAIN z.has
              /\ End /\ UNCHANGED <<disk, trouble>>
           \/ /\ f \notin disk /\ f \in DOMAIN z.has
              /\ \/ /\ z.has[f] = "whole" /\ disk' = disk \cup {f}
                    /\ Continue("extract", f) /\ UNCHANGED trouble
                 \/ z.has[f] = "torn" /\ conflict /\ UNCHANGED trouble
                 \/ Trouble /\ conflict
                 \/ Trouble /\ End /\ UNCHANGED disk
        /\ UNCHANGED <<staged, zip, row, mark, op, queue>>

\* Mutant: the rows of conflicts are cleared too.
Extracted_All ==
    /\ job.pc = "extract" /\ job.todo = {}
    /\ Go("release", Files(Me))
    /\ UNCHANGED <<disk, staged, zip, row, mark, op, queue, trouble>>

Extracted ==
    /\ job.pc = "extract" /\ job.todo = {}
    /\ Go("release", Files(Me) \ job.bad)
    /\ UNCHANGED <<disk, staged, zip, row, mark, op, queue, trouble>>

ReleaseFile(f) ==
    /\ Turn("release", f)
    /\ row' = [row EXCEPT ![f] = NoPath]
    /\ Continue("release", f)
    /\ UNCHANGED <<disk, staged, zip, mark, op, queue, trouble>>

\* With a conflict the set stays zipped and every zip is kept.
ReleaseSet ==
    /\ job.pc = "release" /\ job.todo = {}
    /\ mark' = IF job.bad = {} THEN [mark EXCEPT ![op[Me].set] = 0] ELSE mark
    /\ IF job.bad = {} /\ ~job.keep THEN Go("discard", Zips(Me)) ELSE End
    /\ UNCHANGED <<disk, staged, zip, row, op, queue, trouble>>

\* A zip in which catalog rows still live is kept.
DiscardZip(p) ==
    /\ ZipTurn("discard", p)
    /\ \/ /\ zip' = [zip EXCEPT ![p] = IF \E f \in Frame : row[f] = p THEN @ ELSE NoZip]
          /\ UNCHANGED trouble
       \/ Trouble /\ UNCHANGED zip
    /\ Continue("discard", p)
    /\ UNCHANGED <<disk, staged, row, mark, op, queue>>

Discarded ==
    /\ job.pc = "discard" /\ job.todo = {}
    /\ End
    /\ UNCHANGED <<disk, staged, zip, row, mark, op, queue, trouble>>

-----------------------------------------------------------------------------
\* The program is killed: the jobs are gone, disk and database are not.
Crash ==
    /\ Trouble /\ Pending # {NoJob}
    /\ job' = NoJob /\ queue' = <<>>
    /\ UNCHANGED <<disk, staged, zip, row, mark, op>>

Work ==
    \/ Take \/ NoticeCancel \/ Advance
    \/ \E f \in Frame : \/ Copy(f) \/ Verify(f) \/ DeleteSource(f) \/ MarkFile(f)
                        \/ CleanFile(f) \/ ReturnSource(f) \/ UnmarkFile(f)
                        \/ Extract(f) \/ ReleaseFile(f)
    \/ \E p \in Path : BuildZip(p) \/ CheckZip(p) \/ DropZip(p) \/ DiscardZip(p)
    \/ CopyEnds \/ RecordPublish \/ RecordAdded \/ RemoveSource \/ RecordDeleted
    \/ Finalize \/ MarkSet \/ Complete
    \/ RollbackBegins \/ UnmarkSet \/ RolledBack
    \/ Preflight \/ Extracted \/ ReleaseSet \/ Discarded

User ==
    \/ \E s \in FrameSet : \E flag \in BOOLEAN : Start(s, flag) \/ Unarchive(s, flag)
    \/ \E o \in Op : Resume(o) \/ Rollback(o) \/ Cancel(o)

Next == Work \/ User \/ Crash

\* The worker runs, and the user presses Resume as long as it is offered.
Fairness == WF_vars(Work) /\ \A o \in Op : SF_vars(Resume(o))

Spec == Init /\ [][Next]_vars /\ Fairness

-----------------------------------------------------------------------------
Copies == {"none", "torn", "whole"}

\* The types, and how the parts of a step log and of a zip fit together.
TypeOK ==
    /\ disk \subseteq Frame
    /\ staged \in [Op -> [Frame -> Copies]]
    /\ \A p \in Path : zip[p] = NoZip \/
          /\ zip[p].by \in Op
          /\ zip[p].has \in [Group(zip[p].by, p) -> Copies \ {"none"}]
    /\ row \in [Frame -> Path \cup {NoPath}]
    /\ mark \in [FrameSet -> Op \cup {0}]
    /\ \A o \in Op :
          /\ op[o].status \in {"none", "open", "rolling_back", "completed", "rolled_back"}
          /\ op[o].published \subseteq Zips(o)
          /\ op[o].verified \subseteq op[o].copied /\ op[o].copied \subseteq Files(o)
          /\ op[o].deleted \subseteq op[o].deleting /\ op[o].deleting \subseteq op[o].zipped
    /\ Len(queue) <= MaxQueue /\ \A j \in Pending : j.op \in Op \cup {0}

InZip(f, p) == p \in Path /\ f \in DOMAIN zip[p].has /\ zip[p].has[f] = "whole"

\* No frame is ever lost, whatever fails, is cancelled or killed and is then
\* resumed, rolled back or restored: its source is in place, or a zip has it,
\* or the staging directory of an operation that can still be resumed
\* (executor.rs delete_sources_phase, rollback.rs, restore.rs).
FramesKept ==
    \A f \in Frame :
        \/ f \in disk
        \/ \E p \in Path : InZip(f, p)
        \/ \E o \in Unfinished : staged[o][f] = "whole"

\* Once no job runs and no unfinished operation has the frame, the catalog
\* tells where it is: a row without a zip has its source in place, and a row
\* with one is in that zip and in a set that can be unarchived (finalize_phase,
\* the unmarking of rollback.rs, the release of restore.rs).
CatalogFinds ==
    \A f \in Frame :
        (job = NoJob /\ \A o \in Unfinished : f \notin Files(o)) =>
            \/ row[f] = NoPath /\ f \in disk
            \/ InZip(f, row[f]) /\ \E s \in FrameSet : mark[s] # 0 /\ f \in Files(mark[s])

\* A rollback removes no zip that its operation did not build, so an older
\* archive at the target survives an operation that never replaced it
\* (rollback.rs: "Any other zip at the path [...] stays exactly as it was").
ForeignZipsKept ==
    [][ \A p \in Path :
          (job.pc = "drop" /\ zip[p] # NoZip /\ zip'[p] = NoZip) => zip[p].by = Me ]_vars

\* An operation that was interrupted, at whatever step and even in the midst
\* of its rollback, is completed or rolled back in the end if Resume is
\* pressed as long as it is offered (resume.rs, list_unfinished_operations).
Settles == \A o \in Op : (o \in Unfinished) ~> (o \notin Unfinished)
=============================================================================
