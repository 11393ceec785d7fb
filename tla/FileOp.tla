------------------------------- MODULE FileOp -------------------------------
(***************************************************************************)
(* The Move operation of athenaeum-core: the planner, the executor with    *)
(* its step journal, the reconcile pass over abandoned commits, the single *)
(* worker of the operation queue that runs them, and the process being     *)
(* killed and restarted.                                                   *)
(*                                                                         *)
(* The grain is one durable effect per action: one file system call, or    *)
(* the SQLite writes (each its own autocommit) no reader of the journal    *)
(* can tell apart.  SQLite itself is taken to fail only on the UNIQUE      *)
(* constraint of files.path; a file system call may fail while the fault   *)
(* budget lasts.                                                           *)
(***************************************************************************)
EXTENDS Integers, Sequences, FiniteSets

CONSTANTS
    Dir,              \* directories inside enabled scan roots
    Name,             \* file names
    Device,           \* [Dir -> device id], what device_id_for reports
    Mount,            \* [Dir -> mount], what rename(2) really cares about
    Content,          \* contents of complete files
    Digest,           \* sampled hash of each content and of a truncated copy
    CatId,            \* ids of the rows of the catalog table files
    InitDisk,         \* [Path -> content or NoFile]
    InitCatalog,      \* [CatId -> Path], files.path
    Requests,         \* the moves a user may ask for
    Patient,          \* does the user wait for a move to end before the next?
    ReconcileFaults,  \* may the file system fail under the reconcile pass?
    MaxOps, MaxFaults, MaxCrashes, MaxResumes, MaxExternal  \* bounds

NoFile  == "no file"
Partial == "partial"
NoHash  == "no hash"
NoCat   == 0
NoPlan  == [srcs |-> <<>>, dir |-> "none"]

Path   == Dir \X Name
Stored == Content \cup {Partial}
Hashes == {Digest[c] : c \in Stored}

(***************************************************************************)
(* A request is the list of files the selected sources expand to, and the  *)
(* destination directory.                                                  *)
(***************************************************************************)
Request == [srcs : Seq(Path), dir : Dir]

ASSUME ContentAssumption ==
    /\ {NoFile, Partial} \cap Content = {}
    /\ NoFile # Partial
    /\ Digest \in [Stored -> Hashes]
    /\ NoHash \notin Hashes

ASSUME WorldAssumption ==
    /\ Device \in [Dir -> Nat]
    /\ Mount \in [Dir -> Nat]
    /\ NoCat \notin CatId
    /\ InitDisk \in [Path -> Stored \cup {NoFile}]
    /\ InitCatalog \in [CatId -> Path]
    /\ \A i, j \in CatId : InitCatalog[i] = InitCatalog[j] => i = j

ASSUME RequestAssumption ==
    /\ NoPlan \notin Requests
    /\ \A r \in Requests :
          /\ r = [srcs |-> r.srcs, dir |-> r.dir]
          /\ r.srcs = [i \in 1..Len(r.srcs) |-> r.srcs[i]]
          /\ Len(r.srcs) \in Nat
          /\ \A i \in 1..Len(r.srcs) : r.srcs[i] \in Path
          /\ r.dir \in Dir

ASSUME BoundAssumption ==
    /\ ReconcileFaults \in BOOLEAN /\ Patient \in BOOLEAN
    /\ {MaxOps, MaxFaults, MaxCrashes, MaxResumes, MaxExternal} \subseteq Nat

VARIABLES
    disk,     \* the file system: [Path -> Stored \cup {NoFile}]
    catalog,  \* files.path by files.id
    status,   \* file_operations: the status of each operation, by id
    files,    \* file_operation_files: the planned rows, by id
    steps,    \* file_operation_steps: the journal, by id
    queue,    \* jobs waiting for the worker: operation ids, 0 a reconcile job
    cancel,   \* operations whose CancelFlag is set
    plan,     \* the request between its validation and its persistence
    pc,       \* where the worker is
    op,       \* the operation of the running job
    todo,     \* the rows of op the loop has not reached yet
    row,      \* the row the loop is on
    step,     \* the step being executed
    outer,    \* the commit step of a rename that met EXDEV, 0 if none
    prior,    \* had_prior_copy
    cands,    \* reconcile: candidate steps not examined yet
    healed,   \* reconcile: operations with a healed row
    faults, crashes, resumes, externals  \* spent budgets

world   == <<disk, catalog>>
journal == <<status, files, steps>>
intake  == <<queue, cancel, plan>>
loop    == <<op, todo, row, step, outer, prior>>
heal    == <<cands, healed>>
spent   == <<crashes, resumes, externals>>
vars    == <<world, journal, intake, pc, loop, heal, faults, spent>>

-----------------------------------------------------------------------------
(***************************************************************************)
(* Queries on the journal and the catalog.                                 *)
(***************************************************************************)
Src(f) == files[f].src
Dst(f) == files[f].dst
Exists(p) == disk[p] # NoFile

FilesOf(o) == {f \in DOMAIN files : files[f].op = o}

done_file_ids_for_stage(stage) ==
    {steps[s].file : s \in {t \in DOMAIN steps :
                               steps[t].stage = stage /\ steps[t].status = "done"}}

\* Mutant: only finished steps count as an earlier attempt.
prior_step_exists_Done(f, stage) ==
    \E s \in DOMAIN steps :
        steps[s].file = f /\ steps[s].stage = stage /\ steps[s].status = "done"

prior_step_exists(f, stage) ==
    \E s \in DOMAIN steps : steps[s].file = f /\ steps[s].stage = stage

list_failed_commit_move_candidates ==
    {s \in DOMAIN steps : steps[s].stage = "commit_move" /\ steps[s].status = "failed"}

\* The hash of the most recent Done Verify step is the one expected.
verify_step_done_hash(f, hash) ==
    \E s \in DOMAIN steps :
        /\ steps[s].file = f /\ steps[s].stage = "verify" /\ steps[s].status = "done"
        /\ steps[s].hash = hash
        /\ \A t \in DOMAIN steps :
              (/\ steps[t].file = f /\ steps[t].stage = "verify"
               /\ steps[t].status = "done") => t <= s

catalog_row_exists_at_path(p) == \E i \in CatId : catalog[i] = p

\* Mutant: one healed row completes its operation.
all_operation_files_done_Any(o) == \E f \in FilesOf(o) : files[f].disp = "done"

all_operation_files_done(o) ==
    FilesOf(o) # {} /\ \A f \in FilesOf(o) : files[f].disp = "done"

\* The least id of a non-empty set of ids: both loops go in id order.
First(ids) == CHOOSE i \in ids : \A j \in ids : i <= j

(***************************************************************************)
(* sync_catalog_path: the row found at the old path follows the file, and  *)
(* if there is none the row the planner had found.  files.path is UNIQUE,  *)
(* so the update fails when another row is already at the new path.        *)
(***************************************************************************)
SyncRows(f) ==
    LET at == {i \in CatId : catalog[i] = Src(f)}
    IN  IF at # {} THEN at ELSE {files[f].cat} \ {NoCat}

SyncOk(f) ==
    SyncRows(f) # {} => \A j \in CatId \ SyncRows(f) : catalog[j] # Dst(f)

sync_catalog_path(f) ==
    catalog' = [i \in CatId |-> IF i \in SyncRows(f) THEN Dst(f) ELSE catalog[i]]

-----------------------------------------------------------------------------
(***************************************************************************)
(* Planning, in the thread of the request.  The destination of a file      *)
(* keeps its name.  The checks and the hashing happen while the worker may *)
(* be moving the same files.                                               *)
(***************************************************************************)
DestOf(p, dir) == <<dir, p[2]>>

Plan(r) ==
    /\ pc # "down" /\ plan = NoPlan
    /\ Len(status) < MaxOps
    /\ Patient => pc = "idle" /\ queue = <<>>
    /\ r.srcs # <<>>
    /\ \A i \in DOMAIN r.srcs :
          /\ Exists(r.srcs[i])
          /\ DestOf(r.srcs[i], r.dir) # r.srcs[i]
          /\ ~Exists(DestOf(r.srcs[i], r.dir))
    /\ plan' = r
    /\ UNCHANGED <<world, journal, queue, cancel, pc, loop, heal, faults, spent>>

PlannedRow(o, p, dir) ==
    LET same == Device[p[1]] = Device[dir]
        at   == {i \in CatId : catalog[i] = p}
    IN  [op |-> o, src |-> p, dst |-> DestOf(p, dir),
         strategy |-> IF same THEN "atomic_rename" ELSE "copy_verify_delete",
         cat  |-> IF at = {} THEN NoCat ELSE CHOOSE i \in at : TRUE,
         hash |-> IF same THEN NoHash ELSE Digest[disk[p]],
         disp |-> "pending"]

\* n rows are persisted; when a source is gone by then, the request fails and
\* leaves an operation that is pending and was never enqueued.
PersistPlan ==
    /\ pc # "down" /\ plan # NoPlan
    /\ \E n \in 0..Len(plan.srcs) :
          LET o == Len(status) + 1 IN
          /\ \A i \in 1..n : Exists(plan.srcs[i])
          /\ n < Len(plan.srcs) => ~Exists(plan.srcs[n + 1])
          /\ status' = Append(status, "pending")
          /\ files' = files \o [i \in 1..n |-> PlannedRow(o, plan.srcs[i], plan.dir)]
          /\ queue' = IF n = Len(plan.srcs) THEN Append(queue, o) ELSE queue
    /\ plan' = NoPlan
    /\ UNCHANGED <<world, steps, cancel, pc, loop, heal, faults, spent>>

\* Waiting for the worker or running: its cancel flag is one the job will read.
Active(o) ==
    \/ \E i \in DOMAIN queue : queue[i] = o
    \/ o = op /\ pc \notin {"idle", "down"}

\* The user cancels a move that has not ended.
Cancel(o) ==
    /\ pc # "down" /\ Active(o)
    /\ cancel' = cancel \cup {o}
    /\ UNCHANGED <<world, journal, queue, plan, pc, loop, heal, faults, spent>>

-----------------------------------------------------------------------------
(***************************************************************************)
(* The worker takes the oldest job.  Every job begins with a reconcile     *)
(* pass; the one enqueued at startup (0) does nothing else.                *)
(***************************************************************************)
Dequeue ==
    /\ pc = "idle" /\ queue # <<>>
    /\ queue' = Tail(queue)
    /\ op' = Head(queue)
    /\ cands' = list_failed_commit_move_candidates
    /\ healed' = {}
    /\ pc' = "heal"
    /\ UNCHANGED <<world, journal, cancel, plan, todo, row, step, outer, prior,
                   faults, spent>>

Fault == faults < MaxFaults /\ faults' = faults + 1

\* Mutant: a destination that has the hash is trusted without a verification.
SafeToHeal_HashOnly(s) ==
    /\ files[steps[s].file].hash # NoHash
    /\ Exists(Dst(steps[s].file))
    /\ Digest[disk[Dst(steps[s].file)]] = files[steps[s].file].hash
    /\ ~catalog_row_exists_at_path(Src(steps[s].file))

\* The three checks heal_candidate makes before it removes the source.
SafeToHeal(s) ==
    LET f == steps[s].file IN
    /\ files[f].hash # NoHash
    /\ Exists(Dst(f))
    /\ verify_step_done_hash(f, files[f].hash)
    /\ Digest[disk[Dst(f)]] = files[f].hash
    /\ ~catalog_row_exists_at_path(Src(f))

\* A candidate that is not safe, or whose destination cannot be read or
\* source cannot be removed, is left as it is.
HealSkip ==
    /\ pc = "heal" /\ cands # {}
    /\ \/ ~SafeToHeal(First(cands)) /\ UNCHANGED faults
       \/ ReconcileFaults /\ Fault
    /\ cands' = cands \ {First(cands)}
    /\ UNCHANGED <<world, journal, intake, pc, loop, healed, spent>>

HealRemove ==
    /\ pc = "heal" /\ cands # {}
    /\ SafeToHeal(First(cands))
    /\ disk' = [disk EXCEPT ![Src(steps[First(cands)].file)] = NoFile]
    /\ pc' = "healStep"
    /\ UNCHANGED <<catalog, journal, intake, loop, heal, faults, spent>>

HealStep ==
    /\ pc = "healStep"
    /\ steps' = [steps EXCEPT ![First(cands)].status = "done"]
    /\ pc' = "healRow"
    /\ UNCHANGED <<world, status, files, intake, loop, heal, faults, spent>>

\* Mutant: the row's id where the operation's belongs.
HealRow_RowId ==
    /\ pc = "healRow"
    /\ LET f == steps[First(cands)].file IN
          /\ files' = [files EXCEPT ![f].disp = "done"]
          /\ healed' = healed \cup {f}
    /\ cands' = cands \ {First(cands)}
    /\ pc' = "heal"
    /\ UNCHANGED <<world, status, steps, intake, loop, faults, spent>>

HealRow ==
    /\ pc = "healRow"
    /\ LET f == steps[First(cands)].file IN
          /\ files' = [files EXCEPT ![f].disp = "done"]
          /\ healed' = healed \cup {files[f].op}
    /\ cands' = cands \ {First(cands)}
    /\ pc' = "heal"
    /\ UNCHANGED <<world, status, steps, intake, loop, faults, spent>>

\* Operations whose rows are now all done are flipped; then the job proper.
HealEnd ==
    /\ pc = "heal" /\ cands = {}
    /\ status' = [o \in DOMAIN status |->
                     IF o \in healed /\ all_operation_files_done(o)
                     THEN "completed" ELSE status[o]]
    /\ pc' = IF op = 0 THEN "idle" ELSE "start"
    /\ UNCHANGED <<world, files, steps, intake, loop, heal, faults, spent>>

-----------------------------------------------------------------------------
(***************************************************************************)
(* run_operation and the loop of run_move.                                 *)
(***************************************************************************)
Start ==
    /\ pc = "start"
    /\ status' = [status EXCEPT ![op] = "running"]
    /\ todo' = FilesOf(op)
    /\ pc' = "next"
    /\ UNCHANGED <<world, files, steps, intake, op, row, step, outer, prior,
                   heal, faults, spent>>

EndRun(st) ==
    /\ status' = [status EXCEPT ![op] = st]
    /\ pc' = "idle"
    /\ UNCHANGED <<world, files, intake, loop, heal, faults, spent>>

Complete == pc = "next" /\ todo = {} /\ EndRun("completed") /\ UNCHANGED steps

Cancelled ==
    /\ pc = "next" /\ todo # {} /\ op \in cancel
    /\ EndRun("cancelled")
    /\ UNCHANGED steps

SkipRow ==
    /\ pc = "next" /\ todo # {} /\ op \notin cancel
    /\ First(todo) \in done_file_ids_for_stage("commit_move")
    /\ todo' = todo \ {First(todo)}
    /\ UNCHANGED <<world, journal, intake, pc, op, row, step, outer, prior,
                   heal, faults, spent>>

\* Where a row that may have been copied or verified earlier goes on.
AfterCopy(f) ==
    IF f \in done_file_ids_for_stage("verify") THEN "commit" ELSE "verify"

BeginRow ==
    /\ pc = "next" /\ todo # {} /\ op \notin cancel
    /\ First(todo) \notin done_file_ids_for_stage("commit_move")
    /\ row' = First(todo)
    /\ todo' = todo \ {First(todo)}
    /\ files' = [files EXCEPT ![First(todo)].disp = "in_progress"]
    /\ outer' = 0
    /\ pc' = CASE files[First(todo)].strategy = "atomic_rename" -> "rename"
               [] First(todo) \in done_file_ids_for_stage("copy") ->
                     AfterCopy(First(todo))
               [] OTHER -> "copy"
    /\ UNCHANGED <<world, status, steps, intake, op, step, prior, heal, faults, spent>>

\* insert_step, then in_progress.
OpenStep(stage) ==
    /\ steps' = Append(steps, [file |-> row, stage |-> stage,
                               status |-> "in_progress", hash |-> NoHash])
    /\ step' = Len(steps) + 1
    /\ UNCHANGED <<world, status, files, intake, op, todo, row, heal, faults, spent>>

\* The step succeeded, with the hash it measured or none.
StepDone(hash, next) ==
    /\ steps' = [steps EXCEPT ![step] = [@ EXCEPT !.status = "done", !.hash = hash]]
    /\ pc' = next
    /\ UNCHANGED <<status, files, intake, loop, heal, faults, spent>>

\* The step failed: step and row are marked, and the error propagates.
StepFailed(hash) ==
    /\ steps' = [steps EXCEPT ![step] = [@ EXCEPT !.status = "failed", !.hash = hash]]
    /\ files' = [files EXCEPT ![row].disp = "failed"]
    /\ pc' = "error"
    /\ UNCHANGED <<status, intake, loop, heal, spent>>

\* A `?` that leaves without marking the step.
Abort == pc' = "error" /\ UNCHANGED <<journal, intake, loop, heal, spent>>

Go(next) ==
    /\ pc' = next
    /\ UNCHANGED <<journal, intake, loop, heal, faults, spent>>

EndRow ==
    /\ pc = "rowDone"
    /\ steps' = IF outer = 0 THEN steps ELSE [steps EXCEPT ![outer].status = "done"]
    /\ files' = [files EXCEPT ![row].disp = "done"]
    /\ pc' = "next"
    /\ UNCHANGED <<world, status, intake, loop, heal, faults, spent>>

\* Mutant: the error is logged and the status left as it was.
Fail_Logged ==
    /\ pc = "error"
    /\ pc' = "idle"
    /\ UNCHANGED <<world, journal, intake, loop, heal, faults, spent>>

Fail ==
    /\ pc = "error"
    /\ steps' = IF outer = 0 THEN steps ELSE [steps EXCEPT ![outer].status = "failed"]
    /\ EndRun("failed")

-----------------------------------------------------------------------------
(***************************************************************************)
(* run_atomic_rename_step.                                                 *)
(***************************************************************************)
ResumeDegraded ==
    /\ pc = "rename" /\ prior_step_exists(row, "copy")
    /\ Go("fallback")
    /\ UNCHANGED world

RenameBegin ==
    /\ pc = "rename" /\ ~prior_step_exists(row, "copy")
    /\ OpenStep("commit_move")
    /\ pc' = "renameCheck"
    /\ UNCHANGED <<outer, prior>>

\* Moved by an earlier run: only the catalog is left to do.  A failing
\* update leaves the step in progress.
RenameResume ==
    /\ pc = "renameCheck" /\ ~Exists(Src(row)) /\ Exists(Dst(row))
    /\ \/ SyncOk(row) /\ sync_catalog_path(row) /\ Go("renameDone")
       \/ ~SyncOk(row) /\ Abort /\ UNCHANGED <<catalog, faults>>
    /\ UNCHANGED disk

RenameRefuse ==
    /\ pc = "renameCheck" /\ (Exists(Src(row)) <=> Exists(Dst(row)))
    /\ StepFailed(NoHash)
    /\ UNCHANGED <<world, faults>>

\* The parent of the destination cannot be created.
RenameNoParent ==
    /\ pc = "renameCheck" /\ Exists(Src(row)) /\ ~Exists(Dst(row))
    /\ Fault /\ Abort
    /\ UNCHANGED world

\* Mutant: no look at the destination before the rename.
RenameReady_Blind ==
    /\ pc = "renameCheck" /\ Exists(Src(row))
    /\ Go("renameDo")
    /\ UNCHANGED world

RenameReady ==
    /\ pc = "renameCheck" /\ Exists(Src(row)) /\ ~Exists(Dst(row))
    /\ Go("renameDo")
    /\ UNCHANGED world

\* rename(2) replaces whatever is at the destination by then.
SameMount(f) == Mount[Src(f)[1]] = Mount[Dst(f)[1]]

RenameDo ==
    /\ pc = "renameDo" /\ SameMount(row) /\ Exists(Src(row))
    /\ disk' = [disk EXCEPT ![Dst(row)] = disk[Src(row)], ![Src(row)] = NoFile]
    /\ Go("renameSync")
    /\ UNCHANGED catalog

RenameError ==
    /\ pc = "renameDo"
    /\ \/ Exists(Src(row)) /\ Fault
       \/ ~Exists(Src(row)) /\ UNCHANGED faults
    /\ StepFailed(NoHash)
    /\ UNCHANGED world

\* Same device, different mounts: EXDEV degrades the row.
RenameExdev ==
    /\ pc = "renameDo" /\ ~SameMount(row) /\ Exists(Src(row))
    /\ outer' = step
    /\ pc' = "fallback"
    /\ UNCHANGED <<world, journal, intake, op, todo, row, step, prior, heal, faults, spent>>

\* Mutant: the catalog is left for the next scan.
RenameSync_Later == pc = "renameSync" /\ Go("renameDone") /\ UNCHANGED world

RenameSync ==
    /\ pc = "renameSync"
    /\ \/ SyncOk(row) /\ sync_catalog_path(row) /\ Go("renameDone")
       \/ ~SyncOk(row) /\ StepFailed(NoHash) /\ UNCHANGED <<catalog, faults>>
    /\ UNCHANGED disk

RenameDone == pc = "renameDone" /\ StepDone(NoHash, "rowDone") /\ UNCHANGED world

\* run_cross_volume_fallback: the source is hashed unless that was done.
Fallback ==
    /\ pc = "fallback"
    /\ files[row].hash # NoHash \/ Exists(Src(row))
    /\ files' = [files EXCEPT ![row].hash =
                    IF @ = NoHash THEN Digest[disk[Src(row)]] ELSE @]
    /\ pc' = "copy"
    /\ UNCHANGED <<world, status, steps, intake, loop, heal, faults, spent>>

FallbackError ==
    /\ pc = "fallback" /\ files[row].hash = NoHash
    /\ \/ Exists(Src(row)) /\ Fault
       \/ ~Exists(Src(row)) /\ UNCHANGED faults
    /\ Abort
    /\ UNCHANGED world

-----------------------------------------------------------------------------
(***************************************************************************)
(* run_copy_step.                                                          *)
(***************************************************************************)
CopyBegin ==
    /\ pc = "copy"
    /\ prior' = prior_step_exists(row, "copy")
    /\ OpenStep("copy")
    /\ pc' = "copyCheck"
    /\ UNCHANGED outer

CopyNoParent ==
    /\ pc = "copyCheck"
    /\ Fault /\ Abort
    /\ UNCHANGED world

CopyRefuse ==
    /\ pc = "copyCheck" /\ Exists(Dst(row)) /\ ~prior
    /\ StepFailed(NoHash)
    /\ UNCHANGED <<world, faults>>

CopyFresh == pc = "copyCheck" /\ ~Exists(Dst(row)) /\ Go("copyDo") /\ UNCHANGED world

\* After the copy: the fallback always verifies, a planned copy only when no
\* earlier run did.
ToVerify(f) ==
    IF files[f].strategy = "atomic_rename" THEN "verify" ELSE AfterCopy(f)

\* Left by an earlier run of this row, and complete.
CopyReuse ==
    /\ pc = "copyCheck" /\ Exists(Dst(row)) /\ prior
    /\ Digest[disk[Dst(row)]] = files[row].hash
    /\ StepDone(files[row].hash, ToVerify(row))
    /\ UNCHANGED world

\* Left by an earlier run and not complete, or not readable: removed.
CopyDiscard ==
    /\ pc = "copyCheck" /\ Exists(Dst(row)) /\ prior
    /\ \/ Digest[disk[Dst(row)]] # files[row].hash /\ UNCHANGED faults
       \/ Fault
    /\ disk' = [disk EXCEPT ![Dst(row)] = NoFile]
    /\ pc' = "copyDo"
    /\ UNCHANGED <<catalog, journal, intake, loop, heal, spent>>

CopyDiscardError ==
    /\ pc = "copyCheck" /\ Exists(Dst(row)) /\ prior
    /\ Digest[disk[Dst(row)]] # files[row].hash
    /\ Fault /\ StepFailed(NoHash)
    /\ UNCHANGED world

\* fs::copy opens the source, then truncates the destination and fills it.
CopyOpen ==
    /\ pc = "copyDo" /\ Exists(Src(row))
    /\ disk' = [disk EXCEPT ![Dst(row)] = Partial]
    /\ Go("copying")
    /\ UNCHANGED catalog

CopyFill ==
    /\ pc = "copying"
    /\ disk' = [disk EXCEPT ![Dst(row)] = disk[Src(row)]]
    /\ Go("copied")
    /\ UNCHANGED catalog

CopyError ==
    /\ \/ pc \in {"copyDo", "copying"} /\ Fault
       \/ pc = "copyDo" /\ ~Exists(Src(row)) /\ UNCHANGED faults
    /\ StepFailed(NoHash)
    /\ UNCHANGED world

CopyDone == pc = "copied" /\ StepDone(NoHash, ToVerify(row)) /\ UNCHANGED world

-----------------------------------------------------------------------------
(***************************************************************************)
(* run_verify_step and run_cross_volume_commit_step.                       *)
(***************************************************************************)
VerifyBegin ==
    /\ pc = "verify"
    /\ OpenStep("verify")
    /\ pc' = "verifying"
    /\ UNCHANGED <<outer, prior>>

VerifyDone ==
    /\ pc = "verifying"
    /\ Exists(Dst(row)) /\ Digest[disk[Dst(row)]] = files[row].hash
    /\ StepDone(files[row].hash, "commit")
    /\ UNCHANGED world

VerifyError ==
    /\ pc = "verifying"
    /\ \/ Exists(Dst(row)) /\ Fault /\ StepFailed(NoHash)
       \/ ~Exists(Dst(row)) /\ UNCHANGED faults /\ StepFailed(NoHash)
       \/ /\ Exists(Dst(row)) /\ Digest[disk[Dst(row)]] # files[row].hash
          /\ UNCHANGED faults /\ StepFailed(Digest[disk[Dst(row)]])
    /\ UNCHANGED world

CommitBegin ==
    /\ pc = "commit"
    /\ OpenStep("commit_move")
    /\ pc' = "commitSync"
    /\ UNCHANGED <<outer, prior>>

CommitSync ==
    /\ pc = "commitSync"
    /\ \/ SyncOk(row) /\ sync_catalog_path(row) /\ Go("commitRemove")
       \/ ~SyncOk(row) /\ StepFailed(NoHash) /\ UNCHANGED <<catalog, faults>>
    /\ UNCHANGED disk

CommitRemove ==
    /\ pc = "commitRemove"
    /\ disk' = [disk EXCEPT ![Src(row)] = NoFile]
    /\ Go("commitDone")
    /\ UNCHANGED catalog

CommitError ==
    /\ pc = "commitRemove" /\ Exists(Src(row))
    /\ Fault /\ StepFailed(NoHash)
    /\ UNCHANGED world

CommitDone == pc = "commitDone" /\ StepDone(NoHash, "rowDone") /\ UNCHANGED world

-----------------------------------------------------------------------------
(***************************************************************************)
(* The process and its surroundings.                                       *)
(***************************************************************************)
\* The process is killed: queue, flags, plans and the worker's stack are gone.
Crash ==
    /\ pc # "down" /\ crashes < MaxCrashes
    /\ crashes' = crashes + 1
    /\ pc' = "down"
    /\ queue' = <<>> /\ cancel' = {} /\ plan' = NoPlan
    /\ op' = 0 /\ todo' = {} /\ row' = 0 /\ step' = 0 /\ outer' = 0 /\ prior' = FALSE
    /\ cands' = {} /\ healed' = {}
    /\ UNCHANGED <<world, journal, faults, resumes, externals>>

\* Startup enqueues a reconcile job; on the desktop it does nothing when the
\* database is not open yet.
Restart ==
    /\ pc = "down"
    /\ pc' = "idle"
    /\ queue' \in {<<>>, <<0>>}
    /\ UNCHANGED <<world, journal, cancel, plan, loop, heal, faults, spent>>

\* run_operation called again on an operation that did not complete: what
\* the executor's resume detection is for.  No host calls it today.
Resume(o) ==
    /\ pc # "down" /\ resumes < MaxResumes
    /\ status[o] \in {"running", "failed", "cancelled"}
    /\ ~Active(o)
    /\ resumes' = resumes + 1
    /\ queue' = Append(queue, o)
    /\ cancel' = cancel \ {o}
    /\ UNCHANGED <<world, journal, plan, pc, loop, heal, faults, crashes, externals>>

\* Another program writes, replaces or deletes a file; not the one fs::copy
\* holds open.
External(p, c) ==
    /\ externals < MaxExternal /\ disk[p] # c
    /\ pc = "copying" => p \notin {Src(row), Dst(row)}
    /\ externals' = externals + 1
    /\ disk' = [disk EXCEPT ![p] = c]
    /\ UNCHANGED <<catalog, journal, intake, pc, loop, heal, faults, crashes, resumes>>

Init ==
    /\ disk = InitDisk /\ catalog = InitCatalog
    /\ status = <<>> /\ files = <<>> /\ steps = <<>>
    /\ queue = <<>> /\ cancel = {} /\ plan = NoPlan
    /\ pc = "idle" /\ op = 0 /\ todo = {} /\ row = 0 /\ step = 0 /\ outer = 0
    /\ prior = FALSE /\ cands = {} /\ healed = {}
    /\ faults = 0 /\ crashes = 0 /\ resumes = 0 /\ externals = 0

Reconcile == HealSkip \/ HealRemove \/ HealStep \/ HealRow \/ HealEnd

RunLoop == Start \/ Complete \/ Cancelled \/ SkipRow \/ BeginRow \/ EndRow \/ Fail

RenameStep ==
    \/ ResumeDegraded \/ RenameBegin \/ RenameResume \/ RenameRefuse
    \/ RenameNoParent \/ RenameReady \/ RenameDo \/ RenameError \/ RenameExdev
    \/ RenameSync \/ RenameDone \/ Fallback \/ FallbackError

CopyStep ==
    \/ CopyBegin \/ CopyNoParent \/ CopyRefuse \/ CopyFresh \/ CopyReuse
    \/ CopyDiscard \/ CopyDiscardError \/ CopyOpen \/ CopyFill \/ CopyError
    \/ CopyDone

CommitStep ==
    \/ VerifyBegin \/ VerifyDone \/ VerifyError
    \/ CommitBegin \/ CommitSync \/ CommitRemove \/ CommitError \/ CommitDone

Worker == Dequeue \/ Reconcile \/ RunLoop \/ RenameStep \/ CopyStep \/ CommitStep

User ==
    \/ \E r \in Requests : Plan(r)
    \/ PersistPlan
    \/ \E o \in DOMAIN status : Cancel(o) \/ Resume(o)

Surroundings ==
    \/ Crash \/ Restart
    \/ \E p \in Path, c \in Content \cup {NoFile} : External(p, c)

Next == Worker \/ User \/ Surroundings

\* The worker thread runs whenever it has a job and the process is up.
Spec == Init /\ [][Next]_vars /\ WF_vars(Worker)

-----------------------------------------------------------------------------
(***************************************************************************)
(* Correctness.                                                            *)
(***************************************************************************)
Labels == {"idle", "down", "heal", "healStep", "healRow", "start", "next",
           "rename", "renameCheck", "renameDo", "renameSync", "renameDone",
           "fallback", "copy", "copyCheck", "copyDo", "copying", "copied",
           "verify", "verifying", "commit", "commitSync", "commitRemove",
           "commitDone", "rowDone", "error"}

FileRow == [op : Nat, src : Path, dst : Path,
            strategy : {"atomic_rename", "copy_verify_delete"},
            cat : CatId \cup {NoCat}, hash : Hashes \cup {NoHash},
            disp : {"pending", "in_progress", "done", "failed"}]

StepRow == [file : Nat, stage : {"copy", "verify", "commit_move"},
            status : {"in_progress", "done", "failed"},
            hash : Hashes \cup {NoHash}]

\* The shape of every table and of the worker's registers.
TypeOK ==
    /\ disk \in [Path -> Stored \cup {NoFile}]
    /\ catalog \in [CatId -> Path]
    /\ status \in Seq({"pending", "running", "completed", "failed", "cancelled"})
    /\ files \in Seq(FileRow)
    /\ steps \in Seq(StepRow)
    /\ queue \in Seq(0..Len(status))
    /\ cancel \subseteq DOMAIN status
    /\ plan \in Requests \cup {NoPlan}
    /\ pc \in Labels
    /\ op \in 0..Len(status)
    /\ todo \subseteq DOMAIN files
    /\ row \in 0..Len(files)
    /\ step \in 0..Len(steps) /\ outer \in 0..Len(steps)
    /\ prior \in BOOLEAN
    /\ cands \subseteq DOMAIN steps
    /\ healed \subseteq DOMAIN status
    /\ {faults, crashes, resumes, externals} \subseteq Nat

Whole(c) == \E p \in Path : disk[p] = c

Keeps == \A c \in Content : Whole(c) => Whole(c)'

\* No step of the executor destroys the last complete copy of a file: it
\* neither overwrites a file at a destination nor removes a source before the
\* destination holds the same bytes (executor.rs, run_move and its steps).
ExecutorKeepsContent ==
    [][externals' = externals /\ pc # "heal" => Keeps]_vars

\* The reconcile pass removes a source only when the file it removes exists
\* elsewhere (reconcile.rs, heal_candidate).
ReconcileKeepsContent ==
    [][externals' = externals /\ pc = "heal" => Keeps]_vars

\* What a catalog row was created for.
Original(i) == InitDisk[InitCatalog[i]]

\* While no job runs, every catalog row is at the path of its file: a move
\* that ended, failed or was cancelled leaves disk and catalog agreeing.
CatalogFollowsFile ==
    pc = "idle" => \A i \in CatId :
        Original(i) \in Content => disk[catalog[i]] = Original(i)

\* An operation becomes completed, by its own run or by the reconcile pass,
\* only when each of its files has left its source and is at its destination
\* on disk and in the catalog.
CompletedMeansMoved ==
    [][\A o \in DOMAIN status :
          status[o] # "completed" /\ status'[o] = "completed" =>
              \A f \in FilesOf(o) :
                  /\ ~Exists(Src(f)) /\ Exists(Dst(f))
                  /\ files[f].cat # NoCat =>
                        /\ catalog[files[f].cat] = Dst(f)
                        /\ disk[Dst(f)] = Original(files[f].cat)]_vars

\* Every operation handed to the queue ends, whatever fails under it, unless
\* the process is killed meanwhile.
JobsEnd ==
    \A o \in 1..MaxOps, c \in 0..MaxCrashes :
        (crashes = c /\ \E i \in DOMAIN queue : queue[i] = o)
            ~> (\/ o \in DOMAIN status /\ status[o] \in {"completed", "failed", "cancelled"}
                \/ crashes > c)

\* Run again after the process was killed anywhere in it, an operation whose
\* files nothing else touches completes, unless it is cancelled or the file
\* system fails under it: no row is stranded by what the interrupted run left
\* on disk and in the journal.
ResumeCompletes ==
    \A o \in 1..MaxOps :
        (crashes = MaxCrashes /\ resumes = 1 /\ \E i \in DOMAIN queue : queue[i] = o)
            ~> (o \in DOMAIN status /\ (\/ o \in cancel \/ status[o] = "completed"
                                       \/ faults + externals > 0))

=============================================================================
