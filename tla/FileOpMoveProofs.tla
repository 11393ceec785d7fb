-------------------------- MODULE FileOpMoveProofs --------------------------
(***************************************************************************)
(* What the reconcile pass removes and what a completed move has done, for *)
(* any directories, files, catalog and requests and any number of moves,   *)
(* when the user waits for each move to end, the process is not killed and *)
(* the file system does not fail under the reconcile pass.                 *)
(*                                                                         *)
(* The pass trusts the journal: a failed commit whose copy was verified is *)
(* finished by removing the source.  That is sound because such a commit   *)
(* is always finished by the very next job, before that job changes        *)
(* anything on disk.                                                       *)
(***************************************************************************)
EXTENDS FileOpProofs

-----------------------------------------------------------------------------
Healing == {"heal", "healStep", "healRow"}

\* Failed commits, finished verifications, and the failed commits of rows
\* with a finished verification, which the reconcile pass will act on.
Broken == list_failed_commit_move_candidates
Checked == {s \in DOMAIN steps : steps[s].stage = "verify" /\ steps[s].status = "done"}
Verified(f) == \E s \in Checked : steps[s].file = f
Ripe == {s \in Broken : Verified(steps[s].file)}

\* The row's file has left its source, on disk and in the catalog.
Moved(f) ==
    /\ ~Exists(Src(f)) /\ Exists(Dst(f))
    /\ files[f].cat # NoCat => catalog[files[f].cat] = Dst(f)

\* Only the removal of the source is left to do.
Copied(f) ==
    /\ Exists(Dst(f)) /\ disk[Src(f)] \in {NoFile, disk[Dst(f)]}
    /\ Digest[disk[Dst(f)]] = files[f].hash
    /\ \A i \in CatId : catalog[i] # Src(f)
    /\ files[f].cat # NoCat => catalog[files[f].cat] = Dst(f)

DoneMoved(o) == \A f \in FilesOf(o) : files[f].disp = "done" => Moved(f)

\* A row is verified once, with the hash it is expected to have.
Journal ==
    /\ \A s, t \in Checked : steps[s].file = steps[t].file => s = t
    /\ \A s \in Checked : steps[s].hash = files[steps[s].file].hash /\ steps[s].hash # NoHash

StepAt(stage) ==
    /\ step \in DOMAIN steps /\ steps[step].file = row
    /\ steps[step].stage = stage /\ steps[step].status = "in_progress"

\* The registers point to the step that is being executed.
OnStep ==
    /\ pc \in {"renameCheck", "renameDo", "renameSync", "renameDone",
               "commitSync", "commitRemove", "commitDone"} => StepAt("commit_move")
    /\ pc \in {"copyCheck", "copyDo", "copying", "copied"} => StepAt("copy")
    /\ pc = "verifying" => StepAt("verify")
    /\ pc \in RowLabels /\ outer # 0 =>
         /\ outer \in DOMAIN steps /\ steps[outer].file = row
         /\ steps[outer].stage = "commit_move"
    /\ pc \in RowLabels => files[row].disp # "done"

\* How far the row is.
Progress ==
    /\ pc \in RowLabels \ {"error"} => \A s \in Broken : steps[s].file # row
    /\ pc \in RowLabels \ {"commit", "commitSync", "commitRemove", "commitDone",
                           "rowDone", "error"} => ~Verified(row)
    /\ pc \in {"copying", "copied", "verify", "verifying", "commit", "commitSync",
               "commitRemove"} => Exists(Src(row))
    /\ pc \in {"commit", "commitSync", "commitRemove"} =>
         Digest[disk[Dst(row)]] = files[row].hash
    /\ pc \in {"copyDo", "copying", "copied", "verify", "verifying", "commit",
               "commitSync"} => \A i \in CatId : catalog[i] # Dst(row)
    /\ pc = "renameSync" => ~Exists(Src(row)) /\ Exists(Dst(row))
    /\ pc \in {"renameDone", "commitDone", "rowDone"} => Moved(row)
    /\ pc = "error" /\ Verified(row) => Copied(row)

\* The rows the loop has left behind were moved.
Behind ==
    pc \in RowLabels \cup {"next"} =>
        \A f \in FilesOf(op) \ todo : pc = "next" \/ f # row => Moved(f)

\* What the next reconcile pass will act on is one row, that of the last job.
Ripeness ==
    /\ \A s, t \in Ripe : steps[s].file = steps[t].file
    /\ \A s \in Ripe : /\ Copied(steps[s].file)
                       /\ pc # "error" => DoneMoved(files[steps[s].file].op)
    /\ pc \in {"start", "next"} \cup (RowLabels \ {"error"}) => Ripe = {}
    /\ pc = "error" => \A s \in Ripe : steps[s].file = row

\* The pass leaves none of it behind.
Pass ==
    /\ pc \in Healing =>
         /\ Ripe \subseteq cands
         /\ \A o \in healed : DoneMoved(o)
         /\ \A s \in Ripe : healed \subseteq {files[steps[s].file].op}
    /\ pc \in {"heal", "healStep"} => cands \subseteq Broken
    /\ pc = "healStep" => First(cands) \in Ripe /\ ~Exists(Src(steps[First(cands)].file))
    /\ pc = "healRow" =>
         LET f == steps[First(cands)].file IN
         /\ First(cands) \notin Broken /\ Moved(f) /\ DoneMoved(files[f].op)
         /\ cands \ {First(cands)} \subseteq Broken
         /\ \A s \in Ripe : steps[s].file = f
         /\ healed \subseteq {files[f].op}

Told == Journal /\ OnStep /\ Progress /\ Behind /\ Ripeness /\ Pass

-----------------------------------------------------------------------------
(***************************************************************************)
(* What the shared parts of the worker's actions do to the journal.        *)
(***************************************************************************)
\* The journal says the same of verifications and failed commits.
SameJournal ==
    /\ DOMAIN steps \subseteq DOMAIN steps'
    /\ \A s \in DOMAIN steps : steps'[s].file = steps[s].file /\ steps'[s].stage = steps[s].stage
    /\ Checked' = Checked /\ \A s \in Checked : steps'[s].hash = steps[s].hash

LEMMA OpenEffect ==
    ASSUME RestShape, NEW stage, OpenStep(stage)
    PROVE  SameJournal /\ Broken' = Broken /\ StepAt(stage)' /\ files' = files
<1> DEFINE r == [file |-> row, stage |-> stage, status |-> "in_progress", hash |-> NoHash]
<1>1. /\ steps \in Seq(StepRow) /\ steps' = Append(steps, r) /\ step' = Len(steps) + 1
      /\ row' = row /\ files' = files
  BY DEF RestShape, OpenStep
<1>2. r.file = row /\ r.stage = stage /\ r.status = "in_progress"
  OBVIOUS
<1> HIDE DEF r
<1>3. /\ DOMAIN steps = 1..Len(steps) /\ DOMAIN steps' = 1..(Len(steps) + 1)
      /\ Len(steps) \in Nat /\ \A s \in DOMAIN steps : steps'[s] = steps[s]
      /\ steps'[Len(steps) + 1] = r
  BY <1>1
<1>4. \A s \in DOMAIN steps' : s \in DOMAIN steps \/ steps'[s] = r
  BY <1>3
<1>5. Checked' = Checked
  BY <1>2, <1>3, <1>4 DEF Checked
<1>6. Broken' = Broken
  BY <1>2, <1>3, <1>4 DEF Broken, list_failed_commit_move_candidates
<1> QED
  BY <1>1, <1>2, <1>3, <1>5, <1>6 DEF SameJournal, StepAt, Checked

LEMMA CloseEffect ==
    ASSUME RestShape, step \in DOMAIN steps, NEW v \in StepStatus,
           NEW h \in Hashes \cup {NoHash}, steps' = CloseStep(steps, step, v, h)
    PROVE  /\ DOMAIN steps' = DOMAIN steps
           /\ \A s \in DOMAIN steps : /\ steps'[s].file = steps[s].file
                                      /\ steps'[s].stage = steps[s].stage
           /\ \A s \in DOMAIN steps : s # step => steps'[s] = steps[s]
           /\ steps'[step].status = v /\ steps'[step].hash = h
<1>1. steps \in Seq(StepRow) /\ steps[step] \in StepRow
  BY DEF RestShape
<1>2. SameSteps(steps', steps)
  BY <1>1, CloseEdit
<1>3. \A s \in DOMAIN steps :
         steps'[s] = IF s = step THEN [steps[step] EXCEPT !.status = v, !.hash = h] ELSE steps[s]
  BY <1>1 DEF CloseStep
<1>4. steps'[step].status = v /\ steps'[step].hash = h
  BY <1>1, <1>3 DEF StepRow
<1> QED
  BY <1>2, <1>3, <1>4 DEF SameSteps

LEMMA DoneEffect ==
    ASSUME RestShape, NEW stage, StepAt(stage), NEW h \in Hashes \cup {NoHash},
           NEW next, StepDone(h, next)
    PROVE  /\ files' = files /\ row' = row /\ Broken' = Broken
           /\ stage # "verify" => SameJournal
           /\ stage = "verify" =>
                 /\ DOMAIN steps' = DOMAIN steps /\ step \in DOMAIN steps
                 /\ \A s \in DOMAIN steps : /\ steps'[s].file = steps[s].file
                                            /\ steps'[s].stage = steps[s].stage
                 /\ \A s \in DOMAIN steps : s # step => steps'[s] = steps[s]
                 /\ steps'[step].hash = h /\ Checked' = Checked \cup {step}
<1>1. /\ "done" \in StepStatus /\ steps' = CloseStep(steps, step, "done", h)
      /\ files' = files /\ row' = row
  BY DEF StepDone, StepStatus, CloseStep, loop
<1>2. /\ DOMAIN steps' = DOMAIN steps /\ step \in DOMAIN steps
      /\ \A s \in DOMAIN steps : /\ steps'[s].file = steps[s].file
                                 /\ steps'[s].stage = steps[s].stage
      /\ \A s \in DOMAIN steps : s # step => steps'[s] = steps[s]
      /\ steps'[step].status = "done" /\ steps'[step].hash = h
  BY <1>1, CloseEffect DEF StepAt
<1>3. Broken' = Broken
  BY <1>2 DEF StepAt, Broken, list_failed_commit_move_candidates
<1>4. stage # "verify" => SameJournal
  BY <1>2 DEF StepAt, Checked, SameJournal
<1>5. stage = "verify" => Checked' = Checked \cup {step}
  BY <1>2 DEF StepAt, Checked
<1> QED
  BY <1>1, <1>2, <1>3, <1>4, <1>5

\* A step that fails was not finished before; it may add a failed commit.
LEMMA FailedEffect ==
    ASSUME RestShape, NEW stage, StepAt(stage), row \in DOMAIN files,
           NEW h \in Hashes \cup {NoHash}, StepFailed(h)
    PROVE  /\ SameJournal /\ row' = row
           /\ Broken' \subseteq Broken \cup {step} /\ step \in DOMAIN steps
           /\ files'[row].disp = "failed"
           /\ \A f \in DOMAIN files : files'[f].hash = files[f].hash
<1>1. /\ "failed" \in StepStatus /\ steps' = CloseStep(steps, step, "failed", h)
      /\ row' = row /\ files' = [files EXCEPT ![row].disp = "failed"]
  BY DEF StepFailed, StepStatus, CloseStep, loop
<1>2. /\ DOMAIN steps' = DOMAIN steps /\ step \in DOMAIN steps
      /\ \A s \in DOMAIN steps : /\ steps'[s].file = steps[s].file
                                 /\ steps'[s].stage = steps[s].stage
      /\ \A s \in DOMAIN steps : s # step => steps'[s] = steps[s]
      /\ steps'[step].status = "failed"
  BY <1>1, CloseEffect DEF StepAt
<1>3. Checked' = Checked /\ step \notin Checked
  BY <1>2 DEF StepAt, Checked
<1>4. Broken' \subseteq Broken \cup {step}
  BY <1>2 DEF Broken, list_failed_commit_move_candidates
<1>5. \A f \in DOMAIN files : files[f] \in FileRow
  BY DEF RestShape
<1>6. \A f \in DOMAIN files :
         files'[f] = IF f = row THEN [files[row] EXCEPT !.disp = "failed"] ELSE files[f]
  BY <1>1
<1>7. /\ files'[row].disp = "failed"
      /\ \A f \in DOMAIN files : files'[f].hash = files[f].hash
  BY <1>5, <1>6 DEF FileRow
<1>8. SameJournal
  BY <1>2, <1>3 DEF Checked, SameJournal
<1> QED
  BY <1>1, <1>2, <1>4, <1>7, <1>8

LEMMA IdleJournal ==
    ASSUME steps' = steps PROVE SameJournal /\ Broken' = Broken
BY DEF SameJournal, Checked, Broken, list_failed_commit_move_candidates

-----------------------------------------------------------------------------
(***************************************************************************)
(* What the executor does to its row leaves the other rows alone.          *)
(***************************************************************************)
\* On disk a step may create the destination or remove the source; in the
\* catalog it may move what is at the source.
Tame ==
    /\ \A p \in Path : \/ disk'[p] = disk[p]
                       \/ p = Dst(row) /\ disk'[p] # NoFile
                       \/ p = Src(row) /\ disk'[p] = NoFile
    /\ \A i \in CatId : catalog'[i] = catalog[i] \/ catalog[i] = Src(row)

LEMMA QuietTame == ASSUME UNCHANGED world PROVE Tame
BY DEF Tame, world

LEMMA RowPaths ==
    ASSUME RestShape
    PROVE  \A f \in DOMAIN files : /\ Src(f) \in Path /\ Dst(f) \in Path
                                   /\ files[f].cat \in CatId \cup {NoCat}
<1>1. \A f \in DOMAIN files : files[f] \in FileRow
  BY DEF RestShape
<1> QED
  BY <1>1 DEF FileRow, Src, Dst

LEMMA MovedKept ==
    ASSUME RestShape, OneTrip, KeptRows, Tame,
           row \in DOMAIN files, NEW f \in DOMAIN files, files[f].op = files[row].op, Moved(f)
    PROVE  Moved(f)'
<1>1. /\ Src(f)' = Src(f) /\ Dst(f)' = Dst(f) /\ files'[f].cat = files[f].cat
      /\ Src(f) \in Path /\ Dst(f) \in Path /\ files[f].cat \in CatId \cup {NoCat}
  BY RowPaths DEF KeptRows, Src, Dst
<1>2. Src(f) # Dst(row) /\ Dst(f) # Src(row)
  BY DEF OneTrip, Src, Dst
<1>3. disk'[Src(f)] = NoFile /\ disk'[Dst(f)] # NoFile
  BY <1>1, <1>2 DEF Tame, Moved, Exists
<1>4. files[f].cat # NoCat => catalog'[files[f].cat] = Dst(f)
  BY <1>1, <1>2 DEF Tame, Moved
<1> QED
  BY <1>1, <1>3, <1>4 DEF Moved, Exists

LEMMA BehindKept ==
    ASSUME RestShape, Started, OneTrip, Behind, Routine, Tame,
           row' = row, todo' = todo, pc \in RowLabels, pc' \in RowLabels
    PROVE  Behind'
<1>1. row \in DOMAIN files /\ files[row].op = op /\ op' = op
  BY DEF RestShape, Registers, Started, Routine
<1>2. FilesOf(op)' = FilesOf(op)
  BY <1>1 DEF FilesOf, Routine, KeptRows
<1>3. pc # "next" /\ pc' # "next"
  BY DEF RowLabels
<1>4. ASSUME NEW f \in FilesOf(op) \ todo, f # row PROVE Moved(f)'
  <2>1. f \in DOMAIN files /\ files[f].op = files[row].op /\ Moved(f)
    BY <1>1, <1>4 DEF Behind, FilesOf
  <2> QED
    BY <1>1, <2>1, MovedKept DEF Routine
<1> QED
  BY <1>2, <1>3, <1>4 DEF Behind

\* A step on the row that does not fail.
LEMMA Onward ==
    ASSUME RestShape, Started, OneTrip, Told, Routine, Tame, SameJournal, Broken' = Broken,
           row' = row, todo' = todo,
           pc \in RowLabels \ {"error"}, pc' \in RowLabels \ {"error"},
           \A s \in Checked : files'[steps[s].file].hash = files[steps[s].file].hash
    PROVE  /\ Journal' /\ Behind' /\ Ripeness' /\ Pass'
           /\ \A s \in Broken' : steps'[s].file # row'
           /\ Verified(row)' <=> Verified(row)
           /\ outer' = outer /\ outer' # 0 =>
                 /\ outer' \in DOMAIN steps' /\ steps'[outer'].file = row'
                 /\ steps'[outer'].stage = "commit_move"
<1>1. /\ Checked' = Checked /\ Checked \subseteq DOMAIN steps /\ Broken \subseteq DOMAIN steps
      /\ \A s \in DOMAIN steps : steps'[s].file = steps[s].file /\ steps'[s].stage = steps[s].stage
      /\ \A s \in Checked : steps'[s].hash = steps[s].hash
      /\ DOMAIN steps \subseteq DOMAIN steps'
  BY DEF SameJournal, Checked, Broken, list_failed_commit_move_candidates
<1>2. Journal'
  <2>1. \A s \in Checked : steps'[s].file = steps[s].file
    BY <1>1
  <2> QED
    BY <1>1, <2>1 DEF Told, Journal
<1>3. \A f : Verified(f)' <=> Verified(f)
  BY <1>1 DEF Verified
<1>4. Ripe = {}
  BY DEF Told, Ripeness
<1>5. Ripe' = {}
  <2>1. ASSUME NEW s \in Ripe' PROVE FALSE
    <3>1. s \in Broken /\ s \in DOMAIN steps
      BY <1>1, <2>1 DEF Ripe
    <3>2. PICK t \in Checked : steps'[t].file = steps'[s].file
      BY <1>1, <2>1 DEF Ripe, Verified
    <3>3. steps[t].file = steps[s].file
      BY <1>1, <3>1, <3>2
    <3> QED
      BY <1>4, <3>1, <3>3 DEF Ripe, Verified
  <2> QED
    BY <2>1
<1>6. Ripeness' /\ Pass'
  BY <1>5 DEF Ripeness, Pass, Healing, RowLabels
<1>7. Behind'
  BY BehindKept DEF Told
<1>8. \A s \in Broken' : steps'[s].file # row'
  BY <1>1 DEF Told, Progress
<1>9. outer' = outer /\ outer' # 0 =>
         /\ outer' \in DOMAIN steps' /\ steps'[outer'].file = row'
         /\ steps'[outer'].stage = "commit_move"
  BY <1>1 DEF Told, OnStep
<1> QED
  BY <1>2, <1>3, <1>6, <1>7, <1>8, <1>9

\* A step on the row that fails: it adds no failed commit but of the row.
LEMMA Failing ==
    ASSUME RestShape, Started, OneTrip, Told, Routine, UNCHANGED world, SameJournal,
           row' = row, todo' = todo, outer' = outer,
           pc \in RowLabels \ {"error"}, pc' = "error",
           \A s \in Broken' : s \in Broken \/ (s \in DOMAIN steps /\ steps[s].file = row),
           files'[row].disp # "done",
           \A f \in DOMAIN files : files'[f].hash = files[f].hash,
           Verified(row) => Copied(row)
    PROVE  Told'
<1>1. /\ Checked' = Checked /\ Checked \subseteq DOMAIN steps /\ Broken \subseteq DOMAIN steps
      /\ \A s \in DOMAIN steps : steps'[s].file = steps[s].file /\ steps'[s].stage = steps[s].stage
      /\ \A s \in Checked : steps'[s].hash = steps[s].hash
      /\ DOMAIN steps \subseteq DOMAIN steps'
  BY DEF SameJournal, Checked, Broken, list_failed_commit_move_candidates
<1>0. /\ \A s \in DOMAIN steps : steps[s].file \in DOMAIN files
      /\ row \in DOMAIN files /\ "error" \in RowLabels
  BY DEF RestShape, Keys, Registers, RowLabels
<1>2. Journal'
  <2>1. \A s \in Checked : /\ steps'[s].file = steps[s].file /\ steps[s].file \in DOMAIN files
    BY <1>0, <1>1
  <2> QED
    BY <1>1, <2>1 DEF Told, Journal
<1>3. \A f : Verified(f)' <=> Verified(f)
  BY <1>1 DEF Verified
<1>4. Ripe = {}
  BY DEF Told, Ripeness
<1>5. ASSUME NEW s \in Ripe' PROVE steps'[s].file = row
  <2>1. s \in DOMAIN steps /\ s \in Broken'
    BY <1>1, <1>5 DEF Ripe
  <2>2. CASE s \in Broken
    <3>1. PICK t \in Checked : steps'[t].file = steps'[s].file
      BY <1>1, <1>5 DEF Ripe, Verified
    <3>2. steps[t].file = steps[s].file
      BY <1>1, <2>1, <3>1
    <3> QED
      BY <1>4, <2>2, <3>2 DEF Ripe, Verified
  <2> QED
    BY <1>1, <2>1, <2>2
<1>6. Verified(row) => Copied(row)'
  BY <1>0 DEF Copied, Exists, Src, Dst, world, Routine, KeptRows
<1>7. \A s \in Ripe' : Verified(steps[s].file)'
  BY DEF Ripe
<1>8. \A s \in Ripe' : Copied(steps[s].file)'
  <2> TAKE s \in Ripe'
  <2>1. steps'[s].file = row /\ Verified(row)'
    BY <1>5, <1>7 DEF Verified
  <2>2. Copied(row)'
    BY <1>3, <1>6, <2>1
  <2> QED
    BY <2>1, <2>2 DEF Copied, Src, Dst
<1>9. Ripeness'
  BY <1>0, <1>5, <1>8 DEF Ripeness
<1>10. Pass'
  BY DEF Pass, Healing
<1>11. Behind'
  BY <1>0, BehindKept, QuietTame DEF Told
<1>12. OnStep'
  BY <1>0, <1>1 DEF Told, OnStep
<1>13. Progress'
  BY <1>3, <1>6 DEF Progress, Verified, Copied, Src, Dst
<1> QED
  BY <1>2, <1>9, <1>10, <1>11, <1>12, <1>13 DEF Told

LEMMA AbortTold ==
    ASSUME RestShape, Started, OneTrip, Told, Routine, UNCHANGED world, Abort,
           pc \in RowLabels \ {"error"}, ~Verified(row)
    PROVE  Told'
<1>1. /\ pc' = "error" /\ UNCHANGED <<steps, files, row, todo, outer>>
  BY DEF Abort, journal, loop
<1>2. SameJournal /\ Broken' = Broken
  BY <1>1, IdleJournal
<1>3. files'[row].disp # "done"
  BY <1>1 DEF Told, OnStep
<1>4. \A s \in Broken' : s \in Broken \/ (s \in DOMAIN steps /\ steps[s].file = row)
  BY <1>2
<1>5. (\A f \in DOMAIN files : files'[f].hash = files[f].hash) /\ row' = row /\ todo' = todo
      /\ outer' = outer /\ pc' = "error"
  BY <1>1
<1> QED
  BY <1>2, <1>3, <1>4, <1>5, Failing

LEMMA StepFailedTold ==
    ASSUME RestShape, Started, OneTrip, Told, Routine, UNCHANGED world,
           NEW h \in Hashes \cup {NoHash}, StepFailed(h),
           NEW stage, StepAt(stage),
           pc \in RowLabels \ {"error"}, Verified(row) => Copied(row)
    PROVE  Told'
<1>0. row \in DOMAIN files
  BY DEF RestShape, Registers
<1>1. pc' = "error" /\ row' = row /\ todo' = todo /\ outer' = outer
  BY DEF StepFailed, loop
<1>2. /\ SameJournal /\ Broken' \subseteq Broken \cup {step}
      /\ files'[row].disp = "failed"
      /\ \A f \in DOMAIN files : files'[f].hash = files[f].hash
  BY <1>0, FailedEffect
<1>2a. step \in DOMAIN steps /\ steps[step].file = row
  BY DEF StepAt
<1>3. \A s \in Broken' : s \in Broken \/ (s \in DOMAIN steps /\ steps[s].file = row)
  BY <1>2, <1>2a
<1> QED
  BY <1>1, <1>2, <1>3, Failing

-----------------------------------------------------------------------------
LEMMA RenameTold ==
    ASSUME AllPresent, WorldType, RestShape, Order, FirstTry, OnDisk, Steady, Told, RenameStep
    PROVE  Told'
<1>1. Routine /\ row' = row /\ Alone /\ OneTrip /\ Tracked /\ Agreed /\ Started /\ Tracked'
  BY RenameRoutine, RenameSteady DEF Steady, Order
<1>2. /\ pc \in RowLabels \ {"error"}
      /\ pc \in {"rename", "renameCheck", "renameDo", "renameSync", "renameDone", "fallback"}
  BY DEF RenameStep, ResumeDegraded, RenameBegin, RenameResume, RenameRefuse,
         RenameNoParent, RenameReady, RenameDo, RenameError, RenameExdev,
         RenameSync, RenameDone, Fallback, FallbackError, RowLabels
<1>3. row \in DOMAIN files /\ Src(row) \in Path /\ Dst(row) \in Path /\ Src(row) # Dst(row)
  BY <1>2, RowTypes DEF Order, Apart, Src, Dst
<1>4. ~Verified(row) /\ NoHash \in Hashes \cup {NoHash}
  BY <1>2 DEF Told, Progress
<1>5. /\ {"renameCheck", "renameDo", "renameSync", "renameDone", "fallback", "copy",
          "rowDone"} \subseteq RowLabels \ {"error"}
      /\ \A i \in CatId : Original(i) # NoFile
  BY ContentAssumption DEF RowLabels, AllPresent
<1>6. files[row].disp # "done"
  BY <1>2 DEF Told, OnStep
<1>7. /\ files[row].cat \in CatId \cup {NoCat} /\ files[row].op = op /\ Active(op)
      /\ (files[row].cat # NoCat => catalog[files[row].cat] \in {Src(row), Dst(row)})
  BY <1>1, <1>2, <1>3, RowPaths DEF Started, Active, Tracked, RowLabels
\* Going on to another label of the row with the journal as it is.
<1>8. ASSUME NEW next \in RowLabels \ {"error"}, Go(next), Tame
      PROVE  /\ Journal' /\ Behind' /\ Ripeness' /\ Pass'
             /\ pc' = next /\ UNCHANGED <<steps, step, files, outer>>
             /\ \A s \in Broken' : steps'[s].file # row'
             /\ ~Verified(row)'
             /\ outer' # 0 => /\ outer' \in DOMAIN steps' /\ steps'[outer'].file = row'
                              /\ steps'[outer'].stage = "commit_move"
  <2>1. /\ pc' = next /\ UNCHANGED <<steps, step, files, outer, todo>>
    BY <1>8 DEF Go, journal, loop
  <2> QED
    BY <1>1, <1>2, <1>4, <1>8, <2>1, IdleJournal, Onward
<1>9. ASSUME NEW stage, StepAt(stage), UNCHANGED <<step, steps>> PROVE StepAt(stage)'
  BY <1>1, <1>9 DEF StepAt
\* The catalog row follows.
<1>10. ASSUME sync_catalog_path(row)
       PROVE  /\ \A i \in CatId :
                   catalog'[i] = IF catalog[i] = Src(row) THEN Dst(row) ELSE catalog[i]
              /\ files[row].cat # NoCat => catalog'[files[row].cat] = Dst(row)
  <2>1. \A i \in CatId : catalog'[i] = IF catalog[i] = Src(row) THEN Dst(row) ELSE catalog[i]
    BY <1>1, <1>2, <1>10, SyncMoves
  <2> QED
    BY <1>7, <2>1
<1>a. CASE ResumeDegraded
  BY <1>a DEF ResumeDegraded, FirstTry
<1>b. CASE RenameBegin
  <2>1. /\ OpenStep("commit_move") /\ pc' = "renameCheck"
        /\ UNCHANGED <<world, files, todo, outer>>
    BY <1>b DEF RenameBegin, OpenStep
  <2>2. SameJournal /\ Broken' = Broken /\ StepAt("commit_move")'
    BY <2>1, OpenEffect
  <2>3. /\ Journal' /\ Behind' /\ Ripeness' /\ Pass'
        /\ \A s \in Broken' : steps'[s].file # row'
        /\ ~Verified(row)'
        /\ outer' # 0 => /\ outer' \in DOMAIN steps' /\ steps'[outer'].file = row'
                         /\ steps'[outer'].stage = "commit_move"
    BY <1>1, <1>2, <1>4, <1>5, <2>1, <2>2, QuietTame, Onward
  <2>4. OnStep'
    BY <1>1, <1>6, <2>1, <2>2, <2>3 DEF OnStep
  <2>5. Progress'
    BY <2>1, <2>3 DEF Progress
  <2> QED
    BY <2>3, <2>4, <2>5 DEF Told
<1>c. CASE RenameResume
  <2>1. pc = "renameCheck" /\ ~Exists(Src(row)) /\ Exists(Dst(row)) /\ disk' = disk
    BY <1>c DEF RenameResume
  <2>2. CASE SyncOk(row) /\ sync_catalog_path(row) /\ Go("renameDone")
    <3>1. Tame
      BY <1>10, <2>1, <2>2 DEF Tame
    <3>2. /\ Journal' /\ Behind' /\ Ripeness' /\ Pass'
          /\ pc' = "renameDone" /\ UNCHANGED <<steps, step, files, outer>>
          /\ \A s \in Broken' : steps'[s].file # row'
          /\ ~Verified(row)'
          /\ outer' # 0 => /\ outer' \in DOMAIN steps' /\ steps'[outer'].file = row'
                           /\ steps'[outer'].stage = "commit_move"
      BY <1>5, <1>8, <2>2, <3>1
    <3>3. StepAt("commit_move")'
      BY <1>9, <2>1, <3>2 DEF Told, OnStep
    <3>4. Moved(row)'
      BY <1>1, <1>10, <2>1, <2>2, <3>2 DEF Moved, Exists, Src, Dst
    <3>5. OnStep'
      BY <1>1, <1>6, <3>2, <3>3 DEF OnStep
    <3>6. Progress'
      BY <3>2, <3>4 DEF Progress, Moved, Src, Dst
    <3> QED
      BY <3>2, <3>5, <3>6 DEF Told
  <2>3. CASE ~SyncOk(row) /\ Abort /\ catalog' = catalog
    BY <1>1, <1>2, <1>4, <2>1, <2>3, AbortTold DEF world
  <2> QED
    BY <1>c, <2>2, <2>3 DEF RenameResume
<1>d. CASE RenameRefuse
  <2>1. StepAt("commit_move") /\ StepFailed(NoHash) /\ UNCHANGED world
    BY <1>d DEF RenameRefuse, Told, OnStep
  <2> QED
    BY <1>1, <1>2, <1>4, <2>1, StepFailedTold
<1>e. CASE RenameNoParent
  <2>1. Abort /\ UNCHANGED world
    BY <1>e DEF RenameNoParent
  <2> QED
    BY <1>1, <1>2, <1>4, <2>1, AbortTold
<1>f. CASE RenameReady
  <2>1. pc = "renameCheck" /\ Go("renameDo") /\ Tame
    BY <1>f, QuietTame DEF RenameReady
  <2>2. /\ Journal' /\ Behind' /\ Ripeness' /\ Pass'
        /\ pc' = "renameDo" /\ UNCHANGED <<steps, step, files, outer>>
        /\ \A s \in Broken' : steps'[s].file # row'
        /\ ~Verified(row)'
        /\ outer' # 0 => /\ outer' \in DOMAIN steps' /\ steps'[outer'].file = row'
                         /\ steps'[outer'].stage = "commit_move"
    BY <1>5, <1>8, <2>1
  <2>3. StepAt("commit_move")'
    BY <1>9, <2>1, <2>2 DEF Told, OnStep
  <2>4. OnStep'
    BY <1>1, <1>6, <2>2, <2>3 DEF OnStep
  <2>5. Progress'
    BY <2>2 DEF Progress
  <2> QED
    BY <2>2, <2>4, <2>5 DEF Told
<1>g. CASE RenameDo
  <2>1. /\ pc = "renameDo" /\ Go("renameSync") /\ catalog' = catalog
        /\ disk' = [disk EXCEPT ![Dst(row)] = disk[Src(row)], ![Src(row)] = NoFile]
        /\ disk[Src(row)] # NoFile
    BY <1>g DEF RenameDo, Exists
  <2>2. /\ disk'[Dst(row)] # NoFile /\ disk'[Src(row)] = NoFile
        /\ \A p \in Path : p \notin {Src(row), Dst(row)} => disk'[p] = disk[p]
    BY <1>3, <2>1 DEF WorldType
  <2>3. Tame
    BY <2>1, <2>2 DEF Tame
  <2>4. /\ Journal' /\ Behind' /\ Ripeness' /\ Pass'
        /\ pc' = "renameSync" /\ UNCHANGED <<steps, step, files, outer>>
        /\ \A s \in Broken' : steps'[s].file # row'
        /\ ~Verified(row)'
        /\ outer' # 0 => /\ outer' \in DOMAIN steps' /\ steps'[outer'].file = row'
                         /\ steps'[outer'].stage = "commit_move"
    BY <1>5, <1>8, <2>1, <2>3
  <2>5. StepAt("commit_move")'
    BY <1>9, <2>1, <2>4 DEF Told, OnStep
  <2>6. OnStep'
    BY <1>1, <1>6, <2>4, <2>5 DEF OnStep
  <2>7. Progress'
    BY <1>1, <2>2, <2>4 DEF Progress, Exists, Src, Dst
  <2> QED
    BY <2>4, <2>6, <2>7 DEF Told
<1>h. CASE RenameError
  <2>1. StepAt("commit_move") /\ StepFailed(NoHash) /\ UNCHANGED world
    BY <1>h DEF RenameError, Told, OnStep
  <2> QED
    BY <1>1, <1>2, <1>4, <2>1, StepFailedTold
<1>i. CASE RenameExdev
  <2>1. /\ pc' = "fallback" /\ outer' = step /\ pc = "renameDo"
        /\ UNCHANGED <<world, steps, files, todo, step>>
    BY <1>i DEF RenameExdev, journal
  <2>2. /\ Journal' /\ Behind' /\ Ripeness' /\ Pass'
        /\ \A s \in Broken' : steps'[s].file # row'
        /\ ~Verified(row)'
    BY <1>1, <1>2, <1>4, <1>5, <2>1, IdleJournal, QuietTame, Onward
  <2>3. StepAt("commit_move")
    BY <2>1 DEF Told, OnStep
  <2>4. OnStep'
    BY <1>1, <1>6, <2>1, <2>3 DEF OnStep, StepAt
  <2>5. Progress'
    BY <2>1, <2>2 DEF Progress
  <2> QED
    BY <2>2, <2>4, <2>5 DEF Told
<1>j. CASE RenameSync
  <2>1. pc = "renameSync" /\ disk' = disk /\ SyncOk(row) /\ ~Exists(Src(row)) /\ Exists(Dst(row))
    BY <1>1, <1>j DEF RenameSync, Agreed, SyncOk, Told, Progress
  <2>2. sync_catalog_path(row) /\ Go("renameDone")
    BY <1>j, <2>1 DEF RenameSync
  <2>3. Tame
    BY <1>10, <2>1, <2>2 DEF Tame
  <2>4. /\ Journal' /\ Behind' /\ Ripeness' /\ Pass'
        /\ pc' = "renameDone" /\ UNCHANGED <<steps, step, files, outer>>
        /\ \A s \in Broken' : steps'[s].file # row'
        /\ ~Verified(row)'
        /\ outer' # 0 => /\ outer' \in DOMAIN steps' /\ steps'[outer'].file = row'
                         /\ steps'[outer'].stage = "commit_move"
    BY <1>5, <1>8, <2>2, <2>3
  <2>5. StepAt("commit_move")'
    BY <1>9, <2>1, <2>4 DEF Told, OnStep
  <2>6. Moved(row)'
    BY <1>1, <1>10, <2>1, <2>2, <2>4 DEF Moved, Exists, Src, Dst
  <2>7. OnStep'
    BY <1>1, <1>6, <2>4, <2>5 DEF OnStep
  <2>8. Progress'
    BY <2>4, <2>6 DEF Progress, Moved, Src, Dst
  <2> QED
    BY <2>4, <2>7, <2>8 DEF Told
<1>k. CASE RenameDone
  <2>1. /\ pc = "renameDone" /\ StepDone(NoHash, "rowDone") /\ pc' = "rowDone"
        /\ StepAt("commit_move") /\ UNCHANGED <<world, todo, outer>>
    BY <1>k DEF RenameDone, StepDone, Told, OnStep, loop
  <2>2. files' = files /\ Broken' = Broken /\ SameJournal
    BY <1>4, <2>1, DoneEffect
  <2>3. /\ Journal' /\ Behind' /\ Ripeness' /\ Pass'
        /\ \A s \in Broken' : steps'[s].file # row'
        /\ ~Verified(row)'
        /\ outer' # 0 => /\ outer' \in DOMAIN steps' /\ steps'[outer'].file = row'
                         /\ steps'[outer'].stage = "commit_move"
    BY <1>1, <1>2, <1>4, <1>5, <2>1, <2>2, QuietTame, Onward
  <2>4. OnStep'
    BY <1>1, <1>6, <2>1, <2>2, <2>3 DEF OnStep
  <2>5. Moved(row)'
    BY <1>1, <2>1, <2>2 DEF Told, Progress, Moved, Exists, Src, Dst, world
  <2>6. Progress'
    BY <2>1, <2>3, <2>5 DEF Progress, Moved, Src, Dst
  <2> QED
    BY <2>3, <2>4, <2>6 DEF Told
<1>l. CASE Fallback
  <2>1. /\ pc' = "copy" /\ UNCHANGED <<world, steps, todo, outer>>
        /\ files' = [files EXCEPT ![row].hash =
                        IF files[row].hash = NoHash THEN Digest[disk[Src(row)]]
                                                    ELSE files[row].hash]
    BY <1>l DEF Fallback, loop
  <2>2. \A f \in DOMAIN files : f # row => files'[f] = files[f]
    BY <2>1
  <2>2a. files \in Seq(FileRow) /\ files[row] \in FileRow
    BY <1>3 DEF RestShape
  <2>3. files'[row].disp # "done"
    BY <1>3, <1>6, <2>1, <2>2a DEF FileRow
  <2>4. \A s \in Checked : files'[steps[s].file].hash = files[steps[s].file].hash
    BY <1>4, <2>2 DEF RestShape, Keys, Checked, Verified
  <2>5. /\ Journal' /\ Behind' /\ Ripeness' /\ Pass'
        /\ \A s \in Broken' : steps'[s].file # row'
        /\ ~Verified(row)'
        /\ outer' # 0 => /\ outer' \in DOMAIN steps' /\ steps'[outer'].file = row'
                         /\ steps'[outer'].stage = "commit_move"
    BY <1>1, <1>2, <1>4, <1>5, <2>1, <2>4, IdleJournal, QuietTame, Onward
  <2>6. OnStep'
    BY <1>1, <2>1, <2>3, <2>5 DEF OnStep
  <2>7. Progress'
    BY <2>1, <2>5 DEF Progress
  <2> QED
    BY <2>5, <2>6, <2>7 DEF Told
<1>m. CASE FallbackError
  <2>1. Abort /\ UNCHANGED world
    BY <1>m DEF FallbackError
  <2> QED
    BY <1>1, <1>2, <1>4, <2>1, AbortTold
<1> QED
  BY <1>a, <1>b, <1>c, <1>d, <1>e, <1>f, <1>g, <1>h, <1>i, <1>j, <1>k, <1>l, <1>m
     DEF RenameStep

LEMMA CopyTold ==
    ASSUME AllPresent, WorldType, RestShape, Order, FirstTry, OnDisk, Steady, Told, CopyStep
    PROVE  Told'
<1>1. /\ Routine /\ row' = row /\ Alone /\ OneTrip /\ Tracked /\ Agreed /\ Started
      /\ pc \in {"copy", "copyCheck", "copyDo", "copying", "copied"}
  BY CopyRoutine DEF Steady, Order
<1>2. pc \in RowLabels \ {"error"} /\ pc # "renameSync"
  BY <1>1 DEF RowLabels
<1>3. row \in DOMAIN files /\ Src(row) \in Path /\ Dst(row) \in Path /\ Src(row) # Dst(row)
  BY <1>2, RowTypes DEF Order, Apart, Src, Dst
<1>4. ~Verified(row) /\ NoHash \in Hashes \cup {NoHash}
  BY <1>1, <1>2 DEF Told, Progress
<1>5. /\ {"copyCheck", "copyDo", "copying", "copied", "verify"} \subseteq RowLabels \ {"error"}
      /\ \A i \in CatId : Original(i) # NoFile /\ disk[catalog[i]] = Original(i)
      /\ Partial # NoFile
  BY <1>1, <1>2, ContentAssumption DEF RowLabels, AllPresent, Agreed
<1>6. files[row].disp # "done"
  BY <1>2 DEF Told, OnStep
<1>7. pc # "copy" => StepAt("copy")
  BY <1>1 DEF Told, OnStep
<1>8. ASSUME NEW next \in RowLabels \ {"error"}, Go(next), Tame, pc # "copy"
      PROVE  /\ Journal' /\ Behind' /\ Ripeness' /\ Pass'
             /\ pc' = next /\ files' = files /\ StepAt("copy")'
             /\ \A s \in Broken' : steps'[s].file # row'
             /\ ~Verified(row)'
             /\ outer' # 0 => /\ outer' \in DOMAIN steps' /\ steps'[outer'].file = row'
                              /\ steps'[outer'].stage = "commit_move"
  <2>1. /\ pc' = next /\ UNCHANGED <<steps, step, files, outer, todo>>
    BY <1>8 DEF Go, journal, loop
  <2>2. StepAt("copy")'
    BY <1>1, <1>7, <1>8, <2>1 DEF StepAt
  <2> QED
    BY <1>1, <1>2, <1>4, <1>8, <2>1, <2>2, IdleJournal, Onward
<1>9. ~CopyReuse /\ ~CopyDiscard /\ ~CopyDiscardError
  BY DEF CopyReuse, CopyDiscard, CopyDiscardError, FirstTry
<1>a. CASE CopyBegin
  <2>1. /\ OpenStep("copy") /\ pc' = "copyCheck" /\ UNCHANGED <<world, files, todo, outer>>
    BY <1>a DEF CopyBegin, OpenStep
  <2>2. SameJournal /\ Broken' = Broken /\ StepAt("copy")'
    BY <2>1, OpenEffect
  <2>3. /\ Journal' /\ Behind' /\ Ripeness' /\ Pass'
        /\ \A s \in Broken' : steps'[s].file # row'
        /\ ~Verified(row)'
        /\ outer' # 0 => /\ outer' \in DOMAIN steps' /\ steps'[outer'].file = row'
                         /\ steps'[outer'].stage = "commit_move"
    BY <1>1, <1>2, <1>4, <1>5, <2>1, <2>2, QuietTame, Onward
  <2>4. OnStep'
    BY <1>1, <1>6, <2>1, <2>2, <2>3 DEF OnStep
  <2>5. Progress'
    BY <2>1, <2>3 DEF Progress
  <2> QED
    BY <2>3, <2>4, <2>5 DEF Told
<1>b. CASE CopyNoParent
  <2>1. Abort /\ UNCHANGED world
    BY <1>b DEF CopyNoParent
  <2> QED
    BY <1>1, <1>2, <1>4, <2>1, AbortTold
<1>c. CASE CopyRefuse \/ CopyError
  <2>1. StepAt("copy") /\ StepFailed(NoHash) /\ UNCHANGED world
    BY <1>7, <1>c DEF CopyRefuse, CopyError
  <2> QED
    BY <1>1, <1>2, <1>4, <2>1, StepFailedTold
<1>d. CASE CopyFresh
  <2>1. pc = "copyCheck" /\ Go("copyDo") /\ Tame /\ UNCHANGED world /\ disk[Dst(row)] = NoFile
    BY <1>d, QuietTame DEF CopyFresh, Exists
  <2>2. /\ Journal' /\ Behind' /\ Ripeness' /\ Pass'
        /\ pc' = "copyDo" /\ files' = files /\ StepAt("copy")'
        /\ \A s \in Broken' : steps'[s].file # row'
        /\ ~Verified(row)'
        /\ outer' # 0 => /\ outer' \in DOMAIN steps' /\ steps'[outer'].file = row'
                         /\ steps'[outer'].stage = "commit_move"
    BY <1>5, <1>8, <2>1
  <2>3. OnStep'
    BY <1>1, <1>6, <2>2 DEF OnStep
  <2>4. \A i \in CatId : catalog'[i] # Dst(row)'
    BY <1>1, <1>5, <2>1, <2>2 DEF world, Dst
  <2>5. Progress'
    BY <2>2, <2>4 DEF Progress
  <2> QED
    BY <2>2, <2>3, <2>5 DEF Told
<1>e. CASE CopyOpen \/ CopyFill
  <2> DEFINE next == IF pc = "copyDo" THEN "copying" ELSE "copied"
  <2>1. /\ pc \in {"copyDo", "copying"} /\ catalog' = catalog /\ Go(next)
        /\ disk[Src(row)] # NoFile
        /\ \E c : c # NoFile /\ disk' = [disk EXCEPT ![Dst(row)] = c]
    BY <1>5, <1>e DEF CopyOpen, CopyFill, Exists, Told, Progress
  <2>2. next \in RowLabels \ {"error"} /\ next \in {"copying", "copied"}
    BY <1>5
  <2> HIDE DEF next
  <2>3. /\ disk'[Src(row)] # NoFile
        /\ \A p \in Path : disk'[p] = disk[p] \/ (p = Dst(row) /\ disk'[p] # NoFile)
    BY <1>3, <2>1 DEF WorldType
  <2>4. Tame
    BY <2>1, <2>3 DEF Tame
  <2>5. /\ Journal' /\ Behind' /\ Ripeness' /\ Pass'
        /\ pc' = next /\ files' = files /\ StepAt("copy")'
        /\ \A s \in Broken' : steps'[s].file # row'
        /\ ~Verified(row)'
        /\ outer' # 0 => /\ outer' \in DOMAIN steps' /\ steps'[outer'].file = row'
                         /\ steps'[outer'].stage = "commit_move"
    BY <1>8, <2>1, <2>2, <2>4
  <2>6. OnStep'
    BY <1>1, <1>6, <2>2, <2>5 DEF OnStep
  <2>7. (\A i \in CatId : catalog'[i] # Dst(row)') /\ Exists(Src(row))'
    BY <1>1, <2>1, <2>3, <2>5 DEF Told, Progress, Dst, Src, Exists
  <2>8. Progress'
    BY <2>2, <2>5, <2>7 DEF Progress
  <2> QED
    BY <2>5, <2>6, <2>8 DEF Told
<1>f. CASE CopyDone
  <2>1. pc = "copied" /\ StepDone(NoHash, ToVerify(row)) /\ UNCHANGED <<world, todo, outer>>
    BY <1>f DEF CopyDone, StepDone, loop
  <2>2. pc' = "verify"
    BY <1>4, <2>1 DEF StepDone, ToVerify, AfterCopy, done_file_ids_for_stage, Verified, Checked
  <2>3. files' = files /\ Broken' = Broken /\ SameJournal
    BY <1>4, <1>7, <2>1, DoneEffect
  <2>4. /\ Journal' /\ Behind' /\ Ripeness' /\ Pass'
        /\ \A s \in Broken' : steps'[s].file # row'
        /\ ~Verified(row)'
        /\ outer' # 0 => /\ outer' \in DOMAIN steps' /\ steps'[outer'].file = row'
                         /\ steps'[outer'].stage = "commit_move"
    BY <1>1, <1>2, <1>4, <1>5, <2>1, <2>2, <2>3, QuietTame, Onward
  <2>5. OnStep'
    BY <1>1, <1>6, <2>2, <2>3, <2>4 DEF OnStep
  <2>6. (\A i \in CatId : catalog'[i] # Dst(row)') /\ Exists(Src(row))'
    BY <1>1, <2>1, <2>3 DEF Told, Progress, Dst, Src, Exists, world
  <2>7. Progress'
    BY <2>2, <2>4, <2>6 DEF Progress
  <2> QED
    BY <2>4, <2>5, <2>7 DEF Told
<1> QED
  BY <1>9, <1>a, <1>b, <1>c, <1>d, <1>e, <1>f DEF CopyStep

LEMMA CommitTold ==
    ASSUME WorldType, RestShape, Order, OnDisk, Steady, Told, CommitStep
    PROVE  Told'
<1>1. /\ Routine /\ row' = row /\ Alone /\ OneTrip /\ Tracked /\ Agreed /\ Started
      /\ pc \in {"verify", "verifying", "commit", "commitSync", "commitRemove", "commitDone"}
  BY CommitRoutine DEF Steady, Order
<1>2. pc \in RowLabels \ {"error"} /\ pc # "renameSync"
  BY <1>1 DEF RowLabels
<1>3. row \in DOMAIN files /\ Src(row) \in Path /\ Dst(row) \in Path /\ Src(row) # Dst(row)
  BY <1>2, RowTypes DEF Order, Apart, Src, Dst
<1>4. /\ NoHash \in Hashes \cup {NoHash} /\ files[row].hash \in Hashes \cup {NoHash}
      /\ Exists(Dst(row)) => Digest[disk[Dst(row)]] \in Hashes
  BY <1>2, RowTypes
<1>5. {"verifying", "commit", "commitSync", "commitRemove", "commitDone", "rowDone"}
        \subseteq RowLabels \ {"error"}
  BY DEF RowLabels
<1>6. files[row].disp # "done"
  BY <1>2 DEF Told, OnStep
<1>7. /\ files[row].cat \in CatId \cup {NoCat} /\ files[row].op = op /\ Active(op)
      /\ (files[row].cat # NoCat => catalog[files[row].cat] \in {Src(row), Dst(row)})
  BY <1>1, <1>2, <1>3, RowPaths DEF Started, Active, Tracked, RowLabels
<1>8. ASSUME NEW next \in RowLabels \ {"error"}, Go(next), Tame
      PROVE  /\ Journal' /\ Behind' /\ Ripeness' /\ Pass'
             /\ pc' = next /\ UNCHANGED <<steps, step, files>>
             /\ \A s \in Broken' : steps'[s].file # row'
             /\ outer' # 0 => /\ outer' \in DOMAIN steps' /\ steps'[outer'].file = row'
                              /\ steps'[outer'].stage = "commit_move"
  <2>1. /\ pc' = next /\ UNCHANGED <<steps, step, files, outer, todo>>
    BY <1>8 DEF Go, journal, loop
  <2> QED
    BY <1>1, <1>2, <1>8, <2>1, IdleJournal, Onward
<1>9. ASSUME NEW stage, StepAt(stage), UNCHANGED <<step, steps>> PROVE StepAt(stage)'
  BY <1>1, <1>9 DEF StepAt
\* A new step on the row.
<1>10. ASSUME NEW stage, OpenStep(stage), pc' \in RowLabels \ {"error"}, outer' = outer
       PROVE  /\ Journal' /\ Behind' /\ Ripeness' /\ Pass'
              /\ UNCHANGED <<world, files>> /\ StepAt(stage)'
              /\ \A s \in Broken' : steps'[s].file # row'
              /\ Verified(row)' <=> Verified(row)
              /\ outer' # 0 => /\ outer' \in DOMAIN steps' /\ steps'[outer'].file = row'
                               /\ steps'[outer'].stage = "commit_move"
  <2>1. SameJournal /\ Broken' = Broken /\ StepAt(stage)' /\ UNCHANGED <<world, files, todo>>
    BY <1>10, OpenEffect DEF OpenStep
  <2> QED
    BY <1>1, <1>2, <1>10, <2>1, QuietTame, Onward
<1>a. CASE VerifyBegin
  <2>1. pc = "verify" /\ OpenStep("verify") /\ pc' = "verifying" /\ outer' = outer
    BY <1>a DEF VerifyBegin
  <2>2. /\ Journal' /\ Behind' /\ Ripeness' /\ Pass'
        /\ UNCHANGED <<world, files>> /\ StepAt("verify")'
        /\ \A s \in Broken' : steps'[s].file # row'
        /\ Verified(row)' <=> Verified(row)
        /\ outer' # 0 => /\ outer' \in DOMAIN steps' /\ steps'[outer'].file = row'
                         /\ steps'[outer'].stage = "commit_move"
    BY <1>5, <1>10, <2>1
  <2>3. OnStep'
    BY <1>1, <1>6, <2>1, <2>2 DEF OnStep
  <2>4. (\A i \in CatId : catalog'[i] # Dst(row)') /\ Exists(Src(row))' /\ ~Verified(row)'
    BY <1>1, <1>2, <2>1, <2>2 DEF Told, Progress, Dst, Src, Exists, world
  <2>5. Progress'
    BY <2>1, <2>2, <2>4 DEF Progress
  <2> QED
    BY <2>2, <2>3, <2>5 DEF Told
<1>b. CASE VerifyDone
  <2>1. /\ pc = "verifying" /\ StepDone(files[row].hash, "commit") /\ pc' = "commit"
        /\ StepAt("verify") /\ Exists(Dst(row)) /\ Digest[disk[Dst(row)]] = files[row].hash
        /\ UNCHANGED <<world, files, todo, outer>>
    BY <1>b DEF VerifyDone, StepDone, loop, Told, OnStep
  <2>2. /\ Broken' = Broken /\ DOMAIN steps' = DOMAIN steps /\ step \in DOMAIN steps
        /\ \A s \in DOMAIN steps : /\ steps'[s].file = steps[s].file
                                   /\ steps'[s].stage = steps[s].stage
        /\ \A s \in DOMAIN steps : s # step => steps'[s] = steps[s]
        /\ steps'[step].hash = files[row].hash /\ Checked' = Checked \cup {step}
    BY <1>4, <2>1, DoneEffect
  <2>3. /\ ~Verified(row) /\ Checked \subseteq DOMAIN steps /\ Broken \subseteq DOMAIN steps
        /\ steps[step].file = row /\ files[row].hash # NoHash
    BY <1>2, <1>4, <2>1, ContentAssumption
       DEF Told, Progress, Checked, Broken, list_failed_commit_move_candidates, StepAt
  <2>4. \A s \in Checked : steps[s].file # row /\ s # step
    BY <2>3 DEF Verified
  <2>5. Journal'
    <3>1. ASSUME NEW s \in Checked', NEW t \in Checked', steps'[s].file = steps'[t].file
          PROVE  s = t
      BY <2>2, <2>3, <2>4, <3>1 DEF Told, Journal
    <3>2. ASSUME NEW s \in Checked'
          PROVE  steps'[s].hash = files'[steps'[s].file].hash /\ steps'[s].hash # NoHash
      BY <2>1, <2>2, <2>3, <2>4 DEF Told, Journal
    <3> QED
      BY <3>1, <3>2 DEF Journal
  <2>6. \A s \in Broken' : steps'[s].file # row /\ s \in DOMAIN steps
    BY <1>2, <2>2, <2>3 DEF Told, Progress
  <2>7. Ripe' = {}
    <3>1. ASSUME NEW s \in Ripe' PROVE FALSE
      <4>1. s \in Broken /\ s \in DOMAIN steps /\ steps'[s].file # row
        BY <2>2, <2>6, <3>1 DEF Ripe
      <4>2. PICK t \in Checked' : steps'[t].file = steps'[s].file
        BY <3>1 DEF Ripe, Verified
      <4>3. t \in Checked /\ steps[t].file = steps[s].file
        BY <2>2, <2>3, <4>1, <4>2
      <4> QED
        BY <1>2, <4>1, <4>3 DEF Told, Ripeness, Ripe, Verified
    <3> QED
      BY <3>1
  <2>8. Ripeness' /\ Pass'
    BY <2>1, <2>7 DEF Ripeness, Pass, Healing
  <2>9. Behind'
    BY <1>1, <1>2, <1>5, <2>1, QuietTame, BehindKept DEF Told
  <2>10. OnStep'
    BY <1>1, <1>2, <1>6, <2>1, <2>2 DEF Told, OnStep
  <2>11. /\ \A i \in CatId : catalog'[i] # Dst(row)'
         /\ Exists(Src(row))' /\ Digest[disk[Dst(row)]]' = files'[row].hash
    BY <1>1, <2>1 DEF Told, Progress, Dst, Src, Exists, world
  <2>12. Progress'
    BY <1>1, <2>1, <2>6, <2>11 DEF Progress
  <2> QED
    BY <2>5, <2>8, <2>9, <2>10, <2>12 DEF Told
<1>c. CASE VerifyError
  <2>1. StepAt("verify") /\ UNCHANGED world /\ ~Verified(row)
    BY <1>2, <1>c DEF VerifyError, Told, OnStep, Progress
  <2>2. PICK h \in Hashes \cup {NoHash} : StepFailed(h)
    BY <1>4, <1>c DEF VerifyError
  <2> QED
    BY <1>1, <1>2, <2>1, <2>2, StepFailedTold
<1>d. CASE CommitBegin
  <2>1. pc = "commit" /\ OpenStep("commit_move") /\ pc' = "commitSync" /\ outer' = outer
    BY <1>d DEF CommitBegin
  <2>2. /\ Journal' /\ Behind' /\ Ripeness' /\ Pass'
        /\ UNCHANGED <<world, files>> /\ StepAt("commit_move")'
        /\ \A s \in Broken' : steps'[s].file # row'
        /\ outer' # 0 => /\ outer' \in DOMAIN steps' /\ steps'[outer'].file = row'
                         /\ steps'[outer'].stage = "commit_move"
    BY <1>5, <1>10, <2>1
  <2>3. OnStep'
    BY <1>1, <1>6, <2>1, <2>2 DEF OnStep
  <2>4. /\ \A i \in CatId : catalog'[i] # Dst(row)'
        /\ Exists(Src(row))' /\ Digest[disk[Dst(row)]]' = files'[row].hash
    BY <1>1, <2>1, <2>2 DEF Told, Progress, Dst, Src, Exists, world
  <2>5. Progress'
    BY <1>1, <2>1, <2>2, <2>4 DEF Progress
  <2> QED
    BY <2>2, <2>3, <2>5 DEF Told
<1>e. CASE CommitSync
  <2>1. pc = "commitSync" /\ disk' = disk /\ SyncOk(row)
    BY <1>e DEF CommitSync, SyncOk, Told, Progress
  <2>2. sync_catalog_path(row) /\ Go("commitRemove")
    BY <1>e, <2>1 DEF CommitSync
  <2>3. \A i \in CatId : catalog'[i] = IF catalog[i] = Src(row) THEN Dst(row) ELSE catalog[i]
    BY <1>1, <1>2, <2>2, SyncMoves
  <2>4. Tame
    BY <2>1, <2>3 DEF Tame
  <2>5. /\ Journal' /\ Behind' /\ Ripeness' /\ Pass'
        /\ pc' = "commitRemove" /\ UNCHANGED <<steps, step, files>>
        /\ \A s \in Broken' : steps'[s].file # row'
        /\ outer' # 0 => /\ outer' \in DOMAIN steps' /\ steps'[outer'].file = row'
                         /\ steps'[outer'].stage = "commit_move"
    BY <1>5, <1>8, <2>2, <2>4
  <2>6. StepAt("commit_move")'
    BY <1>9, <2>1, <2>5 DEF Told, OnStep
  <2>7. OnStep'
    BY <1>1, <1>6, <2>5, <2>6 DEF OnStep
  <2>8. Exists(Src(row))' /\ Digest[disk[Dst(row)]]' = files'[row].hash
    BY <1>1, <2>1, <2>5 DEF Told, Progress, Dst, Src, Exists
  <2>9. Progress'
    BY <1>1, <2>5, <2>8 DEF Progress
  <2> QED
    BY <2>5, <2>7, <2>9 DEF Told
<1>f. CASE CommitRemove
  <2>1. /\ pc = "commitRemove" /\ Go("commitDone") /\ catalog' = catalog
        /\ disk' = [disk EXCEPT ![Src(row)] = NoFile]
        /\ disk[Dst(row)] = disk[Src(row)] /\ disk[Src(row)] # NoFile
        /\ \A i \in CatId : catalog[i] # Src(row)
    BY <1>1, <1>f DEF CommitRemove, OnDisk, Told, Progress, Agreed, Exists
  <2>2. /\ disk'[Src(row)] = NoFile /\ disk'[Dst(row)] # NoFile
        /\ \A p \in Path : p # Src(row) => disk'[p] = disk[p]
    BY <1>3, <2>1 DEF WorldType
  <2>3. Tame
    BY <2>1, <2>2 DEF Tame
  <2>4. /\ Journal' /\ Behind' /\ Ripeness' /\ Pass'
        /\ pc' = "commitDone" /\ UNCHANGED <<steps, step, files>>
        /\ \A s \in Broken' : steps'[s].file # row'
        /\ outer' # 0 => /\ outer' \in DOMAIN steps' /\ steps'[outer'].file = row'
                         /\ steps'[outer'].stage = "commit_move"
    BY <1>5, <1>8, <2>1, <2>3
  <2>5. StepAt("commit_move")'
    BY <1>9, <2>1, <2>4 DEF Told, OnStep
  <2>6. OnStep'
    BY <1>1, <1>6, <2>4, <2>5 DEF OnStep
  <2>7. files[row].cat # NoCat => catalog[files[row].cat] = Dst(row)
    BY <1>7, <2>1
  <2>8. Moved(row)'
    BY <1>1, <2>1, <2>2, <2>4, <2>7 DEF Moved, Exists, Src, Dst
  <2>9. Progress'
    BY <2>4, <2>8 DEF Progress, Moved, Src, Dst
  <2> QED
    BY <2>4, <2>6, <2>9 DEF Told
<1>g. CASE CommitError
  <2>1. /\ pc = "commitRemove" /\ StepFailed(NoHash) /\ UNCHANGED world
        /\ StepAt("commit_move")
        /\ disk[Dst(row)] = disk[Src(row)] /\ Exists(Src(row))
        /\ \A i \in CatId : catalog[i] # Src(row)
        /\ Digest[disk[Dst(row)]] = files[row].hash
    BY <1>1, <1>g DEF CommitError, OnDisk, Told, Progress, OnStep, Agreed
  <2>2. files[row].cat # NoCat => catalog[files[row].cat] = Dst(row)
    BY <1>7, <2>1
  <2>3. Copied(row)
    BY <2>1, <2>2 DEF Copied, Exists
  <2> QED
    BY <1>1, <1>2, <1>4, <2>1, <2>3, StepFailedTold
<1>h. CASE CommitDone
  <2>1. /\ pc = "commitDone" /\ StepDone(NoHash, "rowDone") /\ pc' = "rowDone"
        /\ StepAt("commit_move") /\ UNCHANGED <<world, todo, outer>>
    BY <1>h DEF CommitDone, StepDone, Told, OnStep, loop
  <2>2. files' = files /\ Broken' = Broken /\ SameJournal
    <3>1. NoHash \in Hashes \cup {NoHash} /\ "commit_move" # "verify"
      BY <1>4
    <3>2. StepAt("commit_move") /\ StepDone(NoHash, "rowDone")
      BY <2>1
    <3> QED
      BY <3>1, <3>2, DoneEffect
  <2>3. /\ Journal' /\ Behind' /\ Ripeness' /\ Pass'
        /\ \A s \in Broken' : steps'[s].file # row'
        /\ outer' # 0 => /\ outer' \in DOMAIN steps' /\ steps'[outer'].file = row'
                         /\ steps'[outer'].stage = "commit_move"
    BY <1>1, <1>2, <1>5, <2>1, <2>2, QuietTame, Onward
  <2>4. OnStep'
    BY <1>1, <1>6, <2>1, <2>2, <2>3 DEF OnStep
  <2>5. Moved(row)'
    BY <1>1, <2>1, <2>2 DEF Told, Progress, Moved, Exists, Src, Dst, world
  <2>6. Progress'
    BY <2>1, <2>3, <2>5 DEF Progress, Moved, Src, Dst
  <2> QED
    BY <2>3, <2>4, <2>6 DEF Told
<1> QED
  BY <1>a, <1>b, <1>c, <1>d, <1>e, <1>f, <1>g, <1>h DEF CommitStep

-----------------------------------------------------------------------------
(***************************************************************************)
(* The loop of run_move.                                                   *)
(***************************************************************************)
LEMMA MarkEffect ==
    ASSUME RestShape, NEW i \in DOMAIN steps, NEW v \in StepStatus,
           steps' = [steps EXCEPT ![i].status = v]
    PROVE  /\ DOMAIN steps' = DOMAIN steps
           /\ \A s \in DOMAIN steps : /\ steps'[s].file = steps[s].file
                                      /\ steps'[s].stage = steps[s].stage
                                      /\ steps'[s].hash = steps[s].hash
           /\ \A s \in DOMAIN steps : s # i => steps'[s] = steps[s]
           /\ steps'[i].status = v
<1>1. steps \in Seq(StepRow) /\ steps[i] \in StepRow
  BY DEF RestShape
<1>2. \A s \in DOMAIN steps :
         steps'[s] = IF s = i THEN [steps[i] EXCEPT !.status = v] ELSE steps[s]
  BY <1>1
<1>3. /\ steps'[i].status = v /\ steps'[i].file = steps[i].file
      /\ steps'[i].stage = steps[i].stage /\ steps'[i].hash = steps[i].hash
  BY <1>1, <1>2 DEF StepRow
<1>4. DOMAIN steps' = DOMAIN steps
  BY <1>1
<1> QED
  BY <1>2, <1>3, <1>4

LEMMA MarkRowEffect ==
    ASSUME RestShape, NEW i, NEW v \in RowDisp, files' = [files EXCEPT ![i].disp = v]
    PROVE  \A f \in DOMAIN files :
              /\ files'[f].hash = files[f].hash
              /\ files'[f].disp = IF f = i THEN v ELSE files[f].disp
<1>1. \A f \in DOMAIN files : files[f] \in FileRow
  BY DEF RestShape
<1>2. \A f \in DOMAIN files :
         files'[f] = IF f = i THEN [files[i] EXCEPT !.disp = v] ELSE files[f]
  OBVIOUS
<1> QED
  BY <1>1, <1>2 DEF FileRow

LEMMA JournalKept ==
    ASSUME RestShape, Journal, SameJournal,
           \A f \in DOMAIN files : files'[f].hash = files[f].hash
    PROVE  Journal' /\ \A f : Verified(f)' <=> Verified(f)
<1>1. /\ Checked' = Checked /\ Checked \subseteq DOMAIN steps
      /\ \A s \in Checked : steps'[s].hash = steps[s].hash
      /\ \A s \in Checked : steps'[s].file = steps[s].file /\ steps[s].file \in DOMAIN files
  BY DEF SameJournal, Checked, RestShape, Keys
<1>2. Journal'
  BY <1>1 DEF Journal
<1>3. \A f : Verified(f)' <=> Verified(f)
  BY <1>1 DEF Verified
<1> QED
  BY <1>2, <1>3

LEMMA RipeKept ==
    ASSUME RestShape, SameJournal, NEW s \in Ripe'
    PROVE  s \in Broken /\ s \in DOMAIN steps =>
              s \in Ripe /\ steps'[s].file = steps[s].file
<1>1. /\ Checked' = Checked /\ Checked \subseteq DOMAIN steps
      /\ \A t \in DOMAIN steps : steps'[t].file = steps[t].file
  BY DEF SameJournal, Checked
<1>2. PICK t \in Checked : steps'[t].file = steps'[s].file
  BY <1>1 DEF Ripe, Verified
<1> QED
  BY <1>1, <1>2 DEF Ripe, Verified

LEMMA MovedSame ==
    ASSUME KeptRows, UNCHANGED world, NEW f \in DOMAIN files, Moved(f)
    PROVE  Moved(f)'
BY DEF Moved, KeptRows, Exists, Src, Dst, world

\* The commit step of a rename that met EXDEV ends with its row.
LEMMA OuterEffect ==
    ASSUME RestShape, Told, pc \in RowLabels, NEW v \in {"done", "failed"},
           steps' = IF outer = 0 THEN steps ELSE [steps EXCEPT ![outer].status = v]
    PROVE  /\ SameJournal
           /\ \A s \in Broken' :
                 s \in DOMAIN steps /\ (s \in Broken \/ (v = "failed" /\ steps[s].file = row))
<1>1. CASE outer = 0
  <2>1. SameJournal /\ Broken' = Broken
    BY <1>1, IdleJournal
  <2> QED
    BY <2>1 DEF Broken, list_failed_commit_move_candidates
<1>2. CASE outer # 0
  <2>1. outer \in DOMAIN steps /\ steps[outer].file = row /\ steps[outer].stage = "commit_move"
    BY <1>2 DEF Told, OnStep
  <2>2. /\ DOMAIN steps' = DOMAIN steps
        /\ \A s \in DOMAIN steps : /\ steps'[s].file = steps[s].file
                                   /\ steps'[s].stage = steps[s].stage
                                   /\ steps'[s].hash = steps[s].hash
        /\ \A s \in DOMAIN steps : s # outer => steps'[s] = steps[s]
        /\ steps'[outer].status = v
    BY <1>2, <2>1, MarkEffect DEF StepStatus
  <2>3. Checked' = Checked
    BY <2>1, <2>2 DEF Checked
  <2>4. SameJournal
    BY <2>2, <2>3 DEF SameJournal, Checked
  <2>5. \A s \in Broken' :
           s \in DOMAIN steps /\ (s \in Broken \/ (v = "failed" /\ steps[s].file = row))
    BY <2>1, <2>2 DEF Broken, list_failed_commit_move_candidates
  <2> QED
    BY <2>4, <2>5
<1> QED
  BY <1>1, <1>2

LEMMA LoopTold ==
    ASSUME RestShape, Order, Steady, Told, RunLoop
    PROVE  Told'
<1>1. Routine /\ KeptRows /\ UNCHANGED world /\ OneTrip /\ Started /\ op' = op
  BY LoopRoutine DEF Steady, Order, Routine
<1>2. /\ \A s \in DOMAIN steps : steps[s].file \in DOMAIN files
      /\ Broken \subseteq DOMAIN steps /\ Checked \subseteq DOMAIN steps
      /\ todo \subseteq DOMAIN files /\ FilesOf(op) \subseteq DOMAIN files
      /\ FilesOf(op)' = FilesOf(op)
  BY <1>1 DEF RestShape, Keys, Broken, Checked, list_failed_commit_move_candidates,
              FilesOf, KeptRows
<1>3. ASSUME todo # {} PROVE First(todo) \in todo /\ First(todo) \in DOMAIN files
  <2>1. todo \subseteq Nat
    BY DEF RestShape
  <2> QED
    BY <1>2, <1>3, <2>1, FirstIn
<1>4. ASSUME pc = "next", todo # {}
      PROVE  /\ files[First(todo)].op = op /\ files[First(todo)].disp = "pending"
             /\ \A s \in DOMAIN steps : steps[s].file # First(todo)
  BY <1>1, <1>3, <1>4 DEF Started
<1>5. ASSUME UNCHANGED <<files, steps>>, pc \in {"start", "next"}, pc' \in {"next", "idle"}
      PROVE  Journal' /\ OnStep' /\ Progress' /\ Ripeness' /\ Pass'
  <2>1. Ripe' = {} /\ Journal'
    BY <1>5 DEF Told, Ripeness, Journal, Ripe, Verified, Checked, Broken,
                list_failed_commit_move_candidates
  <2> QED
    BY <1>5, <2>1 DEF OnStep, Progress, Ripeness, Pass, Healing, RowLabels
<1>a. CASE Start
  <2>1. pc = "start" /\ pc' = "next" /\ todo' = FilesOf(op) /\ UNCHANGED <<files, steps>>
    BY <1>a DEF Start
  <2>2. Behind'
    BY <1>1, <1>2, <2>1 DEF Behind
  <2> QED
    BY <1>5, <2>1, <2>2 DEF Told
<1>b. CASE Complete \/ Cancelled
  <2>1. pc = "next" /\ pc' = "idle" /\ UNCHANGED <<files, steps>>
    BY <1>b DEF Complete, Cancelled, EndRun
  <2>2. Behind'
    BY <2>1 DEF Behind, RowLabels
  <2> QED
    BY <1>5, <2>1, <2>2 DEF Told
<1>c. CASE SkipRow
  BY <1>4, <1>c DEF SkipRow, done_file_ids_for_stage
<1>d. CASE BeginRow
  <2> DEFINE f0 == First(todo)
  <2>1. /\ f0 \in todo /\ f0 \in DOMAIN files
        /\ \A s \in DOMAIN steps : steps[s].file # f0
    BY <1>3, <1>4, <1>d DEF BeginRow
  <2>2. /\ pc = "next" /\ row' = f0 /\ todo' = todo \ {f0} /\ outer' = 0 /\ steps' = steps
        /\ files' = [files EXCEPT ![f0].disp = "in_progress"]
    BY <1>d DEF BeginRow
  <2>3. pc' \in {"rename", "copy"}
    BY <1>d, <2>1 DEF BeginRow, done_file_ids_for_stage
  <2> HIDE DEF f0
  <2>4. \A f \in DOMAIN files :
           /\ files'[f].hash = files[f].hash
           /\ files'[f].disp = IF f = f0 THEN "in_progress" ELSE files[f].disp
    BY <2>2, MarkRowEffect DEF RowDisp
  <2>5. SameJournal /\ Broken' = Broken
    BY <2>2, IdleJournal
  <2>6. Journal' /\ \A f : Verified(f)' <=> Verified(f)
    BY <2>4, <2>5, JournalKept DEF Told
  <2>7. ~Verified(f0) /\ \A s \in Broken : steps[s].file # f0
    BY <1>2, <2>1 DEF Verified
  <2>8. Ripe' = {}
    <3>1. Ripe = {}
      BY <2>2 DEF Told, Ripeness
    <3> QED
      BY <1>2, <2>5, <3>1, RipeKept DEF Ripe
  <2>9. ~Verified(row)'
    BY <2>2, <2>6, <2>7 DEF Verified
  <2>10. OnStep'
    <3>1. files'[row'].disp = "in_progress"
      BY <2>1, <2>2, <2>4
    <3> QED
      BY <2>2, <2>3, <3>1 DEF OnStep
  <2>11. Progress'
    BY <2>2, <2>3, <2>5, <2>7, <2>9 DEF Progress
  <2>12. Behind'
    <3>1. ASSUME NEW f \in FilesOf(op) \ todo', f # row' PROVE Moved(f)'
      <4>1. f \in DOMAIN files /\ Moved(f)
        BY <1>2, <2>2, <3>1 DEF Told, Behind
      <4> QED
        BY <1>1, <4>1, MovedSame
    <3> QED
      BY <1>1, <1>2, <2>3, <3>1 DEF Behind
  <2>13. Ripeness' /\ Pass'
    BY <2>3, <2>8 DEF Ripeness, Pass, Healing
  <2> QED
    BY <2>6, <2>10, <2>11, <2>12, <2>13 DEF Told
<1>e. CASE EndRow
  <2>1. /\ pc = "rowDone" /\ pc' = "next" /\ pc \in RowLabels
        /\ files' = [files EXCEPT ![row].disp = "done"] /\ UNCHANGED <<row, todo>>
        /\ steps' = IF outer = 0 THEN steps ELSE [steps EXCEPT ![outer].status = "done"]
    BY <1>e DEF EndRow, RowLabels, loop
  <2>2. SameJournal /\ \A s \in Broken' : s \in DOMAIN steps /\ s \in Broken
    BY <2>1, OuterEffect
  <2>3. \A f \in DOMAIN files : files'[f].hash = files[f].hash
    BY <2>1, MarkRowEffect DEF RowDisp
  <2>4. Journal'
    BY <2>2, <2>3, JournalKept DEF Told
  <2>5. Ripe' = {}
    <3>1. Ripe = {}
      BY <2>1 DEF Told, Ripeness
    <3> QED
      BY <2>2, <3>1, RipeKept DEF Ripe
  <2>6. Behind'
    <3>1. ASSUME NEW f \in FilesOf(op) \ todo PROVE Moved(f)'
      <4>1. f \in DOMAIN files /\ Moved(f)
        BY <1>2, <2>1, <3>1 DEF Told, Behind, Progress
      <4> QED
        BY <1>1, <4>1, MovedSame
    <3> QED
      BY <1>1, <1>2, <2>1, <3>1 DEF Behind
  <2>7. OnStep' /\ Progress' /\ Ripeness' /\ Pass'
    BY <2>1, <2>5 DEF OnStep, Progress, Ripeness, Pass, Healing, RowLabels
  <2> QED
    BY <2>4, <2>6, <2>7 DEF Told
<1>f. CASE Fail
  <2>1. /\ pc = "error" /\ pc' = "idle" /\ pc \in RowLabels /\ UNCHANGED <<files, row>>
        /\ steps' = IF outer = 0 THEN steps ELSE [steps EXCEPT ![outer].status = "failed"]
    BY <1>f DEF Fail, EndRun, RowLabels, loop
  <2>2. /\ SameJournal
        /\ \A s \in Broken' : s \in DOMAIN steps /\ (s \in Broken \/ steps[s].file = row)
    BY <2>1, OuterEffect
  <2>3. Journal' /\ \A f : Verified(f)' <=> Verified(f)
    BY <2>1, <2>2, JournalKept DEF Told
  <2>4. ASSUME NEW s \in Ripe' PROVE steps'[s].file = row /\ Verified(row)
    <3>1. s \in Broken' /\ s \in DOMAIN steps /\ steps'[s].file = steps[s].file
      BY <2>2, <2>4 DEF Ripe, SameJournal
    <3>2. steps[s].file = row
      BY <2>1, <2>2, <2>4, <3>1, RipeKept DEF Told, Ripeness
    <3>3. \E t \in Checked' : steps'[t].file = steps'[s].file
      BY <2>4 DEF Ripe, Verified
    <3>4. Verified(row)'
      BY <2>1, <3>1, <3>2, <3>3 DEF Verified
    <3> QED
      BY <2>1, <2>3, <3>1, <3>2, <3>4
  <2>5. row \in DOMAIN files /\ files[row].op = op
    BY <1>1, <2>1 DEF RestShape, Registers, Started
  <2>6. DoneMoved(op)
    <3> SUFFICES ASSUME NEW f \in FilesOf(op), files[f].disp = "done" PROVE Moved(f)
      BY DEF DoneMoved
    <3>1. f \notin todo
      BY <1>1, <2>1 DEF Started
    <3>2. f # row
      BY <2>1 DEF Told, OnStep
    <3> QED
      BY <2>1, <3>1, <3>2 DEF Told, Behind
  <2>7. ASSUME Verified(row) PROVE Copied(row)' /\ DoneMoved(files[row].op)'
    <3>1. Copied(row)
      BY <2>1, <2>7 DEF Told, Progress
    <3>2. Copied(row)'
      BY <1>1, <2>1, <3>1 DEF Copied, Exists, Src, Dst, world
    <3>3. DoneMoved(files[row].op)'
      BY <1>1, <2>1, <2>5, <2>6 DEF DoneMoved, FilesOf, Moved, Exists, Src, Dst, world
    <3> QED
      BY <3>2, <3>3
  <2>8. ASSUME NEW s \in Ripe'
        PROVE  Copied(steps[s].file)' /\ DoneMoved(files[steps[s].file].op)'
    <3>1. steps'[s].file = row /\ row' = row /\ Copied(row)' /\ DoneMoved(files[row].op)'
      BY <2>1, <2>4, <2>7, <2>8
    <3> QED
      BY <3>1 DEF Copied, DoneMoved, Src, Dst, FilesOf
  <2>9. Ripeness'
    BY <2>1, <2>4, <2>8 DEF Ripeness, RowLabels
  <2>10. OnStep' /\ Progress' /\ Pass' /\ Behind'
    BY <2>1 DEF OnStep, Progress, Pass, Behind, Healing, RowLabels
  <2> QED
    BY <2>3, <2>9, <2>10 DEF Told
<1> QED
  BY <1>a, <1>b, <1>c, <1>d, <1>e, <1>f DEF RunLoop

-----------------------------------------------------------------------------
(***************************************************************************)
(* The reconcile pass.                                                     *)
(***************************************************************************)
LEMMA DequeueTold == ASSUME RestShape, Told, Dequeue PROVE Told'
<1>1. /\ pc = "idle" /\ pc' = "heal" /\ cands' = Broken /\ healed' = {}
      /\ UNCHANGED <<disk, catalog, files, steps>>
  BY DEF Dequeue, Broken, world, journal
<1>2. Journal' /\ Checked' = Checked /\ Broken' = Broken /\ Ripe' = Ripe
  BY <1>1 DEF Told, Journal, Ripe, Verified, Checked, Broken,
              list_failed_commit_move_candidates
<1>3. Ripeness'
  BY <1>1, <1>2 DEF Told, Ripeness, Copied, DoneMoved, Moved, FilesOf, Exists, Src, Dst,
                    RowLabels
<1>4. Pass'
  BY <1>1, <1>2 DEF Pass, Ripe
<1>5. OnStep' /\ Progress' /\ Behind'
  BY <1>1 DEF OnStep, Progress, Behind, RowLabels
<1> QED
  BY <1>2, <1>3, <1>4, <1>5 DEF Told

LEMMA FirstCand ==
    ASSUME RestShape, cands # {}
    PROVE  /\ First(cands) \in cands /\ First(cands) \in DOMAIN steps
           /\ steps[First(cands)].file \in DOMAIN files
<1>1. cands \subseteq DOMAIN steps /\ cands \subseteq Nat
  BY DEF RestShape
<1> QED
  BY <1>1, FirstIn DEF RestShape, Keys

\* What the pass acts on passes its checks, and nothing else does.
LEMMA RipeIsSafe ==
    ASSUME RestShape, Told, NEW s \in Broken
    PROVE  SafeToHeal(s) <=> s \in Ripe
<1> DEFINE f == steps[s].file
<1>1. f \in DOMAIN files /\ DOMAIN steps \subseteq Nat
  BY DEF RestShape, Keys, Broken, list_failed_commit_move_candidates
<1>2. ASSUME SafeToHeal(s) PROVE s \in Ripe
  BY <1>2 DEF SafeToHeal, verify_step_done_hash, Ripe, Verified, Checked
<1>3. ASSUME s \in Ripe PROVE SafeToHeal(s)
  <2>1. Copied(f)
    BY <1>3 DEF Told, Ripeness
  <2>2. PICK t \in Checked : steps[t].file = f
    BY <1>3 DEF Ripe, Verified
  <2>3. /\ t \in DOMAIN steps /\ steps[t].stage = "verify" /\ steps[t].status = "done"
        /\ steps[t].hash = files[f].hash /\ files[f].hash # NoHash
        /\ \A u \in Checked : steps[u].file = f => u = t
    BY <2>2 DEF Told, Journal, Checked
  <2>4. \A u \in DOMAIN steps :
           (/\ steps[u].file = f /\ steps[u].stage = "verify"
            /\ steps[u].status = "done") => u <= t
    BY <1>1, <2>3 DEF Checked
  <2>5. verify_step_done_hash(f, files[f].hash)
    BY <2>2, <2>3, <2>4 DEF verify_step_done_hash
  <2> QED
    BY <2>1, <2>3, <2>5 DEF SafeToHeal, Copied, catalog_row_exists_at_path
<1> QED
  BY <1>2, <1>3

LEMMA ReconcileTold ==
    ASSUME ~ReconcileFaults, WorldType, RestShape, Order, Steady, Told, Reconcile
    PROVE  Told'
<1> PICK s0 : s0 = First(cands)
  OBVIOUS
<1> PICK f0 : f0 = steps[s0].file
  OBVIOUS
<1>1. KeptRows /\ OneTrip
  BY ReconcileRoutine DEF Steady, Routine
<1>2. /\ \A s \in DOMAIN steps : steps[s].file \in DOMAIN files
      /\ Broken \subseteq DOMAIN steps /\ Ripe \subseteq Broken
      /\ FilesOf(files[f0].op) \subseteq DOMAIN files
  BY DEF RestShape, Keys, Broken, Ripe, list_failed_commit_move_candidates, FilesOf
<1>3. ASSUME cands # {} PROVE s0 \in cands /\ s0 \in DOMAIN steps /\ f0 \in DOMAIN files
  BY <1>3, FirstCand
<1>4. ASSUME pc' \in Healing \cup {"start", "idle"}
      PROVE  OnStep' /\ Progress' /\ Behind'
  BY <1>4 DEF OnStep, Progress, Behind, Healing, RowLabels
<1>5. ASSUME UNCHANGED steps
      PROVE  SameJournal /\ Broken' = Broken /\ Checked' = Checked /\ Ripe' = Ripe
  BY <1>5 DEF SameJournal, Ripe, Verified, Checked, Broken,
              list_failed_commit_move_candidates
<1>6. ASSUME pc \in Healing, NEW s \in Ripe
      PROVE  Copied(steps[s].file) /\ DoneMoved(files[steps[s].file].op)
  BY <1>6 DEF Told, Ripeness, Healing
<1>a. CASE HealSkip
  <2>1. /\ pc = "heal" /\ pc' = "heal" /\ cands # {} /\ ~SafeToHeal(s0)
        /\ cands' = cands \ {s0} /\ healed' = healed
        /\ UNCHANGED <<disk, catalog, files, steps>>
    BY <1>a DEF HealSkip, world, journal
  <2>2. s0 \in Broken /\ s0 \notin Ripe
    BY <1>3, <2>1, RipeIsSafe DEF Told, Pass
  <2>3. Journal' /\ Ripeness'
    BY <1>5, <2>1 DEF Told, Journal, Ripeness, Copied, DoneMoved, Moved, FilesOf, Exists,
                      Src, Dst
  <2>4. Pass'
    BY <1>5, <2>1, <2>2
       DEF Told, Pass, Healing, DoneMoved, Moved, FilesOf, Exists, Src, Dst
  <2> QED
    BY <1>4, <2>1, <2>3, <2>4 DEF Told, Healing
<1>b. CASE HealRemove
  <2>1. /\ pc = "heal" /\ pc' = "healStep" /\ cands # {} /\ SafeToHeal(s0)
        /\ disk' = [disk EXCEPT ![Src(f0)] = NoFile]
        /\ UNCHANGED <<catalog, files, steps, cands, healed>>
    BY <1>b DEF HealRemove, journal, heal
  <2>2. s0 \in Broken /\ s0 \in Ripe
    BY <1>3, <2>1, RipeIsSafe DEF Told, Pass
  <2>3. /\ \A s \in Ripe : steps[s].file = f0
        /\ Copied(f0) /\ DoneMoved(files[f0].op)
        /\ healed \subseteq {files[f0].op}
    BY <1>6, <2>1, <2>2 DEF Told, Ripeness, Pass, Healing
  <2>4. /\ f0 \in DOMAIN files /\ Src(f0) \in Path /\ Src(f0) # Dst(f0)
        /\ \A g \in DOMAIN files : Src(g) \in Path /\ Dst(g) \in Path
        /\ \A g \in FilesOf(files[f0].op) : Dst(g) # Src(f0)
    BY <1>1, <1>3, <2>1, RowPaths DEF Order, Apart, OneTrip, FilesOf, Src, Dst
  <2>5. disk'[Src(f0)] = NoFile /\ \A p \in Path : p # Src(f0) => disk'[p] = disk[p]
    BY <2>1, <2>4 DEF WorldType
  <2>6. Copied(f0)'
    BY <2>1, <2>3, <2>4, <2>5 DEF Copied, Exists, Src, Dst
  <2>7. DoneMoved(files[f0].op)'
    <3> SUFFICES ASSUME NEW g \in FilesOf(files[f0].op), files[g].disp = "done"
                 PROVE  Moved(g)'
      BY <2>1 DEF DoneMoved, FilesOf
    <3>1. Moved(g) /\ g \in DOMAIN files
      BY <1>2, <2>3 DEF DoneMoved, FilesOf
    <3> QED
      BY <2>1, <2>4, <2>5, <3>1 DEF Moved, Exists, Src, Dst
  <2>8. Ripe' = Ripe /\ Broken' = Broken /\ Journal'
    BY <1>5, <2>1 DEF Told, Journal
  <2>9. ASSUME NEW s \in Ripe'
        PROVE  Copied(steps[s].file)' /\ DoneMoved(files[steps[s].file].op)'
    <3>1. steps'[s].file = f0
      BY <2>1, <2>3, <2>8, <2>9
    <3> QED
      BY <2>1, <2>6, <2>7, <3>1 DEF Copied, DoneMoved, FilesOf, Src, Dst
  <2>10. Ripeness'
    BY <2>1, <2>3, <2>8, <2>9 DEF Ripeness, RowLabels
  <2>11. \A o \in healed' : DoneMoved(o)'
    BY <2>1, <2>3, <2>7 DEF DoneMoved, FilesOf
  <2>12. First(cands)' = s0 /\ ~Exists(Src(steps[First(cands)].file))'
    BY <2>1, <2>5 DEF Exists, Src
  <2>13. Pass'
    BY <2>1, <2>2, <2>3, <2>8, <2>11, <2>12 DEF Told, Pass, Healing
  <2> QED
    BY <1>4, <2>1, <2>8, <2>10, <2>13 DEF Told, Healing
<1>c. CASE HealStep
  <2>1. /\ pc = "healStep" /\ pc' = "healRow" /\ steps' = [steps EXCEPT ![s0].status = "done"]
        /\ UNCHANGED <<disk, catalog, files, cands, healed>>
    BY <1>c DEF HealStep, heal, world
  <2>2. /\ s0 \in Ripe /\ ~Exists(Src(f0)) /\ s0 \in DOMAIN steps
        /\ steps[s0].stage = "commit_move"
    BY <1>2, <2>1 DEF Told, Pass, Broken, list_failed_commit_move_candidates
  <2>3. /\ \A s \in Ripe : steps[s].file = f0
        /\ Copied(f0) /\ DoneMoved(files[f0].op)
        /\ healed \subseteq {files[f0].op}
    BY <1>6, <2>1, <2>2 DEF Told, Ripeness, Pass, Healing
  <2>4. /\ DOMAIN steps' = DOMAIN steps
        /\ \A s \in DOMAIN steps : /\ steps'[s].file = steps[s].file
                                   /\ steps'[s].stage = steps[s].stage
                                   /\ steps'[s].hash = steps[s].hash
        /\ \A s \in DOMAIN steps : s # s0 => steps'[s] = steps[s]
        /\ steps'[s0].status = "done"
    BY <2>1, <2>2, MarkEffect DEF StepStatus
  <2>5. First(cands)' = s0 /\ steps'[s0].file = f0
    BY <2>1, <2>2, <2>4
  <2>6. Checked' = Checked /\ Broken' = Broken \ {s0}
    BY <2>2, <2>4 DEF Checked, Broken, list_failed_commit_move_candidates
  <2>7. SameJournal
    BY <2>4, <2>6 DEF SameJournal, Checked
  <2>8. Journal'
    BY <2>1, <2>7, JournalKept DEF Told
  <2>9. ASSUME NEW s \in Ripe' PROVE s \in Ripe /\ steps'[s].file = f0
    <3>1. s \in Broken /\ s \in DOMAIN steps
      BY <1>2, <2>6, <2>9 DEF Ripe
    <3> QED
      BY <2>3, <2>7, <2>9, <3>1, RipeKept
  <2>10. Moved(f0)
    BY <2>2, <2>3 DEF Moved, Copied
  <2>11. Copied(f0)' /\ DoneMoved(files[f0].op)' /\ Moved(f0)'
    BY <2>1, <2>3, <2>5, <2>10 DEF Copied, DoneMoved, Moved, FilesOf, Exists, Src, Dst
  <2>12. ASSUME NEW s \in Ripe'
         PROVE  Copied(steps[s].file)' /\ DoneMoved(files[steps[s].file].op)'
    <3>1. steps'[s].file = f0
      BY <2>9, <2>12
    <3> QED
      BY <2>5, <2>11, <3>1 DEF Copied, DoneMoved, FilesOf, Src, Dst
  <2>13. Ripeness'
    BY <2>1, <2>9, <2>12 DEF Ripeness, RowLabels
  <2>14. \A o \in healed' : DoneMoved(o)'
    BY <2>1, <2>3, <2>5, <2>11 DEF DoneMoved, FilesOf
  <2>15. /\ Ripe' \subseteq cands' /\ cands' \ {s0} \subseteq Broken'
         /\ \A s \in Ripe' : healed' \subseteq {files'[steps'[s].file].op}
    BY <2>1, <2>3, <2>6, <2>9 DEF Told, Pass, Healing
  <2>16. LET f == steps[First(cands)].file IN
         (/\ First(cands) \notin Broken /\ Moved(f) /\ DoneMoved(files[f].op)
          /\ cands \ {First(cands)} \subseteq Broken
          /\ \A s \in Ripe : steps[s].file = f
          /\ healed \subseteq {files[f].op})'
    BY <2>1, <2>3, <2>5, <2>6, <2>9, <2>11, <2>15
       DEF Moved, DoneMoved, FilesOf, Src, Dst
  <2>17. Pass'
    BY <2>1, <2>14, <2>15, <2>16 DEF Pass, Healing
  <2> QED
    BY <1>4, <2>1, <2>8, <2>13, <2>17 DEF Told, Healing
<1>d. CASE HealRow
  <2>1. /\ pc = "healRow" /\ pc' = "heal" /\ files' = [files EXCEPT ![f0].disp = "done"]
        /\ healed' = healed \cup {files[f0].op} /\ cands' = cands \ {s0}
        /\ UNCHANGED <<disk, catalog, steps>>
    BY <1>d DEF HealRow, world
  <2>2. /\ s0 \notin Broken /\ Moved(f0) /\ DoneMoved(files[f0].op)
        /\ cands \ {s0} \subseteq Broken /\ healed \subseteq {files[f0].op}
        /\ \A s \in Ripe : steps[s].file = f0
    BY <2>1 DEF Told, Pass
  <2>3. f0 \in DOMAIN files
    BY <1>3, <2>1 DEF RestShape, Registers
  <2>4. \A f \in DOMAIN files :
           /\ files'[f].hash = files[f].hash
           /\ files'[f].disp = IF f = f0 THEN "done" ELSE files[f].disp
    BY <2>1, MarkRowEffect DEF RowDisp
  <2>5. Ripe' = Ripe /\ Broken' = Broken /\ Journal'
    BY <1>5, <2>1, <2>4, JournalKept DEF Told
  <2>6. DoneMoved(files[f0].op)'
    <3> SUFFICES ASSUME NEW g \in DOMAIN files, files[g].op = files[f0].op,
                        g = f0 \/ files[g].disp = "done"
                 PROVE  Moved(g)'
      BY <1>1, <2>3, <2>4 DEF DoneMoved, FilesOf, KeptRows
    <3>1. Moved(g)
      BY <2>2 DEF DoneMoved, FilesOf
    <3> QED
      BY <1>1, <2>1, <3>1, MovedSame DEF world
  <2>7. ASSUME NEW s \in Ripe'
        PROVE  Copied(steps[s].file)' /\ DoneMoved(files[steps[s].file].op)'
    <3>1. steps'[s].file = f0 /\ steps[s].file = f0
      BY <2>1, <2>2, <2>5, <2>7
    <3>2. Copied(f0)
      BY <1>6, <2>1, <2>5, <2>7, <3>1 DEF Healing
    <3>3. Copied(f0)'
      BY <1>1, <2>1, <2>3, <2>4, <3>2 DEF Copied, Exists, Src, Dst, KeptRows
    <3> QED
      BY <2>6, <3>1, <3>3 DEF Copied, DoneMoved, FilesOf, Src, Dst
  <2>8. Ripeness'
    BY <2>1, <2>2, <2>5, <2>7 DEF Ripeness, RowLabels
  <2>9. healed' = {files[f0].op} /\ files'[f0].op = files[f0].op
    BY <1>1, <2>1, <2>2, <2>3 DEF KeptRows
  <2>10. \A o \in healed' : DoneMoved(o)'
    BY <2>6, <2>9 DEF DoneMoved, FilesOf
  <2>11. /\ Ripe' \subseteq cands' /\ cands' \subseteq Broken'
         /\ \A s \in Ripe' : healed' \subseteq {files'[steps'[s].file].op}
    BY <1>2, <2>1, <2>2, <2>5, <2>9 DEF Told, Pass, Healing
  <2>12. Pass'
    BY <2>1, <2>10, <2>11 DEF Pass, Healing
  <2> QED
    BY <1>4, <2>1, <2>5, <2>8, <2>12 DEF Told, Healing
<1>e. CASE HealEnd
  <2>1. /\ pc = "heal" /\ pc' \in {"start", "idle"} /\ cands = {} /\ UNCHANGED <<files, steps>>
    BY <1>e DEF HealEnd
  <2>2. Ripe' = {} /\ Journal'
    BY <1>5, <2>1 DEF Told, Pass, Healing, Journal
  <2>3. Ripeness' /\ Pass'
    BY <2>1, <2>2 DEF Ripeness, Pass, Healing
  <2> QED
    BY <1>4, <2>1, <2>2, <2>3 DEF Told
<1> QED
  BY <1>a, <1>b, <1>c, <1>d, <1>e DEF Reconcile

-----------------------------------------------------------------------------
(***************************************************************************)
(* The user, the initial state, and the two results.                       *)
(***************************************************************************)
LEMMA SameTold ==
    ASSUME Told, UNCHANGED <<disk, catalog, files, steps, pc, loop, heal>> PROVE Told'
<1>1. /\ UNCHANGED <<disk, catalog, files, steps, pc, op, todo, row, step, outer, cands, healed>>
  BY DEF loop, heal
<1>2. Journal' /\ Checked' = Checked /\ Broken' = Broken /\ Ripe' = Ripe
  BY <1>1 DEF Told, Journal, Ripe, Verified, Checked, Broken,
              list_failed_commit_move_candidates
<1>3. \A f : (Verified(f)' <=> Verified(f)) /\ (Moved(f)' <=> Moved(f))
             /\ (Copied(f)' <=> Copied(f))
  BY <1>1, <1>2 DEF Verified, Moved, Copied, Exists, Src, Dst
<1>4. \A o : FilesOf(o)' = FilesOf(o) /\ (DoneMoved(o)' <=> DoneMoved(o))
  BY <1>1, <1>3 DEF DoneMoved, FilesOf
<1>5. OnStep'
  BY <1>1 DEF Told, OnStep, StepAt
<1>6. Progress'
  BY <1>1, <1>2 DEF Told, Progress, Verified, Moved, Copied, Exists, Src, Dst
<1>7. Behind'
  BY <1>1 DEF Told, Behind, FilesOf, Moved, Exists, Src, Dst
<1>8. Ripeness'
  BY <1>1, <1>2 DEF Told, Ripeness, DoneMoved, FilesOf, Moved, Copied, Exists, Src, Dst
<1>9. Pass'
  BY <1>1, <1>2 DEF Told, Pass, DoneMoved, FilesOf, Moved, Exists, Src, Dst
<1> QED
  BY <1>2, <1>5, <1>6, <1>7, <1>8, <1>9 DEF Told

LEMMA UserTold ==
    ASSUME MaxResumes = 0, WorldType, RestShape, Steady, Told, User
    PROVE  Told'
<1>a. ASSUME NEW r \in Requests, Plan(r) PROVE Told'
  BY <1>a, SameTold DEF Plan, world, journal
<1>b. CASE PersistPlan
  <2>1. /\ \A f \in DOMAIN files : f \in DOMAIN files' /\ files'[f] = files[f]
        /\ \A f \in DOMAIN files' : f \notin DOMAIN files => files'[f].op = Len(status) + 1
    BY <1>b, PersistShape
  <2>2. /\ pc = "idle" /\ UNCHANGED <<disk, catalog, steps, pc>>
    BY <1>b DEF PersistPlan, Steady, Alone, world
  <2>3. /\ Len(status) \in Nat
        /\ \A f \in DOMAIN files : files[f].op # Len(status) + 1
        /\ \A s \in DOMAIN steps : steps[s].file \in DOMAIN files
    BY DEF RestShape, Keys
  <2>4. /\ SameJournal /\ Broken' = Broken /\ Checked' = Checked /\ Ripe' = Ripe
        /\ Ripe \subseteq DOMAIN steps
    BY <2>2 DEF SameJournal, Ripe, Verified, Checked, Broken,
                list_failed_commit_move_candidates
  <2>5. Journal'
    BY <2>1, <2>4, JournalKept DEF Told
  <2>6. ASSUME NEW s \in Ripe'
        PROVE  Copied(steps[s].file)' /\ DoneMoved(files[steps[s].file].op)'
    <3>1. PICK f : f = steps[s].file
      OBVIOUS
    <3>2. PICK o : o = files[f].op
      OBVIOUS
    <3>3. /\ f \in DOMAIN files /\ f \in DOMAIN files' /\ files'[f] = files[f]
          /\ o # Len(status) + 1 /\ Copied(f) /\ DoneMoved(o) /\ steps'[s].file = f
      BY <2>1, <2>2, <2>3, <2>4, <2>6, <3>1, <3>2 DEF Told, Ripeness
    <3>4. Copied(f)'
      BY <2>2, <3>3 DEF Copied, Exists, Src, Dst
    <3>5. ASSUME NEW g \in FilesOf(o)', files'[g].disp = "done" PROVE Moved(g)'
      <4>1. g \in DOMAIN files /\ files'[g] = files[g]
        BY <2>1, <3>3, <3>5 DEF FilesOf
      <4>2. Moved(g)
        BY <3>3, <3>5, <4>1 DEF FilesOf, DoneMoved
      <4> QED
        BY <2>2, <4>1, <4>2 DEF Moved, Exists, Src, Dst
    <3>6. DoneMoved(o)'
      BY <3>5 DEF DoneMoved
    <3> QED
      BY <3>2, <3>3, <3>4, <3>6 DEF Copied, DoneMoved, FilesOf, Src, Dst
  <2>7. Ripeness'
    BY <2>2, <2>4, <2>6 DEF Told, Ripeness, RowLabels
  <2>8. OnStep' /\ Progress' /\ Behind' /\ Pass'
    BY <2>2 DEF OnStep, Progress, Behind, Pass, Healing, RowLabels
  <2> QED
    BY <2>5, <2>7, <2>8 DEF Told
<1>c. ASSUME NEW o \in DOMAIN status, Cancel(o) PROVE Told'
  BY <1>c, SameTold DEF Cancel, world, journal
<1>d. ASSUME NEW o \in DOMAIN status, Resume(o) PROVE FALSE
  BY <1>d DEF Resume, RestShape
<1> QED
  BY <1>a, <1>b, <1>c, <1>d DEF User

LEMMA InitTold == ASSUME Init PROVE Told
<1>1. pc = "idle" /\ steps = <<>>
  BY DEF Init
<1>2. DOMAIN steps = {}
  BY <1>1
<1>3. Checked = {} /\ Broken = {} /\ Ripe = {}
  BY <1>2 DEF Checked, Broken, Ripe, list_failed_commit_move_candidates
<1> QED
  BY <1>1, <1>3 DEF Told, Journal, OnStep, Progress, Behind, Ripeness, Pass, Healing, RowLabels

Trusted == Careful /\ Steady /\ Told

\* The conditions of the two theorems.
Undisturbed ==
    /\ Patient /\ AllPresent /\ ~ReconcileFaults
    /\ MaxCrashes = 0 /\ MaxExternal = 0 /\ MaxResumes = 0

LEMMA TrustedStep ==
    ASSUME Undisturbed, Trusted, [Next]_vars PROVE Trusted'
<1>1. WorldType /\ RestShape /\ Order /\ FirstTry /\ OnDisk /\ Steady /\ Alone /\ Told
  BY ShapeSplit DEF Trusted, Careful, Steady
<1>2. Careful'
  BY CarefulStep DEF Trusted, Undisturbed
<1>3. CASE Worker
  <2>1. Steady'
    BY <1>1, <1>3, DequeueSteady, ReconcileSteady, LoopSteady, RenameSteady,
       CopySteady, CommitSteady DEF Worker, Undisturbed
  <2>2. Told'
    BY <1>1, <1>3, DequeueTold, ReconcileTold, LoopTold, RenameTold, CopyTold, CommitTold
       DEF Worker, Undisturbed
  <2> QED
    BY <1>2, <2>1, <2>2 DEF Trusted
<1>4. CASE User
  BY <1>1, <1>2, <1>4, UserSteady, UserTold DEF Trusted, Undisturbed
<1>5. CASE UNCHANGED vars
  <2>1. /\ UNCHANGED <<disk, catalog, files, steps, pc, loop, heal>>
        /\ UNCHANGED <<world, files, queue, plan, pc, op, row>>
    BY <1>5 DEF vars, world, journal, intake, loop
  <2>2. Alone' /\ OneTrip' /\ Tracked' /\ Agreed'
    BY <1>1, <2>1 DEF Steady, Alone, OneTrip, Tracked, Agreed, Active, Src, Dst, world
  <2> QED
    BY <1>1, <1>2, <2>1, <2>2, SameTold DEF Trusted, Steady
<1> QED
  BY <1>1, <1>3, <1>4, <1>5, SurroundingsNone DEF Next, Undisturbed

LEMMA HealKeeps ==
    ASSUME Undisturbed, Trusted, [Next]_vars, pc = "heal" PROVE Keeps
<1>1. WorldType /\ RestShape /\ Order /\ Steady /\ Alone /\ Told
  BY ShapeSplit DEF Trusted, Careful, Steady
<1>2. CASE HealRemove
  <2> PICK s0 : s0 = First(cands)
    OBVIOUS
  <2> PICK f0 : f0 = steps[s0].file
    OBVIOUS
  <2>1. /\ cands # {} /\ SafeToHeal(s0) /\ disk' = [disk EXCEPT ![Src(f0)] = NoFile]
    BY <1>2 DEF HealRemove
  <2>2. s0 \in Broken /\ f0 \in DOMAIN files
    BY <1>1, <2>1, FirstCand DEF Told, Pass
  <2>3. Copied(f0)
    BY <1>1, <2>1, <2>2, RipeIsSafe DEF Told, Ripeness
  <2>4. Dst(f0) \in Path /\ Dst(f0) # Src(f0)
    BY <1>1, <2>2, RowPaths DEF Order, Apart, Src, Dst
  <2>5. disk[Src(f0)] \notin Content \/ \E q \in Path : q # Src(f0) /\ disk[q] = disk[Src(f0)]
    BY <2>3, <2>4, ContentAssumption DEF Copied
  <2> QED
    BY <1>1, <2>1, <2>5, OverwriteKeeps
<1>3. CASE ~HealRemove
  <2>1. disk' = disk
    <3>1. CASE Reconcile
      BY <1>3, <3>1 DEF Reconcile, HealSkip, HealStep, HealRow, HealEnd, world
    <3>2. CASE RenameStep
      BY <3>2 DEF RenameStep, ResumeDegraded, RenameBegin, RenameResume, RenameRefuse,
                  RenameNoParent, RenameReady, RenameDo, RenameError, RenameExdev,
                  RenameSync, RenameDone, Fallback, FallbackError
    <3>3. CASE CopyStep
      BY <3>3 DEF CopyStep, CopyBegin, CopyNoParent, CopyRefuse, CopyFresh, CopyReuse,
                  CopyDiscard, CopyDiscardError, CopyOpen, CopyFill, CopyError, CopyDone
    <3>4. CASE CommitStep
      BY <1>1, <3>4, CommitRoutine
    <3>5. CASE RunLoop \/ Dequeue
      BY <1>1, <3>5, LoopRoutine DEF Dequeue, world
    <3>6. CASE User
      BY <3>6 DEF User, Plan, PersistPlan, Cancel, Resume, world
    <3>7. CASE UNCHANGED vars
      BY <3>7 DEF vars, world
    <3> QED
      BY <1>1, <3>1, <3>2, <3>3, <3>4, <3>5, <3>6, <3>7, SurroundingsNone
         DEF Next, Worker, Undisturbed
  <2> QED
    BY <2>1, SameDiskKeeps
<1> QED
  BY <1>2, <1>3

\* For any directories, mounts, files and requests and any failures under the
\* executor: when the user waits for each move to end, the process is not
\* killed, nothing else writes to the scan roots, every row of the catalog
\* starts at a file that is there and no call fails under the reconcile pass,
\* the pass removes only what is also somewhere else (reconcile.rs,
\* heal_candidate).
THEOREM ReconcileIsCareful ==
    ASSUME Undisturbed PROVE Spec => ReconcileKeepsContent
<1>1. Init => Trusted
  BY InitCareful, InitSteady, InitTold DEF Trusted
<1>2. Trusted /\ [Next]_vars => Trusted'
  BY TrustedStep
<1>3. Trusted /\ [Next]_vars => [externals' = externals /\ pc = "heal" => Keeps]_vars
  BY HealKeeps
<1> QED
  BY <1>1, <1>2, <1>3, PTL DEF Spec, ReconcileKeepsContent

LEMMA StatusStep ==
    ASSUME RestShape, Next, NEW o \in DOMAIN status,
           status[o] # "completed", status'[o] = "completed"
    PROVE  \/ Complete /\ o = op
           \/ HealEnd /\ o \in healed /\ all_operation_files_done(o)
<1>1. status \in Seq(OpStatus)
  BY DEF RestShape
<1>2. CASE status' = status
  BY <1>2
<1>3. CASE HealEnd
  BY <1>3 DEF HealEnd
<1>4. CASE RunLoop
  BY <1>1, <1>4 DEF RunLoop, Start, Complete, Cancelled, SkipRow, BeginRow, EndRow, Fail,
                    EndRun, journal
<1>5. CASE PersistPlan
  <2>1. status' = Append(status, "pending")
    BY <1>5 DEF PersistPlan
  <2> QED
    BY <1>1, <2>1
<1>6. CASE Dequeue \/ (Reconcile /\ ~HealEnd) \/ CommitStep
  <2>1. status' = status
    BY <1>6 DEF Dequeue, Reconcile, HealSkip, HealRemove, HealStep, HealRow, journal,
                CommitStep, VerifyBegin, VerifyDone, VerifyError, CommitBegin, CommitSync,
                CommitRemove, CommitError, CommitDone, OpenStep, StepDone, StepFailed, Go
  <2> QED
    BY <1>2, <2>1
<1>7. CASE RenameStep
  <2>1. status' = status
    BY <1>7 DEF RenameStep, ResumeDegraded, RenameBegin, RenameResume, RenameRefuse,
                RenameNoParent, RenameReady, RenameDo, RenameError, RenameExdev,
                RenameSync, RenameDone, Fallback, FallbackError,
                OpenStep, StepDone, StepFailed, Go, Abort, journal
  <2> QED
    BY <1>2, <2>1
<1>8. CASE CopyStep
  <2>1. status' = status
    BY <1>8 DEF CopyStep, CopyBegin, CopyNoParent, CopyRefuse, CopyFresh, CopyReuse,
                CopyDiscard, CopyDiscardError, CopyOpen, CopyFill, CopyError, CopyDone,
                OpenStep, StepDone, StepFailed, Go, Abort, journal
  <2> QED
    BY <1>2, <2>1
<1>9. CASE Surroundings \/ (User /\ ~PersistPlan)
  <2>1. status' = status
    BY <1>9 DEF User, Plan, Cancel, Resume, Surroundings, Crash, Restart, External, journal
  <2> QED
    BY <1>2, <2>1
<1> QED
  BY <1>3, <1>4, <1>5, <1>6, <1>7, <1>8, <1>9 DEF Next, Worker, User

LEMMA CompleteStep ==
    ASSUME Trusted, Next, NEW o \in DOMAIN status,
           status[o] # "completed", status'[o] = "completed", NEW f \in FilesOf(o)
    PROVE  /\ ~Exists(Src(f)) /\ Exists(Dst(f))
           /\ files[f].cat # NoCat =>
                 /\ catalog[files[f].cat] = Dst(f)
                 /\ disk[Dst(f)] = Original(files[f].cat)
<1>1. RestShape /\ Agreed /\ Told
  BY ShapeSplit DEF Trusted, Careful, Steady
<1>2. f \in DOMAIN files /\ files[f].cat \in CatId \cup {NoCat}
  BY <1>1, RowPaths DEF FilesOf
<1>3. \/ Complete /\ o = op
      \/ HealEnd /\ o \in healed /\ all_operation_files_done(o)
  BY <1>1, StatusStep
<1>4. Moved(f) /\ pc # "renameSync"
  <2>1. CASE Complete /\ o = op
    BY <1>1, <2>1 DEF Complete, Told, Behind
  <2>2. CASE HealEnd /\ o \in healed /\ all_operation_files_done(o)
    BY <1>1, <2>2 DEF HealEnd, Told, Pass, Healing, DoneMoved, all_operation_files_done
  <2> QED
    BY <1>3, <2>1, <2>2
<1> QED
  BY <1>1, <1>2, <1>4 DEF Moved, Agreed

\* Under the same conditions an operation is completed, by its own run or by
\* the reconcile pass, only when each of its files has left its source and is
\* at its destination, on disk and in the catalog (executor.rs, run_move;
\* reconcile.rs).
THEOREM CompletionIsMove ==
    ASSUME Undisturbed PROVE Spec => CompletedMeansMoved
<1>1. Init => Trusted
  BY InitCareful, InitSteady, InitTold DEF Trusted
<1>2. Trusted /\ [Next]_vars => Trusted'
  BY TrustedStep
<1>3. Trusted /\ [Next]_vars =>
        [\A o \in DOMAIN status :
            status[o] # "completed" /\ status'[o] = "completed" =>
                \A f \in FilesOf(o) :
                    /\ ~Exists(Src(f)) /\ Exists(Dst(f))
                    /\ files[f].cat # NoCat =>
                          /\ catalog[files[f].cat] = Dst(f)
                          /\ disk[Dst(f)] = Original(files[f].cat)]_vars
  BY CompleteStep
<1> QED
  BY <1>1, <1>2, <1>3, PTL DEF Spec, CompletedMeansMoved

=============================================================================
