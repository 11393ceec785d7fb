# Athenaeum in TLA+

Athenaeum catalogues astronomical images: a Rust core (`src/crates/athenaeum-core`)
used by a web server and a desktop shell, a React front end, and a capture agent
(`src/crates/perseus`) that sends frames to it. This directory holds a formal model
of the parts where an error loses data or stops the program, checked with TLC and
partly proved with TLAPS. `PROJECT.json` maps every definition to the lines it
models.

Seven parts are modelled, the ones everything else relies on:

| Module | What it is |
|---|---|
| `FileOp` | the Move operation: planner, executor with step journal, reconcile pass, the operation queue's worker, kill and restart |
| `ComputeQueue` | admission of heavy jobs: tickets, condition variable, cancellation, snapshots to the front end |
| `Delivery` | abstract: what the delivery of one batch promises its users |
| `SyncTransfer` | one batch between two devices: sender, lossy network, receiver, receipts, declines, restarts; implements `Delivery` |
| `SendQueue` | when the send engine of a peer tries which package: back-off, absence, probing |
| `CleanupCoord` | a payload shared by several targets, and when it is removed |
| `ReceiveGate` | the gate personal and collaboration transfers share, as operators |
| `CollabReceive` | a collaboration project's receiving side: scheduler core, executor, run, landing, on top of `ReceiveGate` |
| `Archive` | frame sets moved into zips and back: plan, executor, rollback, resume, restore |
| `FileOpProofs`, `FileOpMoveProofs`, `ComputeQueueProofs`, `SyncTransferProofs`, `SendQueueProofs`, `CleanupCoordProofs`, `CollabReceiveProofs`, `ArchiveProofs` | theorems and their proofs |
| `MC*` | instances for TLC |

Each `.cfg` is one question; the sections below say which.

## 1. Inventory

The parts of the system, the state they keep and what makes each correct. Those
not marked *modelled* are listed in `PROJECT.json` with the reason.

**Move operations** (`file_op/`, `api/files.rs`) — *modelled*. State: files on
disk, `files.path` in SQLite, the journal (`file_operations`,
`file_operation_files`, `file_operation_steps`). A request is planned on its own
thread and queued; one worker executes each row as a rename or as
copy, verify, commit; every job first runs the reconcile pass, which finishes
commits that failed to remove their source. Hard: the plan is stale when the job
runs, every file system call may fail, the process may be killed anywhere, journal
and disk are updated one after the other. Correct when no file is lost, the
catalog follows the file, `completed` is true, and every job ends.

**Operation queue** (`services/operation_queue.rs`) — *modelled* with Move
and Archive. One worker thread and a FIFO in memory, lost on a kill. Imports use it
too.

**Compute queue** (`services/compute_queue.rs`) — *modelled*. State: FIFO of
tickets, running count, limit, registry, cancel flags. Hard: lost wake-ups, a limit
that changes under waiters, cancellation against admission, notifications that
overtake each other. Correct when admission is first come first served within the
limit, nothing leaks and nobody waits for ever.

**Peer sync** (`sync/`, over `sharing/`) — *partly modelled*. Sending engines with
a durable outbound table, receivers with an inbound row per batch and a durable log
of receipts, a gate that bounds concurrent receives, a coordinator that cleans a
payload shared by several targets, retention of sources. Hard: lost, repeated and
late messages, restart on either side, users of both devices who cancel, decline,
resend and delete, a peer that is away for days. Correct when a batch is called
delivered, and its payload given up, only after the peer stored every frame; when
every batch and every inbound row is settled in the end; and when a peer that comes
back is noticed.

**Collaboration** (`collab/`, `api/collab_live/`) — *receiving side modelled*. A live
feed with cursors and epochs, an outbox of holder reports, a holder map, a
deterministic receive scheduler with its executor, and the per-frame state of storage
with a window that tells deletion of files from a lost disk. Hard: gaps and repeats
in the feed, events of several tasks that overtake each other, a lane shared with
personal transfers. Correct when the local map converges to the hub's, every wanted
frame is fetched once and lands, personal transfers go first, and an unmounted disk
is never reported as mass deletion.

**Archive and restore** (`archive/`, `zip_store/`) — *archive and restore of frame sets
modelled*. State: sources and zips on disk, a staging directory per operation, the
catalog rows with the zip they live in, the set's markers, and a log of steps. Copy,
verify, zip, check, delete, finalize, each skipping what the log has as done; any error
or cancellation rolls back; an operation that a kill interrupted is offered for Resume
and Roll back; Unarchive extracts, releases the rows and removes the zips. Archived files
are read through a cache of extracted entries with pins and LRU eviction. Hard: kills and
failures between disk and log, a rollback that is itself interrupted, two operations on
one set or one zip name. Correct when no frame is lost, the catalog says where each one
is, nobody deletes another's zip, and every operation settles.

**Capture agent** (`perseus/src`) — *fan-out and resend modelled*. Watcher with a stability debounce, batcher with
timers and manual flush, durable `seen` table, resend. Correct when every stable
file is eventually enqueued once for each version of it, restarts included.

**Scanner, monitor, duplicates, sessions, clustering, relinking, calibration,
export, settings.** Database updates computed by one thread from query results.
Their effect on Move (rows whose file is missing, a sampled hash) is in `FileOp`.

**Stacking, registration, plate solving, FITS.** Numerical or format code.

**Hosts and front end.** Routes, commands and views over the core.

## 2. FileOp

### State and actions

`disk`, `catalog`, `status`, `files` and `steps` are durable: the file system, the
column `files.path`, and the three journal tables, whose rows are numbered by their
ids. `queue`, `cancel` and `plan` live in memory, as do the worker's `pc` and its
registers (`op`, `todo`, `row`, `step`, `outer`, `prior`, `cands`, `healed`), which
are the local variables of `run_operation`, the step functions and the reconcile
loop. `Crash` clears everything that lives in memory.

One action is one durable effect: one file system call, or the SQLite writes no
reader can tell apart. There is no enclosing transaction in the code, so none in
the model.

| Code | Actions |
|---|---|
| `build_move_plan`, `enqueue_move_operation` | `Plan` (validation), `PersistPlan` (hash, catalog lookup, rows, enqueue) |
| worker loop of the operation queue | `Dequeue` |
| `cancel_archive_operation` (the hosts' route for moves too) | `Cancel` |
| `reconcile_abandoned_commit_moves`, `heal_candidate` | `HealSkip`, `HealRemove`, `HealStep`, `HealRow`, `HealEnd` |
| `run_operation`, `run_move`, and the job that calls them in `enqueue_move_operation` | `Start`, `BeginRow`, `SkipRow`, `EndRow`, `Cancelled`, `Complete`, `Fail` |
| `run_atomic_rename_step`, `run_cross_volume_fallback` | `ResumeDegraded`, `Rename*`, `Fallback*` |
| `run_copy_step` | `Copy*` |
| `run_verify_step` | `Verify*` |
| `run_cross_volume_commit_step` | `Commit*` |
| kill, startup | `Crash`, `Restart` |

Data are abstracted to what the properties tell apart. A path is a directory and a
name. A file is its content, and a copy under way is `Partial`. The sampled hash of
`duplicates/mod.rs` is the constant `Digest`: it may give two contents one hash, and
in `MCFileOp` it does (`c1` and `c3`); the files of one name in `FileOpCrash` and
`FileOpClaimed` are these two. `Device` is what the planner compares;
`Mount` is what `rename(2)` cares about: they differ on bind mounts, which is how a
planned rename meets `EXDEV`.

### The environment

* `MaxFaults` file system calls fail, any of them, with no effect except that
  a copy that fails leaves a truncated file.
* `MaxCrashes` kills, anywhere. After a restart the startup reconcile job is queued
  or not: the desktop skips it when the database is not open yet.
* `MaxExternal` writes or deletions by other programs.
* `MaxResumes` calls of `run_operation` on an operation that has run before. The
  executor is written for this (its comments and tests speak of resuming) but no
  host does it today. Runs about resuming say so.
* `Patient` restricts the user to one move at a time. It is an assumption,
  used where the property is false without it.
* `ReconcileFaults` lets calls under the reconcile pass fail.

### Runs

Here and in the sections below, a name with † is a further instance of the same module:
its `.cfg` is in the directory and gives the result stated, but it is not one of the runs
(nor, where it violates a property, of the findings) that `PROJECT.json` lists.

| Run | World and bounds | Properties | Shows |
|---|---|---|---|
| `FileOpCrash` | files of one name and one hash, of different content, in two directories; 2 moves, queued or concurrent with planning; 2 faults, 1 kill | `TypeOK`, `ExecutorKeepsContent`, `ReconcileKeepsContent` | no last copy is destroyed |
| `FileOpFaults` | two files; 3 moves one after the other, cancellation, 2 faults | `CatalogFollowsFile`, `CompletedMeansMoved` | disk and catalog agree between jobs; `completed` is true |
| `FileOpResume` | 1 move of two files, 1 fault (also under reconcile), 1 kill, 1 second run, 1 outside write | `JobsEnd`, `ResumeCompletes` | every queued operation reaches a final status unless killed; a second run completes whatever the kill interrupted |
| `FileOpClaimed` | 3 racing moves, no fault | `CompletedMeansMoved` *violated* | see Findings |
| `FileOpStaleSource` † | 2 moves, 1 fault, 1 outside write | `ReconcileKeepsContent` *violated* | see Findings |
| `FileOpKilled` † | 1 move, 1 kill | `CatalogFollowsFile` *violated* | see Findings |

Why the bounds are enough to be interesting: two moves give the abandoned commit
that the second job's reconcile pass heals; two faults give a failed commit and a
failure while handling it; one kill falls between any two effects; two rows per
move let a failure leave some rows done and others untouched; two directories with
files of one name make destinations collide; and since they have one hash, a step that
trusted the hash alone would take one for the other. The reconcile pass asks that *its*
row was verified, and that is what it relies on: with the mutant `SafeToHeal_HashOnly`,
which only compares the hash of what is at the destination, it removes a source whose
copy never arrived. Four directories contain a rename
within a mount, a rename refused with `EXDEV`, and a copy. Two kills and two second
runs were not needed for any counterexample met while writing the model.

Deadlock is not checked: an idle program whose user has spent the budget may stop.

Fairness: weak fairness of the worker. The worker is a dedicated thread that blocks
only on its empty queue, so while the process is up it makes progress. The user,
faults, kills and `Restart` have none. `JobsEnd` excepts an operation that a kill
interrupts, which is never run again; `ResumeCompletes` needs the worker only.

### Findings

* **A move claims a file that is not its own** (`FileOpClaimed`, code bug).
  `run_atomic_rename_step` takes "source missing, destination present" for its own
  rename of an earlier run (executor.rs:233) without asking the journal. When two
  queued moves share a source and something else of that name reached the second
  destination, the second move completes, and `sync_catalog_path` sends the catalog
  row to a foreign file.

* **The reconcile pass removes a newer file** (`FileOpStaleSource` †). It checks
  that the destination is verified and that no catalog row is at the source, not that the
  file there is still the one that was copied (reconcile.rs:226-230). A move fails to
  remove its source, something else is put at that path, and the pass before the next job
  removes it, though it promises removal "when — and only when — it's provably safe to do
  so" (reconcile.rs:13-14).
* **A kill leaves the catalog behind** (`FileOpKilled` †). executor.rs:13-15
  speaks of updates "paired inside a single transaction" and of a resume path. The rename
  (executor.rs:259) and the catalog update (executor.rs:299) are two effects with a gap,
  no host resumes, and the reconcile pass looks at failed steps only. `ResumeCompletes`
  shows that a second run would repair it.

Observed while choosing bounds, without a configuration of their own:

* a commit interrupted by a kill stays `in_progress`, so the reconcile pass, which
  looks for `failed` steps, does not see it (reconcile.rs:4-6);
* a second run of an operation with two sources of one name discards the first
  file's copy as a leftover of its own (executor.rs:384-395), since the refused
  attempt left a copy step in the journal. It needs a second run, which no host makes;
* when reads fail under the reconcile pass of two jobs in a row, the leftover source
  can be moved away and another file moved to its path, and the pass of a fourth job
  removes that file, for the reason of `FileOpStaleSource` (`ReconcileFaults = TRUE`,
  `MaxOps = 4`, `MaxFaults = 3`, `MaxCrashes = 0` in `FileOpCrash`, with a patient user and the
  four moves of this sequence as `Requests`). `FileOpCrash` therefore assumes
  `ReconcileFaults = FALSE`: the first pass after a failed commit can read the
  destination. It also passes with three moves and no kill, and with `ReconcileFaults = TRUE` at
  its own bounds, which are too small for that sequence.

## 3. ComputeQueue

`acquire` is `Enqueue` (without the lock), then `Refuse`, `Admit` or `Park` under
`gate`; a parked thread leaves by a notification (`Woken`, part of the action that
calls `notify_all`) or by the 200 ms timeout (`TimeOut`, present when `Backstop`).
`Release` is the drop of the permit; `cancel` and `set_max_concurrent` are the
queue's own operations. `CancelDirectly` is what `cancel_master_build` does: it sets
the flag behind the queue's back (allowed when `DirectCancel`). Every transition
owes a notification: `TakeSnapshot` reads the registry and `Deliver` hands it to the
front end, both outside the locks, so that threads overtake each other; a thread
finishes its notification before it takes the gate again (`Quiet`).

| Run | Bounds | Properties | Shows |
|---|---|---|---|
| `ComputeQueue` | 2 jobs, limits 0, 1, 2, timeout, flags set behind the queue, jobs that may hang | `TypeOK`, `NoLostWakeup`, `NothingLeaks`, `FairAdmission`, `EveryoneIsServed`, `CancelIsNoticed` | slots and tickets are accounted for, nobody overtakes, everybody leaves `acquire` |
| `ComputeQueueThree` † | 3 jobs (a symmetry set), limits 1, 2, no timeout, no flag set behind the queue | `NoLostWakeup`, `FairAdmission` | a limit lowered below what runs admits nobody before the surplus has drained; release, cancellation and new limit all reach the waiters |

In `ComputeQueue` one job runs and one waits for it, or both contend, and limits go to
the clamped zero. `ComputeQueueThree` has two running and a third waiting when the limit
goes down; and, as no flag is set behind the queue, `NoLostWakeup` there also says that a
cancelled waiter is awake (with `DirectCancel` that clause says nothing). For any number of jobs, and without the timeout,
the safety properties are proved (section 9).

Fairness: a runnable thread runs (weak fairness of `Wait`, `TimeOut` and `Notify`).
The run does not assume that a job ends; `EveryoneIsServed` says what follows when
they do, and `CancelIsNoticed` holds when they do not.

`NoLostWakeup` excepts a flag that a host sets on its own: compute_queue.rs:16-20
lists "cancel-flag set" among the transitions made under the gate, and
api/masters.rs:2626 sets it without the gate and without a notification, so that the
200 ms timeout, used "ONLY as a defensive backstop" according to the module comment,
is what such a job relies on (`TimeOut_Never` breaks `CancelIsNoticed`). Deadlock is not
checked: when all jobs are done nothing is left to do.

Observed, not kept as a run: two snapshots delivered in the other order leave the
indicator showing the older one until the next change, though
ComputeQueueIndicator.tsx:19-20 calls rendering idempotent "regardless of arrival
order".

## 4. Delivery and SyncTransfer

### State and actions

`SyncTransfer` follows one batch. The sender has the durable row `out`, the engine's
in-memory `slot` for it, the `payload` on disk and the detached cleanup task (`tail`).
The receiver has the durable inbound `row` (one per batch), the `receipts` of each
wire id, its catalog (`held`), and in memory the `lane` of the peer, the `job` it is
at, and the two sets of `InboundControl`. `toR` and `toS` are messages in flight: sets,
so they arrive in any order and a repeated announce arrives again.

| Code | Actions |
|---|---|
| `drive_package`, `negotiate_and_build`, `attempt` | `Drive`, `Negotiate`, `AnnounceSent`, `AnnounceFailed`, `FailPackage` |
| `on_ack`, the cleanup task | `OnAck`, `CleanUp` |
| cancel, resend, restart of the sender | `CancelPackage`, `ResendTransfer`, `SenderRestart` |
| ingress pump and lane | `Arrive`, `TakeNext` |
| `handle_announce` up to the gate: first guard and row; seeding, second guard and choice; answer; gate | `HandleAnnounce`, `SeedReceipts`, `Replay`, `GateStep` |
| fetch, ingest, ack | `StartFetch`, `AbortFetch`, `FetchDone`, `FetchFails`, `IngestFrame`, `IngestFails`, `AckSent`, `AckFails` |
| `cancel_epilogue` | `EpilogueDone`, `EpilogueFails` |
| `handle_revoke` | `HandleRevoke` |
| `cancel_incoming_package` | `DeclineRead`, `DeclineMark`, `DeclineSignal`, `DeclineStamp` |
| history deletion, startup reconcile | `DeleteRecord`, `ReceiverRestart` |

`handle_announce` takes the store's lock several times, and what it read of the row
(whether the batch was declined) may be out of date when it uses it: a decline, a history
deletion or a kill falls between its steps, and a kill also between two of the receipts it
seeds. A frame is a model value; a corrupt one is rejected by the ingest. Waiting for the
receive gate is one step here (its competition is in `CollabReceive`); when a retry
comes is left open (it is in `SendQueue`). `held` is an arbitrary set at the start:
the peer may have frames already.

`Delivery` states what users rely on: a batch is delivered only when every frame has
been stored, stays delivered, and the payload is given up only after that. The
refinement maps `status` to the outbound state and `arrived` to the frames ever
stored; `Delivers == Abstract!Spec` is checked as a property.

### Runs

| Run | Bounds | Properties | Shows |
|---|---|---|---|
| `SyncTransfer` | 2 frames, 2 wire ids, lane of 1; any 2 of 11 faults and commands | `TypeOK`, `NoPhantomDecline`, `AbortsAreQueued`, `Delivers`, `ClosesIfLogFits`, `RowsSettle` | the protocol implements `Delivery`, and settles |
| `SyncStaleReplay` † | 2 frames, 1 wire id; a corrupt frame, a restart of the sender | `Closes` *violated* | see Findings |
| `SyncHalfDecline` † | 2 frames, 1 wire id; a corrupt frame, a decline, a restart of the receiver | `Delivers` *violated* | see Findings |

Two frames let one be stored while the other is rejected, refused or missing, which
is what subsets and partial logs are about; two wire ids give a resend. Each kind of
fault happens once: pairs of different faults are all covered, and the same fault
twice is not. With `MaxLane = 2` the run also passes (1.5 million states). With
three faults `Delivers` still holds when there is no decline; with one it breaks when a
cancelled receipt comes to stand beside other receipts in one log: by the half decline
below, and by a history deletion that falls into the epilogue of one.

Fairness: weak fairness for the engine's loop, the lane, delivery of what is in
flight, and a decline that has begun. Each is a task that blocks on nothing but its
inputs, and the engine retries for ever (engine.rs, "never terminal"). Faults and
commands have none. Deadlock is not checked: a closed batch is the end. `AnnounceFailed` and the losses are bounded by `MaxEvents`, which
is how a network that works again after a while is expressed.

### Findings

* **A rejected frame is never redelivered** (`SyncStaleReplay` †). The replay
  guards (receiver.rs:2133, 2344) compare the number of satisfied receipts under a wire id
  with the number of announced frames. The wire id survives a restart of the sender,
  the subset does not: one frame stored, one rejected, then only the rejected one
  announced; the counts agree, the receiver replays the old rejection, and the sender
  waits and retries for ever. receiver.rs:2335-2338 promises "a real redelivery attempt,
  not a replay of its stale rejection". `ClosesIfLogFits` holds: the batch closes when the
  log holds nothing outside the announced subset.
* **Half a decline confirms a batch** (`SyncHalfDecline` †). The receipts of
  a decline are committed one by one (receiver.rs:3174-3185; the comment above says "One
  tx"). Killed half-way in a redelivery, the log holds one ingested and one cancelled
  frame, the next announce is answered from it, and `on_ack` confirms, since cancelled is
  not rejected; `Confirmed` is to mean "all frames ingested-or-duplicate"
  (models.rs:42-43).

Also observed, and the reason why `RowsSettle` excepts declines: a decline that read
`fetching` and signals after the row went back to `announced` leaves it there; an
error of `fetch_manifest` in the epilogue leaves the row as it was; and a decline may
mark a row that the lane finishes before the stamp (api/sync.rs:4413).

## 5. SendQueue

The worker of one peer: `q` holds the pending slots (what to do next, when, on which
rung of the back-off, class of the last failure) and `PeerReachability` (absent, head,
parked); `pass` is the list of due packages `handle_timeouts` works through. Every
handler ends at the top of the loop, where `ensure_absent_head_alive` runs (`Settle`).
An attempt succeeds, fails with a class, is deferred, or ends its package.

| Run | Bounds | Properties | Shows |
|---|---|---|---|
| `SendQueue` | 2 packages, 2 rungs; any 2 of 12 faults and commands; the peer comes and goes freely | `TypeOK`, `SleepersAreParked`, `ParkedByAbsence`, `ProbingUnlessEnded`, `ServedIfProbing` | who sleeps is found again; somebody probes; a peer that stays is served |
| `SendQueueSilent` † | 3 packages; one payload gone, one retry asked for | `Probing` *violated* | see below |

Two packages are a head and one that sleeps behind it; the safety part also passes
with three and one event (925 thousand states). Deadlock is checked. Deadlines are
`now`, `later` or `idle`, the hour of `IDLE_SLEEP`, which never ends in the model so
that nothing may depend on it.

Fairness: weak for the pass over due packages and for the clock; strong for commands
and acks, since the select loop takes every source now and then but a pass may
come first each time.

**Observed: the queue goes silent** (`SendQueueSilent` †). The head's attempt ends
its package, because the payload is gone, and another package is tried in the same pass
and finds the peer absent. `note_peer_absent` elects as head the lowest pending package,
which sleeps, without waking it (engine.rs:1927-1984), and `ensure_absent_head_alive`
finds that head pending and returns; nobody probes for up to an hour, which the comments
at engine.rs:1922-1926 and 1939-1944 mean to exclude. `ProbingUnlessEnded` and
`ServedIfProbing` therefore except attempts that end their own package.

## 6. CleanupCoord

One package directory and its targets. `gate` is the coordinator's `PackageState`;
`register`, `rearm` and `on_terminal` are its operations, atomic under its mutex.
Around it: the fan-out (`Enqueue`, `Register`), the engines (`End`, `Report`, and
`LoseReport` when blobs cannot be protected), the web requests that resend a row
(`Look`, `Rebuild`, `Fill`, `Arm`, `Reset`), and `Restart` with the counts rebuilt
from the rows.

| Run | Bounds | Properties | Shows |
|---|---|---|---|
| `CleanupCoord` | 3 targets, 2 resends, any 3 of 5 faults | `TypeOK`, `Accounted`, `PayloadKept`, `Freed` | the gate counts what is outstanding; nothing needed is removed; nothing stays for ever |

Three targets let one have reported, one be live and one be resent. Fairness: what
has begun goes on (fan-out, reports, requests); no target has to answer. Deadlock is
not checked: with every row ended nothing is left to do.

Two history variables mark what the code does not protect against, and the properties
except it. `raced`: a resend sees the payload, a sibling's report cleans it, and then
`rearm` opens a fresh gate, so the row is served from a directory with a manifest only
(an attempt checks only that the directory exists, engine.rs:1358); a `rearm` before
the fan-out is registered, or after a restart that could not read the rows, takes the
unknown count for zero; two rebuilds at once, or a partial payload that
`package_has_payload` accepts. `leaky`: a lost report, a failed reset, two resends of
one row, a restart that reads no rows and a partial rebuild leave a count that is never
reached; the payload then stays until the next restart.

`bump` has no caller and is not modelled; nor are failures of the removal itself and
the divert of a declined batch.

## 7. ReceiveGate and CollabReceive

`ReceiveGate` holds the gate as operators on its state: personal waiters before the
collab one, grants while the limit allows, a yield flag that is up while a personal
waiter finds no lane free. `CollabReceive` composes it with the scheduler core and the
executor (`x`, one task, so one action is one handler with the core's step and its
commands), the tasks they start (`PrepareEnds`, `RunTakes`, `ItemEnds`, `RunEnds`,
`LandingEnds`), the catalog rows of the frames, and personal transfers that compete
for the gate. What tasks post to the loop is part of the item (`event`) or run.

| Code | Actions |
|---|---|
| `Core::step`, by input | `RefreshNeed`, `RefreshProviders`, `LaneGranted`, `YieldChanged`, `StorageSeen`, `SetStreams`, `Tick`, `ClearBackoffs`, `ProviderLost`, `ConnectionIdle`, `DialOk`, `ProjectGone` |
| `on_prepared`, `on_done`, `on_landed`, `end_run` | `OnFetchable`, `OnDone`, `OnSettled`, `OnRunEnded` |
| `prepare`, `run_live`, `land` | `PrepareEnds`; `RunTakes`, `ItemEnds`, `RunEnds`, `RunPanics`; `LandingEnds` |
| shutdown and new executor | `Remount` |
| the gate's users | `RequestRuns`, `PersonalArrives`, `PersonalEnds`, `PersonalAbandons`, `LimitChanges` |
| effects of feed, storage, presence | `NewVersion`, `Excluded`, `ProjectLeft`, `GcReleases`, `Device*`, `Storage*` |

| Run | Bounds | Properties | Shows |
|---|---|---|---|
| `CollabReceive` | 2 frames, each on a device of its own, 2 versions, 1 personal transfer, limit 1 or 2, streams 0, 1, 2; any 1 of 16 changes | `TypeOK`, `LaneAccounted`, `NothingStranded`, `ListsKnown`, `TransfersHoldTheLane`, `PersonalServedIfHeard`, `FramesLandIfHeard` | lane, items and lists stay consistent; frames and personal transfers get through |
| `CollabLimit` † | 1 frame, 3 personal transfers; the limit goes up and down between 1 and 2, waits are given up | `LaneAccounted`, `GrantsWithinLimit`, `PersonalServedIfHeard` | a limit lowered below what is in use is respected, and nobody is forgotten |
| `CollabYieldMissed` | 1 frame, 1 personal transfer, no fault | `PersonalIsServed` *violated* | see below |

Two frames contend for one slot and one lane; one change at a time still meets every
interleaving of prepare, run, landing and yield. In `CollabLimit` two lanes are taken and
others wait when the limit goes down. Four items and three runs at once
bound the executor's memory of cancelled work: a step that would need one more is not
taken (`Start` and `SendToRun` find no free number). A schedule pass and the end of a
run go through several frames or items, each from the state the one before it left:
`Turns` and `FinishAll` are functions of the position, so that they can be proved about.
Fairness: weak fairness of three
groups (work and its events, what the loop is asked to look at, what comes back in
time), weaker than fairness of every task. Events of one channel are handled in any
order, an over-approximation; a take that races with the rise of the yield flag is
one just before it. Not covered: a version that changes and changes back, the run
queue's `Full` branch, a hash that does not parse. Which startable frame goes first is
left open. Deadlock is not checked: with all frames landed the loop is idle.

**Finding: a yield that comes too early is lost** (`CollabYieldMissed`, code bug). The
loop takes the change of the yield flag before the lane grant that is already in its
event channel (runtime.rs:1630-1641); the core has no lane and ignores the yield
(core.rs:482-490), then takes the grant. The flag does not rise again. Every run it
starts sees the flag and takes nothing (assign.rs:1317-1320), the core starts the
items again at once, and this goes round for ever while the personal transfer waits,
which "waits at most one frame" according to the design document and assign.rs:1476.
`Deaf` names that state; the liveness properties of the passing run assume it away,
the safety ones do not.

## 8. Archive

### State and actions

`disk` has the frames whose source is in place; `staged` the copies in the staging
directory of each operation, `zip` what is at each path (which operation built it, and
each entry torn or whole); `row` is `files.archive_zip_path`, `mark` the set's
`archive_operation_id`; `op` holds each operation with its manifest (`to`: the zip of
each file) and what its step log says. All of these survive a kill. `queue` and `job`
do not. A job's `pc` is its phase and `todo` what the loop has still to visit.

| Code | Actions |
|---|---|
| `build_plan`, `commit_plan`, start route | `Start` |
| resume, rollback, cancel and restore routes | `Resume`, `Rollback`, `Cancel`, `Unarchive` |
| worker loop, phases of `run_operation` | `Take`, `Advance`, `NoticeCancel` |
| `copy_phase`, `verify_copy_phase` | `Copy`, `CopyEnds`, `Verify` |
| `zip_phase`, `verify_zip_phase` | `BuildZip`, `RecordPublish`, `RecordAdded`, `CheckZip` |
| `delete_sources_phase` | `DeleteSource`, `RemoveSource`, `RecordDeleted` |
| `finalize_phase` | `Finalize`, `MarkFile`, `MarkSet`, `CleanFile`, `Complete` |
| `rollback_operation` | `RollbackBegins`, `ReturnSource`, `DropZip`, `CleanFile`, `UnmarkSet`, `UnmarkFile`, `RolledBack` |
| `run_restore` | `Preflight`, `Extract`, `Extracted`, `ReleaseFile`, `ReleaseSet`, `DiscardZip`, `Discarded` |
| kill | `Crash` |

An action is one change of the disk or one statement of SQLite. A copy and a removal
have their log entry in an action of their own, since a kill may fall between. The
statuses of the phases are one, `open`: nothing reads them apart. A rename onto a zip
or a source is atomic and what is built beside it is not modelled. Nobody else writes
to these directories, so a source in place is intact. `ReturnSource` puts back a whole
staged copy and leaves a torn one; the code would write the torn one back too
(rollback.rs:178-180), which is no frame in place either. It does not arise: a source is
gone only after its copy was verified, in the three instances below and, when `Guarded`, by the
invariant of section 9.

### Runs

| Run | Bounds | Properties | Shows |
|---|---|---|---|
| `Archive` | a set of two moved frames and a copied one, in two zips; 2 operations, 2 names per zip, 1 waiting job; any 2 failures, cancellations or kills | `TypeOK`, `FramesKept`, `CatalogFinds`, `ForeignZipsKept`, `Settles` | nothing is lost, the catalog is right, rollbacks keep to their own zips, everything settles |
| `ArchiveTwice` | the same set, started whenever the planner allows it; no failure | `CatalogFinds` *violated* | see below |
| `ArchiveOneName` † | two sets of one moved frame each whose zips have one name; 2 operations, 1 kill | `FramesKept` *violated* | see below |

Two moved frames let a kill or failure fall between two removals; the copied one has a
zip no row names, which a later archive may replace; two operations give an older zip at
the target, kept with a suffix or replaced; two troubles give a failed operation and a
kill in its rollback. `Guarded` is an assumption about the user, who starts a set only
when nothing is unfinished. It is stronger than either host: the desktop command asks
nothing (commands/archive.rs:198-249), and the web route refuses only while an operation
is running (routes/archive.rs:199-207), not while an interrupted one waits for Resume or
Roll back. `ArchiveTwice` and `ArchiveOneName` lift it and show why it is there. At most one forward job of an operation is pending, so that the cancel
flag in `active_archives` is its own. Deadlock is not checked: an idle program may stop.

Fairness: weak for the worker, a thread that waits for nothing but its queue; strong for
`Resume`, which is the premise of `Settles`: the banner goes on offering it and the user
presses it in the end. Without a user nothing resumes an operation.

### Findings

* **A late rollback unmarks what another operation archived** (`ArchiveTwice`, code bug).
  Start is accepted twice for one set. The first operation completes; the second fails to
  copy sources that are gone, and its rollback clears the markers of set and rows, which
  are the first one's (rollback.rs:246-253). Its check covers only frames that *it*
  removed or zipped. The frames are then in a zip no row names, the catalog has them on
  disk, and Unarchive no longer lists the set. On the web host, which refuses a second
  Start while one is active, it takes a kill: an operation interrupted while copying is
  rolled back after another one archived the set.

* **A rollback deletes a zip that was replaced** (`ArchiveOneName` †). Two sets may
  have one zip name (it is made of object, dates, telescope, camera and role). An operation
  is killed after it logged its zip; no row names the zip before finalize, so an operation
  of the other set replaces it, removes its source and completes. The log of the first
  names a path, not a file: rolling it back finds nothing of its own lost and deletes the
  zip (rollback.rs:206-215), the only copy of the other set's frame. With `Guarded` the
  same instance passes, also with two troubles.

Observed, without a configuration of their own:

* with two sets that copy a shared calibration frame to a zip of one name, unarchiving
  one removes the zip that an operation of the other, killed while finalizing, still
  needs: it can be neither resumed nor rolled back (`Settles`);
* with a set that copied a calibration frame to a zip and another set that moves a frame
  to a zip of that name, also with `Guarded`: no row names the first zip, so the second
  operation replaces it; it is killed in its rollback, resumed (the staging copy is gone
  and its steps are logged, so only the zip has the frame when the source is removed) and
  killed again; unarchiving the first set then discards the zip (`FramesKept`). This is
  why the theorems of section 9 assume that such names differ;
* a rollback that is interrupted and then resumed goes forward again and completes
  although sources it put back are in place again: steps logged as done are not redone.

## 9. What is proved

For all values of the constants that satisfy the named assumptions.

**ComputeQueueProofs.** `TypeInvariance`. `WakeupsAreNeverLost`: a
parked thread is not at the front with a slot free, and not cancelled either unless
a host sets flags on its own.
`NothingEverLeaks`: tickets are exactly the threads inside `acquire`, without
repetition, and `running` is the number of live permits; the step uses
`FS_AddElement` and `FS_RemoveElement` on the finite set of jobs (`JobAssumption`).
`AdmissionIsFair` is an action property that follows from the guard of `Admit` and
the type invariant. `NoLostWakeup` and `NothingLeaks` are inductive with `TypeOK`;
nothing stronger is needed because every change that can enable a waiter is made
under the gate together with its `notify_all`.

**FileOpProofs.** `TypeInvariance`, for any world, requests and bounds. `TypeOK` is
not inductive: an action reads `files[row]` and `steps[step]`, so these must be
rows that exist at the labels where they are read. `Shape` adds the foreign keys of
the journal (`Keys`) and where the registers point (`Registers`).

`ExecutorIsCareful`: with no outside writer and no second run
(`MaxExternal = 0`, `MaxResumes = 0`), `Spec => ExecutorKeepsContent`: whatever the
requests, however many failures and kills, no step of the executor destroys the last
complete copy of a content. Both assumptions are needed: without the first another
program may remove the only other copy, and section 2 has the counterexample without the
second. The inductive invariant is

    Careful == Shape /\ Order /\ FirstTry /\ OnDisk

* `Order` — source and destination of a row differ; an operation is queued once and
  has not been started when it is dequeued; rows with steps have been started and
  the rows still in `todo` have not.
* `FirstTry` — hence no row reaches its copy with a copy step in the journal, and
  the branch that discards a leftover is never taken.
* `OnDisk` — what the executor saw is still true when it acts on it: the destination
  is absent before a rename or a copy begins, truncated while it runs, and equal to
  the source from the end of the copy until the source is removed.

`OnDisk` is kept because the worker is the only one to change the disk, which needs
neither the catalog nor the hash: the theorem holds for any `Digest`, however much it
collides. A destructive step then only replaces nothing or removes one of two equal
files (`OverwriteKeeps`). The proof has one lemma per group of actions and one step
per action. `Careful` was model-checked before it was proved.

`CatalogIsFollowed`: whatever fails under the moves and however they end, each catalog
row is at its file whenever no job runs. It is assumed that the user waits for each move
(`Patient`), that nothing is killed, resumed or written from outside, and that each row
starts at a file that is there (`AllPresent`). Without the last, a row whose file is
missing can sit at the destination of a move; the `UNIQUE` constraint then refuses the
catalog update after the rename. The invariant is `Careful /\ Steady`:

* `Alone`, `OneTrip` — with a patient user one move is planned, queued or run at a time;
  its rows go to one directory and none comes from it;
* `Tracked` — the catalog row the planner found for a row of an active move is at the
  row's source or destination, so the update finds it;
* `Agreed` — every catalog row is at the file it had at the start, except between a
  rename and its catalog update, where the file is at the destination and no other
  catalog row is, so that the update cannot fail.

**FileOpMoveProofs.** `ReconcileIsCareful` (`ReconcileKeepsContent`) and
`CompletionIsMove` (`CompletedMeansMoved`), under the same conditions and with no failure
under the reconcile pass itself (`Undisturbed`). The pass acts on old journal rows: a
failed commit with a finished verification is completed by removing its source. The
added invariant `Told` says why the journal can be trusted: a row is verified once and
with its own hash (`Journal`), the registers are at the step being executed (`OnStep`,
`Progress`), rows left behind were moved (`Behind`), and — the heart of it — at most one
row is ripe for the pass, the one of the last job, with its copy in place and its source
as it was (`Ripeness`): the very next job finishes it before it changes anything else
(`Pass`). With failures in the pass this is false, and TLC shows it: a commit fails to
remove its source, the pass fails as well and leaves it, a later move brings another file
to that source, and a still later pass completes the old operation.

**CleanupCoordProofs.** `TypeInvariance`, `ReportsAreAccounted` (`Accounted`) and
`PayloadIsKept` (`PayloadKept`), with no hypothesis, for any number of targets and
requests. `Accounted` is about the gate alone; the invariant has also to say what the
fan-out has still to offer (`FanInv`), that a request under way is about a row
(`RequestInv`), that an open gate is short of a report (`GateInv`), and that the count it
is short of is the number of ends to come: live rows, reports under way and resends that
have armed the gate and not yet reset their row (`CountInv`). The steps count with
`FS_AddElement` and `FS_RemoveElement`.

**SyncTransferProofs.** `TypeInvariance`; `DeclinesAreTheUsers` (`NoPhantomDecline`),
from `NoDeclineInv`: before the user declines no mark, signal, row, receipt or memory of
the lane's job looks like a decline; `AbortsComeFromRevokes` (`AbortsAreQueued`), which is inductive once messages
are known to carry minted wire ids (`WireInv`). All three without hypotheses.

`ProtocolDelivers`: `Spec /\ []("decline" \notin spent) => Delivers`, the refinement of
`Delivery`. Each step of the two devices is a step of `Delivery` or leaves its state
alone. It needs `StoredInv` (a receipt that is not a rejection, in the log or on the
way, is of a stored frame, and so is every frame the sender leaves out of an announce)
and `DriveInv` (the engine drives only an open batch; a payload is given up only for a
confirmed one). The hypothesis is needed: with a decline and further faults `Delivers` is
false, as `SyncHalfDecline` shows.

**SendQueueProofs.** `TypeInvariance`, `NobodyOversleeps` (`SleepersAreParked`),
`ContactReleasesTheParked` (`ParkedByAbsence`) and `SomebodyProbes`
(`ProbingUnlessEnded`), without hypotheses, for any number of packages. The invariant is
stated for a queue as a value (`Good`, `HeadAwake`, `Elected`), since a handler is a
composition of operators on the queue; one lemma per operator says what it keeps, and
`MarkedBut` allows for the packages a handler has changed and not yet parked. The elected
head is the least of a non-empty set of numbers, by well-foundedness.

**ArchiveProofs.** `TypeInvariance` without hypotheses: its invariant `Shape` adds to
`TypeOK` where the worker is in each phase and that the logs go in order. With
`Guarded` and `NamesApart` — no set sends a frame to the name of another set's moved
frame — also `NoFrameIsLost` (`FramesKept`), `CatalogIsTrue` (`CatalogFinds`) and
`RollbackSparesOthers` (`ForeignZipsKept`), for any sets, frames, numbers of operations,
failures, cancellations, kills, resumed runs and rollbacks. Both hypotheses are needed:
`ArchiveTwice` and `ArchiveOneName` are counterexamples without the first, section 8 has
the one without the second. The invariant `Safe == Shape /\ Deep /\ Standing`:

* `Alone`, `Known`, `Marks` — at most one operation is live (unfinished, or with a
  forward job that waits); manifests keep to their set; a set is marked by an operation
  of its own, and not by another one than the one busy with it;
* `Fresh`, `Whole` — a verified copy is never torn again, so each zip entry is whole;
* `Sources` — a source goes only after its delete step is logged, and a copied frame's
  never;
* `Own` — the zips that a live operation has published are still its own;
* `RowsHold`, `Kept` — a row names a zip that has the frame, or an unfinished operation
  has it; a frame is on disk, in the zip its row names, or staged or zipped by the
  unfinished operation that has it in its manifest;
* `Standing` — what each phase knows: before a source is removed its zip was checked
  (`CheckZip`), while rows are marked every file is in its zip, a rollback drops zips
  only after the sources are back, a restore releases only what it has extracted.

`Safe` was checked with TLC on one set with two and three troubles and on two sets that
share a copied frame before it was proved. The assumption `ArchiveAssumption` has
`MaxSuffix >= 1`: a zip always has its bare name.

**CollabReceiveProofs.** `TypeCorrect` (`TypeOK`), `LaneIsAccounted` (`LaneAccounted`),
`LimitIsKept` (`GrantsWithinLimit`), `NothingIsStranded` (`NothingStranded`),
`ListsAreKnown` (`ListsKnown`) and `TransfersAreAdmitted` (`TransfersHoldTheLane`), without
hypotheses: for any number of
frames, versions, devices, personal transfers, streams, items and runs, any limits, and
any number of events in any order; in particular also when the core is `Deaf`. All
follow from one invariant, `Inv == Held /\ Rest`, whose parts are conditions on a state of
the loop, so that they can be said of the states in the middle of a handler too:

* `Good` — of the loop alone. `Lanes`: the core's lane or yielded lane is the executor's
  permit, and there are fetches only with it. This last clause is what
  `TransfersHoldTheLane` needs: a cancelled item may outlive the lane, an uncancelled one
  has a fetch. `Paired`: fetches and uncancelled items are the same. `Told`: only the run
  says `done`, so that every event has a result (`Result` has no case for it).
  `Lists`: what `ListsKnown` says;
* `Led` — the executor's run, and the run of every item that waits for an outcome, is
  there: `OnRunEnded` forgets a run only after it has ruled on all its items;
* `Carried` — what a run transfers was sent, has no outcome yet, and its run has not
  ended. Without it `OnRunEnded` could end an item that is being transferred;
* `Admitted` — the gate's books: the lane waits in the queue only for a request that is
  under way, and never while it is held, so that it cannot be granted twice or to nobody;
* `Rest` — the types of the other variables.

A handler is a chain of operators of the core (`Cancel`, `Finish`, `Reconcile`,
`Drained`, `Schedule`, ...). Each has a lemma that it keeps `Good` and leaves a state
that is `Kin` to the one it found: no lane is gained, no request dropped, the run is kept
or closed, and the items with a run are the same but for those that were ended. `Kin`
chains, and takes `Led`, `Carried` and `Admitted` from the state before the handler to
the one after it, with the permit given back to the gate if it is gone (`Handled`). The
two folds are taken from the least position at which one would fail (`WFMin` on the
natural numbers): first that the function is what its recursive equation says, then that
every state it passes is good and akin. The gate has lemmas of its own (`SettleFields`,
`LeaveFields`, ...): whoever leaves, joins or changes the limit, the lane is held after it
only if it was held or waited before. `LimitIsKept` adds that `Settle` grants no more
waiters than there are free lanes (`GrantsCount`) and that nothing else grants any. The
invariant was checked with TLC before it was
proved: on all states with one change in a behaviour, and on nine million with two.

**Only model-checked.** `JobsEnd`, `ResumeCompletes`, `EveryoneIsServed`,
`CancelIsNoticed`, `ClosesIfLogFits`, `RowsSettle`, `ServedIfProbing`, `Freed`,
`PersonalServedIfHeard`, `FramesLandIfHeard`, `Settles`: liveness under fairness, out of
the prover's reach. Every safety property of the passing runs is stated by a theorem.

## 10. What is not modelled

In the modelled parts: the branch of `sync_catalog_path` for zip archives (its third
step), progress events, panics inside a job, failures of SQLite other than the
`UNIQUE` constraint on `files.path`, directories as such (a missing parent is a
fault), the expansion of selected directories into files, jobs of other kinds on the
operation queue; of peer sync, per-file progress rows, the event journal, batch names
and landing directories, addresses and dialing, blob tags; of collaboration, the
project session, the feed, holder reports and replacement of files, which appear as
the events they send; of archive, calibration sets, the restore under another root or
over existing files, deletion of an archive, the Black Hole and the catalog of zips.

The rest, with the reason for each, is in `PROJECT.json`. By far the largest part of
the repository is numerical (stacking, registration, calibration scores, plate
solving), byte formats, SQL queries and schema, views and tests: sequential code over
floating point or text, which has unit tests and no state a model checker would
explore. The models cover a small share of the lines and most of the protocols.

## 11. Plan

Done: operation queue and Move, compute queue, sync transfer with its abstract
specification, send queue, cleanup, collab scheduler with executor and gate, archive.

1. The live feed: cursor, outbox and holder map against a hub that may be restored;
   the storage states with the deletion window.
2. The map of active operations that Move, archive and restore share, restores under
   another root, calibration archives; pins and eviction of `zip_store`.

## 12. Running

    tlc -workers 2 -config SyncTransfer.cfg MCSyncTransfer
    for m in *Proofs.tla; do tlapm $m; done

The longest runs are `CollabReceive` (305 thousand states, under three minutes), `Archive` (388 thousand, a minute and a half),
`SyncTransfer` (826 thousand, two minutes) and `SendQueue` (155 thousand, a minute and a
half). The instances marked † start the same way, with the module of the run they stand
beside. Definitions whose
comment begins with *Mutant* are deliberate errors, named in `PROJECT.json`: put in
place of the definition they precede, each makes TLC report the property it is
listed with.
