# TLA+ models of the infinite-streaming encoder

The encoder turns source videos into segmented, multi-codec streaming output.
A Go server (the *control plane*) accepts jobs over HTTP, runs them against one
of two targets, and delivers the result to `OUTPUT_DIR`:

* **local-dist**: each file is encoded by a worker container, a sibling of the
  server's own container, which starts a Temporal workflow whose activities run
  on a LAN cluster;
* **cloud-batch**: each file is encoded by an AWS Step Functions execution,
  whose Batch jobs run the same phases.

What plans, encodes, packages, polls and cleans up is Python
(`scripts/infinite_streaming_encoder`); the server calls it as processes. This
directory holds models of both, checked with TLC on small instances and, where
marked, proved with TLAPS for all sizes. Paths below are relative to `src/`;
Python files without a directory are in `scripts/infinite_streaming_encoder`.

## 1. Inventory

| Component | State | Operations | Hard behaviour | Correct when |
|---|---|---|---|---|
| Job manager (`internal/encode/job.go`) | `Manager.jobs` with `Job.Status`, `cancelled`; the `sem` channel; state files `TMP_DIR/jobs/<id>.json`; staging `TMP_DIR/<id>/`; worker containers in Docker | `Submit`, `run`, `encodeFilesFrom`, `runFileContainer`, `attachAndWait`, `Cancel`, `Resume`, `Reconcile` | goroutines, handlers and containers interleave; a restart loses the first two and not the third; every docker command and directory move may fail | slots bound runs; one goroutine per job; a restart finds every active job and its worker; done means delivered; statuses follow the documented lifecycle |
| Cloud launch gate and executions (same file) | `launchComplete`, `launchCond`, `cloudExecArn` and its copy in the state file; executions in AWS | `waitForLaunchTurn`, `signalLaunch`, `runOneCloudBatchSFN`, `encodeCloudBatchSFN`, cancel watcher, re-attachment | condition variable with several reasons to wake; a turn is waited for with a slot held; crash between submission and record; any AWS call fails, after it took effect too; what an earlier attempt left running is aborted only by the next submission | executions start in queue order; none twice, none lost sight of; nobody waits forever |
| Mezzanine gate (same file) | `mezzBuild`, `mezzGate.refs` and its mutex; `mezz/<key>/` objects and `.done` sidecars in S3 | `lockMezz`, probe, `buildMezzanineOnHost`, unlock | a mutex created and deleted on demand; builds fail or are killed half way | mutual exclusion per key; no second build of what is built; everyone gets out |
| Arrival ranks (same file) | `distRanks`; the rank in a live worker's arguments | `localJobRank` at each file | computed once per worker among jobs that come and go; forgotten by a restart | an older job's chunks outrank a younger's; the priority stays legal |
| Delivery (`moveTmpToOutput`, `copyDir`, `internal/encode/archive.go`, `resolveCodec`) | staging, `OUTPUT_DIR/<dir>`, `OUTPUT_DIR/.archive` | list, stat, archive, rename or copy-then-remove, per directory | not atomic; fails or is interrupted between any two files; two jobs, one name | a complete output is never lost; done means every directory is complete |
| Temporal half (`cli_local_dist.py`, `temporal_worker.py`, `dist_staging.py`) | the workflow's status and activities; staged chunks and `.done` markers in MinIO; prefetched chunks on the master | start, encode chunk, package, prefetch, cancel, orphan guard, reclaim staging, resume on the same prefix | at-least-once activities, silent attempts that go on uploading, another chunk plan on resume, a sweep of the staging | a delivered ladder is whole; packaging fails only for a cause; no workflow is left behind |
| Phase runner (`cli_phase.py`) | objects and their `.done`; on each machine a cache of mezzanines and references with lock files | one phase of a file | retry of a finished phase; eviction of what another phase has open; a leader that hangs | one writer per artifact; what is read is whole; a hang is nobody else's |
| Cloud poll (`cli_batch.py`, `telemetry.py`, `progress.py`) | `_STAGE_STATE`, sequence numbers per publisher, a FIFO queue, Batch events, worker logs | drain markers, drain events, census, host backfill, announce | four sources for one cell, each late, lost or repeated; a poller that restarts | a cell does not lose what was announced; records arrive; a success is shown |
| Cloud outputs (`cli_batch.py` fetch and package, `cloud/cleanup.py`, `internal/encode/remote.go`, `pending.go`) | `.remote.json` and `.pending.json` beside an output; staged objects | download, leave in S3, fetch, package on demand, expire, sweep, mark gone | handlers beside a re-encode of the same output; partial expiry; a sidecar that is not written | an output without a sidecar is whole; one given up is gone |
| Planning (`chunking.py`, `ladder.py`, `padding.py`, `ffprobe.py`; sizing in `chunkplan.go`, `chunkbudget.go`) | none | grid, chunks, limits, padding, frame counts, rungs, bands, priorities | rounding and boundaries; several callers that must agree | every frame is encoded once; the rows announced are driven |
| Local pipeline and packaging (`cli_local.py`, `encode_variants.py`, `packager.py`, `fragments.py`, `manifests.py`, `hls.py`, `resume.py`) | a work directory keyed by the file's name; packaged directories | full run, resume, forced run | reuse of what another run left; manifests derived from files | what is packaged is what the manifests say |
| Watcher (`internal/watcher/watcher.go`), sweepers (`internal/tmpstage`, `diststage`, `outarchive`) | seen sources; age of directories | scan, submit; delete by age | poll beside the manager they consult | once per source; nothing an active job needs is deleted |
| Stage rows of the server, HTTP API, event stream, stores, cost and quality, AWS inventory, infrastructure, UI | views and caches | | | not modelled, see section 7 |

How they interact: the HTTP handlers and the watcher call `Submit`, `Cancel` and
`Resume`, each in its own goroutine.  `Submit`, `Resume` and `Reconcile` start a `run` goroutine,
which takes a slot and calls `encodeFilesFrom` (local-dist) or
`encodeCloudBatchSFN` (cloud), then `moveTmpToOutput`.  Local files reach `localJobRank` before
their container is launched; the container runs `cli_local_dist`, which exchanges everything with the
cluster through a staging prefix. Cloud files reach the mezzanine gate and then the
launch gate; `cli_batch` then polls, downloads and writes the sidecars the server's
fetch and package handlers read. All share `Manager.mu`; the mezzanine gate and the launch gate have locks of
their own.  What the server remembers across a restart is the state file and
what it finds in Docker, AWS and on disk.

`PROJECT.json` lists, under `hazards`, the places where this is hard to test.

## 2. Plan

Done, in this order: the mezzanine gate, the job manager with its lifecycle, the cloud
gate, the ranks, the delivery, with the proofs of the gate, the manager and the ranks;
then the Python half: rows and telemetry, the host cache, the encode on the farm,
the outputs of the cloud, and planning and packaging, with the proofs about the orphan guard, the host
cache's locks, the cloud target and the delivery; then the proofs of what the farm delivers, of
the stage rows and of the outputs of the cloud; then those of planning and packaging: a tiling covers its clip, every frame is
delivered once, the rows announced are driven, and the manifests say what was packaged.

To come, in the order of what a mistake would cost:

1. `Sweepers` beside the job list, and `Watcher` beside the manager (the documented rules of
   `docs/spec/ingest.md`).
2. The Go side's chunk sizing against `ChunkPlan` (`chunkplan.go`, `chunkbudget.go`).

## 3. Modules

| Module | Role |
|---|---|
| `KeyMutex` | abstract: one mutex per key |
| `MezzGate` | `lockMezz` and the check-then-build inside it |
| `JobLifecycle` | abstract: the five statuses of `docs/spec/job-lifecycle.md`, bounded running jobs, restarts |
| `JobManager` | runs, handlers, containers, state files, staging and restarts of local-dist jobs |
| `JobManagerProofs` | its theorems about slots, goroutines, state files and the lifecycle, and about workers, delivery and what a finished job leaves |
| `CloudLaunch` | the cloud target: launch turns and executions |
| `CloudLaunchProofs` | its theorems, and those of `MezzGate` |
| `LocalRank` | arrival ranks |
| `OutputMove`, `OutputMoveProofs` | delivery to `OUTPUT_DIR`, file by file, and its theorems |
| `DistEncode` | a local job on the farm: orchestrator, workflow, attempts, staging |
| `DistEncodeProofs` | its theorems |
| `BoxCache` | artifacts that the phases of one machine share |
| `HostProofs` | the theorems of the two, about what the containers of one machine share |
| `Telemetry`, `StageRows` | what workers emit, and the cell of one chunk that the poller keeps |
| `StageRowsProofs` | their theorems |
| `CloudOutput` | an output of the cloud: staged objects, sidecars, deliveries, clicks, expiry |
| `CloudOutputProofs` | its theorems |
| `Listing` | sets as sequences, sums of sequences, one function over another |
| `ChunkPlan`, `Ladder`, `Manifests` | planning and packaging as operators |
| `Pipeline` | runs of the local pipeline and of the farm, composed of the three |
| `PipelineProofs` | the theorems of `ChunkPlan` and `Pipeline` |
| `MC*` | model values, instances and symmetry for TLC |

In each module an action is a stretch of code between two points where another
actor can be seen: a lock region, one docker or AWS command, one file system
operation.  `pc` (or `rpc`, for a handler) is the place of the goroutine.
An operator called `Wrong...`, `Leaky...`, `Careless...`, `Greedy...` or the like, and used nowhere, is not part of the
model: it is the neighbouring operator with a plausible mistake, and
`PROJECT.json` pairs each property with one such mistake that it detects.

### MezzGate

`Register` is the region under `mezzMu` (find or create the gate, count in);
`Lock` is `g.mu.Lock()` after it; `Probe` the two head-object calls;
`UploadObject` and `UploadDone` the build; `BuildFails` an error or a kill;
`Unlock`, then `LastOut` or `Drop`, the deferred release. `Gate` is the set of objects an
allocator may hand out, and a fresh gate is any unreferenced one, so the
model can reuse a gate another job still sleeps on if the counting lets it.
`ProbeErrors` lets a head-object error read as a miss, as `s3ObjectExists`
does; then a second build is possible and `BuiltOnce` is not promised.

### JobManager

A goroutine `r` goes `wait` (for `sem`) -> `start` -> `file` (loop head,
`persistState`) -> `inspect` -> `launch` or `attach` -> `reap` -> ... ->
`move` -> `clean` -> `unpersist` -> `exit`.  A handler `q` goes
`mark` -> `ps` -> `stop`/`rm` per container (Cancel) or `sweep` -> `reset`
(Resume).  `container` is Docker's state of `encoder_job_<id>_f<idx>`,
including created-but-never-started, which `docker run` can leave.
`WorkerSucceeds` and `WorkerFails` stand for the whole orchestrator process
in the container: it delivers its file to staging and exits 0, or fails.
`Restart` loses goroutines, handlers, slots and memory, keeps containers, files on disk and state files,
and applies `Reconcile`.

`Impatient` says whether Resume may be called before the last run has
returned; the code permits it (it looks at the status only).  `TornWrites` says
whether a crash may hit the middle of `os.WriteFile`.  `spoiled` is a history variable: jobs whose staging had been cleaned, and state file not yet removed, when a server ended.
`output` is what `OUTPUT_DIR` has whole of a job, `parts` what it has in part: a move that a failed copy (`MoveFails`) or the end of a
server cuts short (`CutShort`) may have archived the directory it was at and may leave a piece of it, which the
next run's `Encoded` (`resolveCodec`) takes for the whole.

### CloudLaunch

One goroutine per job, `prep` (mezzanine and state-machine input) -> `turn`
-> `asleep` or `gate` -> `submit` -> `persist` -> `poll` -> `ok` or `err`.  `asleep` is
`launchCond.Wait()`; only `Woken` leaves it, so a missing broadcast is a
sleeper that stays. `execs` is the sequence of all executions ever started, in order, each with its
job, file and state; `arn` indexes it. Cancel and Resume are single steps, and Resume
waits for the last run: their interleavings are `JobManager`'s subject.
`StopPrior` and `StartExecution` are the two halves of `cli_batch submit`: the first aborts what still runs for the
file, but for what its listing or a failed stop misses; the second starts an execution, and may fail before or after it
did. A restart or a resume asks AWS for the state of the ARN it has, and a question that fails reads as a dead execution (`NextFile`).
The history variables name what a job can lose sight of: `unseen` are executions whose ARN was not answered or not written, or whose
status could not be asked for; `dropped` those that ran on as their job left the file (its cancel's stop failed, or it was
served by another execution); `spared` those that a submission did not abort.

### LocalRank

Job IDs are numbers that ascend with arrival. `worker[j]` is the rank in the
arguments of the live container, which a restart leaves alone; `distRanks` is
the server's memory, which a restart clears. `inOrder` is a history
variable: since the server's start, jobs have reached their first file in the
order of their IDs and none was resumed.

### OutputMove

`Piece` numbers the files of a directory in the order `copyDir` walks them.
A directory moves by `Rename`, or, across file systems, by `CopyFile`s,
`CopyEnds` and `RemoveFile`s; `CopyError` fails the job, and `Restart` may
come between any two steps.  `torn` is a history variable: directories
whose move an error or a restart cut short.  `OneMover` says that one job at a time
is past the semaphore, which is `MAX_CONCURRENT = 1`.

### DistEncode

One local job of several codecs. `orch` is where `run_temporal` is: `planning` -> `starting` ->
`waiting` -> `guarding` -> `packaging` -> gone (`done`, `failed`, `cancelled` or `killed`), and a Resume runs it again on the
same prefix with another grid. `wf` and `act` are Temporal's: an activity is ready when
the workflow's code has awaited what it awaits, runs in one of `Slots`, and its failed or silent attempt
is retried up to `MaxAttempts` times. A *ghost* is an attempt Temporal no longer counts and that goes on
uploading: its object and its `.done` are steps of their own, whereas the puts of an attempt that counts are one: nobody reads
them while it counts, and a ghost's may come before or after them, or its object before and its marker after. A staged object is
the number of chunks of the grid it was cut on, which tells encodes of two stretches under one name apart, and a size, which tells two encodes of one stretch
apart: their bytes differ (`cli_phase.py:299`), and a `.done` records a size (`told`), which packaging compares.
`Size` are the sizes an attempt that counts may make, `LateSize` a ghost's. An object and a `.done` that tell of different sizes
are `AtOdds`: a chunk so found fails the packaging, a sound is left out of the ladder. `hosted` says who packages. `cause` names the first thing that can make a delivery
go wrong: a chunk reused whose band was not all there, a plan changed by a Resume, the staging swept, or a `rival`: an object beside the `.done` of another attempt;
`abandoned` says that an orchestrator was killed, or could not cancel even in its guard.

### BoxCache

One process is one `phase_variant`: `open` the lock file -> `waiting` for its lock (or give up, and download in `private`) -> `locked`:
a hit, or no room and a download in `private` with the lock still held (the call is inside the `with`, `cli_phase.py:475`), or room made and `writing` -> `sealing` -> `pruning` -> `reading`; the audit then does
the same with the reference. Lock files are inodes, so that an unlinked one and its successor are
two; `Disk` are the amounts of room a check may find, since other containers write to the volume; an eviction is three unlinks, and their order is the code's. `orphaned` is a history variable: artifacts
whose lock file was unlinked while a process had it open.

### Telemetry, StageRows

One chunk, which is one Batch job of up to `MaxAttempts` attempts (Step Functions does not resubmit,
Batch retries). A worker's main thread and its timer thread both send; `queue` is the FIFO queue with
redelivery (`MaxLag` messages), `seen` the poller's sequence numbers. A drain first receives and deletes (`Receive`, at most `MaxHand`) and only then
announces (`Announce`); `DrainFails` is the exception that `cmd_poll` swallows, and what had been received goes with it (`dropped`), as with a restart. The row is
`_STAGE_STATE` with its percentage and host; `Announced` is `_emit_stage_locked`, which
every source goes through. `EventsLost` lets EventBridge lose events. `Finish` is
the last drain, which may fail, and the deletion of the queue.

### CloudOutput

One output directory of one codec; its encodes, one job after another, are generations. Piece 0
stands for the manifests, the others for media. `Mode` is how a job ends: everything downloaded (`full`), the media left
in S3 (`manifests`), packaged on the host, or deferred. `live` is the
directory in `OUTPUT_DIR` with its two sidecars; `Settled` says that nothing which writes it
is under way. `excuse` collects what the properties except (section 6). Files of
different generations are assumed to differ in size.

### ChunkPlan, Ladder, Manifests, Pipeline

The operators are the code's functions. Time is in ticks (of half a second in the run), a clip a set of frame slots (a missing slot is a
variable frame rate), an encoded file a sequence of frames, a segment file a sequence of boxes.
`Pipeline` runs option records one after another on one name: `idle` -> `mezzanine` -> `plan` -> `encode` -> `concat` ->
`package` -> `done` or `failed`. `store` is the work directory and the farm's staging; `rows` are
the rows announced and `driven` those a marker was sent for; `out` is what is packaged. `excuse`
names the causes the properties except. Units of a local run are encoded in any order, those of the farm by their
priority keys. The farm's retries are `DistEncode`'s subject. `Put` writes files over those of a store, `Over` lays a package over the directory of an
earlier one. A set that the code sorts (rungs by weight, files by name) is listed by `Listing`, which counts what comes
before each member and so needs no recursion. A resume that finds no complete variant goes on as a full run, as
`run_resume` does (`cli_local.py:602`).

## 4. Runs

| Run | Instance | Shows |
|---|---|---|
| `mezz_gate` | 3 jobs, 1 shared key, 3 gates, 2 attempts, fair | mutual exclusion, one build, exact counts, implements `KeyMutex`, everyone leaves |
| `manager_safety` | 2 jobs of 2 files, 2 goroutines, 1 handler, 1 slot, 1 resume, 1 restart | all safety properties of the manager, implements `JobLifecycle` |
| `manager_live` | 1 job of 1 file, 3 goroutines, 2 handlers, 1 slot, impatient, 2 resumes, 1 restart, fair | every accepted job ends, even with several goroutines for one job |
| `cloud_safety` | 2 cloud jobs of 2 files, 2 slots, 2 executions, 1 cancel, 2 resumes, 2 restarts, any AWS call failing | queue order, no lost wakeup, own file; no duplicate and no orphan but for named executions |
| `cloud_live` | 1 local and 2 cloud jobs, 3 slots, failing lookups, 1 resume, fair | every job that waits for its turn gets it |
| `rank` | 4 jobs, cap 2, 1 resume, 2 restarts | ranks capped and ordered |
| `move` | 2 jobs, 2 directories of 2 files, 1 resume, 2 restarts | outputs preserved, done is whole |
| `dist` | one band of two rungs, cut into 1 or 2 chunks, late objects of another size, 1 slot, 2 attempts, 2 runs of the orchestrator, 1 fault | what is delivered is whole and packaging succeeds, but for four named causes; no orphan |
| `box` | 3 processes, 2 sources, room for 1 or 2 artifacts as each check finds it, `MEZZ_CACHE_KEEP=1`, 1 fault, fair | one writer, whole reads, a hang is nobody else's |
| `rows` | 1 chunk of 2 attempts, 4 markers, 2 unread, 2 messages in the queue and 1 in hand, events lost, 1 fault (a reclaim, a restart of the poller or a drain that fails), fair | records kept, order kept, no colour lost without cause, success shown |
| `output` | 2 encodes of one clip, 2 pieces of media, all four modes, 2 clicks, 1 sweep, 1 fault | an output without a sidecar is whole, one given up is gone, but for named causes |
| `plans` | 16 option records over 3 clips and 2 ladders, 2 runs, 1 fault | every frame once, rows driven, manifests agree, but for named causes |

**Bounds and why they are enough.**  Two jobs are the least that compete for a
slot, a name or a turn; a third job adds waiters, not kinds of interference, except where a chain matters
(the gate's deleted-while-slept case and a local job in the cloud queue need three, the cap on ranks four).
Two files are the least for which "the next file" exists.  One resume and one
restart come in either order, and `rank`, `move` and `cloud_safety` add a restart during the
recovery from a restart; what is proved of the manager holds for any number of them.  Two
attempts per job let a gate be deleted and created again.  Two executions are two of one
file, of two files, or of two jobs, which is what the properties compare; the theorems have any number. The gate's jobs share one of two keys: keys that interfere are excluded by the theorems.
Every bound is a constant in a guard: `MaxAttempts`, `MaxCancels`, `MaxResumes`,
`MaxRestarts`, `MaxExecs`, `MaxRuns`, `MaxLag`, `MaxHand`, `MaxUnread`, `MaxMarkers` and the like, and the finite sets `Run` and `Req`; a full `Run` delays `Submit` and a
resume's `reset`, which the code never does.

In `dist`, a band of two rungs is the least that can be half uploaded, two grids the least that can be
mixed, a late object of another size the least that can lie beside the wrong `.done`, and one fault is what turns one attempt into a ghost beside its successor; the second run of the
orchestrator meets what the first left. With one slot, what differs is only the order in which attempts
run: they write different objects. A second codec would be packaged from objects of its own; the theorems have any number. In `box`, two processes share a source and a third evicts. In `rows`, a
chunk's protocol is its own, so one chunk is enough; four markers are two per attempt, of two threads. One message in hand is lost as well as ten; several are the theorems' (`RecordsArrive`). In `output`, a
second generation is the least that can be mixed with a first. In `plans`, the records
are chosen pairwise: every ordered pair of them runs on one name, so that each meets the
other's leavings. Ticks are half a second, a frame is five ticks and the grid twelve, so that boundaries of chunks,
frames and segments coincide in some places and not in others; clips have ten frames with sound, seven
without, and eight slots of which one is missing. `GridUnit`, `Gop`, `Period` and the thresholds keep the
proportions the code's constants have where a branch depends on them.
`MaxFaults` counts, over a behaviour, whatever goes wrong by itself.

**Deadlock** is checked in `plans`, where a run either ends or fails and the last one may rest. It is not
checked elsewhere: with the bounds used up and every job
finished these systems stop, and should.  That nobody is stuck is what the liveness properties say.

**Fairness.**  A goroutine that can step does (`WF` on its steps: the Go
scheduler); a channel send and a mutex serve their waiters in turn (`SF` on
`Acquire` and the gate's `Lock`: Go's channels queue senders in order and its mutex has a starvation mode that hands
over); a worker container and an execution end (`WF`: the orchestrator and the state
machine have timeouts).  The poller repeats its census and its backfill while the encode runs (`WF` on `CensusScan`, `CensusStep`
and `BackfillHost`: one thread that calls them in turn). A process of `BoxCache` goes on (`WF` on its steps and on getting the lock or giving up the wait) and a build
ends, but a download may hang, into the cache or to a private name, as the code says of itself. `dist`, `output` and
`plans` are safety only. Nobody is obliged to submit, cancel, resume, click or restart.

## 5. Proofs

All by `tlapm` with Z3, Zenon and LS4, for any values of the constants that
satisfy the named assumptions (`GateAssumption`, `ManagerAssumption`, `RankAssumption`, `MoveAssumption`, `CloudAssumption`, `BoxAssumption`,
`DistAssumption`, `TicksAssumption`, `TelemetryAssumption`, `RowsAssumption`, `OutputAssumption`, `ClipAssumption`, `LadderAssumption`,
`OptionAssumption`, `SegmentAssumption`, `AlignmentContract`): finite sets, disjoint null values, numeric bounds; no bound on their size.
Of those of `Pipeline`: a clip is a finite set of frames and lasts some time, a row of a ladder has a height, segments and GOPs are not empty, which are what
`ffprobe` and the ladder's loader accept and the constants the code has; only a local run pads, since the farm's worker copies the video (`OptionAssumption`);
and a run that pads has a grid that is a multiple of what it pads to (`AlignmentContract`), which the
head of `chunking.py` states as a contract and no code checks.

The provers cannot use the library's induction theorems, which take an operator as a parameter. Where a proof
goes by induction over a length or a recursion, it takes instead the least number at which the claim fails: the lemma
`Least` (every nonempty set of naturals has a least element) follows from the library's facts about well-founded
relations, which are about sets. That is also how a recursive function is shown to have a value (`RowsAfterExist`).

* **`CloudLaunchProofs`**, of the mezzanine gate: `TypeCorrect`, `NoTwoBuilders`, `CountsAreExact`, `OneBuild`, `Refinement`.
  (The module also proves the launches, so the gate's specification is `GateSpec`, its jobs `CloudJob`.)
  Mutual exclusion is not inductive: two jobs of one key are kept apart by one gate only if
  the gate they point at is the registered one, which needs exact counting.  `IInv` is the
  types, *Pointing* (a job inside points at its key's registered gate), *OneKey* (a gate is
  registered under one key), *InUse* (only while some job points at it), *Counted*
  (`refs` is the number of those jobs) and *Held* (the mutex and the `pc`s agree).
  `OneBuild` rests on mutual exclusion: whoever builds found the key unbuilt, and nobody else builds meanwhile (*Unbuilt*).
* **`JobManagerProofs`**: `TypeCorrect` and `SlotsBounded` without conditions;
  `OneRunEach` and `NoJobForgotten` when Resume is patient (`~Impatient`);
  `Refinement` when, in addition, state files are written whole (`~TornWrites`).
  `SInv` adds to the types that the slots are exactly the goroutines between `start` and
  `exit`, and that a running job has a goroutine that encodes.  `PInv` ties a job's status
  to the phase of its one goroutine and the state file to every phase before the last, and
  keeps the job of a Resume in progress at rest.  That `JobLifecycle`'s bound on running jobs
  holds follows from the slots: mapping slots to their jobs covers the running ones, and the
  slot of a goroutine that has not started yet is not among them.
  `RestartReattaches`, `DoneIsDelivered` and `FinishedLeavesNothing` hold when Resume is patient; torn state
  files are allowed. `DoneIsDelivered` says that a job that is done has every file in `OUTPUT_DIR` (`spoiled` jobs aside), and whole but for those whose move
  had been cut short. `FInv` says who answers for a running container: the job's run, which has not got past its file and has recorded it,
  or a Cancel that has listed the container and has not stopped it yet, or nobody, once a restart forgot the job. The case that
  needs the second is a job cancelled after a restart and before its new run has a slot, whose run ends and leaves the worker alone (*Warned*).
  `CInv` adds that no file is there both whole and in part, and that a part stops its job until a resume or a restart;
  `DInv` adds that a run has every file before its index in `TMP_DIR` or `OUTPUT_DIR`, there at least in part, with those whose worker succeeded,
  that the state file never points past that index, and that a state file left on disk still has its run: so the run after a
  restart has what its index claims. `QInv` is about the first server: a worker has a run waiting for it, and staging one that will clean it.
* **`HostProofs`**, of ranks: `TypeCorrect`, `RanksOrdered`, `OldestFirst`.
  That a rank exceeds the elders' ranks is not inductive, since an elder is
  ranked again at every file.  `RInv` adds that a rank below the cap is at
  least the number of active elders, which keeps an elder's next rank
  below it. Of the cache: `NoTwoWriters`, `ReadsAreWhole`. `flock` excludes on inodes, the properties speak of artifacts.
  `LockInv` connects the two: a process has a lock file open exactly from `open` to its release, a private download under it included, an inode is the lock file of one
  artifact only, and an open one is still the one under the name unless an eviction unlinked it (*Named*). `Alone` adds that a
  finished artifact has no writer and a reference in the making is its builder's. (One module proves both, so `LocalRank`'s
  specification is `RankSpec`.)
* **`DistEncodeProofs`**: `SuccessIsWhole`, `PackagingFindsAll`, `NoOrphanLeft`. The first two rest on `Sound`, which holds until
  `cause` names one of the four causes: every attempt, ghosts included, encodes on the one grid (*OnePlan*), so every object and marker of the staging
  is of that grid (*AllFit*) and a late upload replaces an object by one of its stretch, though not of its size; an activity that has ended well has left its whole band there while an
  orchestrator attends (*WholeOnceDone*); and packaging begins only when all activities of the grid have (*InOrder*, *ClosedWhenDone*), so it finds every object and every marker; those that disagree
  in size are the fourth cause, at the packaging that meets them; so any other packaging succeeds and what it delivers is whole (*DeliveredSoFar*).
  Sizes are any nonempty sets, so nothing is assumed of what a retry produces. The lemmas about the ladder say that the widest band bounds the indices of all others and that
  what a put adds takes nothing away.
  `LeavesNoOrphan` speaks of an orchestrator that is gone; what is inductive is *Attended*, who attends the workflow at every
  moment before: it runs only while an orchestrator waits for it or is in its guard, unless an earlier one abandoned it. The case that
  needs it is a Resume that finds a predecessor's workflow: it fails to start its own and leaves without passing the guard.
* **`StageRowsProofs`**: `BatchesLieApart`, `ColourIsKept`, `AnnouncedInOrder`, `RecordsArrive`. The poller's guard compares the first marker
  of a message with the highest such number it has seen of the publisher. Two threads swap one buffer, so the batch of
  one may overtake the other's, and the guard is sound only because any two batches lie apart, one wholly before the other, and before
  what is still in the buffer (*Sorted*). A batch that passes the guard therefore begins after all that was announced (*Fresh*, which also survives a
  poller that has forgotten everything). Colour is `_emit_stage`'s own: `AnnouncedRow` shows it for one announcement from any source, `EmitMarkersRow` for the
  markers of a message, where it needs that nothing follows a failure. A record leaves the queue by a receive, which puts it in the poller's hand, or with the queue; it leaves the hand printed, or lost with a drain or a poller that dies, and `dropped` is those.
  No guard takes a record for a repetition: a message that comes back is announced for its records again. The theorem has no condition on restarts or failures.
* **`CloudLaunchProofs`**, of the launches: `PollsOwnFile`, `LaunchesInOrder`, `NoWakeupLost`, `ReattachesNotDuplicates` and `ExecutionsStayInSight`,
  the last two with no condition on crashes, failing calls, cancels or resumes. All rest on `Base`: types, what holds of a job at each place of its
  goroutine (`Placed`: active while it runs, a state file from submission to exit, launched before it can end) and that its ARNs are of its own
  executions. `LocalStep` shows once that a step of one job changes of another one only its sleep; the rest is then about
  the job that steps. `Own` adds that the file of an ARN is the one at its side, in memory and in the state file. `Queue` adds that
  whoever is at the gate, or has an execution, has only older jobs that are past launching, which lasts because nothing older than a submitted job is
  submitted later. `Sleeps` ties each sleeper to a cause: whoever removes the cause has not signalled before, and so broadcasts.
  `Sight`, for the last two, says of every running execution that its job holds its ARN (*InSight*: in memory from the start, in the state file from `PersistArn` on), or has lost
  sight of it or left it behind; that ARNs are never of a file the job has passed (*Ahead*); that one not seen to start is of a file still to be submitted,
  or was left behind or spared (*Unsent*); and that what runs beside a submission was spared (*SparedBeside*). A duplicate then needs
  both: an execution out of sight, and an abort that missed it.
* **`OutputMoveProofs`**: `OutputsSurvive`, `DoneDeliversWhole`, both where `OneMover`. `MoveInv` says that one job is past the semaphore,
  that it has a directory to move, and that what it finds in that directory's place is nothing but what it copied itself (`Cleared`), so that no copy
  overwrites a complete output. `WholeInv` accounts for every directory that is not torn: in `OUTPUT_DIR` it is absent, complete or under copy;
  in a staging directory it is absent, complete or under removal; and for the job at work, what is not complete in `OUTPUT_DIR`
  is complete in staging and still on its list.
* **`CloudOutputProofs`**: `NoSidecarMeansWhole`, `GivenUpOnlyWhenGone`. Nothing in the output directory says whose files are in it, so the
  properties are not inductive in it alone. `DeliveryInv` follows the one job in hand and what it has collected in each of its four
  configurations; it survives a restart, which polls again over the directory an earlier poll left. `Sides` says that a sidecar, and
  each process that has read it, speak of a delivered generation, to which nothing is uploaded any more: so what was found
  gone stays gone (`GoneInv`). A sweep that failed at nothing has left only what it has still to delete, unless an execution has
  uploaded under it (`SweepInv`). Then the directory itself. Until a delivery replaces a directory under a click, one generation is in it, a click
  under way still finds its sidecar, and `archive` leaves an empty place for `place` (*Alone*); until a listing was short or a sidecar
  unwritten, what a process has not still to bring is there, and a sidecar asks for all the media and finds the manifests there
  (*WholeInv*). That as many files as there are media are all of them is a fact about cardinalities (`NothingMissing`), and what lets
  a fetch over an emptied prefix declare itself complete.
* **`PipelineProofs`**, of the plan: `TilingCovers` and `JoinedIsWhole`, for any clip, chunk duration, segment and grid. Division and products give that the cuts
  are strictly ascending multiples of the grid, and that the last one lies before the end: no chunk is empty, the
  mistake that the clamp of `n` in `plan_chunks` is there for. What a chunk's encode shows is the ascending list of the frames from its start on, cut at its share, so it is
  the part of the whole clip's list between two counts of earlier frames; neighbours share a count, so the parts join. Two cases
  need more. Where the table of time stamps is unreadable the counts are computed, which is right only if no frame is missing and the last one
  is counted in. And a chunk that ended inside the padding would show black frames that the next one shows again: `PaddingIsLast` excludes it, from the
  contract at the head of `chunking.py` (in `Pipeline`, `AlignmentContract`) that the grid is a multiple of what is padded to.
  Of the runs: `Typed`, `RowsAreFilled`, `FramesAreOnce` (by `FramesInduct`) and `ManifestsDoAgree`, for any clips, ladders, options, faults and number of runs.
  `TypeInv` says what a file of each store is by its name (a mezzanine, an audio track, a list of frames) and that the tasks of a run are among those it planned.
  `RowsInv`, for `RowsFilled`: a run that reuses nothing starts on an empty directory, what has been driven is announced, and what is announced is driven or still to do at each phase; on the farm this needs
  that each rung is in one band (`BandsApart`) and each variant is cut as its leader is.
  `FramesOnce` speaks of the end of a run and of files some earlier run may have written, so `FrameInv` accounts for them from the start.
  *LocalInv* says of every complete file of the work directory that, as long as one recipe made them all, it is the part of that recipe's clip its name stands for,
  a chunk or the whole; this is what lasts through kills, reruns and resumes. *MadeInv* ties the recipe of the run in progress to those on
  record. *FarmInv* says the same of the staging, where a chunk's name does not tell its band: every piece is that of some task, cut on the grid of the task's leader, all tasks
  are done when joining begins, and so the chunks a variant has there are exactly one tiling (`FarmParts`; without it the join, which
  counts what it finds, could mix two grids). *WholeInv*: from joining on, a variant not joined yet is still on the list, so packaging finds all. *OutFiles* and *NoneYet*: a segment
  file bears the number of a run that has begun, so before its own packaging a run owns none in the output. *MediaOwed* is then `FramesOnce` for each codec as soon as it is packaged.
  `RungOfLabel` (two rungs of one height never get one label, whatever is filtered afterwards) keeps the names of two variants apart.
  `AgreeInv`, for `ManifestsAgree`, says of each packaged codec that its manifest agrees. The work is in what the operators compute: a cut adds up to its length (`TotalCut`), the shares of a segment's fragments to
  the segment (`TotalShares`), a joined list to the sum of its parts (`TotalPlaced`); the parser finds in a file its fragments, end to end (`SegmentParsed`);
  an expanded list has for each piece of media one range that takes it in (`ExpansionCovers`), and collapsed by file it is the list of segments again
  (`ExpansionExtract`), which is what the playlists are made of.
  An attempt at the proof showed that the model let a resume that finds nothing fail, where the code falls back to a full run; the model was corrected.

Only model-checked: liveness (`EveryoneLeaves`, `Accepted`, `TurnComes`, `HangsAlone`, `SucceededIsShown`), since liveness under fairness is beyond the
prover. Every safety property a run checks is also a theorem.

## 6. Where the properties end

Each condition in a property, and each constant that is `FALSE` in a run,
marks a point where the code promises more than it keeps. Where it contradicts a sentence of the
repository, the sentence is named.

**The server.**

* A job cancelled while queued runs after a restart: the flag is not in the state file
  (`docs/spec/job-lifecycle.md:64`; `job.go:5582`).
* A container launched after Cancel's `docker ps` runs to its end (`docs/spec/job-lifecycle.md:90`; `job.go:2838`).
* `Impatient = TRUE`: a Resume between the terminal status and the removal of
  the state file loses the file (`ActivePersisted` fails), and two
  goroutines may run one job (`OneRun` fails).
* `TornWrites = TRUE`: `persistState` rewrites in place; a crash in the
  write makes the next server forget the job (`ImplementsLifecycle` fails).
* `spoiled`: a server that ends between the removal of staging and of the state
  file lets the next one go on from the last file without the earlier encodes;
    the job can end done with a file missing (`docs/spec/job-lifecycle.md:30`; `job.go:2602`).
* `resumes = 0` in `OwnFile`: Resume keeps the ARN of the file that failed; where that execution still runs or has succeeded, the job's
  first file is attached to it and given its outputs (the comment at `job.go:1620` says the ARN is of the current file; `job.go:2906`).
* With `MAX_CONCURRENT = 1`, a job holds the only slot while it waits for an older, resumed job
  that waits for the slot (`TurnComes` fails; the comment at `job.go:4290`; `job.go:2525`).
* `unseen` and `spared` in `NoDuplicate` and `NoOrphan`: a server that ends between an execution's start and the write of its ARN, a
  start whose answer is lost, or one failed status call leaves an execution the job does not know of. The next submission of the file aborts
  what still runs for it (`cli_batch.py:1886`), so a second one runs beside it only if the listing or the stop
  failed as well, which is a warning there. Until that submission the execution runs unwatched.
* `InQueueOrder` is of first files: `launchComplete` is per job, so a later file of an older job follows
  a younger job's execution.  It is also of one server's first runs: a resumed job is older than its place in the queue.
* `cancels = 0` in `AsleepForCause`: `finalizeCancelled` does not broadcast,
  so a job can sleep for one that was cancelled before its launch, until the next broadcast.
* `dropped` in both: a failed stop-execution is ignored, and the execution runs on unseen as the cancelled job goes on.
* `inOrder` in the rank properties: a resumed job, and one overtaken between
  its slot and its rank, can tie with a younger one.  `restarts = 0` in
  `OlderFirst`: a re-attached worker keeps a rank the server has forgotten.
* `OneMover = FALSE`: two jobs of one clip can both find no output and the
  second copies over the first (`PreservesOutputs` fails).
* A copy that fails, or a server that ends in one, leaves part of a directory in `OUTPUT_DIR`; the resumed job takes it for encoded and ends
  done (`docs/spec/job-lifecycle.md:30`; `job.go:3569`, `5249`; the comment at `job.go:2890` says that an interrupted job never moved anything):
  `torn` in `DoneIsWhole`, `parts` in `DoneDelivers`.
* A move that fails at a later directory leaves the earlier ones in
  `OUTPUT_DIR` although the job is failed, which `docs/spec/job-lifecycle.md` excludes;
  `JobManager` has the behaviour (`MoveEntry`, then `MoveFails`), no run checks the sentence.

**The farm** (`DistEncode`).

* `reuse`: an attempt skips its band when the lead's object is there, without looking at its `.done` or
  at the other members. A grouped encode that dies after the lead's upload loses the members, and an object
  without its `.done` is reused by every resume and refused by every packaging.
* `plan`: chunk names do not say which grid they were cut on, and a Resume sizes the grid anew from what was
  learned meanwhile.
* `sweep`: the sweep deletes what it listed before the Resume.
* `rival`: an attempt that fell silent uploads an object of another size after its retry's `.done`, or the other way round. Packaging compares
  the two and aborts; of the sound it only sees that it is not complete, and packages a ladder without one.
  `docs/chunked-encode-design.md:120` says that "a retry reproduces the same output", the docstring at `cli_phase.py:299` that the bytes differ. Two objects of one size are not told apart.
* `abandoned`: a SIGTERM before the handler is installed, or a SIGKILL, leaves the workflow running. A Resume
  is then refused by `start_workflow`, which raises before the guarded block.
* A download of an `out/` that was swept finds no file, and the orchestrator ends done.

**The host cache** (`BoxCache`).

* `orphaned`: an eviction unlinks a lock file that a process has open and not yet locked; two processes then hold "the" lock
  of one artifact, and one may be read while the other writes.
* A leader that is killed hangs nobody, since the kernel drops its lock; the docstring at `cli_phase.py:418` fears
  otherwise. A hit does not refresh the age the eviction goes by. The check for free space is followed by writes of others.
* A hit checks existence: an artifact that `_download_if_complete` refused is served to a retry.

**Rows and telemetry** (`StageRows`).

* `LosesColourForCause` allows a reported failure or reclaim; an event that arrives late may colour a cell that was done.
* The census passes over rows at `failed` (`cli_batch.py:1252`), which the comment at 1533 denies.
* A worker announces its end before its upload, and a batch of the timer thread that is overtaken is dropped as a replay, though
  the comment near `telemetry.py:765` says markers do not overtake. What the daemon timer holds at exit is lost.
* `dropped` in `RecordsKept`: a drain deletes what it receives (`cli_batch.py:742`) before it announces the first of it (762); a server that ends in between, or an error
  in a later receive, which `cmd_poll` swallows (883), loses it. A last drain that fails loses what is still in the queue.
* The comments at `cli_batch.py:1517` and 1575 assume the state machine resubmits; `definition.json.tpl` says Batch retries.

**Outputs of the cloud** (`CloudOutput`), by `excuse`:

* `swept`: a fetch of a partially expired prefix downloads what is left and removes the sidecar; a package of half-swept
  chunks joins those listed; a poll after a restart finds nothing and reports success. `expires_at`, called a floor,
  is computed after the objects were created.
* `unwritten`: a sidecar that cannot be written is a warning.
* `overlap`, `refilled`: a re-encode delivered under a running fetch or package loses its new sidecar or mixes two encodes;
  marking gone reads and then writes, and can bring back a sidecar that was removed.
* `killed`: packaging again after a kill between the move and the removal of the pending sidecar gives up a complete output.
* `MarkGoneUnderPrefix` marks only a `.remote.json` and does not ask which media are local.

**Planning and packaging** (`Pipeline`), by `excuse`:

* `mixed`: the work directory is keyed by the file's name, so a run reuses the files of a run with other options or of
  another clip of that name (`cli_local.py:335`); a forced run keeps the mezzanine (`cli_local.py:523`).
* `reuse`: rows are driven by encodes and joins, so those of files a run finds in the work directory are announced and not driven.
* `hole`: with an unreadable table of timestamps and a missing frame, at the end too (not `Gapless`), the count of frames before a chunk is the ceiling of time and rate.
* `padded`: the number of chunks is planned without the padding; `grown`: the last frame of a limited mezzanine ends after
  the limit (`--time 30 --local-chunk-duration 30` announces a whole row and encodes two chunks); `bands`: a group runs on its lead's grid.
* `stale`: the packager does not clear its directory, and a playlist lists segments of an earlier, longer package.
* Two rungs of one height: the playlist's directory is named by the height, the segments' by the label
  (`ladder.py:65`, `manifests.py:479`). They are of one ladder, or of two from which a directory is resumed.
* `resume.py:121` says that partial files will be encoded again; `run_resume` encodes nothing. The comment near `cli_phase.py:1022` says that the
  cover check catches a worker too old for a limit; it refuses only a shortfall. A list of codecs that
  `_codec_list` accepts is refused by the plan. The farm plans with a fixed segment of six seconds and packages with the
  one asked for. `generate_ts_hls` passes over a missing variant in silence.
* The server's `variantChunkArgs` (`job.go:3862`) can send, for a clip shorter than its target, a chunk that is no multiple
  of the segment, and `plan_chunks` raises; `_parse_variant_chunks` says degrading is always right.

## 7. Abstractions, and what is not modelled

* Names, IDs, arguments and log lines are left out. Archive names
  are unique; in the code two copies of one name within a second collide.
* Docker commands fail where the code looks at the failure: `docker run` and
  the removal of a stale container. A failed `docker ps`, `inspect`, `stop` or `logs` is not
  modelled.
* `JobManager` takes a worker that exits 0 to have delivered its file; `DistEncode` says when that is so.
* `Submit`, and `Resume`'s reset, are atomic with the write of the state file and the
  start of the goroutine. `archiveExisting`'s fallback to an in-place sibling when
  the rename into the archive fails is not modelled.
* A forced re-encode (`ForceReencode`) skips nothing; `OutputMove` allows it for
  every job, `JobManager` as a constant.
* The names of a job's executions carry the first 60 characters of a file's name, and a submission aborts by that prefix; no two files of a job are taken to share it.
* Codecs of one file are one unit in `JobManager` and directories in `OutputMove`.
* A panic, a full disk of the state directory and a second server
  on the same directories are outside the models.
* `DistEncode` has one orchestrator at a time per source: the advisory lock between them falls back to
  none. Collection of the mezzanine cache, failing polls of the history and the rows are left out; so is
  the workflow's replay, which Temporal answers for.
* `StageRows` leaves out cost lines and markers of machines.
  A garbage collection whose `list_executions` fails keeps nothing, and the one for queues and rules is not modelled.
* `CloudOutput` leaves out two fetch processes of one output at once; nothing writes the `_FAILED` that cleanup would look at.
* `Pipeline` cuts segments by duration: the alignment of keyframes, bit rates, encoder arguments and the text of
  manifests are left out. A padding boundary that does not divide the grid can put a whole chunk beyond the mezzanine; `AlignmentContract` excludes it.
    A partial duration of 0 makes `padding.py:39` and 67 divide by zero, so such a run fails where it pads; `PadBoundary` has none (`Max({1, Partial})`), and `Partial` is positive in the run.
  The Go side's sizing of chunks by learned speed enters as an option.
* The watcher and the sweepers are planned (section 2). The other components
  marked `not_modelled` in `PROJECT.json` carry no protocol: cost, quality and run records are floating-point estimates and reports; the
  server's rows, stores and HTTP layer keep views and translate requests; AWS inventory,
  infrastructure, UI and demo tooling are views and declarations.

## 8. Running

    tlc -workers 2 -config MCManagerSafety.cfg MCJobManager.tla
    tlc -workers 2 -config MCPlans.cfg MCPipeline.tla
    tlapm JobManagerProofs.tla

The largest runs (`box`, `cloud_safety`, `rows`, `dist`, `output`, `plans`) take from one to four minutes each, the proofs a few minutes, `PipelineProofs` about ten.
