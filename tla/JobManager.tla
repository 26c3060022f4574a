----------------------------- MODULE JobManager -----------------------------
(***************************************************************************)
(* The job manager of the control plane (internal/encode/job.go): what     *)
(* happens to a local-dist job between Submit and its terminal status.     *)
(*                                                                         *)
(* Three kinds of actor interleave.  A run goroutine takes a slot of the   *)
(* MAX_CONCURRENT semaphore, encodes the job's files one worker container  *)
(* at a time, moves the result to OUTPUT_DIR and finalizes.  An HTTP       *)
(* handler goroutine executes Cancel or Resume, several docker commands    *)
(* apart from the checks that admitted it.  The worker containers are      *)
(* siblings of the server's own container: they outlive a restart of it.   *)
(* A restart loses the goroutines and every in-memory job, and rebuilds    *)
(* the jobs whose state file is still in TMP_DIR/jobs.                     *)
(***************************************************************************)
EXTENDS Integers, FiniteSets

CONSTANTS
  Job,           \* job IDs
  NoJob,         \* no job
  NFiles,        \* files per job
  Run,           \* run goroutines
  Req,           \* HTTP handler goroutines
  MaxConcurrent, \* MAX_CONCURRENT, the capacity of Manager.sem
  ForceReencode, \* JobConfig.ForceReencode
  Impatient,     \* whether Resume may be called before the job's last run
                 \* has returned, or while another request for it is running
  TornWrites,    \* whether a crash may hit the middle of os.WriteFile
  MaxResumes,    \* bound: calls of Resume
  MaxRestarts    \* bound: restarts of the server

ASSUME ManagerAssumption ==
  /\ NoJob \notin Job
  /\ NFiles \in Nat \ {0}
  /\ IsFiniteSet(Run)
  /\ MaxConcurrent \in Nat \ {0}
  /\ ForceReencode \in BOOLEAN
  /\ Impatient \in BOOLEAN
  /\ TornWrites \in BOOLEAN
  /\ MaxResumes \in Nat
  /\ MaxRestarts \in Nat

File == 0 .. NFiles - 1
None == -1   \* no state file

VARIABLES
  \* Manager.jobs
  status,     \* Job.Status; "absent" before Submit, "gone" once forgotten
  cancelled,  \* Job.cancelled
  \* Run goroutines
  pc,         \* where the goroutine is in run and encodeFilesFrom
  job,        \* its job
  idx,        \* the file index of its loop
  slots,      \* the runs that hold a slot of Manager.sem
  \* HTTP handlers
  rpc,        \* where the handler is in Cancel or Resume
  rjob,       \* its job
  names,      \* Cancel: the worker containers docker ps listed
  \* Outside the process
  container,  \* docker state of encoder_job_<id>_f<idx>
  persisted,  \* CurrentFileIdx of TMP_DIR/jobs/<id>.json, or None
  tmp,        \* files whose finished encode is in TMP_DIR/<id>/
  output,     \* files of the job delivered to OUTPUT_DIR
  parts,      \* files whose move was cut short: OUTPUT_DIR has a part of them,
              \* or is left with one when the rest of the staging is moved
  spoiled,    \* history: jobs whose TMP_DIR directory was cleaned when the
              \* server ended, and whose state file was still there
  \* Bounds
  resumes, restarts

memory  == <<status, cancelled>>
runs    == <<pc, job, idx, slots>>
handler == <<rpc, rjob, names>>
disk    == <<persisted, tmp, output, parts>>
bounds  == <<spoiled, resumes, restarts>>
vars    == <<memory, runs, handler, container, disk, bounds>>

Active   == {"queued", "running"}
Terminal == {"done", "failed", "cancelled"}
Status   == {"absent", "gone"} \cup Active \cup Terminal

\* Waiting for a slot; encoding; finalizing.
Before   == {"wait", "start"}
Encoding == {"file", "inspect", "rmstale", "launch", "attach", "reap",
             "succeeded", "errored", "move"}
After    == {"clean", "unpersist", "exit"}
Labels   == {"idle"} \cup Before \cup Encoding \cup After
InFile   == {"inspect", "rmstale", "launch", "attach", "reap"}
Docker   == {"none", "created", "running", "exited0", "exited1"}

TypeOK ==
  /\ status \in [Job -> Status]
  /\ cancelled \in [Job -> BOOLEAN]
  /\ pc \in [Run -> Labels]
  /\ job \in [Run -> Job \cup {NoJob}]
  /\ \A r \in Run : pc[r] = "idle" <=> job[r] = NoJob
  /\ idx \in [Run -> 0 .. NFiles]
  /\ \A r \in Run : pc[r] \in InFile => idx[r] \in File
  /\ slots \subseteq Run
  /\ rpc \in [Req -> {"idle", "mark", "ps", "stop", "rm", "sweep", "reset"}]
  /\ rjob \in [Req -> Job \cup {NoJob}]
  /\ \A q \in Req : rpc[q] = "idle" <=> rjob[q] = NoJob
  /\ names \in [Req -> SUBSET File]
  /\ container \in [Job -> [File -> Docker]]
  /\ persisted \in [Job -> File \cup {None}]
  /\ tmp \in [Job -> SUBSET File]
  /\ output \in [Job -> SUBSET File]
  /\ parts \in [Job -> SUBSET File]
  /\ spoiled \subseteq Job
  /\ resumes \in Nat
  /\ restarts \in Nat

Init ==
  /\ status = [j \in Job |-> "absent"]
  /\ cancelled = [j \in Job |-> FALSE]
  /\ pc = [r \in Run |-> "idle"]
  /\ job = [r \in Run |-> NoJob]
  /\ idx = [r \in Run |-> 0]
  /\ slots = {}
  /\ rpc = [q \in Req |-> "idle"]
  /\ rjob = [q \in Req |-> NoJob]
  /\ names = [q \in Req |-> {}]
  /\ container = [j \in Job |-> [f \in File |-> "none"]]
  /\ persisted = [j \in Job |-> None]
  /\ tmp = [j \in Job |-> {}]
  /\ output = [j \in Job |-> {}]
  /\ parts = [j \in Job |-> {}]
  /\ spoiled = {}
  /\ resumes = 0
  /\ restarts = 0

-----------------------------------------------------------------------------
(* Helpers: a goroutine moves, a goroutine is started.                     *)

Goto(r, l) == pc' = [pc EXCEPT ![r] = l]

Spawn(r, j) == /\ pc[r] = "idle"
               /\ pc' = [pc EXCEPT ![r] = "wait"]
               /\ job' = [job EXCEPT ![r] = j]
               /\ idx' = [idx EXCEPT ![r] = 0]
               /\ slots' = slots

Docked(j, f, s) == container' = [container EXCEPT ![j][f] = s]

(* persistState writes the state file.  (Here and below a "Wrong" operator *)
(* is a mistake the code could have been written with: the properties are  *)
(* checked to tell it from the operator that follows it.)                  *)
WrongSaved(j, i) == persisted' = [persisted EXCEPT ![j] = 0]

Saved(j, i) == persisted' = [persisted EXCEPT ![j] = i]

LiveRun(j) == {r \in Run : job[r] = j}
Requests(j) == {q \in Req : rjob[q] = j}

-----------------------------------------------------------------------------
(* Submit: a new job under an unused ID, its state file, its goroutine.    *)
WrongFresh(j) == status[j] # "gone"

Fresh(j) == status[j] = "absent"

Submit(j) ==
  /\ Fresh(j)
  /\ \E r \in Run : Spawn(r, j)
  /\ status' = [status EXCEPT ![j] = "queued"]
  /\ Saved(j, 0)
  /\ UNCHANGED <<cancelled, handler, container, tmp, output, parts, bounds>>

-----------------------------------------------------------------------------
(* run                                                                     *)

(* m.sem <- struct{}{}                                                     *)
WrongSlotFree == Cardinality(slots) <= MaxConcurrent

SlotFree == Cardinality(slots) < MaxConcurrent

Acquire(r) ==
  /\ pc[r] = "wait"
  /\ SlotFree
  /\ slots' = slots \cup {r}
  /\ Goto(r, "start")
  /\ UNCHANGED <<memory, job, idx, handler, container, disk, bounds>>

(* The job cancelled while it was queued is finalized without starting.    *)
Start(r) ==
  LET j == job[r]
  IN  /\ pc[r] = "start"
      /\ IF cancelled[j]
           THEN status' = [status EXCEPT ![j] = "cancelled"] /\ Goto(r, "clean")
           ELSE status' = [status EXCEPT ![j] = "running"] /\ Goto(r, "file")
      /\ UNCHANGED <<cancelled, job, idx, slots, handler, container, disk, bounds>>

(* encodeFilesFrom: the head of its loop.  resolveCodec skips a file whose *)
(* output is already there: whose directory has some file in it.           *)
Encoded(j, i) == ~ForceReencode /\ i \in output[j] \cup parts[j]

NextFile(r) ==
  LET j == job[r]
      i == idx[r]
  IN  /\ pc[r] = "file"
      /\ \/ /\ i = NFiles
            /\ Goto(r, "succeeded")
            /\ UNCHANGED <<idx, persisted>>
         \/ /\ i # NFiles
            /\ Saved(j, i)
            /\ \/ /\ Encoded(j, i)
                  /\ idx' = [idx EXCEPT ![r] = i + 1]
                  /\ pc' = pc
               \/ /\ ~Encoded(j, i)
                  /\ Goto(r, "inspect")
                  /\ idx' = idx
      /\ UNCHANGED <<memory, job, slots, handler, container, tmp, output, parts, bounds>>

(* runFileContainer: reattach to a container that has run, remove one that *)
(* exists but never ran, launch when there is none.                        *)
Inspect(r) ==
  LET c == container[job[r]][idx[r]]
  IN  /\ pc[r] = "inspect"
      /\ \/ c \in {"running", "exited0", "exited1"} /\ Goto(r, "attach")
         \/ c = "created" /\ Goto(r, "rmstale")
         \/ c = "none" /\ Goto(r, "launch")
      /\ UNCHANGED <<memory, job, idx, slots, handler, container, disk, bounds>>

RemoveStale(r) ==
  /\ pc[r] = "rmstale"
  /\ \/ Docked(job[r], idx[r], "none") /\ Goto(r, "launch")
     \/ UNCHANGED container /\ Goto(r, "errored")
  /\ UNCHANGED <<memory, job, idx, slots, handler, disk, bounds>>

(* docker run: creates, then starts.  It fails on a name conflict, before  *)
(* creating, or leaves a container that was created and never started.     *)
Launch(r) ==
  LET j == job[r]
      f == idx[r]
  IN  /\ pc[r] = "launch"
      /\ \/ /\ container[j][f] = "none"
            /\ Docked(j, f, "running")
            /\ Goto(r, "attach")
         \/ /\ container[j][f] = "none"
            /\ Docked(j, f, "created")
            /\ Goto(r, "errored")
         \/ /\ UNCHANGED container
            /\ Goto(r, "errored")
      /\ UNCHANGED <<memory, job, idx, slots, handler, disk, bounds>>

(* attachAndWait: the log stream ends with the container ...               *)
Attach(r) ==
  /\ pc[r] = "attach"
  /\ container[job[r]][idx[r]] # "running"
  /\ Goto(r, "reap")
  /\ UNCHANGED <<memory, job, idx, slots, handler, container, disk, bounds>>

(* ... then its exit code is read (0 for anything that has not exited      *)
(* non-zero, an error when it is gone) and it is removed.                  *)
WrongFailedWith(c) == c = "none"

FailedWith(c) == c \in {"none", "exited1"}

Reap(r) ==
  LET j == job[r]
      f == idx[r]
  IN  /\ pc[r] = "reap"
      /\ Docked(j, f, "none")
      /\ IF FailedWith(container[j][f])
           THEN Goto(r, "errored") /\ idx' = idx
           ELSE Goto(r, "file") /\ idx' = [idx EXCEPT ![r] = f + 1]
      /\ UNCHANGED <<memory, job, slots, handler, disk, bounds>>

(* The verdict of run.                                                     *)
Settle(r) ==
  LET j == job[r]
      End(s) == status' = [status EXCEPT ![j] = s] /\ Goto(r, "clean")
  IN  /\ pc[r] \in {"succeeded", "errored"}
      /\ \/ cancelled[j] /\ End("cancelled")
         \/ ~cancelled[j] /\ pc[r] = "errored" /\ End("failed")
         \/ ~cancelled[j] /\ pc[r] = "succeeded" /\ Goto(r, "move") /\ status' = status
      /\ UNCHANGED <<cancelled, job, idx, slots, handler, container, disk, bounds>>

(* moveTmpToOutput: one directory at a time, which replaces what OUTPUT_DIR*)
(* has of the file.  The staging of a file whose move was cut short may be *)
(* what its removal had left.                                              *)
MoveEntry(r) ==
  LET j == job[r]
  IN  /\ pc[r] = "move"
      /\ \E f \in tmp[j] :
           /\ tmp' = [tmp EXCEPT ![j] = @ \ {f}]
           /\ \/ /\ output' = [output EXCEPT ![j] = @ \cup {f}]
                 /\ parts' = [parts EXCEPT ![j] = @ \ {f}]
              \/ /\ f \in parts[j]
                 /\ UNCHANGED <<output, parts>>
      /\ UNCHANGED <<memory, runs, handler, container, persisted, bounds>>

(* What the moves of jobs leave when they are cut short: the directory each*)
(* was at may have been archived, and be there again in part.              *)
CutShort(movers) ==
  \E hit, part \in [movers -> SUBSET File] :
    /\ \A j \in movers : /\ part[j] \subseteq hit[j] /\ hit[j] \subseteq tmp[j]
                         /\ \A f, g \in hit[j] : f = g
    /\ output' = [j \in Job |-> IF j \in movers THEN output[j] \ hit[j] ELSE output[j]]
    /\ parts' = [j \in Job |-> IF j \in movers THEN (parts[j] \ hit[j]) \cup part[j]
                                              ELSE parts[j]]

MoveFails(r) ==
  /\ pc[r] = "move"
  /\ CutShort({job[r]})
  /\ status' = [status EXCEPT ![job[r]] = "failed"]
  /\ Goto(r, "clean")
  /\ UNCHANGED <<cancelled, job, idx, slots, handler, container, persisted, tmp, bounds>>

MoveEnds(r) ==
  /\ pc[r] = "move"
  /\ tmp[job[r]] = {}
  /\ status' = [status EXCEPT ![job[r]] = "done"]
  /\ Goto(r, "clean")
  /\ UNCHANGED <<cancelled, job, idx, slots, handler, container, disk, bounds>>

(* The job's TMP_DIR directory is removed, or moved to failed/.            *)
Clean(r) ==
  /\ pc[r] = "clean"
  /\ tmp' = [tmp EXCEPT ![job[r]] = {}]
  /\ Goto(r, "unpersist")
  /\ UNCHANGED <<memory, job, idx, slots, handler, container, persisted, output, parts, bounds>>

WrongUnpersist(r) ==
  /\ pc[r] = "unpersist"
  /\ persisted' = IF status[job[r]] = "failed"
                    THEN persisted
                    ELSE [persisted EXCEPT ![job[r]] = None]
  /\ Goto(r, "exit")
  /\ UNCHANGED <<memory, job, idx, slots, handler, container, tmp, output, parts, bounds>>

Unpersist(r) ==
  /\ pc[r] = "unpersist"
  /\ persisted' = [persisted EXCEPT ![job[r]] = None]
  /\ Goto(r, "exit")
  /\ UNCHANGED <<memory, job, idx, slots, handler, container, tmp, output, parts, bounds>>

(* The deferred <-m.sem.                                                   *)
WrongExit(r) ==
  /\ pc[r] = "exit"
  /\ slots' = slots \ {r}
  /\ pc' = [pc EXCEPT ![r] = "idle"]
  /\ UNCHANGED <<memory, job, idx, handler, container, disk, bounds>>

LeakyExit(r) ==
  /\ pc[r] = "exit"
  /\ slots' = IF status[job[r]] = "cancelled" THEN slots ELSE slots \ {r}
  /\ pc' = [pc EXCEPT ![r] = "idle"]
  /\ job' = [job EXCEPT ![r] = NoJob]
  /\ idx' = [idx EXCEPT ![r] = 0]
  /\ UNCHANGED <<memory, handler, container, disk, bounds>>

Exit(r) ==
  /\ pc[r] = "exit"
  /\ slots' = slots \ {r}
  /\ pc' = [pc EXCEPT ![r] = "idle"]
  /\ job' = [job EXCEPT ![r] = NoJob]
  /\ idx' = [idx EXCEPT ![r] = 0]
  /\ UNCHANGED <<memory, handler, container, disk, bounds>>

RunStep(r) ==
  \/ Acquire(r) \/ Start(r) \/ NextFile(r) \/ Inspect(r) \/ RemoveStale(r)
  \/ Launch(r) \/ Attach(r) \/ Reap(r) \/ Settle(r) \/ MoveEntry(r)
  \/ MoveFails(r) \/ MoveEnds(r) \/ Clean(r) \/ Unpersist(r) \/ Exit(r)

-----------------------------------------------------------------------------
(* The worker container: its orchestrator delivers the file's encode to    *)
(* TMP_DIR/<id>/ and exits 0, or fails.                                    *)
WorkerSucceeds(j, f) ==
  /\ container[j][f] = "running"
  /\ Docked(j, f, "exited0")
  /\ tmp' = [tmp EXCEPT ![j] = @ \cup {f}]
  /\ UNCHANGED <<memory, runs, handler, persisted, output, parts, bounds>>

WorkerFails(j, f) ==
  /\ container[j][f] = "running"
  /\ Docked(j, f, "exited1")
  /\ UNCHANGED <<memory, runs, handler, disk, bounds>>

-----------------------------------------------------------------------------
(* Cancel: the check, the flag, then docker ps, then stop and rm.          *)
Admit(q, j, l) == /\ rpc[q] = "idle"
                  /\ rpc' = [rpc EXCEPT ![q] = l]
                  /\ rjob' = [rjob EXCEPT ![q] = j]

Cancel(q, j) ==
  /\ status[j] \in Active
  /\ Admit(q, j, "mark")
  /\ UNCHANGED <<memory, runs, names, container, disk, bounds>>

CancelMark(q) ==
  /\ rpc[q] = "mark"
  /\ cancelled' = [cancelled EXCEPT ![rjob[q]] = TRUE]
  /\ rpc' = [rpc EXCEPT ![q] = "ps"]
  /\ UNCHANGED <<status, runs, rjob, names, container, disk, bounds>>

Return(q) == /\ rpc' = [rpc EXCEPT ![q] = "idle"]
             /\ rjob' = [rjob EXCEPT ![q] = NoJob]

CancelPs(q) ==
  LET found == {f \in File : container[rjob[q]][f] # "none"}
  IN  /\ rpc[q] = "ps"
      /\ names' = [names EXCEPT ![q] = found]
      /\ IF found = {} THEN Return(q)
                       ELSE rpc' = [rpc EXCEPT ![q] = "stop"] /\ rjob' = rjob
      /\ UNCHANGED <<memory, runs, container, disk, bounds>>

First(q) == CHOOSE f \in names[q] : \A g \in names[q] : f <= g

CancelStop(q) ==
  LET j == rjob[q]
      f == First(q)
  IN  /\ rpc[q] = "stop"
      /\ container' = IF container[j][f] = "running"
                        THEN [container EXCEPT ![j][f] = "exited1"]
                        ELSE container
      /\ rpc' = [rpc EXCEPT ![q] = "rm"]
      /\ UNCHANGED <<memory, runs, rjob, names, disk, bounds>>

CancelRm(q) ==
  LET j == rjob[q]
      f == First(q)
  IN  /\ rpc[q] = "rm"
      /\ container' = IF container[j][f] = "running"
                        THEN container
                        ELSE [container EXCEPT ![j][f] = "none"]
      /\ names' = [names EXCEPT ![q] = @ \ {f}]
      /\ IF names[q] = {f} THEN Return(q)
                           ELSE rpc' = [rpc EXCEPT ![q] = "stop"] /\ rjob' = rjob
      /\ UNCHANGED <<memory, runs, disk, bounds>>

-----------------------------------------------------------------------------
(* Resume: the check, removeJobContainers, then the reset, the state file  *)
(* and the new goroutine.                                                  *)
WrongResumable(j) == status[j] \in Terminal

Resumable(j) == status[j] \in {"failed", "cancelled"}

Resume(q, j) ==
  /\ Resumable(j)
  /\ Impatient \/ LiveRun(j) \cup Requests(j) = {}
  /\ resumes < MaxResumes
  /\ resumes' = resumes + 1
  /\ Admit(q, j, "sweep")
  /\ UNCHANGED <<memory, runs, names, container, disk, spoiled, restarts>>

ResumeSweep(q) ==
  /\ rpc[q] = "sweep"
  /\ container' = [container EXCEPT ![rjob[q]] = [f \in File |-> "none"]]
  /\ rpc' = [rpc EXCEPT ![q] = "reset"]
  /\ UNCHANGED <<memory, runs, rjob, names, disk, bounds>>

ForgetfulReset(q) ==
  LET j == rjob[q]
  IN  /\ rpc[q] = "reset"
      /\ \E r \in Run : Spawn(r, j)
      /\ status' = [status EXCEPT ![j] = "queued"]
      /\ cancelled' = [cancelled EXCEPT ![j] = FALSE]
      /\ Return(q)
      /\ UNCHANGED <<names, container, disk, bounds>>

ResumeReset(q) ==
  LET j == rjob[q]
  IN  /\ rpc[q] = "reset"
      /\ \E r \in Run : Spawn(r, j)
      /\ status' = [status EXCEPT ![j] = "queued"]
      /\ cancelled' = [cancelled EXCEPT ![j] = FALSE]
      /\ Saved(j, 0)
      /\ Return(q)
      /\ UNCHANGED <<names, container, tmp, output, parts, bounds>>

ReqStep(q) == CancelMark(q) \/ CancelPs(q) \/ CancelStop(q)
              \/ CancelRm(q) \/ ResumeSweep(q) \/ ResumeReset(q)

-----------------------------------------------------------------------------
(* Reconcile: a queued job, not cancelled, and its run from the recorded   *)
(* file, for every job whose state file was read.                          *)
Reconcile(saved) ==
  /\ status' = [j \in Job |-> IF j \in saved THEN "queued"
                             ELSE IF status[j] = "absent" THEN "absent"
                             ELSE "gone"]
  /\ cancelled' = [j \in Job |-> FALSE]
  /\ persisted' = [j \in Job |-> IF j \in saved THEN persisted[j] ELSE None]
  /\ job' \in [Run -> saved \cup {NoJob}]
  /\ \A j \in saved : \E r \in Run : job'[r] = j
  /\ \A r, s \in Run : job'[r] = job'[s] /\ job'[r] # NoJob => r = s
  /\ pc' = [r \in Run |-> IF job'[r] = NoJob THEN "idle" ELSE "wait"]
  /\ idx' = [r \in Run |-> IF job'[r] = NoJob THEN 0 ELSE persisted[job'[r]]]

(* The server restarts.  A state file that was truncated but not yet       *)
(* rewritten does not parse, and is skipped.                               *)
Torn(j) == TornWrites /\ \E r \in LiveRun(j) : pc[r] = "file" /\ idx[r] < NFiles

Restart ==
  /\ restarts < MaxRestarts
  /\ restarts' = restarts + 1
  /\ spoiled' = spoiled \cup {j \in Job : \E r \in LiveRun(j) : pc[r] = "unpersist"}
  /\ \E torn \in SUBSET {j \in Job : Torn(j)} :
       Reconcile({j \in Job : persisted[j] # None} \ torn)
  /\ CutShort({j \in Job : \E r \in LiveRun(j) : pc[r] = "move"})
  /\ slots' = {}
  /\ rpc' = [q \in Req |-> "idle"]
  /\ rjob' = [q \in Req |-> NoJob]
  /\ names' = [q \in Req |-> {}]
  /\ UNCHANGED <<container, tmp, resumes>>

-----------------------------------------------------------------------------
Next ==
  \/ \E j \in Job : Submit(j)
  \/ \E r \in Run : RunStep(r)
  \/ \E j \in Job, f \in File : WorkerSucceeds(j, f) \/ WorkerFails(j, f)
  \/ \E q \in Req, j \in Job : Cancel(q, j) \/ Resume(q, j)
  \/ \E q \in Req : ReqStep(q)
  \/ Restart

Spec == Init /\ [][Next]_vars

(* The server runs its goroutines and handlers, the semaphore serves its   *)
(* waiters in turn, and a worker container ends.  Nobody is obliged to     *)
(* submit, cancel, resume or restart.                                      *)
Fairness ==
  /\ \A r \in Run : WF_vars(RunStep(r)) /\ SF_vars(Acquire(r))
  /\ \A q \in Req : WF_vars(ReqStep(q))
  /\ \A j \in Job, f \in File : WF_vars(WorkerSucceeds(j, f) \/ WorkerFails(j, f))

FairSpec == Spec /\ Fairness

-----------------------------------------------------------------------------
(* MAX_CONCURRENT bounds the runs past the semaphore, and a job that says  *)
(* "running" has one of them: no status outlives the goroutine that set it *)
(* and none is set by a goroutine that gave its slot back.  Holds however  *)
(* Cancel, Resume and restarts interleave.                                 *)
SlotDiscipline ==
  /\ Cardinality(slots) <= MaxConcurrent
  /\ \A j \in Job : status[j] = "running" => LiveRun(j) \cap slots # {}

(* Two goroutines never run one job: they would share its TMP_DIR, its     *)
(* container names and its state file.                                     *)
OneRun == \A r, s \in Run : job[r] = job[s] /\ job[r] # NoJob => r = s

(* State is on disk for as long as the job is active, so that Reconcile    *)
(* can find the job, when Resume waits for the job's last run to return.   *)
ActivePersisted == \A j \in Job : status[j] \in Active => persisted[j] # None

(* A restart finds a job's live worker: a container that is running is the *)
(* one of the file that the state file names, or a Cancel is about to stop *)
(* it, or its job is one an earlier restart forgot while it was being      *)
(* cancelled.                                                              *)
RestartFindsAll ==
  \A j \in Job, f \in File :
    container[j][f] = "running" =>
      persisted[j] = f \/ Requests(j) # {} \/ status[j] = "gone"

(* What a finished job leaves once nobody works on it: no state file (or a *)
(* restart would run it again), no live worker and no staging.  Staging    *)
(* can be left by a worker that outlived a restart and whose job was       *)
(* cancelled before its new run had a slot: the tmp sweeper collects it.   *)
FinishedIsQuiet ==
  \A j \in Job : LiveRun(j) \cup Requests(j) = {} =>
    /\ status[j] \notin Active
    /\ status[j] \in Terminal =>
         /\ persisted[j] = None
         /\ tmp[j] = {} \/ restarts > 0
         /\ \A f \in File : container[j][f] # "running"

(* "done: every file encoded and moved to OUTPUT_DIR", however often the   *)
(* job was resumed, or its run taken up by another server: unless a server *)
(* ended between the clean-up of the job's last run and the removal of its *)
(* state file, which has the next one go on without the encodes it had.  A *)
(* file is whole, except one whose own move a failed copy or the end of a  *)
(* server cut short, which resolveCodec takes for encoded ever after.      *)
DoneDelivers ==
  \A j \in Job \ spoiled : status[j] = "done" =>
    /\ output[j] = File \ parts[j]
    /\ parts[j] # {} => resumes + restarts > 0

(* An accepted job comes to an end, restarts included.                     *)
Accepted == \A j \in Job : status[j] = "queued" ~> status[j] \notin Active

(* The documented lifecycle.                                               *)
Lifecycle == INSTANCE JobLifecycle
ImplementsLifecycle == Lifecycle!Spec
=============================================================================
