---------------------------- MODULE CloudLaunch ----------------------------
(***************************************************************************)
(* The cloud target of the control plane (internal/encode/job.go): the     *)
(* launch gate that starts Step Functions executions in queue order, and   *)
(* the life of an execution across failures, cancels, resumes and          *)
(* restarts (encodeCloudBatchSFN, runOneCloudBatchSFN).                    *)
(*                                                                         *)
(* A job holds a slot of MAX_CONCURRENT while it builds its input, waits   *)
(* on a condition variable until no older cloud job is still launching,    *)
(* submits an execution and polls it.  It counts as launched once it has   *)
(* fanned out, or when the file's run returns.  The execution lives in     *)
(* AWS: a restart re-attaches to the one the job's state file names, and a *)
(* new submission first aborts those that run for the same file.  Every    *)
(* call to AWS may fail, after it was carried out too.                     *)
(***************************************************************************)
EXTENDS Integers, Sequences, FiniteSets

CONSTANTS
  Job,           \* job IDs: ascending timestamps, so an older job is smaller
  Cloud,         \* the cloud jobs; the others only occupy slots
  NFiles,        \* files per job
  MaxConcurrent, \* capacity of Manager.sem
  MaxExecs,      \* bound: executions started
  MaxCancels,    \* bound: calls of Cancel
  MaxResumes,    \* bound: calls of Resume
  MaxRestarts    \* bound: restarts of the server

ASSUME CloudAssumption ==
  /\ Job \subseteq Nat
  /\ IsFiniteSet(Job)
  /\ Cloud \subseteq Job
  /\ NFiles \in Nat \ {0}
  /\ MaxConcurrent \in Nat \ {0}
  /\ {MaxExecs, MaxCancels, MaxResumes, MaxRestarts} \subseteq Nat

None == -1   \* no state file
NoArn == 0

VARIABLES
  status, cancelled, \* Job.Status, Job.cancelled
  launched,          \* Job.launchComplete
  arn,               \* Job.cloudExecArn: an index of execs, or NoArn
  pc,                \* where the job's goroutine is
  idx,               \* its file
  launchDone,        \* its runOneCloudBatchSFN has called signalLaunch
  slots,             \* the jobs that hold a slot
  savedIdx, savedArn,\* the job's state file
  execs,             \* the executions, in the order they were started
  unseen,            \* history: executions whose ARN was not written or not
                     \* answered, or whose status could not be asked for
  dropped,           \* history: executions that ran on as their job left
                     \* their file behind
  spared,            \* history: executions that a submission did not abort
  cancels, resumes, restarts

job    == <<status, cancelled, launched, arn>>
saved  == <<savedIdx, savedArn>>
history == <<unseen, dropped, spared>>
bounds == <<cancels, resumes, restarts>>
vars   == <<job, pc, idx, launchDone, slots, saved, execs, history, bounds>>

Active   == {"queued", "running"}
Terminal == {"done", "failed", "cancelled"}

Init ==
  /\ status = [j \in Job |-> "absent"]
  /\ cancelled = [j \in Job |-> FALSE]
  /\ launched = [j \in Job |-> FALSE]
  /\ arn = [j \in Job |-> NoArn]
  /\ pc = [j \in Job |-> "idle"]
  /\ idx = [j \in Job |-> 0]
  /\ launchDone = [j \in Job |-> FALSE]
  /\ slots = {}
  /\ savedIdx = [j \in Job |-> None]
  /\ savedArn = [j \in Job |-> NoArn]
  /\ execs = << >>
  /\ unseen = {}
  /\ dropped = {}
  /\ spared = {}
  /\ cancels = 0
  /\ resumes = 0
  /\ restarts = 0

-----------------------------------------------------------------------------
(* persistState: the file index and the ARN in memory.  (A "Wrong"         *)
(* operator is a mistake the code could have been written with, which the  *)
(* properties are checked to tell from the operator after it.)             *)
WrongPersist(j, i) == /\ savedIdx' = [savedIdx EXCEPT ![j] = i]
                      /\ savedArn' = [savedArn EXCEPT ![j] = NoArn]

Persist(j, i) == /\ savedIdx' = [savedIdx EXCEPT ![j] = i]
                 /\ savedArn' = [savedArn EXCEPT ![j] = arn'[j]]

Goto(j, l) == pc' = [pc EXCEPT ![j] = l]

(* Broadcast on launchCond: every sleeper checks again.                    *)
Woken(p) == [k \in Job |-> IF p[k] = "asleep" THEN "turn" ELSE p[k]]

(* olderStillLaunching.                                                    *)
WrongOlderStillLaunching(j) ==
  \E i \in Cloud : i < j /\ status[i] = "running" /\ ~launched[i]

OlderStillLaunching(j) ==
  \E i \in Cloud : i < j /\ status[i] \in Active /\ ~launched[i]

Running(e) == execs[e].state = "running"
Ends(e, s) == execs' = [execs EXCEPT ![e].state = s]

-----------------------------------------------------------------------------
(* Submit: IDs ascend.                                                     *)
Submit(j) ==
  /\ \A k \in Job : k >= j => status[k] = "absent"
  /\ status' = [status EXCEPT ![j] = "queued"]
  /\ savedIdx' = [savedIdx EXCEPT ![j] = 0]
  /\ Goto(j, "slot")
  /\ UNCHANGED <<cancelled, launched, arn, idx, launchDone, slots, savedArn, execs,
                 history, bounds>>

(* run                                                                     *)
Acquire(j) ==
  /\ pc[j] = "slot"
  /\ Cardinality(slots) < MaxConcurrent
  /\ slots' = slots \cup {j}
  /\ Goto(j, "start")
  /\ UNCHANGED <<job, idx, launchDone, saved, execs, history, bounds>>

(* finalizeCancelled does not broadcast.                                   *)
Start(j) ==
  /\ pc[j] = "start"
  /\ \/ cancelled[j] /\ status' = [status EXCEPT ![j] = "cancelled"] /\ Goto(j, "exit")
     \/ /\ ~cancelled[j]
        /\ status' = [status EXCEPT ![j] = "running"]
        /\ Goto(j, IF j \in Cloud THEN "file" ELSE "work")
  /\ UNCHANGED <<cancelled, launched, arn, idx, launchDone, slots, saved, execs, history, bounds>>

LocalWork(j) ==
  /\ pc[j] = "work"
  /\ Goto(j, "ended")
  /\ UNCHANGED <<job, idx, launchDone, slots, saved, execs, history, bounds>>

(* encodeCloudBatchSFN, and the re-attachment at the head of               *)
(* runOneCloudBatchSFN: only to an execution known to run or to have       *)
(* succeeded, which the answer of AWS tells, when there is one.            *)
WrongResumable(e) == e # NoArn /\ execs[e].state = "succeeded"

Resumable(e) == e # NoArn /\ execs[e].state \in {"running", "succeeded"}

MoreFiles(j) == idx[j] < NFiles

NextFile(j) ==
  /\ pc[j] = "file"
  /\ UNCHANGED job
  /\ \/ ~MoreFiles(j) /\ Goto(j, "ended") /\ UNCHANGED <<saved, unseen>>
     \/ /\ MoreFiles(j)
        /\ Persist(j, idx[j])
        /\ \/ /\ Goto(j, IF Resumable(arn[j]) THEN "poll" ELSE "prep")
              /\ UNCHANGED unseen
           \/ /\ arn[j] # NoArn
              /\ Goto(j, "prep")
              /\ unseen' = unseen \cup {arn[j]}
  /\ UNCHANGED <<idx, launchDone, slots, execs, dropped, spared, bounds>>

(* The mezzanine and the state machine's input.  A build that a cancel     *)
(* killed returns no error.                                                *)
Prepare(j) ==
  /\ pc[j] = "prep"
  /\ \/ Goto(j, "turn")
     \/ Goto(j, "err")
     \/ cancelled[j] /\ Goto(j, "ok")
  /\ UNCHANGED <<job, idx, launchDone, slots, saved, execs, history, bounds>>

(* waitForLaunchTurn, under launchMu.                                      *)
TakeTurn(j) ==
  /\ pc[j] = "turn"
  /\ Goto(j, IF OlderStillLaunching(j) /\ ~cancelled[j] THEN "asleep" ELSE "gate")
  /\ UNCHANGED <<job, idx, launchDone, slots, saved, execs, history, bounds>>

(* cli_batch submit, unless the job was cancelled meanwhile: no compute    *)
(* environment may be there to run it; and the executions that still run   *)
(* for the file are aborted, but for those the listing or the calls missed.*)
Prior(j) == {e \in DOMAIN execs :
               Running(e) /\ execs[e].job = j /\ execs[e].file = idx[j]}

WrongStopped(j, missed) == execs

Stopped(j, missed) == [e \in DOMAIN execs |->
                         IF e \in Prior(j) \ missed THEN [execs[e] EXCEPT !.state = "failed"]
                                                  ELSE execs[e]]

StopPrior(j) ==
  /\ pc[j] = "gate"
  /\ \/ cancelled[j] /\ Goto(j, "ok") /\ UNCHANGED <<execs, spared>>
     \/ ~cancelled[j] /\ Goto(j, "err") /\ UNCHANGED <<execs, spared>>
     \/ /\ ~cancelled[j]
        /\ \E missed \in SUBSET Prior(j) : /\ execs' = Stopped(j, missed)
                                          /\ spared' = spared \cup missed
        /\ Goto(j, "submit")
  /\ UNCHANGED <<job, idx, launchDone, slots, saved, unseen, dropped, bounds>>

(* start_execution: a failure may be its answer's only, ...                *)
Started(j) == Append(execs, [job |-> j, file |-> idx[j], state |-> "running"])

StartExecution(j) ==
  /\ pc[j] = "submit"
  /\ \/ Goto(j, "err") /\ UNCHANGED <<arn, execs, unseen>>
     \/ /\ Len(execs) < MaxExecs
        /\ execs' = Started(j)
        /\ \/ Goto(j, "err") /\ unseen' = unseen \cup {Len(execs) + 1} /\ UNCHANGED arn
           \/ /\ Goto(j, "persist")
              /\ arn' = [arn EXCEPT ![j] = Len(execs) + 1]
              /\ UNCHANGED unseen
  /\ UNCHANGED <<status, cancelled, launched, idx, launchDone, slots, saved, dropped, spared,
                 bounds>>

(* ... and the ARN it answers with is persisted.                           *)
PersistArn(j) ==
  /\ pc[j] = "persist"
  /\ UNCHANGED job
  /\ Persist(j, idx[j])
  /\ Goto(j, "poll")
  /\ UNCHANGED <<idx, launchDone, slots, execs, history, bounds>>

(* markLaunched: once per call of runOneCloudBatchSFN, with a broadcast.   *)
WrongMarkLaunched(j, p) ==
  /\ launched' = [launched EXCEPT ![j] = TRUE]
  /\ pc' = p

MarkLaunched(j, p) ==
  /\ launched' = [launched EXCEPT ![j] = TRUE]
  /\ pc' = IF launchDone[j] THEN p ELSE Woken(p)

(* The scan loop of the poll: all encode jobs were seen, or ten minutes    *)
(* have passed.                                                            *)
FanOut(j) ==
  /\ pc[j] = "poll"
  /\ ~launchDone[j]
  /\ MarkLaunched(j, pc)
  /\ launchDone' = [launchDone EXCEPT ![j] = TRUE]
  /\ UNCHANGED <<status, cancelled, arn, idx, slots, saved, execs, history, bounds>>

(* The poll ends with its execution, or dies before.                       *)
PollEnds(j) ==
  /\ pc[j] = "poll"
  /\ \/ execs[arn[j]].state = "succeeded" /\ Goto(j, "ok")
     \/ Goto(j, IF cancelled[j] THEN "ok" ELSE "err")
  /\ UNCHANGED <<job, idx, launchDone, slots, saved, execs, history, bounds>>

(* The cancel watcher stops the execution, which may fail, and kills the   *)
(* poll; the poll's error is then swallowed.                               *)
CancelWatch(j) ==
  /\ pc[j] = "poll"
  /\ cancelled[j]
  /\ \/ Running(arn[j]) /\ Ends(arn[j], "failed")
     \/ UNCHANGED execs
  /\ Goto(j, "ok")
  /\ UNCHANGED <<job, idx, launchDone, slots, saved, history, bounds>>

(* The deferred markLaunched and, without an error, the next file with no  *)
(* execution.  A cancelled job goes on to its next file too.               *)
WrongDropArn(j) == arn' = arn

DropArn(j) == arn' = [arn EXCEPT ![j] = NoArn]

(* What still runs as the job leaves the file: it was cancelled, or served *)
(* by another execution, or nobody knew of it.                             *)
Astray(j) == arn[j] # NoArn /\ execs[arn[j]].file # idx[j]

LeftBehind(j) ==
  {e \in DOMAIN execs :
     \/ e \in Prior(j) /\ (cancelled[j] \/ Astray(j) \/ e \in unseen)
     \/ e = arn[j] /\ cancelled[j] /\ Running(e)}

ReturnFile(j) ==
  /\ \/ /\ pc[j] = "ok"
        /\ MarkLaunched(j, [pc EXCEPT ![j] = "file"])
        /\ idx' = [idx EXCEPT ![j] = @ + 1]
        /\ DropArn(j)
        /\ dropped' = dropped \cup LeftBehind(j)
     \/ /\ pc[j] = "err"
        /\ MarkLaunched(j, [pc EXCEPT ![j] = "failed"])
        /\ UNCHANGED <<idx, arn, dropped>>
  /\ launchDone' = [launchDone EXCEPT ![j] = FALSE]
  /\ UNCHANGED <<status, cancelled, slots, saved, execs, unseen, spared, bounds>>

(* The verdict of run, whose move to OUTPUT_DIR may fail; no broadcast.    *)
Settle(j) ==
  /\ pc[j] \in {"ended", "failed"}
  /\ status' \in {[status EXCEPT ![j] = s] :
                    s \in IF cancelled[j] THEN {"cancelled"}
                          ELSE IF pc[j] = "failed" THEN {"failed"}
                          ELSE {"done", "failed"}}
  /\ Goto(j, "exit")
  /\ UNCHANGED <<cancelled, launched, arn, idx, launchDone, slots, saved, execs, history, bounds>>

Exit(j) ==
  /\ pc[j] = "exit"
  /\ savedIdx' = [savedIdx EXCEPT ![j] = None]
  /\ savedArn' = [savedArn EXCEPT ![j] = NoArn]
  /\ slots' = slots \ {j}
  /\ idx' = [idx EXCEPT ![j] = 0]
  /\ Goto(j, "idle")
  /\ UNCHANGED <<job, launchDone, execs, history, bounds>>

RunStep(j) ==
  \/ Acquire(j) \/ Start(j) \/ LocalWork(j) \/ NextFile(j) \/ Prepare(j)
  \/ TakeTurn(j) \/ StopPrior(j) \/ StartExecution(j) \/ PersistArn(j)
  \/ FanOut(j) \/ PollEnds(j) \/ CancelWatch(j) \/ ReturnFile(j) \/ Settle(j) \/ Exit(j)

-----------------------------------------------------------------------------
(* Cancel marks the job and wakes the sleepers.                            *)
Cancel(j) ==
  /\ status[j] \in Active
  /\ cancels < MaxCancels
  /\ cancels' = cancels + 1
  /\ cancelled' = [cancelled EXCEPT ![j] = TRUE]
  /\ pc' = Woken(pc)
  /\ UNCHANGED <<status, launched, arn, idx, launchDone, slots, saved, execs,
                 history, resumes, restarts>>

(* Resume, once the job's last run has returned.  The ARN stays.           *)
Resume(j) ==
  /\ status[j] \in {"failed", "cancelled"}
  /\ pc[j] = "idle"
  /\ resumes < MaxResumes
  /\ resumes' = resumes + 1
  /\ status' = [status EXCEPT ![j] = "queued"]
  /\ cancelled' = [cancelled EXCEPT ![j] = FALSE]
  /\ launched' = [launched EXCEPT ![j] = FALSE]
  /\ arn' = arn
  /\ Persist(j, 0)
  /\ Goto(j, "slot")
  /\ UNCHANGED <<idx, launchDone, slots, execs, history, cancels, restarts>>

(* A restart of the server, and Reconcile.                                 *)
Restart ==
  /\ restarts < MaxRestarts
  /\ restarts' = restarts + 1
  /\ unseen' = unseen \cup {arn[j] : j \in {k \in Job : pc[k] = "persist"}}
  /\ status' = [j \in Job |-> IF savedIdx[j] # None THEN "queued"
                              ELSE IF status[j] = "absent" THEN "absent"
                              ELSE "gone"]
  /\ cancelled' = [j \in Job |-> FALSE]
  /\ launched' = [j \in Job |-> FALSE]
  /\ arn' = savedArn
  /\ pc' = [j \in Job |-> IF savedIdx[j] # None THEN "slot" ELSE "idle"]
  /\ idx' = [j \in Job |-> IF savedIdx[j] # None THEN savedIdx[j] ELSE 0]
  /\ launchDone' = [j \in Job |-> FALSE]
  /\ slots' = {}
  /\ UNCHANGED <<saved, execs, dropped, spared, cancels, resumes>>

(* The state machine ends an execution.                                    *)
ExecutionEnds(e) ==
  /\ Running(e)
  /\ \E s \in {"succeeded", "failed"} : Ends(e, s)
  /\ UNCHANGED <<job, pc, idx, launchDone, slots, saved, history, bounds>>

Next ==
  \/ \E j \in Job : Submit(j) \/ RunStep(j) \/ Cancel(j) \/ Resume(j)
  \/ Restart
  \/ \E e \in DOMAIN execs : ExecutionEnds(e)

Spec == Init /\ [][Next]_vars

(* The goroutines run, the semaphore serves its waiters in turn, and an    *)
(* execution ends.                                                         *)
Fairness ==
  /\ \A j \in Job : WF_vars(RunStep(j)) /\ SF_vars(Acquire(j))
  /\ \A e \in 1 .. MaxExecs : WF_vars(e \in DOMAIN execs /\ ExecutionEnds(e))

FairSpec == Spec /\ Fairness

-----------------------------------------------------------------------------
(* "Guarantees cloud executions start in queue order": the first files of  *)
(* the jobs are started in the order of the jobs, whoever is cancelled.    *)
(* (Later files are not: a job counts as launched from its first on.)      *)
InQueueOrder ==
  resumes = 0 /\ restarts = 0 =>
    \A a, b \in DOMAIN execs :
      a < b /\ execs[b].file = 0 => execs[a].job <= execs[b].job

(* A restart or a Resume re-attaches to the execution that a job has       *)
(* "instead of submitting a duplicate", and a submission aborts the others:*)
(* one file has two executions only if the job had lost sight of one (its  *)
(* ARN was not written or answered, its status could not be asked for, or  *)
(* the job had left the file behind with it) and AWS did not abort it.     *)
NoDuplicate ==
  \A a, b \in DOMAIN execs :
    /\ Running(a) /\ execs[a].job = execs[b].job
    /\ Running(b) /\ execs[a].file = execs[b].file
    => a = b \/ {a, b} \cap (unseen \cup dropped) \cap spared # {}

(* No execution runs on unseen: one that runs for an active job is in the  *)
(* job's state file, where a restart finds it, or about to be; or the job  *)
(* lost sight of it and has yet to submit its file again, which aborts it; *)
(* or it was left behind with its file, or not aborted.                    *)
NoOrphan ==
  \A e \in DOMAIN execs :
    LET j == execs[e].job
    IN  Running(e) /\ status[j] \in Active =>
          \/ savedArn[j] = e
          \/ pc[j] = "persist" /\ arn[j] = e
          \/ e \in unseen /\ idx[j] <= execs[e].file
          \/ e \in dropped \cup spared

(* A job polls an execution of the file it is at: the outputs it downloads *)
(* are that file's: unless it was resumed, which takes it back to its      *)
(* first file with the ARN of the one it failed at.                        *)
OwnFile ==
  resumes = 0 =>
    \A j \in Job : pc[j] = "poll" =>
      execs[arn[j]].job = j /\ execs[arn[j]].file = idx[j]

(* No wakeup is lost, while no job is cancelled: a job sleeps only while   *)
(* an older one is launching.                                              *)
AsleepForCause ==
  cancels = 0 =>
    \A j \in Job : pc[j] = "asleep" => OlderStillLaunching(j)

(* A job that waits for its launch turn gets it.                           *)
TurnComes ==
  \A j \in Job : pc[j] = "turn" ~> pc[j] \notin {"turn", "asleep"}
=============================================================================
