----------------------------- MODULE LocalRank -----------------------------
(***************************************************************************)
(* The arrival rank of local-dist jobs (localJobRank in                    *)
(* internal/encode/job.go).  Every file's worker container is launched     *)
(* with the rank its job has then, and folds it into the Temporal priority *)
(* of its chunks, so that an older job's chunks go before a younger one's. *)
(*                                                                         *)
(* The server remembers the ranks it gave (distRanks); the containers keep *)
(* the rank they were launched with, across restarts of the server too.    *)
(***************************************************************************)
EXTENDS Integers, FiniteSets

CONSTANTS
  Job,        \* job IDs: ascending timestamps, so an older job is smaller
  MaxRank,    \* maxLocalJobRank
  MaxResumes, \* bound: calls of Resume
  MaxRestarts \* bound: restarts of the server

ASSUME RankAssumption ==
  /\ Job \subseteq Nat
  /\ IsFiniteSet(Job)
  /\ MaxRank \in Nat
  /\ MaxResumes \in Nat
  /\ MaxRestarts \in Nat

None == -1

VARIABLES
  status,    \* Job.Status
  waiting,   \* the jobs whose goroutine waits for its worker to exit
  distRanks, \* Manager.distRanks
  worker,    \* the rank a job's live worker was launched with, or None
  inOrder,   \* history: since the server's start, jobs have reached their
             \* first file in the order of the IDs, and none was resumed
  resumes, restarts

rankVars == <<status, waiting, distRanks, worker, inOrder, resumes, restarts>>

Active == {"queued", "running"}
Rank   == 0 .. MaxRank

TypeOK ==
  /\ status \in [Job -> {"absent", "ended"} \cup Active]
  /\ waiting \subseteq Job
  /\ distRanks \in [Job -> Rank \cup {None}]
  /\ worker \in [Job -> Rank \cup {None}]
  /\ inOrder \in BOOLEAN
  /\ resumes \in Nat
  /\ restarts \in Nat

RankInit ==
  /\ status = [j \in Job |-> "absent"]
  /\ waiting = {}
  /\ distRanks = [j \in Job |-> None]
  /\ worker = [j \in Job |-> None]
  /\ inOrder = TRUE
  /\ resumes = 0
  /\ restarts = 0

Bigger(a, b) == IF a > b THEN a ELSE b
Smaller(a, b) == IF a < b THEN a ELSE b

-----------------------------------------------------------------------------
(* localJobRank.  A "Wrong" operator is a mistake the code could have been *)
(* written with, which the properties are checked to tell apart.           *)
Older(j) == {i \in Job : i < j /\ status[i] \in Active}

\* The greatest rank of an older running job, as a set of one element.
Behind(j) ==
  LET ranks == {None} \cup {distRanks[i] : i \in {i \in Older(j) : status[i] = "running"}}
  IN  {r \in ranks : \A s \in ranks : s <= r}

WrongLocalJobRank(j, behind) == Smaller(Cardinality(Older(j)), MaxRank)

UncappedLocalJobRank(j, behind) == Bigger(Cardinality(Older(j)), behind + 1)

LocalJobRank(j, behind) ==
  Smaller(Bigger(Cardinality(Older(j)), behind + 1), MaxRank)

-----------------------------------------------------------------------------
Submit(j) ==
  /\ \A i \in Job : i >= j => status[i] = "absent"
  /\ status' = [status EXCEPT ![j] = "queued"]
  /\ UNCHANGED <<waiting, distRanks, worker, inOrder, resumes, restarts>>

(* run has a slot.                                                         *)
Start(j) ==
  /\ status[j] = "queued"
  /\ status' = [status EXCEPT ![j] = "running"]
  /\ UNCHANGED <<waiting, distRanks, worker, inOrder, resumes, restarts>>

(* A file of encodeFilesFrom: its arguments, then runFileContainer, which  *)
(* leaves the arguments unused when the worker is already there.           *)
EncodeFile(j) ==
  /\ status[j] = "running"
  /\ j \notin waiting
  /\ inOrder' = (inOrder /\ \A i \in Older(j) : distRanks[i] # None)
  /\ waiting' = waiting \cup {j}
  /\ \E behind \in Behind(j) :
       LET rank == LocalJobRank(j, behind)
       IN  /\ distRanks' = [distRanks EXCEPT ![j] = rank]
           /\ worker' = [worker EXCEPT ![j] = IF @ = None THEN rank ELSE @]
  /\ UNCHANGED <<status, resumes, restarts>>

(* The worker exits, or is stopped by a cancel.                            *)
WorkerExits(j) ==
  /\ worker[j] # None
  /\ worker' = [worker EXCEPT ![j] = None]
  /\ waiting' = waiting \ {j}
  /\ UNCHANGED <<status, distRanks, inOrder, resumes, restarts>>

(* No file is left, or the job failed or was cancelled.  Its rank stays.   *)
End(j) ==
  /\ status[j] \in Active
  /\ j \notin waiting
  /\ worker[j] = None
  /\ status' = [status EXCEPT ![j] = "ended"]
  /\ UNCHANGED <<waiting, distRanks, worker, inOrder, resumes, restarts>>

Resume(j) ==
  /\ status[j] = "ended"
  /\ resumes < MaxResumes
  /\ inOrder' = FALSE
  /\ resumes' = resumes + 1
  /\ status' = [status EXCEPT ![j] = "queued"]
  /\ UNCHANGED <<waiting, distRanks, worker, restarts>>

(* The server restarts: the active jobs are queued again, the ranks it     *)
(* gave are forgotten and the workers live on.                             *)
Restart ==
  /\ restarts < MaxRestarts
  /\ restarts' = restarts + 1
  /\ status' = [j \in Job |-> IF status[j] = "running" THEN "queued" ELSE status[j]]
  /\ waiting' = {}
  /\ distRanks' = [j \in Job |-> None]
  /\ inOrder' = TRUE
  /\ UNCHANGED <<worker, resumes>>

JobStep(j) == Submit(j) \/ Start(j) \/ EncodeFile(j) \/ WorkerExits(j)
              \/ End(j) \/ Resume(j)

RankNext == (\E j \in Job : JobStep(j)) \/ Restart

RankSpec == RankInit /\ [][RankNext]_rankVars

-----------------------------------------------------------------------------
(* "ALL of an older job's chunks outrank any younger job's", up to the     *)
(* cap, where "the extras share the lowest band": of two live workers, the *)
(* younger job's has the higher rank.                                      *)
OlderOutranks ==
  \A i, j \in Job :
    i < j /\ worker[i] # None /\ worker[j] # None =>
      worker[i] < worker[j] \/ worker[j] = MaxRank

(* It is so until a restart, among jobs that were ranked in order: the     *)
(* rank a worker has was computed when it was launched, among jobs that    *)
(* have since ended, gone on to other files or been ranked again.          *)
OlderFirst == inOrder /\ restarts = 0 => OlderOutranks

(* Of the ranks the server goes by, the same holds after any restart: each *)
(* job is ranked again when it re-attaches.                                *)
RanksAscend ==
  inOrder =>
    \A i, j \in waiting :
      i < j => distRanks[i] < distRanks[j] \/ distRanks[j] = MaxRank
=============================================================================
