-------------------------- MODULE JobManagerProofs --------------------------
(***************************************************************************)
(* Theorems about the job manager for any number of jobs, files,           *)
(* goroutines, handlers, resumes and restarts: its types, the bound on its *)
(* running jobs, one goroutine and a state file per active job when Resume *)
(* waits for the job's last run, the lifecycle it then implements, and     *)
(* what becomes of its files.                                              *)
(***************************************************************************)
EXTENDS JobManager, FiniteSetTheorems, TLAPS

(* What the helpers of the model do to the types.                          *)
LEMMA GotoType ==
  ASSUME TypeOK, NEW r \in Run, pc[r] # "idle",
         NEW l \in Labels \ {"idle"}, Goto(r, l)
  PROVE  /\ pc' \in [Run -> Labels]
         /\ \A s \in Run : pc'[s] = IF s = r THEN l ELSE pc[s]
         /\ \A s \in Run : pc'[s] = "idle" <=> pc[s] = "idle"
  BY DEF TypeOK, Goto, Labels, Before, Encoding, After

LEMMA DockedType ==
  ASSUME TypeOK, NEW j \in Job, NEW f \in File, NEW s \in Docker, Docked(j, f, s)
  PROVE  container' \in [Job -> [File -> Docker]]
  BY DEF TypeOK, Docked

LEMMA IndexType ==
  ASSUME TypeOK, NEW r \in Run, idx[r] # NFiles
  PROVE  /\ idx[r] \in File
         /\ [idx EXCEPT ![r] = idx[r] + 1] \in [Run -> 0 .. NFiles]
  <1>1. idx[r] \in 0 .. NFiles /\ NFiles \in Nat
    BY ManagerAssumption DEF TypeOK
  <1>2. idx[r] \in File /\ idx[r] + 1 \in 0 .. NFiles
    BY <1>1 DEF File
  <1> QED
    BY <1>2 DEF TypeOK

(* The files a job has, staged or delivered.                               *)
Kept(j) == tmp[j] \cup output[j] \cup parts[j]

(* Moves that are cut short disturb their own jobs, and nothing is lost of *)
(* a file that was not still staged.                                       *)
LEMMA MoversOnly ==
  ASSUME TypeOK, NEW movers \in SUBSET Job, CutShort(movers)
  PROVE  /\ output' \in [Job -> SUBSET File]
         /\ parts' \in [Job -> SUBSET File]
         /\ \A j \in Job : j \notin movers => output'[j] = output[j] /\ parts'[j] = parts[j]
         /\ \A j \in Job : Kept(j) \subseteq tmp[j] \cup output'[j] \cup parts'[j]
         /\ \A j \in Job : output[j] \cap parts[j] = {} => output'[j] \cap parts'[j] = {}
  <1>1. PICK hit \in [movers -> SUBSET File], part \in [movers -> SUBSET File] :
          /\ \A j \in movers : part[j] \subseteq hit[j] /\ hit[j] \subseteq tmp[j]
          /\ output' = [j \in Job |-> IF j \in movers THEN output[j] \ hit[j] ELSE output[j]]
          /\ parts' = [j \in Job |-> IF j \in movers THEN (parts[j] \ hit[j]) \cup part[j]
                                                    ELSE parts[j]]
    BY DEF CutShort
  <1>2. ASSUME NEW j \in Job
        PROVE  /\ output'[j] \in SUBSET File /\ parts'[j] \in SUBSET File
               /\ j \notin movers => output'[j] = output[j] /\ parts'[j] = parts[j]
               /\ Kept(j) \subseteq tmp[j] \cup output'[j] \cup parts'[j]
               /\ output[j] \cap parts[j] = {} => output'[j] \cap parts'[j] = {}
    <2>1. CASE j \in movers
      BY <1>1, <2>1 DEF TypeOK, Kept
    <2>2. CASE j \notin movers
      BY <1>1, <2>2 DEF TypeOK, Kept
    <2> QED
      BY <2>1, <2>2
  <1> QED
    BY <1>1, <1>2

LEMMA InFileType ==
  ASSUME TypeOK, NEW r \in Run, pc[r] \in InFile
  PROVE  job[r] \in Job /\ idx[r] \in File /\ idx[r] # NFiles
  BY ManagerAssumption DEF TypeOK, InFile, File

(* A handler that returns or goes on to its next call.                     *)
Advance(q, l) == rpc' = [rpc EXCEPT ![q] = l] /\ rjob' = rjob

HandlerTyped ==
  /\ rpc \in [Req -> {"idle", "mark", "ps", "stop", "rm", "sweep", "reset"}]
  /\ rjob \in [Req -> Job \cup {NoJob}]
  /\ \A q \in Req : rpc[q] = "idle" <=> rjob[q] = NoJob

LEMMA HandlerType ==
  ASSUME TypeOK, NEW q \in Req, rpc[q] # "idle", Return(q) \/ Advance(q, "stop")
  PROVE  HandlerTyped'
  <1>1. rjob[q] # NoJob
    BY DEF TypeOK
  <1>2. CASE Return(q)
    <2>1. \A p \in Req : /\ rpc'[p] = IF p = q THEN "idle" ELSE rpc[p]
                         /\ rjob'[p] = IF p = q THEN NoJob ELSE rjob[p]
      BY <1>2 DEF TypeOK, Return
    <2> QED
      BY <1>2, <2>1 DEF TypeOK, HandlerTyped, Return
  <1>3. CASE Advance(q, "stop")
    <2>1. \A p \in Req : rpc'[p] = IF p = q THEN "stop" ELSE rpc[p]
      BY <1>3 DEF TypeOK, Advance
    <2> QED
      BY <1>1, <1>3, <2>1 DEF TypeOK, HandlerTyped, Advance
  <1> QED
    BY <1>2, <1>3

(* Every variable has its type at the start, and every step keeps it.      *)
LEMMA TypeInit == Init => TypeOK
  BY ManagerAssumption DEF Init, TypeOK, Labels, Status, Docker, InFile, File, None

LEMMA TypeStep == TypeOK /\ [Next]_vars => TypeOK'
  <2> SUFFICES ASSUME TypeOK, [Next]_vars
               PROVE  TypeOK'
    OBVIOUS
  <2> USE DEF memory, runs, handler, disk, bounds
  <2>1. ASSUME NEW j \in Job, Submit(j)
        PROVE  TypeOK'
    BY <2>1, ManagerAssumption
    DEF TypeOK, Submit, Fresh, Spawn, Saved, Goto, Labels, Status, Active, Terminal, Before, Encoding, After, InFile,
         Docker, File, None
  <2>2. ASSUME NEW r \in Run, Acquire(r)
        PROVE  TypeOK'
    BY <2>2, ManagerAssumption
    DEF TypeOK, Acquire, SlotFree, Goto, Labels, Status, Active, Terminal, Before, Encoding, After, InFile,
         Docker, File, None
  <2>3. ASSUME NEW r \in Run, Start(r)
        PROVE  TypeOK'
    <3>1. job[r] \in Job /\ pc[r] # "idle"
      BY <2>3 DEF TypeOK, Start
    <3>2. status' \in [Job -> Status]
      BY <2>3 DEF TypeOK, Start, Status, Active, Terminal
    <3>3. PICK l \in {"clean", "file"} : Goto(r, l)
      BY <2>3 DEF Start
    <3>4. pc' \in [Run -> Labels] /\ \A s \in Run : pc'[s] = IF s = r THEN l ELSE pc[s]
      BY <3>1, <3>3, GotoType DEF Labels, Before, Encoding, After, InFile
    <3> QED
      BY <2>3, <3>1, <3>2, <3>3, <3>4 DEF TypeOK, Start, InFile
  <2>4. ASSUME NEW r \in Run, NextFile(r)
        PROVE  TypeOK'
    <3>1. job[r] \in Job /\ pc[r] # "idle"
      BY <2>4 DEF TypeOK, NextFile
    <3>2. CASE idx[r] = NFiles
      <4>1. pc' \in [Run -> Labels] /\ \A s \in Run : pc'[s] = IF s = r THEN "succeeded" ELSE pc[s]
        BY <2>4, <3>1, <3>2, GotoType DEF NextFile, Labels, Before, Encoding, After, InFile
      <4> QED
        BY <2>4, <3>1, <3>2, <4>1 DEF TypeOK, NextFile, InFile
    <3>3. CASE idx[r] # NFiles
      <4>1. persisted' \in [Job -> File \cup {None}]
        BY <2>4, <3>3, IndexType DEF TypeOK, NextFile, Saved
      <4>2. CASE Encoded(job[r], idx[r])
        <5>1. pc' = pc /\ idx' = [idx EXCEPT ![r] = idx[r] + 1]
          BY <2>4, <3>3, <4>2 DEF NextFile
        <5>2. \A s \in Run : pc[s] \in InFile => idx'[s] \in File
          BY <2>4, <5>1 DEF TypeOK, NextFile, InFile
        <5> QED
          BY <2>4, <3>1, <3>3, <4>1, <5>1, <5>2, IndexType DEF TypeOK, NextFile
      <4>3. CASE ~Encoded(job[r], idx[r])
        <5>1. Goto(r, "inspect") /\ idx' = idx
          BY <2>4, <3>3, <4>3 DEF NextFile
        <5>2. pc' \in [Run -> Labels] /\ \A s \in Run : pc'[s] = IF s = r THEN "inspect" ELSE pc[s]
          BY <3>1, <5>1, GotoType DEF Labels, Before, Encoding, After, InFile
        <5> QED
          BY <2>4, <3>1, <3>3, <4>1, <5>1, <5>2, IndexType DEF TypeOK, NextFile
      <4> QED
        BY <4>2, <4>3
    <3> QED
      BY <3>2, <3>3
  <2>5. ASSUME NEW r \in Run, Inspect(r)
        PROVE  TypeOK'
    <3>1. job[r] \in Job /\ pc[r] \in InFile /\ pc[r] # "idle"
      BY <2>5 DEF TypeOK, Inspect, InFile
    <3>2. PICK l \in {"attach", "rmstale", "launch"} : Goto(r, l)
      BY <2>5 DEF Inspect
    <3>3. pc' \in [Run -> Labels] /\ \A s \in Run : pc'[s] = IF s = r THEN l ELSE pc[s]
      BY <3>1, <3>2, GotoType DEF Labels, Before, Encoding, After, InFile
    <3> QED
      BY <2>5, <3>1, <3>3 DEF TypeOK, Inspect, InFile
  <2>6. ASSUME NEW r \in Run, RemoveStale(r)
        PROVE  TypeOK'
    <3>1. pc[r] \in InFile /\ pc[r] # "idle"
      BY <2>6 DEF RemoveStale, InFile
    <3>2. job[r] \in Job /\ idx[r] \in File
      BY <3>1, InFileType
    <3>3. PICK l \in {"launch", "errored"} : Goto(r, l)
      BY <2>6 DEF RemoveStale
    <3>4. pc' \in [Run -> Labels] /\ \A s \in Run : pc'[s] = IF s = r THEN l ELSE pc[s]
      BY <3>1, <3>3, GotoType DEF Labels, Before, Encoding, After, InFile
    <3>5. container' \in [Job -> [File -> Docker]]
      BY <2>6, <3>2, DockedType DEF TypeOK, RemoveStale, Docker
    <3> QED
      BY <2>6, <3>2, <3>4, <3>5 DEF TypeOK, RemoveStale, InFile
  <2>7. ASSUME NEW r \in Run, Launch(r)
        PROVE  TypeOK'
    <3>1. pc[r] \in InFile /\ pc[r] # "idle"
      BY <2>7 DEF Launch, InFile
    <3>2. job[r] \in Job /\ idx[r] \in File
      BY <3>1, InFileType
    <3>3. PICK l \in {"attach", "errored"} : Goto(r, l)
      BY <2>7 DEF Launch
    <3>4. pc' \in [Run -> Labels] /\ \A s \in Run : pc'[s] = IF s = r THEN l ELSE pc[s]
      BY <3>1, <3>3, GotoType DEF Labels, Before, Encoding, After, InFile
    <3>5. container' \in [Job -> [File -> Docker]]
      BY <2>7, <3>2, DockedType DEF TypeOK, Launch, Docker
    <3> QED
      BY <2>7, <3>2, <3>4, <3>5 DEF TypeOK, Launch, InFile
  <2>8. ASSUME NEW r \in Run, Attach(r)
        PROVE  TypeOK'
    BY <2>8, ManagerAssumption
    DEF TypeOK, Attach, Goto, Labels, Status, Active, Terminal, Before, Encoding, After, InFile,
         Docker, File, None
  <2>9. ASSUME NEW r \in Run, Reap(r)
        PROVE  TypeOK'
    <3>1. pc[r] \in InFile /\ pc[r] # "idle"
      BY <2>9 DEF Reap, InFile
    <3>2. job[r] \in Job /\ idx[r] \in File /\ idx[r] # NFiles
      BY <3>1, InFileType
    <3>3. PICK l \in {"file", "errored"} : Goto(r, l)
      BY <2>9 DEF Reap
    <3>4. pc' \in [Run -> Labels] /\ \A s \in Run : pc'[s] = IF s = r THEN l ELSE pc[s]
      BY <3>1, <3>3, GotoType DEF Labels, Before, Encoding, After, InFile
    <3>5. container' \in [Job -> [File -> Docker]]
      BY <2>9, <3>2, DockedType DEF TypeOK, Reap, Docker
    <3>6. /\ idx' \in [Run -> 0 .. NFiles]
          /\ \A s \in Run : s # r => idx'[s] = idx[s]
      BY <2>9, <3>2, IndexType DEF TypeOK, Reap
    <3>7. \A s \in Run : pc'[s] \in InFile => idx'[s] \in File
      BY <3>3, <3>4, <3>6 DEF TypeOK, InFile
    <3> QED
      BY <2>9, <3>1, <3>2, <3>3, <3>4, <3>5, <3>6, <3>7 DEF TypeOK, Reap
  <2>10. ASSUME NEW r \in Run, Settle(r)
        PROVE  TypeOK'
    <3>1. job[r] \in Job /\ pc[r] # "idle"
      BY <2>10 DEF TypeOK, Settle
    <3>2. status' \in [Job -> Status]
      BY <2>10 DEF TypeOK, Settle, Status, Active, Terminal
    <3>3. PICK l \in {"clean", "move"} : Goto(r, l)
      BY <2>10 DEF Settle
    <3>4. pc' \in [Run -> Labels] /\ \A s \in Run : pc'[s] = IF s = r THEN l ELSE pc[s]
      BY <3>1, <3>3, GotoType DEF Labels, Before, Encoding, After, InFile
    <3> QED
      BY <2>10, <3>1, <3>2, <3>3, <3>4 DEF TypeOK, Settle, InFile
  <2>11. ASSUME NEW r \in Run, MoveEntry(r)
        PROVE  TypeOK'
    <3>1. job[r] \in Job /\ UNCHANGED <<memory, runs, handler, container, persisted, bounds>>
      BY <2>11 DEF TypeOK, MoveEntry
    <3>2. PICK f \in tmp[job[r]] :
            /\ tmp' = [tmp EXCEPT ![job[r]] = @ \ {f}]
            /\ \/ /\ output' = [output EXCEPT ![job[r]] = @ \cup {f}]
                  /\ parts' = [parts EXCEPT ![job[r]] = @ \ {f}]
               \/ UNCHANGED <<output, parts>>
      BY <2>11 DEF MoveEntry
    <3>3. /\ tmp' \in [Job -> SUBSET File] /\ output' \in [Job -> SUBSET File]
          /\ parts' \in [Job -> SUBSET File]
      <4>1. f \in File /\ tmp' \in [Job -> SUBSET File]
        BY <3>1, <3>2 DEF TypeOK
      <4>2. CASE UNCHANGED <<output, parts>>
        BY <4>1, <4>2 DEF TypeOK
      <4>3. CASE /\ output' = [output EXCEPT ![job[r]] = @ \cup {f}]
                 /\ parts' = [parts EXCEPT ![job[r]] = @ \ {f}]
        <5>1. output[job[r]] \cup {f} \in SUBSET File /\ parts[job[r]] \ {f} \in SUBSET File
          BY <3>1, <4>1 DEF TypeOK
        <5> QED
          BY <3>1, <4>1, <4>3, <5>1 DEF TypeOK
      <4> QED
        BY <3>2, <4>2, <4>3
    <3> QED
      BY <3>1, <3>3 DEF TypeOK, memory, runs, handler, bounds
  <2>12. ASSUME NEW r \in Run, MoveFails(r)
        PROVE  TypeOK'
    <3>1. job[r] \in Job /\ pc[r] = "move" /\ CutShort({job[r]}) /\ Goto(r, "clean")
      BY <2>12 DEF TypeOK, MoveFails
    <3>2. output' \in [Job -> SUBSET File] /\ parts' \in [Job -> SUBSET File]
      BY <3>1, MoversOnly
    <3>3. pc' \in [Run -> Labels] /\ \A s \in Run : pc'[s] = IF s = r THEN "clean" ELSE pc[s]
      BY <3>1, GotoType DEF Labels, Before, Encoding, After, InFile
    <3>4. status' \in [Job -> Status]
      BY <2>12, <3>1 DEF TypeOK, MoveFails, Status, Terminal
    <3> QED
      BY <2>12, <3>1, <3>2, <3>3, <3>4 DEF TypeOK, MoveFails, handler, bounds, InFile
  <2>13. ASSUME NEW r \in Run, MoveEnds(r)
        PROVE  TypeOK'
    BY <2>13, ManagerAssumption
    DEF TypeOK, MoveEnds, Goto, Labels, Status, Active, Terminal, Before, Encoding, After, InFile,
         Docker, File, None
  <2>14. ASSUME NEW r \in Run, Clean(r)
        PROVE  TypeOK'
    BY <2>14, ManagerAssumption
    DEF TypeOK, Clean, Goto, Labels, Status, Active, Terminal, Before, Encoding, After, InFile,
         Docker, File, None
  <2>15. ASSUME NEW r \in Run, Unpersist(r)
        PROVE  TypeOK'
    BY <2>15, ManagerAssumption
    DEF TypeOK, Unpersist, Goto, Labels, Status, Active, Terminal, Before, Encoding, After, InFile,
         Docker, File, None
  <2>16. ASSUME NEW r \in Run, Exit(r)
        PROVE  TypeOK'
    BY <2>16, ManagerAssumption
    DEF TypeOK, Exit, Goto, Labels, Status, Active, Terminal, Before, Encoding, After, InFile,
         Docker, File, None
  <2>17. ASSUME NEW j \in Job, NEW f \in File, WorkerSucceeds(j, f)
        PROVE  TypeOK'
    BY <2>17, ManagerAssumption
    DEF TypeOK, WorkerSucceeds, Docked, Goto, Labels, Status, Active, Terminal, Before, Encoding, After, InFile,
         Docker, File, None
  <2>18. ASSUME NEW j \in Job, NEW f \in File, WorkerFails(j, f)
        PROVE  TypeOK'
    BY <2>18, ManagerAssumption
    DEF TypeOK, WorkerFails, Docked, Goto, Labels, Status, Active, Terminal, Before, Encoding, After, InFile,
         Docker, File, None
  <2>19. ASSUME NEW q \in Req, NEW j \in Job, Cancel(q, j)
        PROVE  TypeOK'
    BY <2>19, ManagerAssumption
    DEF TypeOK, Cancel, Admit, Goto, Labels, Status, Active, Terminal, Before, Encoding, After, InFile,
         Docker, File, None
  <2>20. ASSUME NEW q \in Req, CancelMark(q)
        PROVE  TypeOK'
    BY <2>20, ManagerAssumption
    DEF TypeOK, CancelMark, Goto, Labels, Status, Active, Terminal, Before, Encoding, After, InFile,
         Docker, File, None
  <2>21. ASSUME NEW q \in Req, CancelPs(q)
        PROVE  TypeOK'
    <3> DEFINE found == {f \in File : container[rjob[q]][f] # "none"}
    <3>1. names' \in [Req -> SUBSET File]
      <4>1. names' = [names EXCEPT ![q] = found] /\ found \in SUBSET File
        BY <2>21 DEF CancelPs
      <4> HIDE DEF found
      <4> QED
        BY <4>1 DEF TypeOK
    <3>2. Return(q) \/ Advance(q, "stop")
      BY <2>21 DEF CancelPs, Advance
    <3>3. HandlerTyped'
      BY <2>21, <3>2, HandlerType DEF CancelPs
    <3>4. UNCHANGED <<memory, runs, container, disk, bounds>>
      BY <2>21 DEF CancelPs
    <3> QED
      BY <3>1, <3>3, <3>4 DEF TypeOK, HandlerTyped
  <2>22. ASSUME NEW q \in Req, CancelStop(q)
        PROVE  TypeOK'
    BY <2>22, ManagerAssumption
    DEF TypeOK, CancelStop, Goto, Labels, Status, Active, Terminal, Before, Encoding, After, InFile,
         Docker, File, None
  <2>23. ASSUME NEW q \in Req, CancelRm(q)
        PROVE  TypeOK'
    <3>1. names' \in [Req -> SUBSET File]
      <4>1. names' = [names EXCEPT ![q] = names[q] \ {First(q)}]
        BY <2>23 DEF CancelRm
      <4> QED
        BY <4>1 DEF TypeOK
    <3>2. container' \in [Job -> [File -> Docker]]
      <4>1. \/ container' = container
            \/ container' = [container EXCEPT ![rjob[q]][First(q)] = "none"]
        BY <2>23 DEF CancelRm
      <4>2. rjob[q] \in Job
        BY <2>23 DEF CancelRm, TypeOK
      <4>3. [container[rjob[q]] EXCEPT ![First(q)] = "none"] \in [File -> Docker]
        BY <4>2 DEF TypeOK, Docker
      <4> QED
        BY <4>1, <4>2, <4>3 DEF TypeOK
    <3>3. Return(q) \/ Advance(q, "stop")
      BY <2>23 DEF CancelRm, Advance
    <3>4. HandlerTyped'
      BY <2>23, <3>3, HandlerType DEF CancelRm
    <3>5. UNCHANGED <<memory, runs, disk, bounds>>
      BY <2>23 DEF CancelRm
    <3> QED
      BY <3>1, <3>2, <3>4, <3>5 DEF TypeOK, HandlerTyped
  <2>24. ASSUME NEW q \in Req, NEW j \in Job, Resume(q, j)
        PROVE  TypeOK'
    BY <2>24, ManagerAssumption
    DEF TypeOK, Resume, Resumable, Admit, Goto, Labels, Status, Active, Terminal, Before, Encoding, After, InFile,
         Docker, File, None
  <2>25. ASSUME NEW q \in Req, ResumeSweep(q)
        PROVE  TypeOK'
    BY <2>25, ManagerAssumption
    DEF TypeOK, ResumeSweep, Goto, Labels, Status, Active, Terminal, Before, Encoding, After, InFile,
         Docker, File, None
  <2>26. ASSUME NEW q \in Req, ResumeReset(q)
        PROVE  TypeOK'
    BY <2>26, ManagerAssumption
    DEF TypeOK, ResumeReset, Spawn, Saved, Return, Goto, Labels, Status, Active, Terminal, Before, Encoding, After, InFile,
         Docker, File, None
  <2>27. ASSUME Restart
        PROVE  TypeOK'
    <3> DEFINE movers == {j \in Job : \E r \in LiveRun(j) : pc[r] = "move"}
    <3>1. movers \in SUBSET Job /\ CutShort(movers)
      BY <2>27 DEF Restart
    <3> HIDE DEF movers
    <3>2. output' \in [Job -> SUBSET File] /\ parts' \in [Job -> SUBSET File]
      BY <3>1, MoversOnly
    <3>3. PICK saved \in SUBSET {j \in Job : persisted[j] # None} : Reconcile(saved)
      BY <2>27 DEF Restart
    <3>4. \A r \in Run : job'[r] # NoJob => job'[r] \in saved /\ persisted'[job'[r]] \in File
      BY <3>3 DEF TypeOK, Reconcile
    <3>5. /\ status' \in [Job -> Status] /\ cancelled' \in [Job -> BOOLEAN]
          /\ persisted' \in [Job -> File \cup {None}] /\ job' \in [Run -> Job \cup {NoJob}]
      BY <3>3 DEF TypeOK, Reconcile, Status, Active
    <3>6. /\ pc' \in [Run -> Labels] /\ \A r \in Run : pc'[r] = "idle" <=> job'[r] = NoJob
          /\ \A r \in Run : pc'[r] \notin InFile
      BY <3>3 DEF Reconcile, Labels, Before, Encoding, InFile
    <3>7. idx' \in [Run -> 0 .. NFiles]
      BY <3>3, <3>4, ManagerAssumption DEF Reconcile, File, None
    <3>8. /\ spoiled' \subseteq Job /\ restarts' \in Nat /\ slots' \subseteq Run
          /\ rpc' = [q \in Req |-> "idle"] /\ rjob' = [q \in Req |-> NoJob]
          /\ names' = [q \in Req |-> {}] /\ UNCHANGED <<container, tmp, resumes>>
      BY <2>27 DEF TypeOK, Restart
    <3> QED
      BY <3>2, <3>5, <3>6, <3>7, <3>8 DEF TypeOK
  <2>28. CASE UNCHANGED vars
    BY <2>28 DEF TypeOK, vars
  <2> QED
    BY <2>1, <2>2, <2>3, <2>4, <2>5, <2>6, <2>7, <2>8,
       <2>9, <2>10, <2>11, <2>12, <2>13, <2>14, <2>15, <2>16,
       <2>17, <2>18, <2>19, <2>20, <2>21, <2>22, <2>23, <2>24,
       <2>25, <2>26, <2>27, <2>28
    DEF Next, RunStep, ReqStep

(* Every variable of the job manager keeps its type; in particular a       *)
(* goroutine that has returned names no job, and one at work on a file     *)
(* has a file to work on.                                                  *)
THEOREM TypeCorrect == Spec => []TypeOK
  BY TypeInit, TypeStep, PTL DEF Spec
-----------------------------------------------------------------------------
(* The steps of a run, seen from its slot, its job and its status: besides *)
(* taking and returning the slot it begins, finishes, drops its state file *)
(* or stays in its phase.                                                  *)
Holding == {"start"} \cup Encoding \cup After

Begin(r) == /\ pc[r] = "start" /\ ~cancelled[job[r]]
            /\ pc' = [pc EXCEPT ![r] = "file"]
            /\ status' = [status EXCEPT ![job[r]] = "running"]
            /\ UNCHANGED <<job, slots, persisted, handler>>

Finish(r) == /\ pc[r] \in {"start"} \cup Encoding
             /\ pc' = [pc EXCEPT ![r] = "clean"]
             /\ \E s \in Terminal :
                  /\ status' = [status EXCEPT ![job[r]] = s]
                  /\ pc[r] = "start" => s = "cancelled"
             /\ UNCHANGED <<job, slots, persisted, handler>>

Stay(r) == /\ \E l \in Labels :
                /\ pc' = [pc EXCEPT ![r] = l]
                /\ \/ pc[r] \in Encoding /\ l \in Encoding
                   \/ pc[r] = "clean" /\ l = "unpersist"
           /\ \/ persisted' = persisted
              \/ \E i \in File : persisted' = [persisted EXCEPT ![job[r]] = i]
           /\ UNCHANGED <<status, job, slots, handler>>

LEMMA RunPhases ==
  ASSUME TypeOK, NEW r \in Run, RunStep(r)
  PROVE  Acquire(r) \/ Begin(r) \/ Finish(r) \/ Stay(r) \/ Unpersist(r) \/ Exit(r)
  <1> USE DEF memory, runs, handler, disk, bounds
  <1>1. ASSUME Start(r)
        PROVE  Begin(r) \/ Finish(r)
    BY <1>1 DEF Start, Begin, Finish, Goto, Terminal
  <1>2. ASSUME NextFile(r)
        PROVE  Stay(r)
    <2>1. CASE idx[r] = NFiles
      BY <1>2, <2>1 DEF NextFile, Stay, Goto, Encoding, Labels
    <2>2. CASE idx[r] # NFiles /\ Encoded(job[r], idx[r])
      <3>1. pc' = [pc EXCEPT ![r] = "file"] /\ pc[r] = "file"
        BY <1>2, <2>2 DEF NextFile, TypeOK
      <3>2. \E i \in File : persisted' = [persisted EXCEPT ![job[r]] = i]
        BY <1>2, <2>2, IndexType DEF NextFile, Saved
      <3> QED
        BY <1>2, <2>2, <3>1, <3>2 DEF NextFile, Stay, Encoding, Labels
    <2>3. CASE idx[r] # NFiles /\ ~Encoded(job[r], idx[r])
      <3>1. pc' = [pc EXCEPT ![r] = "inspect"] /\ pc[r] = "file"
        BY <1>2, <2>3 DEF NextFile, Goto
      <3>2. \E i \in File : persisted' = [persisted EXCEPT ![job[r]] = i]
        BY <1>2, <2>3, IndexType DEF NextFile, Saved
      <3> QED
        BY <1>2, <2>3, <3>1, <3>2 DEF NextFile, Stay, Encoding, Labels
    <2> QED
      BY <2>1, <2>2, <2>3
  <1>3. ASSUME Inspect(r) \/ RemoveStale(r) \/ Launch(r) \/ Attach(r) \/ Reap(r)
        PROVE  Stay(r)
    <2> USE DEF Stay, Encoding, Labels, Goto
    <2>1. CASE Inspect(r)
      BY <2>1 DEF Inspect
    <2>2. CASE RemoveStale(r)
      BY <2>2 DEF RemoveStale
    <2>3. CASE Launch(r)
      BY <2>3 DEF Launch
    <2>4. CASE Attach(r)
      BY <2>4 DEF Attach
    <2>5. CASE Reap(r)
      BY <2>5 DEF Reap
    <2> QED
      BY <1>3, <2>1, <2>2, <2>3, <2>4, <2>5
  <1>4. ASSUME Settle(r)
        PROVE  Stay(r) \/ Finish(r)
    BY <1>4 DEF Settle, Stay, Finish, Encoding, Labels, Terminal, Goto
  <1>5. ASSUME MoveEntry(r)
        PROVE  Stay(r)
    BY <1>5 DEF MoveEntry, Stay, Encoding, Labels, TypeOK
  <1>6. ASSUME MoveFails(r) \/ MoveEnds(r)
        PROVE  Finish(r)
    BY <1>6 DEF MoveFails, MoveEnds, Finish, Encoding, Terminal, Goto
  <1>7. ASSUME Clean(r)
        PROVE  Stay(r)
    BY <1>7 DEF Clean, Stay, Labels, After, Goto
  <1> QED
    BY <1>1, <1>2, <1>3, <1>4, <1>5, <1>6, <1>7 DEF RunStep
(* A step of a worker, and a step of a handler other than the last of a    *)
(* Resume, touch no run, no status and no state file.                      *)
LEMMA Bystanders ==
  /\ \A j \in Job, f \in File :
       WorkerSucceeds(j, f) \/ WorkerFails(j, f)
         => UNCHANGED <<status, runs, persisted, handler>>
  /\ \A q \in Req, j \in Job :
       Cancel(q, j) \/ Resume(q, j) => UNCHANGED <<status, runs, persisted>>
  /\ \A q \in Req :
       CancelMark(q) \/ CancelPs(q) \/ CancelStop(q) \/ CancelRm(q) \/ ResumeSweep(q)
         => UNCHANGED <<status, runs, persisted>>
  BY DEF WorkerSucceeds, WorkerFails, Cancel, Resume, CancelMark, CancelPs,
         CancelStop, CancelRm, ResumeSweep, memory, runs, disk, handler

-----------------------------------------------------------------------------
(* The slots.  The strengthening says who holds one: every run from the    *)
(* moment it acquired it until it returns; and that a job which says       *)
(* "running" has a run in its encoding phase, which holds a slot.          *)
Held == slots = {r \in Run : pc[r] \in Holding}

Bounded == Cardinality(slots) <= MaxConcurrent

Backed == \A j \in Job : status[j] = "running"
                           => \E r \in Run : job[r] = j /\ pc[r] \in Encoding

SInv == TypeOK /\ Held /\ Bounded /\ Backed

LEMMA SlotsCounted == TypeOK => IsFiniteSet(slots) /\ Cardinality(slots) \in Nat
  BY ManagerAssumption, FS_Subset, FS_CardinalityType DEF TypeOK

LEMMA SlotsInit == Init => SInv
  <1> SUFFICES ASSUME Init
               PROVE  SInv
    OBVIOUS
  <1>1. Cardinality(slots) = 0
    BY FS_EmptySet DEF Init
  <1> QED
    BY <1>1, TypeInit, ManagerAssumption
    DEF Init, SInv, Held, Bounded, Backed, Holding, Encoding, After

LEMMA SlotsStep == SInv /\ [Next]_vars => SInv'
  <1> SUFFICES ASSUME SInv, [Next]_vars
               PROVE  SInv'
    OBVIOUS
  <1>t. TypeOK /\ TypeOK'
    BY TypeStep DEF SInv
  <1>s. IsFiniteSet(slots) /\ Cardinality(slots) \in Nat
    BY <1>t, SlotsCounted
  <1> USE DEF Holding, Encoding, After
  <1>1. ASSUME NEW r \in Run, Acquire(r)
        PROVE  SInv'
    <2>1. r \notin slots /\ slots' = slots \cup {r}
      BY <1>1 DEF Acquire, SInv, Held
    <2>2. Cardinality(slots') = Cardinality(slots) + 1
      BY <2>1, <1>s, FS_AddElement
    <2>3. Bounded'
      BY <2>2, <1>1, <1>s, ManagerAssumption DEF Acquire, SlotFree, Bounded
    <2>4. \A s \in Run : pc'[s] = IF s = r THEN "start" ELSE pc[s]
      BY <1>1, <1>t DEF Acquire, Goto, TypeOK
    <2>5. Held'
      BY <2>1, <2>4, <1>1 DEF Held, SInv
    <2>6. Backed'
      BY <2>4, <1>1 DEF Acquire, Backed, SInv, memory
    <2> QED
      BY <1>t, <2>3, <2>5, <2>6 DEF SInv
  <1>2. ASSUME NEW r \in Run, Begin(r) \/ Finish(r) \/ Stay(r)
        PROVE  SInv'
    <2>1. PICK l \in Holding : /\ pc' = [pc EXCEPT ![r] = l]
                               /\ pc[r] \in Holding
      BY <1>2 DEF Begin, Finish, Stay
    <2>2. \A s \in Run : pc'[s] = IF s = r THEN l ELSE pc[s]
      BY <2>1, <1>t DEF TypeOK
    <2>3. slots' = slots /\ job' = job
      BY <1>2 DEF Begin, Finish, Stay
    <2>4. Held' /\ Bounded'
      BY <2>1, <2>2, <2>3 DEF Held, Bounded, SInv
    <2>5. Backed'
      <3>1. job[r] \in Job
        BY <2>1, <1>t DEF TypeOK
      <3>2. CASE Begin(r)
        <4>1. pc'[r] = "file"
          BY <3>2, <1>t DEF Begin, TypeOK
        <4>2. \A j \in Job : status'[j] = IF j = job[r] THEN "running" ELSE status[j]
          BY <3>2, <1>t DEF Begin, TypeOK
        <4>3. \A s \in Run : pc[s] \in Encoding => pc'[s] \in Encoding
          BY <2>2, <4>1
        <4> QED
          BY <4>1, <4>2, <4>3, <2>3 DEF Backed, SInv
      <3>3. CASE Finish(r)
        <4>1. \A j \in Job : status'[j] = "running" => j # job[r] /\ status[j] = "running"
          BY <3>3, <1>t DEF Finish, TypeOK, Terminal
        <4> QED
          BY <4>1, <2>2, <2>3 DEF Backed, SInv
      <3>4. CASE Stay(r)
        <4>1. status' = status /\ \A s \in Run : pc[s] \in Encoding => pc'[s] \in Encoding
          BY <3>4, <1>t DEF Stay, TypeOK
        <4> QED
          BY <4>1, <2>3 DEF Backed, SInv
      <3> QED
        BY <1>2, <3>2, <3>3, <3>4
    <2> QED
      BY <1>t, <2>4, <2>5 DEF SInv
  <1>3. ASSUME NEW r \in Run, Unpersist(r)
        PROVE  SInv'
    <2>1. \A s \in Run : pc'[s] = IF s = r THEN "exit" ELSE pc[s]
      BY <1>3, <1>t DEF Unpersist, Goto, TypeOK
    <2>2. pc[r] = "unpersist" /\ UNCHANGED <<status, job, slots>>
      BY <1>3 DEF Unpersist, memory
    <2> QED
      BY <1>t, <2>1, <2>2 DEF SInv, Held, Bounded, Backed
  <1>4. ASSUME NEW r \in Run, Exit(r)
        PROVE  SInv'
    <2>1. \A s \in Run : pc'[s] = IF s = r THEN "idle" ELSE pc[s]
      BY <1>4, <1>t DEF Exit, TypeOK
    <2>2. \A s \in Run : s # r => job'[s] = job[s]
      BY <1>4, <1>t DEF Exit, TypeOK
    <2>3. /\ pc[r] = "exit"
          /\ slots' = slots \ {r}
          /\ status' = status
      BY <1>4 DEF Exit, memory
    <2>4. Held'
      BY <2>1, <2>3 DEF Held, SInv
    <2>5. Cardinality(slots') <= Cardinality(slots) /\ Cardinality(slots') \in Nat
      BY <2>3, <1>s, FS_Subset, FS_CardinalityType
    <2>6. Bounded'
      BY <2>5, <1>s, ManagerAssumption DEF Bounded, SInv
    <2>7. Backed'
      BY <2>1, <2>2, <2>3 DEF Backed, SInv
    <2> QED
      BY <1>t, <2>4, <2>6, <2>7 DEF SInv
  <1>5. ASSUME NEW r \in Run, NEW j \in Job, Spawn(r, j),
               status' = [status EXCEPT ![j] = "queued"]
        PROVE  SInv'
    <2>1. /\ \A s \in Run : pc'[s] = IF s = r THEN "wait" ELSE pc[s]
          /\ \A s \in Run : s # r => job'[s] = job[s]
          /\ \A k \in Job : status'[k] = "running" => status[k] = "running"
          /\ pc[r] = "idle" /\ slots' = slots
      BY <1>5, <1>t DEF Spawn, TypeOK
    <2> QED
      BY <1>t, <2>1 DEF SInv, Held, Bounded, Backed
  <1>6. ASSUME Restart
        PROVE  SInv'
    <2>1. slots' = {} /\ Cardinality({}) = 0
      BY <1>6, FS_EmptySet DEF Restart
    <2>2. \A r \in Run : pc'[r] \in {"idle", "wait"}
      BY <1>6 DEF Restart, Reconcile
    <2>3. \A j \in Job : status'[j] # "running"
      BY <1>6 DEF Restart, Reconcile
    <2>4. Held' /\ Bounded' /\ Backed'
      BY <2>1, <2>2, <2>3, ManagerAssumption DEF Held, Bounded, Backed
    <2> QED
      BY <1>t, <2>4 DEF SInv
  <1>7. CASE UNCHANGED <<status, pc, job, slots>>
    BY <1>t, <1>7 DEF SInv, Held, Bounded, Backed
  <1>8. ASSUME NEW j \in Job, Submit(j)
        PROVE  SInv'
    BY <1>5, <1>8 DEF Submit
  <1>9. ASSUME NEW q \in Req, ResumeReset(q)
        PROVE  SInv'
    <2>1. rjob[q] \in Job
      BY <1>9, <1>t DEF ResumeReset, TypeOK
    <2> QED
      BY <1>5, <1>9, <2>1 DEF ResumeReset
  <1>10. ASSUME NEW r \in Run, RunStep(r)
         PROVE  SInv'
    BY <1>t, <1>1, <1>2, <1>3, <1>4, <1>10, RunPhases
  <1>11. CASE UNCHANGED vars
    BY <1>7, <1>11 DEF vars, memory, runs
  <1> QED
    BY <1>6, <1>7, <1>8, <1>9, <1>10, <1>11, Bystanders DEF Next, ReqStep, runs

(* MAX_CONCURRENT bounds the runs past the semaphore, and a job that says  *)
(* "running" has a run that holds one of its slots, however submissions,   *)
(* cancels, resumes and restarts interleave.                               *)
LEMMA SlotsImply == SInv => SlotDiscipline
  BY DEF SInv, Held, Bounded, Backed, SlotDiscipline, LiveRun, Holding

THEOREM SlotsBounded == Spec => []SlotDiscipline
  <1>1. Spec => []SInv
    BY SlotsInit, SlotsStep, PTL DEF Spec
  <1> QED
    BY <1>1, SlotsImply, PTL
-----------------------------------------------------------------------------
(* One run per job, and a state file for every active job, as long as      *)
(* Resume is called only once the job's last run has returned and no other *)
(* request for the job is in progress.  The strengthening ties the status  *)
(* of a job to the phase of its one run, the state file to every phase     *)
(* before the last, and keeps the job of a Resume in progress at rest.     *)
Phased == \A r \in Run :
  /\ pc[r] \in Before => status[job[r]] = "queued"
  /\ pc[r] \in Encoding => status[job[r]] = "running"
  /\ pc[r] \in After => status[job[r]] \in Terminal

Manned == \A j \in Job : status[j] \in Active => \E r \in Run : job[r] = j

Filed == \A r \in Run :
  pc[r] \in Before \cup Encoding \cup {"clean", "unpersist"} => persisted[job[r]] # None

Unfiled == \A j \in Job : status[j] \in {"absent", "gone"} => persisted[j] = None

AtRest == \A q \in Req : rpc[q] \in {"sweep", "reset"} =>
  /\ status[rjob[q]] \in {"failed", "cancelled"}
  /\ \A r \in Run : job[r] # rjob[q]
  /\ \A p \in Req : rjob[p] = rjob[q] => p = q

PInv == OneRun /\ Phased /\ Manned /\ Filed /\ Unfiled /\ AtRest

LEMMA PatientInit == Init => PInv
  BY DEF Init, PInv, OneRun, Phased, Manned, Filed, Unfiled, AtRest,
         Before, Encoding, After, Active

(* A step of a run.                                                        *)
LEMMA PatientRun ==
  ASSUME TypeOK, TypeOK', PInv, NEW r \in Run, RunStep(r)
  PROVE  PInv'
  <1>j. pc[r] # "idle" /\ job[r] \in Job
    <2>1. pc[r] # "idle"
      BY RunPhases DEF Acquire, Begin, Finish, Stay, Unpersist, Exit, Encoding
    <2> QED
      BY <2>1 DEF TypeOK
  <1>1. ASSUME Exit(r)
        PROVE  PInv'
    <2>1. /\ \A s \in Run : pc'[s] = IF s = r THEN "idle" ELSE pc[s]
          /\ \A s \in Run : job'[s] = IF s = r THEN NoJob ELSE job[s]
      BY <1>1 DEF Exit, TypeOK
    <2>2. UNCHANGED <<status, persisted, rpc, rjob>> /\ pc[r] = "exit"
      BY <1>1 DEF Exit, memory, handler, disk
    <2>3. NoJob \notin Job
      BY ManagerAssumption
    <2>4. OneRun'
      BY <2>1 DEF PInv, OneRun
    <2>5. Phased' /\ Filed' /\ Unfiled'
      BY <2>1, <2>2 DEF PInv, Phased, Filed, Unfiled, Before, Encoding, After
    <2>6. Manned'
      BY <2>1, <2>2 DEF PInv, Manned, Phased, After, Active, Terminal
    <2>7. AtRest'
      <3>1. ASSUME NEW q \in Req, rpc[q] \in {"sweep", "reset"}
            PROVE  rjob[q] \in Job
        BY <3>1 DEF TypeOK
      <3> QED
        BY <2>1, <2>2, <2>3, <3>1 DEF PInv, AtRest
    <2> QED
      BY <2>4, <2>5, <2>6, <2>7 DEF PInv
  <1>2. ASSUME Acquire(r) \/ Begin(r) \/ Finish(r) \/ Stay(r) \/ Unpersist(r)
        PROVE  PInv'
    <2>1. PICK l \in Labels : pc' = [pc EXCEPT ![r] = l]
      BY <1>2 DEF Acquire, Begin, Finish, Stay, Unpersist, Goto,
                  Labels, Before, Encoding, After
    <2>2. \A s \in Run : pc'[s] = IF s = r THEN l ELSE pc[s]
      BY <2>1 DEF TypeOK
    <2>3. UNCHANGED <<job, rpc, rjob>>
      BY <1>2 DEF Acquire, Begin, Finish, Stay, Unpersist, handler
    <2>4. OneRun'
      BY <2>3 DEF PInv, OneRun
    <2>5. \A s \in Run : s # r => job[s] # job[r]
      BY <1>j, ManagerAssumption DEF PInv, OneRun
    <2>6. \A k \in Job : k # job[r] => status'[k] = status[k] /\ persisted'[k] = persisted[k]
      BY <1>2, <1>j DEF Acquire, Begin, Finish, Stay, Unpersist, TypeOK, memory, disk
    <2>7. /\ l \in Before => status'[job[r]] = "queued"
          /\ l \in Encoding => status'[job[r]] = "running"
          /\ l \in After => status'[job[r]] \in Terminal
      <3> USE DEF Before, Encoding, After, Terminal
      <3>1. CASE Acquire(r)
        BY <3>1, <2>2 DEF Acquire, Goto, TypeOK, PInv, Phased, memory
      <3>2. CASE Begin(r)
        BY <3>2, <2>2, <1>j DEF Begin, TypeOK
      <3>3. CASE Finish(r)
        BY <3>3, <2>2, <1>j DEF Finish, TypeOK
      <3>4. CASE Stay(r)
        BY <3>4, <2>2 DEF Stay, TypeOK, PInv, Phased
      <3>5. CASE Unpersist(r)
        BY <3>5, <2>2 DEF Unpersist, Goto, TypeOK, PInv, Phased, memory
      <3> QED
        BY <1>2, <3>1, <3>2, <3>3, <3>4, <3>5
    <2>8. l \in Before \cup Encoding \cup {"clean", "unpersist"} => persisted'[job[r]] # None
      <3> USE DEF Before, Encoding
      <3>1. CASE Acquire(r) \/ Begin(r) \/ Finish(r)
        BY <3>1, <2>2 DEF Acquire, Begin, Finish, Goto, TypeOK, PInv, Filed, disk
      <3>2. CASE Stay(r)
        <4>1. persisted[job[r]] # None
          BY <3>2 DEF Stay, PInv, Filed
        <4>2. None \notin File
          BY ManagerAssumption DEF File, None
        <4> QED
          BY <3>2, <4>1, <4>2, <1>j DEF Stay, TypeOK
      <3>3. CASE Unpersist(r)
        BY <3>3, <2>2 DEF Unpersist, Goto, TypeOK
      <3> QED
        BY <1>2, <3>1, <3>2, <3>3
    <2>9. Phased' /\ Filed'
      <3>1. \A s \in Run : pc[s] # "idle" => job[s] \in Job
        BY DEF TypeOK
      <3> QED
        BY <2>2, <2>3, <2>5, <2>6, <2>7, <2>8, <3>1
        DEF PInv, Phased, Filed, Before, Encoding, After
    <2>10. Manned'
      BY <2>3, <2>6 DEF PInv, Manned
    <2>11. l # "idle"
      BY <2>2, <2>3, <1>j, ManagerAssumption DEF TypeOK
    <2>12. status'[job[r]] \notin {"absent", "gone"}
      BY <2>7, <2>11 DEF Labels, Terminal, Before, Encoding, After
    <2>13. Unfiled'
      BY <2>6, <2>12 DEF PInv, Unfiled
    <2>14. AtRest'
      <3>1. ASSUME NEW q \in Req, rpc[q] \in {"sweep", "reset"}
            PROVE  rjob[q] \in Job /\ rjob[q] # job[r]
        BY <3>1 DEF TypeOK, PInv, AtRest
      <3> QED
        BY <2>3, <2>6, <3>1 DEF PInv, AtRest
    <2> QED
      BY <2>4, <2>9, <2>10, <2>13, <2>14 DEF PInv
  <1> QED
    BY <1>1, <1>2, RunPhases
(* The start of a run: of a new job, or of a job at rest.                  *)
LEMMA PatientSpawn ==
  ASSUME TypeOK, TypeOK', PInv,
         NEW r \in Run, NEW j \in Job, Spawn(r, j), Saved(j, 0),
         status' = [status EXCEPT ![j] = "queued"],
         \A s \in Run : job[s] # j,
         \A q \in Req : rpc'[q] \in {"sweep", "reset"} =>
           rpc[q] = rpc'[q] /\ rjob'[q] = rjob[q] /\ rjob[q] # j,
         \A q \in Req : rjob'[q] = NoJob \/ rjob'[q] = rjob[q]
  PROVE  PInv'
  <1>1. /\ \A s \in Run : pc'[s] = IF s = r THEN "wait" ELSE pc[s]
        /\ \A s \in Run : job'[s] = IF s = r THEN j ELSE job[s]
        /\ \A k \in Job : status'[k] = IF k = j THEN "queued" ELSE status[k]
        /\ \A k \in Job : persisted'[k] = IF k = j THEN 0 ELSE persisted[k]
        /\ pc[r] = "idle"
    BY DEF Spawn, Saved, TypeOK
  <1>2. \A s \in Run : pc[s] # "idle" => job[s] \in Job
    BY DEF TypeOK
  <1>3. OneRun'
    BY <1>1 DEF PInv, OneRun
  <1>4. Phased' /\ Filed'
    BY <1>1, <1>2 DEF PInv, Phased, Filed, Before, Encoding, After, None
  <1>5. Manned'
    <2>1. \A s \in Run : job[s] \in Job => s # r
      BY <1>1, ManagerAssumption DEF TypeOK
    <2> QED
      BY <1>1, <2>1 DEF PInv, Manned
  <1>6. Unfiled'
    BY <1>1 DEF PInv, Unfiled
  <1>7. AtRest'
    <2>1. ASSUME NEW q \in Req, rpc'[q] \in {"sweep", "reset"}
          PROVE  /\ rpc[q] \in {"sweep", "reset"}
                 /\ rjob'[q] = rjob[q]
                 /\ rjob[q] # j
                 /\ rjob[q] \in Job
      BY <2>1 DEF TypeOK
    <2>2. NoJob \notin Job
      BY ManagerAssumption
    <2> QED
      BY <1>1, <2>1, <2>2 DEF PInv, AtRest
  <1> QED
    BY <1>3, <1>4, <1>5, <1>6, <1>7 DEF PInv

(* A step of a handler that leaves the runs and the state files alone.     *)
LEMMA PatientHandler ==
  ASSUME TypeOK, TypeOK', PInv, NEW q \in Req,
         UNCHANGED <<status, pc, job, persisted>>,
         \A p \in Req : p # q => rpc'[p] = rpc[p] /\ rjob'[p] = rjob[p],
         \/ rjob'[q] \in {rjob[q], NoJob} /\ rpc'[q] \notin {"sweep", "reset"}
         \/ rjob'[q] = rjob[q] /\ rpc[q] \in {"sweep", "reset"}
         \/ /\ rpc'[q] \notin {"sweep", "reset"}
            /\ status[rjob'[q]] \in Active
         \/ /\ rpc'[q] \in {"sweep", "reset"}
            /\ status[rjob'[q]] \in {"failed", "cancelled"}
            /\ \A r \in Run : job[r] # rjob'[q]
            /\ \A p \in Req : rjob[p] # rjob'[q]
  PROVE  PInv'
  <1>1. OneRun' /\ Phased' /\ Manned' /\ Filed' /\ Unfiled'
    BY DEF PInv, OneRun, Phased, Manned, Filed, Unfiled
  <1>2. NoJob \notin Job
    BY ManagerAssumption
  <1>3. \A p \in Req : rpc[p] \in {"sweep", "reset"} => rjob[p] \in Job
    BY DEF TypeOK
  <1>4. AtRest'
    BY <1>2, <1>3 DEF PInv, AtRest, Active
  <1> QED
    BY <1>1, <1>4 DEF PInv

LEMMA PatientRestart ==
  ASSUME TypeOK, TypeOK', PInv, Restart
  PROVE  PInv'
  <1>1. PICK torn \in SUBSET {j \in Job : Torn(j)}, saved \in SUBSET Job :
          /\ saved = {j \in Job : persisted[j] # None} \ torn
          /\ status' = [j \in Job |-> IF j \in saved THEN "queued"
                                     ELSE IF status[j] = "absent" THEN "absent"
                                     ELSE "gone"]
          /\ persisted' = [j \in Job |-> IF j \in saved THEN persisted[j] ELSE None]
          /\ \A j \in saved : \E r \in Run : job'[r] = j
          /\ \A r, s \in Run : job'[r] = job'[s] /\ job'[r] # NoJob => r = s
          /\ \A r \in Run : job'[r] \in saved \cup {NoJob}
          /\ \A r \in Run : pc'[r] = IF job'[r] = NoJob THEN "idle" ELSE "wait"
    <2>1. PICK torn \in SUBSET {j \in Job : Torn(j)} :
            Reconcile({j \in Job : persisted[j] # None} \ torn)
      BY DEF Restart
    <2> DEFINE saved == {j \in Job : persisted[j] # None} \ torn
    <2>2. saved \in SUBSET Job
      OBVIOUS
    <2> QED
      BY <2>1, <2>2 DEF Reconcile
  <1>2. \A q \in Req : rpc'[q] = "idle"
    BY DEF Restart
  <1>3. NoJob \notin Job
    BY ManagerAssumption
  <1>4. OneRun'
    BY <1>1 DEF OneRun
  <1>5. \A r \in Run : job'[r] # NoJob => /\ job'[r] \in saved
                                          /\ status'[job'[r]] = "queued"
                                          /\ persisted'[job'[r]] # None
    BY <1>1
  <1>6. Phased' /\ Filed'
    BY <1>1, <1>5 DEF Phased, Filed, Before, Encoding, After
  <1>7. Manned'
    BY <1>1 DEF Manned, Active
  <1>8. Unfiled'
    BY <1>1 DEF Unfiled
  <1>9. AtRest'
    BY <1>2 DEF AtRest
  <1> QED
    BY <1>4, <1>6, <1>7, <1>8, <1>9 DEF PInv

LEMMA PatientStep ==
  ASSUME ~Impatient
  PROVE  TypeOK /\ TypeOK' /\ PInv /\ [Next]_vars => PInv'
  <1> SUFFICES ASSUME TypeOK, TypeOK', PInv, [Next]_vars
               PROVE  PInv'
    OBVIOUS
  <1>1. ASSUME NEW j \in Job, Submit(j)
        PROVE  PInv'
    <2>1. status[j] = "absent" /\ Saved(j, 0) /\ UNCHANGED handler
      BY <1>1 DEF Submit, Fresh
    <2>2. \A s \in Run : job[s] # j
      <3>1. SUFFICES ASSUME NEW s \in Run, job[s] = j
                     PROVE  FALSE
        OBVIOUS
      <3>2. pc[s] \in Before \cup Encoding \cup After
        BY <3>1, ManagerAssumption DEF TypeOK, Labels
      <3> QED
        BY <2>1, <3>1, <3>2 DEF PInv, Phased, Terminal
    <2>3. \A q \in Req : rpc[q] \in {"sweep", "reset"} => rjob[q] # j
      BY <2>1 DEF PInv, AtRest
    <2> QED
      BY <1>1, <2>1, <2>2, <2>3, PatientSpawn DEF Submit, handler
  <1>2. ASSUME NEW q \in Req, ResumeReset(q)
        PROVE  PInv'
    <2>1. /\ rjob[q] \in Job
          /\ rpc[q] = "reset"
          /\ Saved(rjob[q], 0)
          /\ \A p \in Req : rpc'[p] = IF p = q THEN "idle" ELSE rpc[p]
          /\ \A p \in Req : rjob'[p] = IF p = q THEN NoJob ELSE rjob[p]
      BY <1>2 DEF ResumeReset, Return, TypeOK
    <2>2. /\ \A s \in Run : job[s] # rjob[q]
          /\ \A p \in Req : rjob[p] = rjob[q] => p = q
      BY <2>1 DEF PInv, AtRest
    <2>3. PICK r \in Run : Spawn(r, rjob[q])
      BY <1>2 DEF ResumeReset
    <2>4. status' = [status EXCEPT ![rjob[q]] = "queued"]
      BY <1>2 DEF ResumeReset
    <2> QED
      BY <2>1, <2>2, <2>3, <2>4, PatientSpawn
  <1>3. ASSUME NEW q \in Req, NEW j \in Job, Cancel(q, j)
        PROVE  PInv'
    <2>1. /\ \A p \in Req : p # q => rpc'[p] = rpc[p] /\ rjob'[p] = rjob[p]
          /\ rpc'[q] = "mark" /\ rjob'[q] = j
          /\ status[j] \in Active
      BY <1>3 DEF Cancel, Admit, TypeOK
    <2> QED
      BY <1>3, <2>1, PatientHandler, Bystanders DEF runs
  <1>4. ASSUME NEW q \in Req, NEW j \in Job, Resume(q, j)
        PROVE  PInv'
    <2>1. /\ \A p \in Req : p # q => rpc'[p] = rpc[p] /\ rjob'[p] = rjob[p]
          /\ rpc'[q] = "sweep" /\ rjob'[q] = j
          /\ status[j] \in {"failed", "cancelled"}
      BY <1>4 DEF Resume, Resumable, Admit, TypeOK
    <2>2. /\ \A r \in Run : job[r] # j
          /\ \A p \in Req : rjob[p] # j
      BY <1>4 DEF Resume, LiveRun, Requests
    <2> QED
      BY <1>4, <2>1, <2>2, PatientHandler, Bystanders DEF runs
  <1>5. ASSUME NEW q \in Req,
               CancelMark(q) \/ CancelPs(q) \/ CancelStop(q) \/ CancelRm(q)
        PROVE  PInv'
    <2>1. /\ \A p \in Req : p # q => rpc'[p] = rpc[p] /\ rjob'[p] = rjob[p]
          /\ rpc'[q] \notin {"sweep", "reset"}
          /\ rjob'[q] \in {rjob[q], NoJob}
      <3>1. CASE CancelMark(q)
        BY <3>1 DEF CancelMark, TypeOK
      <3>2. CASE CancelPs(q)
        BY <3>2 DEF CancelPs, Return, TypeOK
      <3>3. CASE CancelStop(q)
        BY <3>3 DEF CancelStop, TypeOK
      <3>4. CASE CancelRm(q)
        BY <3>4 DEF CancelRm, Return, TypeOK
      <3> QED
        BY <1>5, <3>1, <3>2, <3>3, <3>4
    <2> QED
      BY <1>5, <2>1, PatientHandler, Bystanders DEF runs
  <1>6. ASSUME NEW q \in Req, ResumeSweep(q)
        PROVE  PInv'
    <2>1. /\ \A p \in Req : p # q => rpc'[p] = rpc[p] /\ rjob'[p] = rjob[p]
          /\ rpc[q] = "sweep" /\ rjob'[q] = rjob[q]
      BY <1>6 DEF ResumeSweep, TypeOK
    <2> QED
      BY <1>6, <2>1, PatientHandler, Bystanders DEF runs
  <1>7. CASE UNCHANGED <<status, runs, persisted, handler>>
    BY <1>7 DEF PInv, OneRun, Phased, Manned, Filed, Unfiled, AtRest, runs, handler
  <1>8. CASE UNCHANGED vars
    BY <1>7, <1>8 DEF vars, memory, disk
  <1> QED
    BY <1>1, <1>2, <1>3, <1>4, <1>5, <1>6, <1>7, <1>8,
       PatientRun, PatientRestart, Bystanders DEF Next, ReqStep

LEMMA PatientInvariant ==
  ASSUME ~Impatient
  PROVE  Spec => [](SInv /\ PInv)
  <1>1. Init => SInv /\ PInv
    BY SlotsInit, PatientInit
  <1>2. SInv /\ PInv /\ [Next]_vars => SInv' /\ PInv'
    BY SlotsStep, TypeStep, PatientStep DEF SInv
  <1> QED
    BY <1>1, <1>2, PTL DEF Spec

(* Two goroutines never run one job, so its TMP_DIR, its container names   *)
(* and its state file have one user; ...                                   *)
THEOREM OneRunEach == ASSUME ~Impatient PROVE Spec => []OneRun
  <1>1. PInv => OneRun
    BY DEF PInv
  <1> QED
    BY <1>1, PatientInvariant, PTL

(* ... and a restart, whenever it comes, finds a state file for every job  *)
(* that is queued or running.                                              *)
THEOREM NoJobForgotten == ASSUME ~Impatient PROVE Spec => []ActivePersisted
  <1>1. TypeOK /\ PInv => ActivePersisted
    <2> SUFFICES ASSUME TypeOK, PInv, NEW j \in Job, status[j] \in Active
                 PROVE  persisted[j] # None
      BY DEF ActivePersisted
    <2>1. PICK r \in Run : job[r] = j
      BY DEF PInv, Manned
    <2>2. pc[r] # "idle"
      BY <2>1, ManagerAssumption DEF TypeOK
    <2>3. pc[r] \in Before \cup Encoding
      BY <2>1, <2>2 DEF TypeOK, PInv, Phased, Labels, Active, Terminal
    <2> QED
      BY <2>1, <2>3 DEF PInv, Filed
  <1> QED
    BY <1>1, PatientInvariant, PTL DEF SInv
-----------------------------------------------------------------------------
(* The implementation of the documented lifecycle.                         *)

(* While a run holds a slot and has not begun, fewer than MAX_CONCURRENT   *)
(* jobs are running: each of them has a slot of its own.                   *)
LEMMA RoomToStart ==
  ASSUME SInv, PInv, NEW r \in Run, pc[r] = "start"
  PROVE  Cardinality(Lifecycle!Running) < MaxConcurrent
  <1> DEFINE Others == {s \in slots \ {r} : job[s] \in Lifecycle!Running}
             owner  == [s \in Others |-> job[s]]
  <1>1. IsFiniteSet(slots) /\ Cardinality(slots) \in Nat
    BY SlotsCounted DEF SInv
  <1>2. r \in slots
    BY DEF SInv, Held, Holding
  <1>3. /\ IsFiniteSet(slots \ {r})
        /\ Cardinality(slots \ {r}) = Cardinality(slots) - 1
    BY <1>1, <1>2, FS_RemoveElement
  <1>4. IsFiniteSet(Others) /\ Cardinality(Others) <= Cardinality(slots \ {r})
    BY <1>3, FS_Subset
  <1>5. \A j \in Lifecycle!Running : \E s \in Others : owner[s] = j
    <2>1. SUFFICES ASSUME NEW j \in Job, status[j] = "running"
                   PROVE  \E s \in Others : owner[s] = j
      BY DEF Lifecycle!Running
    <2>2. PICK s \in Run : job[s] = j /\ pc[s] \in Encoding
      BY <2>1 DEF SInv, Backed
    <2>3. s \in slots \ {r}
      BY <2>2 DEF SInv, Held, Holding, Encoding
    <2> QED
      BY <2>1, <2>2, <2>3 DEF Lifecycle!Running
  <1>6. owner \in [Others -> Lifecycle!Running]
    OBVIOUS
  <1>7. owner \in Surjection(Others, Lifecycle!Running)
    BY <1>5, <1>6 DEF Surjection
  <1>8. Cardinality(Lifecycle!Running) <= Cardinality(Others)
    BY <1>4, <1>7, FS_Surjection
  <1>9. /\ IsFiniteSet(Lifecycle!Running)
        /\ Cardinality(Lifecycle!Running) \in Nat /\ Cardinality(Others) \in Nat
    BY <1>4, <1>7, FS_Surjection, FS_CardinalityType
  <1> QED
    BY <1>1, <1>3, <1>4, <1>8, <1>9, ManagerAssumption DEF SInv, Bounded

LEMMA LifecycleRun ==
  ASSUME SInv, PInv, NEW r \in Run, RunStep(r)
  PROVE  Lifecycle!Next \/ UNCHANGED status
  <1>t. TypeOK
    BY DEF SInv
  <1>1. ASSUME Begin(r)
        PROVE  Lifecycle!Next
    <2>1. job[r] \in Job /\ status[job[r]] = "queued"
      BY <1>1, <1>t DEF Begin, TypeOK, PInv, Phased, Before
    <2>2. Cardinality(Lifecycle!Running) < MaxConcurrent
      BY <1>1, RoomToStart DEF Begin
    <2>3. Lifecycle!Move(job[r], {"queued"}, "running")
      BY <1>1, <2>1 DEF Begin, Lifecycle!Move
    <2>4. Lifecycle!Start(job[r])
      BY <2>2, <2>3 DEF Lifecycle!Start, Lifecycle!Cardinality, Cardinality
    <2> QED
      BY <2>1, <2>4 DEF Lifecycle!Next
  <1>2. ASSUME Finish(r)
        PROVE  Lifecycle!Next
    <2>1. job[r] \in Job
      BY <1>2, <1>t DEF Finish, TypeOK, Encoding
    <2>2. PICK s \in Terminal : /\ status' = [status EXCEPT ![job[r]] = s]
                                /\ pc[r] = "start" => s = "cancelled"
      BY <1>2 DEF Finish
    <2>3. \/ status[job[r]] = "running"
          \/ status[job[r]] = "queued" /\ s = "cancelled"
      BY <1>2, <2>2 DEF Finish, PInv, Phased, Before
    <2>4. Lifecycle!Finish(job[r])
      BY <2>2, <2>3 DEF Terminal, Lifecycle!Finish, Lifecycle!Move
    <2> QED
      BY <2>1, <2>4 DEF Lifecycle!Next
  <1>3. CASE Acquire(r) \/ Stay(r) \/ Unpersist(r) \/ Exit(r)
    BY <1>3 DEF Acquire, Stay, Unpersist, Exit, memory
  <1> QED
    BY <1>t, <1>1, <1>2, <1>3, RunPhases

LEMMA LifecycleRestart ==
  ASSUME ~TornWrites, TypeOK, PInv, ActivePersisted, Restart
  PROVE  Lifecycle!Restart
  <1>1. PICK torn \in SUBSET {j \in Job : Torn(j)} :
          Reconcile({j \in Job : persisted[j] # None} \ torn)
    BY DEF Restart
  <1>2. torn = {}
    BY <1>1 DEF Torn
  <1>3. status' = [j \in Job |-> IF persisted[j] # None THEN "queued"
                                ELSE IF status[j] = "absent" THEN "absent"
                                ELSE "gone"]
    BY <1>1, <1>2 DEF Reconcile
  <1>4. \A j \in Job : status[j] \in {"absent", "gone"} => persisted[j] = None
    BY DEF PInv, Unfiled
  <1>5. \A j \in Job : status[j] \in {"queued", "running"} => persisted[j] # None
    BY DEF ActivePersisted, Active
  <1> QED
    BY <1>3, <1>4, <1>5 DEF Lifecycle!Restart

(* The job manager implements the five-state lifecycle: no transition that *)
(* is not documented, no more running jobs than MAX_CONCURRENT, and no     *)
(* unfinished job lost by a restart.                                       *)
THEOREM Refinement == ASSUME ~Impatient, ~TornWrites PROVE Spec => ImplementsLifecycle
  <1>1. Init => Lifecycle!Init
    BY DEF Init, Lifecycle!Init
  <1>2. SInv /\ PInv /\ ActivePersisted /\ [Next]_vars => [Lifecycle!Next]_status
    <2> SUFFICES ASSUME SInv, PInv, ActivePersisted, [Next]_vars
                 PROVE  Lifecycle!Next \/ UNCHANGED status
      OBVIOUS
    <2>t. TypeOK
      BY DEF SInv
    <2>1. ASSUME NEW j \in Job, Submit(j)
          PROVE  Lifecycle!Next
      BY <2>1 DEF Submit, Fresh, Lifecycle!Next, Lifecycle!Submit, Lifecycle!Move
    <2>2. ASSUME NEW q \in Req, ResumeReset(q)
          PROVE  Lifecycle!Next
      <3>1. rjob[q] \in Job /\ status[rjob[q]] \in {"failed", "cancelled"}
        BY <2>2, <2>t DEF ResumeReset, TypeOK, PInv, AtRest
      <3>2. Lifecycle!Resume(rjob[q])
        BY <2>2, <3>1 DEF ResumeReset, Lifecycle!Resume, Lifecycle!Move
      <3> QED
        BY <3>1, <3>2 DEF Lifecycle!Next
    <2>3. ASSUME Restart
          PROVE  Lifecycle!Next
      BY <2>3, <2>t, LifecycleRestart DEF Lifecycle!Next
    <2>4. CASE UNCHANGED vars
      BY <2>4 DEF vars, memory
    <2> QED
      BY <2>1, <2>2, <2>3, <2>4, LifecycleRun, Bystanders DEF Next, ReqStep
  <1> QED
    BY <1>1, <1>2, PatientInvariant, NoJobForgotten, PTL
    DEF Spec, ImplementsLifecycle, Lifecycle!Spec

-----------------------------------------------------------------------------
(* The files of a job, for any number of jobs, files, goroutines, handlers,*)
(* resumes and restarts, as long as Resume is called only once the job's   *)
(* last run has returned: the state file of a job names the file whose     *)
(* worker container is running, so that a restarted server reattaches to   *)
(* it; and a job that says "done" delivered all of its files, whichever    *)
(* servers ran it.                                                         *)

(* A step of a run touches its own job and its own program counter.        *)
Local(r) ==
  /\ \A k \in Job : k # job[r] =>
       /\ status'[k] = status[k] /\ persisted'[k] = persisted[k]
       /\ container'[k] = container[k]
       /\ tmp'[k] = tmp[k] /\ output'[k] = output[k] /\ parts'[k] = parts[k]
  /\ \A s \in Run : s # r => pc'[s] = pc[s] /\ job'[s] = job[s] /\ idx'[s] = idx[s]
  /\ job'[r] \in {job[r], NoJob}
  /\ UNCHANGED <<cancelled, handler, bounds>>

LEMMA RunIsLocal ==
  ASSUME TypeOK, NEW r \in Run, RunStep(r)
  PROVE  Local(r) /\ pc[r] # "idle" /\ job[r] \in Job
  <1> USE DEF Local, TypeOK, memory, disk, Goto, Docked, Saved
  <1>1. CASE Acquire(r)
    BY <1>1 DEF Acquire
  <1>2. CASE Start(r)
    BY <1>2 DEF Start
  <1>3. CASE NextFile(r)
    BY <1>3 DEF NextFile
  <1>4. CASE Inspect(r)
    BY <1>4 DEF Inspect
  <1>5. CASE RemoveStale(r)
    BY <1>5 DEF RemoveStale
  <1>6. CASE Launch(r)
    BY <1>6 DEF Launch
  <1>7. CASE Attach(r)
    BY <1>7 DEF Attach
  <1>8. CASE Reap(r)
    BY <1>8 DEF Reap
  <1>9. CASE Settle(r)
    BY <1>9 DEF Settle
  <1>10. CASE MoveEntry(r)
    BY <1>10 DEF MoveEntry, runs
  <1>11. CASE MoveFails(r)
    <2>1. \A k \in Job : k # job[r] => output'[k] = output[k] /\ parts'[k] = parts[k]
      BY <1>11, MoversOnly DEF MoveFails
    <2> QED
      BY <1>11, <2>1 DEF MoveFails
  <1>12. CASE MoveEnds(r)
    BY <1>12 DEF MoveEnds
  <1>13. CASE Clean(r)
    BY <1>13 DEF Clean
  <1>14. CASE Unpersist(r)
    BY <1>14 DEF Unpersist
  <1>15. CASE Exit(r)
    BY <1>15 DEF Exit
  <1> QED
    BY <1>1, <1>2, <1>3, <1>4, <1>5, <1>6, <1>7, <1>8, <1>9, <1>10,
       <1>11, <1>12, <1>13, <1>14, <1>15 DEF RunStep

-----------------------------------------------------------------------------
(* The live workers.  The strengthening says who answers for a container   *)
(* that is running: the run of its job, which has not got past its file,   *)
(* or a Cancel that has listed it or is about to, or nobody, when the job  *)
(* is one that a restart forgot.                                           *)
Doomed(j, f) == \E q \in Req :
  /\ rjob[q] = j
  /\ \/ rpc[q] = "ps"
     \/ rpc[q] = "stop" /\ f \in names[q]
     \/ rpc[q] = "rm" /\ f \in names[q] \ {First(q)}

Ahead == Before \cup {"file", "inspect", "attach"}

Awaited(j, f) == \E r \in Run : job[r] = j /\ idx[r] = f /\ pc[r] \in Ahead

Answered(j, f) ==
  \/ status[j] = "gone"
  \/ /\ ~Encoded(j, f)
     /\ \/ persisted[j] = f /\ Awaited(j, f)
        \/ persisted[j] \in {f, None} /\ status[j] \in Terminal /\ Doomed(j, f)

Aboard(j) == \A f \in File : container[j][f] = "running" => Answered(j, f)

(* A run at work on a file has recorded it, and has found it not encoded.  *)
Pinned(j) == \A r \in Run : job[r] = j /\ pc[r] \in InFile =>
               persisted[j] = idx[r] /\ ~Encoded(j, idx[r])

(* The run that will find its job cancelled can leave its worker alone.    *)
Warned(j) == \A r \in Run, f \in File :
  job[r] = j /\ pc[r] \in Before /\ cancelled[j] /\ container[j][f] = "running"
    => Doomed(j, f)

Found(j) == Aboard(j) /\ Pinned(j) /\ Warned(j)

FInv == \A j \in Job : Found(j)

LEMMA FoundInit == Init => FInv
  BY DEF Init, FInv, Found, Aboard, Pinned, Warned, InFile, Before

(* Nobody else's step disturbs it for a job, ...                           *)
LEMMA FoundFrame ==
  ASSUME TypeOK, NEW k \in Job, Found(k),
         status'[k] = status[k], persisted'[k] = persisted[k],
         output'[k] = output[k], parts'[k] = parts[k],
         \A f \in File : container'[k][f] = "running" => container[k][f] = "running",
         \A f \in File : container'[k][f] = "running" /\ Doomed(k, f) => Doomed(k, f)',
         cancelled'[k] => cancelled[k] \/ \A f \in File : Doomed(k, f)',
         \A s \in Run : /\ job'[s] = k <=> job[s] = k
                        /\ job[s] = k => pc'[s] = pc[s] /\ idx'[s] = idx[s]
  PROVE  Found(k)'
  <1>1. \A f : Encoded(k, f)' <=> Encoded(k, f)
    BY DEF Encoded
  <1>2. Aboard(k)'
    BY <1>1 DEF Found, Aboard, Answered, Awaited
  <1>3. Pinned(k)'
    BY <1>1 DEF Found, Pinned
  <1>4. Warned(k)'
    BY DEF Found, Warned
  <1> QED
    BY <1>2, <1>3, <1>4 DEF Found

(* ... and what disturbs it is judged by the one run of the job.           *)
LEMMA FoundRun ==
  ASSUME TypeOK, TypeOK', PInv, NEW r \in Run, job[r] \in Job, Local(r),
         job'[r] = job[r],
         \/ UNCHANGED <<output, parts>>
         \/ /\ pc'[r] \notin InFile
            /\ \A f \in File : container'[job[r]][f] # "running",
         \A f \in File : container'[job[r]][f] = "running" =>
           \/ status'[job[r]] = "gone"
           \/ /\ ~Encoded(job[r], f)
              /\ \/ persisted'[job[r]] = f /\ idx'[r] = f /\ pc'[r] \in Ahead
                 \/ /\ persisted'[job[r]] \in {f, None}
                    /\ status'[job[r]] \in Terminal /\ Doomed(job[r], f),
         pc'[r] \in InFile =>
           persisted'[job[r]] = idx'[r] /\ ~Encoded(job[r], idx'[r]),
         \A f \in File :
           pc'[r] \in Before /\ cancelled[job[r]] /\ container'[job[r]][f] = "running"
             => Doomed(job[r], f)
  PROVE  Found(job[r])'
  <1>1. \A s \in Run : job'[s] = job[r] => s = r
    BY ManagerAssumption DEF PInv, OneRun, Local
  <1> DEFINE j == job[r]
  <1>j. j \in Job /\ job'[r] = j
    OBVIOUS
  <1>2. \A f : Doomed(j, f)' <=> Doomed(j, f)
    BY DEF Doomed, First, Local, handler
  <1>3. UNCHANGED <<output, parts>> => \A k, f : Encoded(k, f)' <=> Encoded(k, f)
    BY DEF Encoded
  <1>9. \/ \A k, f : Encoded(k, f)' <=> Encoded(k, f)
        \/ /\ pc'[r] \notin InFile
           /\ \A f \in File : container'[j][f] # "running"
    BY <1>3
  <1> HIDE DEF j
  <1>4. Aboard(j)'
    BY <1>2, <1>9, <1>j DEF Aboard, Answered, Awaited, j
  <1>5. Pinned(j)'
    BY <1>1, <1>9, <1>j DEF Pinned, j
  <1>6. Warned(j)'
    BY <1>1, <1>2, <1>j DEF Warned, Local, j
  <1> QED
    BY <1>4, <1>5, <1>6 DEF Found, j

(* Who answers for a worker, told from the phase of the job's run.         *)
LEMMA FoundPhase ==
  ASSUME TypeOK, PInv, NEW r \in Run, job[r] \in Job, Found(job[r]),
         NEW f \in File, container[job[r]][f] = "running"
  PROVE  /\ ~Encoded(job[r], f)
         /\ \/ pc[r] \in Ahead /\ persisted[job[r]] = f /\ idx[r] = f
            \/ pc[r] \in After /\ persisted[job[r]] \in {f, None} /\ Doomed(job[r], f)
  <1>1. Answered(job[r], f)
    BY DEF Found, Aboard
  <1>2. pc[r] \in Before \cup Encoding \cup After
    BY ManagerAssumption DEF TypeOK, Labels
  <1>3. status[job[r]] # "gone"
    BY <1>2 DEF PInv, Phased, Terminal
  <1>4. ~Encoded(job[r], f)
    BY <1>1, <1>3 DEF Answered
  <1>5. CASE persisted[job[r]] = f /\ Awaited(job[r], f)
    <2>1. PICK s \in Run : job[s] = job[r] /\ idx[s] = f /\ pc[s] \in Ahead
      BY <1>5 DEF Awaited
    <2>2. s = r
      BY <2>1, ManagerAssumption DEF PInv, OneRun
    <2> QED
      BY <1>4, <1>5, <2>1, <2>2
  <1>6. CASE persisted[job[r]] \in {f, None} /\ status[job[r]] \in Terminal /\ Doomed(job[r], f)
    BY <1>2, <1>4, <1>6 DEF PInv, Phased, Terminal
  <1> QED
    BY <1>1, <1>3, <1>5, <1>6 DEF Answered

(* A step of a run.  Past Inspect, nothing runs until Launch; and a worker *)
(* that is running is left alone by every step before the next Attach.     *)
LEMMA FoundRunStep ==
  ASSUME TypeOK, TypeOK', PInv, FInv, NEW r \in Run, RunStep(r)
  PROVE  FInv'
  <1>l. Local(r) /\ pc[r] # "idle" /\ job[r] \in Job
    BY RunIsLocal
  <1>f. Found(job[r])
    BY <1>l DEF FInv
  <1>o. \A s \in Run : job[s] = job[r] => s = r
    BY <1>l, ManagerAssumption DEF PInv, OneRun
  <1>1. ASSUME NEW k \in Job, k # job[r]
        PROVE  Found(k)'
    <2>1. \A s \in Run : /\ job'[s] = k <=> job[s] = k
                         /\ job[s] = k => pc'[s] = pc[s] /\ idx'[s] = idx[s]
      BY <1>1, <1>l, ManagerAssumption DEF Local
    <2>2. \A f \in File : Doomed(k, f)' <=> Doomed(k, f)
      BY <1>l DEF Local, handler, Doomed, First
    <2>3. Found(k)
      BY DEF FInv
    <2> HIDE DEF Doomed
    <2> QED
      BY <1>1, <1>l, <2>1, <2>2, <2>3, FoundFrame DEF Local
  <1>2. ASSUME ~Exit(r)
        PROVE  Found(job[r])'
    <2>p. \A f \in File : container[job[r]][f] = "running" =>
            /\ ~Encoded(job[r], f)
            /\ \/ pc[r] \in Ahead /\ persisted[job[r]] = f /\ idx[r] = f
               \/ pc[r] \in After /\ persisted[job[r]] \in {f, None} /\ Doomed(job[r], f)
      BY <1>l, <1>f, FoundPhase
    <2>q. pc[r] \in InFile => /\ persisted[job[r]] = idx[r]
                              /\ ~Encoded(job[r], idx[r])
                              /\ idx[r] \in File
      BY <1>f, InFileType DEF Found, Pinned
    <2>w. \A f \in File : pc[r] \in Before /\ cancelled[job[r]]
                            /\ container[job[r]][f] = "running" => Doomed(job[r], f)
      BY <1>f DEF Found, Warned
    <2>1. CASE Acquire(r)
      <3>1. pc'[r] = "start" /\ pc[r] = "wait" /\ UNCHANGED <<job, idx, status, container, persisted, output, parts>>
        BY <2>1 DEF Acquire, Goto, TypeOK, memory, disk
      <3> QED
        BY <3>1, <1>l, <2>p, <2>w, FoundRun DEF Ahead, After, Before, InFile
    <2>2. CASE Start(r)
      <3>1. pc[r] = "start" /\ UNCHANGED <<job, idx, container, persisted, output, parts>>
        BY <2>2 DEF Start, disk
      <3>2. \/ cancelled[job[r]] /\ status'[job[r]] = "cancelled" /\ pc'[r] = "clean"
            \/ pc'[r] = "file"
        BY <2>2, <1>l DEF Start, Goto, TypeOK
      <3> QED
        BY <3>1, <3>2, <1>l, <2>p, <2>w, FoundRun DEF Ahead, After, Before, InFile, Terminal
    <2>3. CASE NextFile(r)
      <3>1. pc[r] = "file" /\ UNCHANGED <<job, status, container, output, parts>>
        BY <2>3 DEF NextFile, memory
      <3>2. \A f \in File : container[job[r]][f] = "running" =>
              ~Encoded(job[r], f) /\ idx[r] = f /\ persisted[job[r]] = f
        BY <3>1, <2>p DEF After
      <3>3. CASE idx[r] = NFiles
        <4>1. pc'[r] = "succeeded"
          BY <2>3, <3>3 DEF NextFile, Goto, TypeOK
        <4>2. \A f \in File : container'[job[r]][f] # "running"
          BY <3>1, <3>2, <3>3, ManagerAssumption DEF File
        <4> QED
          BY <3>1, <4>1, <4>2, <1>l, FoundRun DEF Before, InFile
      <3>4. CASE idx[r] # NFiles /\ Encoded(job[r], idx[r])
        <4>1. pc'[r] = "file"
          BY <2>3, <3>1, <3>4 DEF NextFile
        <4>2. \A f \in File : container'[job[r]][f] # "running"
          BY <3>1, <3>2, <3>4
        <4> QED
          BY <3>1, <4>1, <4>2, <1>l, FoundRun DEF Before, InFile
      <3>5. CASE idx[r] # NFiles /\ ~Encoded(job[r], idx[r])
        <4>1. pc'[r] = "inspect" /\ idx' = idx /\ persisted'[job[r]] = idx[r]
          BY <2>3, <3>5, <1>l DEF NextFile, Goto, Saved, TypeOK
        <4> QED
          BY <3>1, <3>2, <3>5, <4>1, <1>l, FoundRun DEF Before, InFile, Ahead
      <3> QED
        BY <3>3, <3>4, <3>5
    <2>4. CASE Inspect(r)
      <3>1. pc[r] = "inspect" /\ UNCHANGED <<job, idx, status, container, persisted, output, parts>>
        BY <2>4 DEF Inspect, memory, disk
      <3>2. \/ pc'[r] = "attach"
            \/ pc'[r] \in {"rmstale", "launch"} /\ container[job[r]][idx[r]] # "running"
        BY <2>4 DEF Inspect, Goto, TypeOK
      <3> QED
        BY <3>1, <3>2, <1>l, <2>p, <2>q, FoundRun DEF Before, After, InFile, Ahead
    <2>5. CASE RemoveStale(r)
      <3>1. pc[r] = "rmstale" /\ UNCHANGED <<job, idx, status, persisted, output, parts>>
        BY <2>5 DEF RemoveStale, memory, disk
      <3>2. pc'[r] \in {"launch", "errored"}
        BY <2>5 DEF RemoveStale, Goto, TypeOK
      <3>3. \A f \in File : container[job[r]][f] # "running"
        BY <3>1, <2>p DEF Ahead, After, Before
      <3>4. \A f \in File : container'[job[r]][f] # "running"
        BY <2>5, <3>3, <1>l DEF RemoveStale, Docked, TypeOK
      <3> QED
        BY <3>1, <3>2, <3>4, <1>l, <2>q, FoundRun DEF Before, InFile
    <2>6. CASE Launch(r)
      <3>1. pc[r] = "launch" /\ UNCHANGED <<job, idx, status, persisted, output, parts>>
        BY <2>6 DEF Launch, memory, disk
      <3>2. \A f \in File : container[job[r]][f] # "running"
        BY <3>1, <2>p DEF Ahead, After, Before
      <3>3. \/ /\ pc'[r] = "attach"
               /\ \A f \in File : container'[job[r]][f] = "running" => f = idx[r]
            \/ /\ pc'[r] = "errored"
               /\ \A f \in File : container'[job[r]][f] # "running"
        BY <2>6, <3>2, <1>l DEF Launch, Docked, Goto, TypeOK
      <3> QED
        BY <3>1, <3>3, <1>l, <2>q, FoundRun DEF Before, InFile, Ahead
    <2>7. CASE Attach(r)
      <3>1. pc[r] = "attach" /\ UNCHANGED <<job, idx, status, container, persisted, output, parts>>
        BY <2>7 DEF Attach, memory, disk
      <3>2. pc'[r] = "reap" /\ container[job[r]][idx[r]] # "running"
        BY <2>7 DEF Attach, Goto, TypeOK
      <3> QED
        BY <3>1, <3>2, <1>l, <2>p, <2>q, FoundRun DEF Before, After, InFile
    <2>8. CASE Reap(r)
      <3>1. pc[r] = "reap" /\ UNCHANGED <<job, status, persisted, output, parts>>
        BY <2>8 DEF Reap, memory, disk
      <3>2. pc'[r] \in {"file", "errored"}
        BY <2>8 DEF Reap, Goto, TypeOK
      <3>3. \A f \in File : container[job[r]][f] # "running"
        BY <3>1, <2>p DEF Ahead, After, Before
      <3>4. \A f \in File : container'[job[r]][f] # "running"
        BY <2>8, <3>3, <1>l DEF Reap, Docked, TypeOK
      <3> QED
        BY <3>1, <3>2, <3>4, <1>l, FoundRun DEF Before, InFile
    <2>9. CASE Settle(r) \/ MoveEnds(r)
      <3>1. pc[r] \in {"succeeded", "errored", "move"} /\ UNCHANGED <<job, container, output, parts>>
        BY <2>9 DEF Settle, MoveEnds, disk
      <3>2. pc'[r] \in {"clean", "move"}
        BY <2>9 DEF Settle, MoveEnds, Goto, TypeOK
      <3>3. \A f \in File : container'[job[r]][f] # "running"
        BY <3>1, <2>p DEF Ahead, After, Before
      <3> QED
        BY <3>1, <3>2, <3>3, <1>l, FoundRun DEF Before, InFile
    <2>10. CASE MoveEntry(r) \/ MoveFails(r)
      <3>1. pc[r] = "move" /\ pc'[r] \in {"move", "clean"} /\ UNCHANGED <<job, container>>
        BY <2>10 DEF MoveEntry, MoveFails, Goto, TypeOK, runs
      <3>2. \A f \in File : container'[job[r]][f] # "running"
        BY <3>1, <2>p DEF Ahead, After, Before
      <3> QED
        BY <3>1, <3>2, <1>l, FoundRun DEF Before, InFile
    <2>11. CASE Clean(r) \/ Unpersist(r)
      <3>1. pc[r] \in {"clean", "unpersist"} /\ UNCHANGED <<job, container, output, parts, status>>
        BY <2>11 DEF Clean, Unpersist, memory
      <3>2. pc'[r] \in {"unpersist", "exit"}
        BY <2>11 DEF Clean, Unpersist, Goto, TypeOK
      <3>3. persisted'[job[r]] \in {persisted[job[r]], None}
        BY <2>11, <1>l DEF Clean, Unpersist, TypeOK
      <3>4. status[job[r]] \in Terminal
        BY <3>1 DEF PInv, Phased, After
      <3> QED
        BY <3>1, <3>2, <3>3, <3>4, <1>l, <2>p, FoundRun DEF Before, InFile, Ahead
    <2> QED
      BY <1>2, <2>1, <2>2, <2>3, <2>4, <2>5, <2>6, <2>7, <2>8, <2>9, <2>10,
         <2>11 DEF RunStep
  <1>3. ASSUME ~Exit(r)
        PROVE  job'[r] = job[r]
    BY <1>3 DEF RunStep, Acquire, Start, NextFile, Inspect, RemoveStale, Launch, Attach,
       Reap, Settle, MoveEntry, MoveFails, MoveEnds, Clean, Unpersist, runs
  <1>4. ASSUME Exit(r), NEW k \in Job, k = job[r]
        PROVE  Found(k)'
    <2>1. UNCHANGED <<status, persisted, output, parts, container, cancelled, rpc, rjob, names>>
      BY <1>4 DEF Exit, memory, disk, handler
    <2>2. \A s \in Run : job'[s] # k
      BY <1>4, <1>o, <1>l, ManagerAssumption DEF Exit, TypeOK
    <2>3. status[k] \in Terminal /\ pc[r] = "exit"
      BY <1>4 DEF Exit, PInv, Phased, After
    <2>4. \A f \in File : container[k][f] = "running" =>
            ~Encoded(k, f) /\ persisted[k] \in {f, None} /\ Doomed(k, f)
      BY <1>4, <1>l, <1>f, <2>3, FoundPhase DEF Ahead, Before
    <2>5. \A f : (Encoded(k, f)' <=> Encoded(k, f)) /\ (Doomed(k, f)' <=> Doomed(k, f))
      BY <2>1 DEF Encoded, Doomed, First
    <2> QED
      BY <2>1, <2>2, <2>3, <2>4, <2>5 DEF Found, Aboard, Answered, Pinned, Warned
  <1> QED
    BY <1>1, <1>2, <1>3, <1>4 DEF FInv

(* A worker ends, or a handler takes a step that starts no run: a Cancel   *)
(* drops a container from its list only once it has stopped it.            *)
Aside == UNCHANGED <<status, pc, job, idx, persisted, output, parts>>

LEMMA FoundAside ==
  ASSUME TypeOK, FInv, Aside,
         \A j \in Job, f \in File : container'[j][f] = "running" =>
           /\ container[j][f] = "running"
           /\ Doomed(j, f) => Doomed(j, f)',
         \A j \in Job : cancelled'[j] => cancelled[j] \/ \A f \in File : Doomed(j, f)'
  PROVE  FInv'
  <1> HIDE DEF Doomed
  <1> QED
    BY FoundFrame DEF FInv, Aside

LEMMA FoundWorker ==
  ASSUME TypeOK, FInv, NEW j \in Job, NEW f \in File,
         WorkerSucceeds(j, f) \/ WorkerFails(j, f)
  PROVE  FInv'
  <1>1. \A k \in Job, g \in File :
          container'[k][g] = "running" => container[k][g] = "running"
    <2>1. PICK s \in {"exited0", "exited1"} : container' = [container EXCEPT ![j][f] = s]
      BY DEF WorkerSucceeds, WorkerFails, Docked
    <2> QED
      BY <2>1 DEF TypeOK
  <1>2. Aside /\ UNCHANGED <<cancelled, rpc, rjob, names>>
    BY DEF WorkerSucceeds, WorkerFails, Aside, memory, runs, handler, disk
  <1>3. \A k, g : Doomed(k, g)' <=> Doomed(k, g)
    BY <1>2 DEF Doomed, First
  <1> QED
    BY <1>1, <1>2, <1>3, FoundAside

LEMMA FoundHandler ==
  ASSUME TypeOK, FInv, NEW q \in Req,
         \/ \E j \in Job : Cancel(q, j) \/ Resume(q, j)
         \/ CancelMark(q) \/ CancelPs(q) \/ CancelStop(q) \/ CancelRm(q)
         \/ ResumeSweep(q)
  PROVE  FInv'
  <1>a. Aside
    BY DEF Cancel, Resume, CancelMark, CancelPs, CancelStop, CancelRm, ResumeSweep,
           Aside, memory, runs, disk
  <1>1. CASE \E j \in Job : Cancel(q, j) \/ Resume(q, j)
    <2>1. /\ rpc[q] = "idle" /\ UNCHANGED <<container, cancelled, names>>
          /\ \A p \in Req : p # q => rpc'[p] = rpc[p] /\ rjob'[p] = rjob[p]
      BY <1>1 DEF Cancel, Resume, Admit, TypeOK, memory
    <2>2. \A k, f : Doomed(k, f) => Doomed(k, f)'
      BY <2>1 DEF Doomed, First
    <2> QED
      BY <1>a, <2>1, <2>2, FoundAside
  <1>2. CASE CancelMark(q)
    <2>1. /\ rpc[q] = "mark" /\ rpc'[q] = "ps" /\ UNCHANGED <<container, rjob, names>>
          /\ \A p \in Req : p # q => rpc'[p] = rpc[p]
          /\ \A k \in Job : cancelled'[k] => cancelled[k] \/ k = rjob[q]
      BY <1>2 DEF CancelMark, TypeOK
    <2>2. \A k, f : Doomed(k, f) => Doomed(k, f)'
      BY <2>1 DEF Doomed, First
    <2>3. \A f : Doomed(rjob[q], f)'
      BY <2>1 DEF Doomed
    <2> QED
      BY <1>a, <2>1, <2>2, <2>3, FoundAside
  <1>3. CASE CancelPs(q)
    <2>1. /\ rpc[q] = "ps" /\ UNCHANGED <<container, cancelled>>
          /\ \A p \in Req : p # q =>
               rpc'[p] = rpc[p] /\ rjob'[p] = rjob[p] /\ names'[p] = names[p]
          /\ names'[q] = {f \in File : container[rjob[q]][f] # "none"}
          /\ names'[q] # {} => rpc'[q] = "stop" /\ rjob'[q] = rjob[q]
      BY <1>3 DEF CancelPs, Return, TypeOK, memory
    <2>2. ASSUME NEW k \in Job, NEW f \in File, container[k][f] = "running", Doomed(k, f)
          PROVE  Doomed(k, f)'
      <3>1. PICK p \in Req :
              /\ rjob[p] = k
              /\ \/ rpc[p] = "ps"
                 \/ rpc[p] = "stop" /\ f \in names[p]
                 \/ rpc[p] = "rm" /\ f \in names[p] \ {First(p)}
        BY <2>2 DEF Doomed
      <3>2. p # q => First(p)' = First(p)
        BY <2>1, <3>1 DEF First
      <3>3. CASE p = q
        BY <2>1, <2>2, <3>1, <3>3 DEF Doomed
      <3>4. CASE p # q
        BY <2>1, <3>1, <3>2, <3>4 DEF Doomed
      <3> QED
        BY <3>3, <3>4
    <2> QED
      BY <1>a, <2>1, <2>2, FoundAside
  <1>4. CASE CancelStop(q)
    <2>1. /\ rpc[q] = "stop" /\ rpc'[q] = "rm" /\ UNCHANGED <<rjob, names, cancelled>>
          /\ \A p \in Req : p # q => rpc'[p] = rpc[p]
          /\ rjob[q] \in Job
      BY <1>4 DEF CancelStop, TypeOK, memory
    <2>2. \A p : First(p)' = First(p)
      BY <2>1 DEF First
    <2>3. \A k \in Job, f \in File : container'[k][f] = "running" =>
            container[k][f] = "running" /\ ~(k = rjob[q] /\ f = First(q))
      BY <1>4, <2>1 DEF CancelStop, TypeOK
    <2>4. ASSUME NEW k \in Job, NEW f \in File, container'[k][f] = "running", Doomed(k, f)
          PROVE  Doomed(k, f)'
      BY <2>1, <2>2, <2>3, <2>4 DEF Doomed
    <2> QED
      BY <1>a, <2>1, <2>3, <2>4, FoundAside
  <1>5. CASE CancelRm(q)
    <2>1. /\ rpc[q] = "rm" /\ UNCHANGED cancelled
          /\ \A p \in Req : p # q =>
               rpc'[p] = rpc[p] /\ rjob'[p] = rjob[p] /\ names'[p] = names[p]
          /\ names'[q] = names[q] \ {First(q)}
          /\ names'[q] # {} => rpc'[q] = "stop" /\ rjob'[q] = rjob[q]
          /\ rjob[q] \in Job
      BY <1>5 DEF CancelRm, Return, TypeOK, memory
    <2>2. \A k \in Job, f \in File :
            container'[k][f] = "running" => container[k][f] = "running"
      BY <1>5, <2>1 DEF CancelRm, TypeOK
    <2>3. ASSUME NEW k \in Job, NEW f \in File, Doomed(k, f)
          PROVE  Doomed(k, f)'
      <3>1. PICK p \in Req :
              /\ rjob[p] = k
              /\ \/ rpc[p] = "ps"
                 \/ rpc[p] = "stop" /\ f \in names[p]
                 \/ rpc[p] = "rm" /\ f \in names[p] \ {First(p)}
        BY <2>3 DEF Doomed
      <3>2. p # q => First(p)' = First(p)
        BY <2>1, <3>1 DEF First
      <3>3. CASE p = q
        BY <2>1, <3>1, <3>3 DEF Doomed
      <3>4. CASE p # q
        BY <2>1, <3>1, <3>2, <3>4 DEF Doomed
      <3> QED
        BY <3>3, <3>4
    <2> QED
      BY <1>a, <2>1, <2>2, <2>3, FoundAside
  <1>6. CASE ResumeSweep(q)
    <2>1. /\ rpc[q] = "sweep" /\ UNCHANGED <<rjob, names, cancelled>>
          /\ \A p \in Req : p # q => rpc'[p] = rpc[p]
      BY <1>6 DEF ResumeSweep, TypeOK, memory
    <2>2. \A k \in Job, f \in File :
            container'[k][f] = "running" => container[k][f] = "running"
      BY <1>6 DEF ResumeSweep, TypeOK
    <2>3. \A k, f : Doomed(k, f) => Doomed(k, f)'
      BY <2>1 DEF Doomed, First
    <2> QED
      BY <1>a, <2>1, <2>2, <2>3, FoundAside
  <1> QED
    BY <1>1, <1>2, <1>3, <1>4, <1>5, <1>6

(* A run is started for a job that has no worker: one never submitted, or  *)
(* one that is at rest.                                                    *)
LEMMA NoWorkerAtRest ==
  ASSUME TypeOK, PInv, FInv, NEW j \in Job, \A s \in Run : job[s] # j,
         \/ status[j] = "absent"
         \/ \E q \in Req : rjob[q] = j /\ rpc[q] = "reset"
  PROVE  \A f \in File : container[j][f] # "running"
  <1> SUFFICES ASSUME NEW f \in File, container[j][f] = "running"
               PROVE  FALSE
    OBVIOUS
  <1>1. Answered(j, f) /\ ~Awaited(j, f)
    BY DEF FInv, Found, Aboard, Awaited
  <1>2. CASE status[j] = "absent"
    BY <1>1, <1>2 DEF Answered, Terminal
  <1>3. CASE \E q \in Req : rjob[q] = j /\ rpc[q] = "reset"
    <2>1. status[j] \in {"failed", "cancelled"} /\ ~Doomed(j, f)
      BY <1>3 DEF PInv, AtRest, Doomed
    <2> QED
      BY <1>1, <2>1 DEF Answered
  <1> QED
    BY <1>2, <1>3

LEMMA FoundSpawn ==
  ASSUME TypeOK, PInv, FInv, NEW r \in Run, NEW j \in Job, Spawn(r, j), Saved(j, 0),
         status' = [status EXCEPT ![j] = "queued"],
         \A k \in Job : k # j => cancelled'[k] = cancelled[k],
         \A q \in Req : /\ rpc[q] \in {"ps", "stop", "rm"} => rpc'[q] = rpc[q]
                        /\ rjob'[q] = rjob[q] \/ rpc[q] = "reset",
         UNCHANGED <<container, output, parts, names>>,
         \A s \in Run : job[s] # j,
         \A f \in File : container[j][f] # "running"
  PROVE  FInv'
  <1>1. /\ \A s \in Run : pc'[s] = IF s = r THEN "wait" ELSE pc[s]
        /\ \A s \in Run : job'[s] = IF s = r THEN j ELSE job[s]
        /\ \A s \in Run : s # r => idx'[s] = idx[s]
        /\ \A k \in Job : k # j => status'[k] = status[k] /\ persisted'[k] = persisted[k]
        /\ job[r] \notin Job
    BY ManagerAssumption DEF Spawn, Saved, TypeOK
  <1>2. ASSUME NEW k \in Job, k # j
        PROVE  Found(k)'
    <2>1. \A f : Doomed(k, f) => Doomed(k, f)'
      BY DEF Doomed, First
    <2>2. \A s \in Run : /\ job'[s] = k <=> job[s] = k
                         /\ job[s] = k => pc'[s] = pc[s] /\ idx'[s] = idx[s]
      BY <1>1, <1>2
    <2>3. Found(k)
      BY DEF FInv
    <2> HIDE DEF Doomed
    <2> QED
      BY <1>1, <1>2, <2>1, <2>2, <2>3, FoundFrame
  <1>3. Found(j)'
    <2>1. \A s \in Run : job'[s] = j => s = r
      BY <1>1
    <2> QED
      BY <1>1, <2>1 DEF Found, Aboard, Pinned, Warned, InFile
  <1> QED
    BY <1>2, <1>3 DEF FInv

(* A restart: the run of a job that is found goes on where the state file  *)
(* says, which is where its worker is.                                     *)
LEMMA FoundRestart ==
  ASSUME TypeOK, TypeOK', PInv, FInv, Restart
  PROVE  FInv'
  <1>1. PICK saved \in SUBSET Job :
          /\ \A j \in saved : persisted[j] # None
          /\ \A j \in Job : status'[j] = IF j \in saved THEN "queued"
                                         ELSE IF status[j] = "absent" THEN "absent"
                                         ELSE "gone"
          /\ \A j \in Job : cancelled'[j] = FALSE
          /\ \A j \in saved : persisted'[j] = persisted[j]
          /\ \A j \in saved : \E r \in Run : job'[r] = j
          /\ \A r \in Run : job'[r] \in saved \cup {NoJob}
          /\ \A r \in Run : pc'[r] = IF job'[r] = NoJob THEN "idle" ELSE "wait"
          /\ \A r \in Run : idx'[r] = IF job'[r] = NoJob THEN 0 ELSE persisted[job'[r]]
    <2>1. PICK torn \in SUBSET {j \in Job : Torn(j)} :
            Reconcile({j \in Job : persisted[j] # None} \ torn)
      BY DEF Restart
    <2> DEFINE saved == {j \in Job : persisted[j] # None} \ torn
    <2>2. saved \in SUBSET Job
      OBVIOUS
    <2> QED
      BY <2>1, <2>2 DEF Reconcile
  <1>2. UNCHANGED container
    BY DEF Restart
  <1>3. ASSUME NEW j \in Job, NEW g \in File, container[j][g] = "running"
        PROVE  Encoded(j, g)' <=> Encoded(j, g)
    <2>1. ~ \E r \in LiveRun(j) : pc[r] = "move"
      BY <1>3, FoundPhase DEF LiveRun, FInv, Ahead, After, Before
    <2> QED
      BY <2>1, MoversOnly DEF Encoded, Restart
  <1>4. SUFFICES ASSUME NEW k \in Job
                 PROVE  Found(k)'
    BY DEF FInv
  <1>5. Pinned(k)' /\ Warned(k)'
    BY <1>1 DEF Pinned, Warned, InFile
  <1>6. ASSUME NEW f \in File, container[k][f] = "running"
        PROVE  Answered(k, f)'
    <2>1. Answered(k, f)
      BY <1>6 DEF FInv, Found, Aboard
    <2>2. CASE k \notin saved
      <3>1. status[k] # "absent"
        <4>1. SUFFICES ASSUME status[k] = "absent"
                       PROVE  FALSE
          OBVIOUS
        <4>2. Awaited(k, f)
          BY <2>1, <4>1 DEF Answered, Terminal
        <4> QED
          BY <4>1, <4>2 DEF Awaited, PInv, Phased, Ahead, Encoding
      <3> QED
        BY <1>1, <2>2, <3>1 DEF Answered
    <2>3. CASE k \in saved
      <3>1. persisted[k] # None /\ status[k] # "gone"
        BY <1>1, <2>3 DEF PInv, Unfiled
      <3>2. persisted[k] = f /\ ~Encoded(k, f)
        BY <2>1, <3>1 DEF Answered
      <3>3. PICK r \in Run : job'[r] = k
        BY <1>1, <2>3
      <3>4. pc'[r] = "wait" /\ idx'[r] = f
        BY <1>1, <3>2, <3>3, ManagerAssumption
      <3>5. Awaited(k, f)'
        BY <3>3, <3>4 DEF Awaited, Ahead, Before
      <3> QED
        BY <1>1, <1>3, <1>6, <2>3, <3>2, <3>5 DEF Answered
    <2> QED
      BY <2>2, <2>3
  <1> QED
    BY <1>2, <1>5, <1>6 DEF Found, Aboard

LEMMA FoundStep ==
  ASSUME ~Impatient
  PROVE  TypeOK /\ TypeOK' /\ PInv /\ FInv /\ [Next]_vars => FInv'
  <1> SUFFICES ASSUME TypeOK, TypeOK', PInv, FInv, [Next]_vars
               PROVE  FInv'
    OBVIOUS
  <1>1. ASSUME NEW j \in Job, Submit(j)
        PROVE  FInv'
    <2>1. /\ status[j] = "absent" /\ Saved(j, 0)
          /\ UNCHANGED <<cancelled, rpc, rjob, names, container, output, parts>>
          /\ status' = [status EXCEPT ![j] = "queued"]
      BY <1>1 DEF Submit, Fresh, handler
    <2>2. \A s \in Run : job[s] # j
      <3>1. SUFFICES ASSUME NEW s \in Run, job[s] = j
                     PROVE  FALSE
        OBVIOUS
      <3>2. pc[s] \in Before \cup Encoding \cup After
        BY <3>1, ManagerAssumption DEF TypeOK, Labels
      <3> QED
        BY <2>1, <3>1, <3>2 DEF PInv, Phased, Terminal
    <2>3. PICK r \in Run : Spawn(r, j)
      BY <1>1 DEF Submit
    <2> QED
      BY <2>1, <2>2, <2>3, NoWorkerAtRest, FoundSpawn
  <1>2. ASSUME NEW q \in Req, ResumeReset(q)
        PROVE  FInv'
    <2>1. /\ rjob[q] \in Job /\ rpc[q] = "reset" /\ Saved(rjob[q], 0)
          /\ \A p \in Req : p # q => rpc'[p] = rpc[p] /\ rjob'[p] = rjob[p]
          /\ status' = [status EXCEPT ![rjob[q]] = "queued"]
          /\ \A k \in Job : k # rjob[q] => cancelled'[k] = cancelled[k]
          /\ UNCHANGED <<container, output, parts, names>>
      BY <1>2 DEF ResumeReset, Return, TypeOK
    <2>2. \A s \in Run : job[s] # rjob[q]
      BY <2>1 DEF PInv, AtRest
    <2>3. PICK r \in Run : Spawn(r, rjob[q])
      BY <1>2 DEF ResumeReset
    <2> QED
      BY <2>1, <2>2, <2>3, NoWorkerAtRest, FoundSpawn
  <1>3. CASE UNCHANGED vars
    <2>1. \A k, f : Doomed(k, f)' <=> Doomed(k, f)
      BY <1>3 DEF vars, handler, Doomed, First
    <2> QED
      BY <1>3, <2>1, FoundAside DEF vars, memory, runs, disk, Aside
  <1> QED
    BY <1>1, <1>2, <1>3, FoundRunStep, FoundWorker, FoundHandler, FoundRestart
    DEF Next, ReqStep

LEMMA FilesInvariant ==
  ASSUME ~Impatient
  PROVE  Spec => [](SInv /\ PInv /\ FInv)
  <1>1. Init => SInv /\ PInv /\ FInv
    BY SlotsInit, PatientInit, FoundInit
  <1>2. SInv /\ PInv /\ FInv /\ [Next]_vars => SInv' /\ PInv' /\ FInv'
    BY SlotsStep, TypeStep, PatientStep, FoundStep DEF SInv
  <1> QED
    BY <1>1, <1>2, PTL DEF Spec

(* A worker container that is running is the one of the file its job's     *)
(* state file names, so that the next server's run reattaches to it,       *)
(* unless a Cancel is about to stop it or its job has been forgotten:      *)
(* however restarts, torn state files and Cancels interleave.              *)
THEOREM RestartReattaches == ASSUME ~Impatient PROVE Spec => []RestartFindsAll
  <1>1. FInv => RestartFindsAll
    BY DEF FInv, Found, Aboard, Answered, RestartFindsAll, Doomed, Requests
  <1> QED
    BY <1>1, FilesInvariant, PTL

-----------------------------------------------------------------------------
(* The delivery.  The strengthening says that a run has every file before  *)
(* its index in TMP_DIR or OUTPUT_DIR, with those whose worker succeeded,  *)
(* until it cleans up; that the state file never points past its index; and*)
(* that a state file left on disk still has its run.                       *)
Staging == Before \cup Encoding \cup {"clean"}

Behind(j) == \A r \in Run : job[r] = j /\ pc[r] \in Staging =>
  /\ persisted[j] <= idx[r]
  /\ \A f \in File : f < idx[r] \/ container[j][f] = "exited0" => f \in Kept(j)

Through(j) == \A r \in Run :
  job[r] = j /\ pc[r] \in {"succeeded", "move"} => idx[r] = NFiles

(* attachAndWait is for containers that have run.                          *)
Started(j) == \A r \in Run :
  job[r] = j /\ pc[r] \in {"attach", "reap"} => container[j][idx[r]] # "created"

Swept(j) ==
  (status[j] = "absent" \/ \E q \in Req : rjob[q] = j /\ rpc[q] = "reset")
    => \A f \in File : container[j][f] = "none"

Owned(j) == persisted[j] # None => \E r \in Run : job[r] = j /\ pc[r] # "exit"

Whole(j) == status[j] = "done" => output[j] \cup parts[j] = File

Delivering(j) ==
  /\ Through(j) /\ Started(j) /\ Swept(j) /\ Owned(j)
  /\ j \notin spoiled => Behind(j) /\ Whole(j)

DInv == \A j \in Job : Delivering(j)

LEMMA DeliverInit == Init => DInv
  BY DEF Init, DInv, Delivering, Through, Started, Swept, Owned, Behind, Whole,
         Staging, Before, Encoding

LEMMA DeliverFrame ==
  ASSUME TypeOK, NEW k \in Job, Delivering(k),
         status'[k] = status[k], persisted'[k] = persisted[k],
         output'[k] = output[k], parts'[k] = parts[k],
         tmp[k] \subseteq tmp'[k], spoiled' = spoiled,
         \A f \in File :
           /\ container'[k][f] = "exited0" => container[k][f] = "exited0" \/ f \in tmp'[k]
           /\ container'[k][f] = "created" => container[k][f] = "created"
           /\ container[k][f] = "none" => container'[k][f] = "none",
         \/ \A f \in File : container'[k][f] = "none"
         \/ \A q \in Req : rjob'[q] = k /\ rpc'[q] = "reset"
                             => rjob[q] = k /\ rpc[q] = "reset",
         \A s \in Run : /\ job'[s] = k <=> job[s] = k
                        /\ job[s] = k => pc'[s] = pc[s] /\ idx'[s] = idx[s]
  PROVE  Delivering(k)'
  <1>1. Through(k)' /\ Owned(k)'
    BY DEF Delivering, Through, Owned
  <1>2. Started(k)'
    <2>1. \A s \in Run : pc[s] \in {"attach", "reap"} => idx[s] \in File
      BY DEF TypeOK, InFile
    <2> QED
      BY <2>1 DEF Delivering, Started
  <1>3. Swept(k)'
    BY DEF Delivering, Swept
  <1>4. k \notin spoiled' => Behind(k)' /\ Whole(k)'
    BY DEF Delivering, Behind, Whole, Kept
  <1> QED
    BY <1>1, <1>2, <1>3, <1>4 DEF Delivering

LEMMA DeliverRun ==
  ASSUME TypeOK, TypeOK', PInv, PInv', NEW r \in Run, job[r] \in Job, Local(r),
         job'[r] = job[r], pc'[r] # "idle",
         pc'[r] \in {"succeeded", "move"} => idx'[r] = NFiles,
         pc'[r] \in {"attach", "reap"} => container'[job[r]][idx'[r]] # "created",
         pc'[r] # "exit" \/ persisted'[job[r]] = None,
         job[r] \notin spoiled /\ pc'[r] \in Staging =>
           /\ persisted'[job[r]] <= idx'[r]
           /\ \A f \in File : f < idx'[r] \/ container'[job[r]][f] = "exited0"
                => f \in tmp'[job[r]] \cup output'[job[r]] \cup parts'[job[r]],
         job[r] \notin spoiled /\ status'[job[r]] = "done" => output'[job[r]] \cup parts'[job[r]] = File
  PROVE  Delivering(job[r])'
  <1>1. \A s \in Run : job'[s] = job[r] => s = r
    BY ManagerAssumption DEF PInv, OneRun, Local
  <1> DEFINE j == job[r]
  <1>j. j \in Job /\ job'[r] = j /\ spoiled' = spoiled
    BY DEF Local, bounds
  <1> HIDE DEF j
  <1>2. Through(j)' /\ Started(j)' /\ Owned(j)'
    BY <1>1, <1>j DEF Through, Started, Owned, j
  <1>3. Swept(j)'
    <2>1. ~ \E q \in Req : rjob'[q] = j /\ rpc'[q] = "reset"
      BY <1>j DEF PInv, AtRest, j
    <2>2. pc'[r] \in Before \cup Encoding \cup After
      BY DEF TypeOK, Labels
    <2>3. status'[j] # "absent"
      BY <1>j, <2>2 DEF PInv, Phased, Terminal
    <2> QED
      BY <1>j, <2>1, <2>3 DEF Swept, j
  <1>4. j \notin spoiled' => Behind(j)' /\ Whole(j)'
    BY <1>1, <1>j DEF Behind, Whole, Kept, j
  <1> QED
    BY <1>2, <1>3, <1>4 DEF Delivering, j

(* A step of a run.  Attach and the removal of its container come between  *)
(* a worker's success and the next file; MoveEnds, after the last file,    *)
(* finds TMP_DIR empty.                                                    *)
LEMMA DeliverRunStep ==
  ASSUME TypeOK, TypeOK', PInv, PInv', FInv, DInv, NEW r \in Run, RunStep(r)
  PROVE  DInv'
  <1>l. Local(r) /\ pc[r] # "idle" /\ job[r] \in Job
    BY RunIsLocal
  <1>f. Found(job[r]) /\ Delivering(job[r])
    BY <1>l DEF FInv, DInv
  <1>o. \A s \in Run : job[s] = job[r] => s = r
    BY <1>l, ManagerAssumption DEF PInv, OneRun
  <1>1. ASSUME NEW k \in Job, k # job[r]
        PROVE  Delivering(k)'
    <2>1. \A s \in Run : /\ job'[s] = k <=> job[s] = k
                         /\ job[s] = k => pc'[s] = pc[s] /\ idx'[s] = idx[s]
      BY <1>1, <1>l, ManagerAssumption DEF Local
    <2>2. Delivering(k) /\ UNCHANGED <<rpc, rjob, spoiled>>
      BY <1>l DEF DInv, Local, handler, bounds
    <2> QED
      BY <1>1, <1>l, <2>1, <2>2, DeliverFrame DEF Local
  <1>2. ASSUME ~Exit(r)
        PROVE  Delivering(job[r])'
    <2>r. \A f \in File : container[job[r]][f] = "running" => pc[r] \in Ahead \cup After
      BY <1>l, <1>f, FoundPhase
    <2>b. job[r] \notin spoiled /\ pc[r] \in Staging =>
            /\ persisted[job[r]] <= idx[r]
            /\ \A f \in File : f < idx[r] \/ container[job[r]][f] = "exited0"
                 => f \in tmp[job[r]] \cup output[job[r]] \cup parts[job[r]]
      BY <1>f DEF Delivering, Behind, Kept
    <2>t. pc[r] \in {"succeeded", "move"} => idx[r] = NFiles
      BY <1>f DEF Delivering, Through
    <2>s. pc[r] \in {"attach", "reap"} => container[job[r]][idx[r]] # "created"
      BY <1>f DEF Delivering, Started
    <2>p. /\ pc[r] \in Before => status[job[r]] = "queued"
          /\ pc[r] \in Encoding => status[job[r]] = "running"
      BY DEF PInv, Phased
    <2>i. idx[r] \in 0 .. NFiles /\ persisted[job[r]] \in File \cup {None} /\ NFiles \in Nat
      BY <1>l, ManagerAssumption DEF TypeOK
    <2> USE DEF Staging
    <2>1. CASE Acquire(r)
      <3>1. /\ pc'[r] = "start" /\ pc[r] = "wait"
            /\ UNCHANGED <<job, idx, status, container, persisted, tmp, output, parts>>
        BY <2>1 DEF Acquire, Goto, TypeOK, memory, disk
      <3> QED
        BY <3>1, <1>l, <2>b, <2>p, DeliverRun DEF Before
    <2>2. CASE Start(r)
      <3>1. pc[r] = "start" /\ UNCHANGED <<job, idx, container, persisted, tmp, output, parts>>
        BY <2>2 DEF Start, disk
      <3>2. status'[job[r]] # "done" /\ pc'[r] \in {"clean", "file"}
        BY <2>2, <1>l DEF Start, Goto, TypeOK
      <3> QED
        BY <3>1, <3>2, <1>l, <2>b, DeliverRun DEF Before
    <2>3. CASE NextFile(r)
      <3>1. pc[r] = "file" /\ UNCHANGED <<job, status, container, tmp, output, parts>>
        BY <2>3 DEF NextFile, memory
      <3>s. status'[job[r]] # "done"
        BY <3>1, <2>p DEF Encoding
      <3>3. CASE idx[r] = NFiles
        <4>1. pc'[r] = "succeeded" /\ UNCHANGED <<idx, persisted>>
          BY <2>3, <3>3 DEF NextFile, Goto, TypeOK
        <4> QED
          BY <3>1, <3>s, <3>3, <4>1, <1>l, <2>b, DeliverRun DEF Encoding
      <3>4. CASE idx[r] # NFiles /\ Encoded(job[r], idx[r])
        <4>1. pc'[r] = "file" /\ idx'[r] = idx[r] + 1 /\ persisted'[job[r]] = idx[r]
          BY <2>3, <3>1, <3>4, <1>l DEF NextFile, Saved, TypeOK
        <4>2. \A f \in File : f < idx[r] + 1 => f < idx[r] \/ f = idx[r]
          BY <2>i DEF File
        <4>3. idx[r] \in output[job[r]] \cup parts[job[r]] /\ idx[r] <= idx[r] + 1
          BY <3>4, <2>i DEF Encoded
        <4> QED
          BY <3>1, <3>s, <4>1, <4>2, <4>3, <1>l, <2>b, DeliverRun DEF Encoding
      <3>5. CASE idx[r] # NFiles /\ ~Encoded(job[r], idx[r])
        <4>1. pc'[r] = "inspect" /\ idx' = idx /\ persisted'[job[r]] = idx[r]
          BY <2>3, <3>5, <1>l DEF NextFile, Goto, Saved, TypeOK
        <4>2. idx[r] <= idx[r]
          BY <2>i
        <4> QED
          BY <3>1, <3>s, <4>1, <4>2, <1>l, <2>b, DeliverRun DEF Encoding
      <3> QED
        BY <3>3, <3>4, <3>5
    <2>4. CASE Inspect(r)
      <3>1. /\ pc[r] = "inspect"
            /\ UNCHANGED <<job, idx, status, container, persisted, tmp, output, parts>>
        BY <2>4 DEF Inspect, memory, disk
      <3>2. \/ pc'[r] = "attach" /\ container[job[r]][idx[r]] # "created"
            \/ pc'[r] \in {"rmstale", "launch"}
        BY <2>4 DEF Inspect, Goto, TypeOK
      <3> QED
        BY <3>1, <3>2, <1>l, <2>b, <2>p, DeliverRun DEF Encoding
    <2>5. CASE RemoveStale(r) \/ Launch(r)
      <3>1. /\ pc[r] \in {"rmstale", "launch"}
            /\ UNCHANGED <<job, idx, status, persisted, tmp, output, parts>>
        BY <2>5 DEF RemoveStale, Launch, memory, disk
      <3>2. idx[r] \in File
        BY <3>1, InFileType DEF InFile
      <3>3. \/ pc'[r] \in {"launch", "errored"}
            \/ pc'[r] = "attach" /\ container'[job[r]][idx[r]] = "running"
        BY <2>5, <3>2, <1>l DEF RemoveStale, Launch, Docked, Goto, TypeOK
      <3>4. \A f \in File : container'[job[r]][f] = "exited0" => container[job[r]][f] = "exited0"
        BY <2>5, <1>l DEF RemoveStale, Launch, Docked, TypeOK
      <3> QED
        BY <3>1, <3>3, <3>4, <1>l, <2>b, <2>p, DeliverRun DEF Encoding
    <2>7. CASE Attach(r)
      <3>1. /\ pc[r] = "attach" /\ pc'[r] = "reap"
            /\ UNCHANGED <<job, idx, status, container, persisted, tmp, output, parts>>
        BY <2>7 DEF Attach, Goto, TypeOK, memory, disk
      <3> QED
        BY <3>1, <1>l, <2>b, <2>p, <2>s, DeliverRun DEF Encoding
    <2>8. CASE Reap(r)
      <3>1. pc[r] = "reap" /\ UNCHANGED <<job, status, persisted, tmp, output, parts>>
        BY <2>8 DEF Reap, memory, disk
      <3>2. idx[r] \in File
        BY <3>1, InFileType DEF InFile
      <3>3. \A f \in File : container'[job[r]][f] = "exited0" => container[job[r]][f] = "exited0"
        BY <2>8, <1>l DEF Reap, Docked, TypeOK
      <3>4. CASE FailedWith(container[job[r]][idx[r]])
        <4>1. pc'[r] = "errored" /\ idx' = idx
          BY <2>8, <3>4 DEF Reap, Goto, TypeOK
        <4> QED
          BY <3>1, <3>3, <4>1, <1>l, <2>b, <2>p, DeliverRun DEF Encoding
      <3>5. CASE ~FailedWith(container[job[r]][idx[r]])
        <4>1. pc'[r] = "file" /\ idx'[r] = idx[r] + 1
          BY <2>8, <3>5 DEF Reap, Goto, TypeOK
        <4>2. container[job[r]][idx[r]] = "exited0"
          BY <3>1, <3>2, <3>5, <2>r, <2>s, <1>l
          DEF FailedWith, TypeOK, Docker, Ahead, Before, After
        <4>3. \A f \in File : f < idx[r] + 1 => f < idx[r] \/ f = idx[r]
          BY <2>i DEF File
        <4>4. persisted[job[r]] <= idx[r] => persisted[job[r]] <= idx[r] + 1
          BY <2>i DEF File, None
        <4> QED
          BY <3>1, <3>3, <4>1, <4>2, <4>3, <4>4, <1>l, <2>b, <2>p, DeliverRun DEF Encoding
      <3> QED
        BY <3>4, <3>5
    <2>9. CASE Settle(r)
      <3>1. /\ pc[r] \in {"succeeded", "errored", "move"}
            /\ UNCHANGED <<job, idx, container, persisted, tmp, output, parts>>
        BY <2>9 DEF Settle, disk
      <3>2. \/ pc'[r] = "clean"
            \/ pc'[r] = "move" /\ pc[r] = "succeeded"
        BY <2>9 DEF Settle, Goto, TypeOK
      <3>3. status'[job[r]] # "done"
        BY <2>9, <2>p, <3>1, <1>l DEF Settle, TypeOK, Encoding
      <3> QED
        BY <3>1, <3>2, <3>3, <1>l, <2>b, <2>t, DeliverRun DEF Encoding
    <2>13. CASE MoveFails(r)
      <3>1. /\ pc[r] = "move" /\ pc'[r] = "clean" /\ status'[job[r]] = "failed"
            /\ UNCHANGED <<job, idx, container, persisted, tmp>>
        BY <2>13, <1>l DEF MoveFails, Goto, TypeOK
      <3>2. Kept(job[r]) \subseteq tmp[job[r]] \cup output'[job[r]] \cup parts'[job[r]]
        BY <2>13, <1>l, MoversOnly DEF MoveFails
      <3> QED
        BY <3>1, <3>2, <1>l, <2>b, DeliverRun DEF Encoding, Kept
    <2>10. CASE MoveEntry(r)
      <3>1. pc[r] = "move" /\ UNCHANGED <<job, pc, idx, status, container, persisted>>
        BY <2>10 DEF MoveEntry, runs, memory
      <3>2. tmp[job[r]] \cup output[job[r]] \cup parts[job[r]] \subseteq
              tmp'[job[r]] \cup output'[job[r]] \cup parts'[job[r]]
        BY <2>10, <1>l DEF MoveEntry, TypeOK
      <3> QED
        BY <3>1, <3>2, <1>l, <2>b, <2>p, <2>t, DeliverRun DEF Encoding
    <2>11. CASE MoveEnds(r)
      <3>1. /\ pc[r] = "move" /\ pc'[r] = "clean" /\ tmp[job[r]] = {}
            /\ UNCHANGED <<job, idx, container, persisted, tmp, output, parts>>
        BY <2>11 DEF MoveEnds, Goto, TypeOK, disk
      <3>2. \A f \in File : f < NFiles
        BY <2>i DEF File
      <3>3. job[r] \notin spoiled => output[job[r]] \cup parts[job[r]] = File
        <4>1. job[r] \notin spoiled => \A f \in File : f \in tmp[job[r]] \cup output[job[r]] \cup parts[job[r]]
          BY <3>1, <3>2, <2>b, <2>t DEF Encoding
        <4>2. output[job[r]] \cup parts[job[r]] \subseteq File
          BY <1>l DEF TypeOK
        <4> QED
          BY <3>1, <4>1, <4>2
      <3> QED
        BY <3>1, <3>3, <1>l, <2>b, DeliverRun DEF Encoding
    <2>12. CASE Clean(r) \/ Unpersist(r)
      <3>1. /\ pc'[r] \in {"unpersist", "exit"}
            /\ pc'[r] = "exit" => persisted'[job[r]] = None
            /\ UNCHANGED <<job, status, output, parts>>
        BY <2>12, <1>l DEF Clean, Unpersist, Goto, TypeOK, memory
      <3>2. job[r] \notin spoiled /\ status[job[r]] = "done" => output[job[r]] \cup parts[job[r]] = File
        BY <1>f DEF Delivering, Whole
      <3> QED
        BY <3>1, <3>2, <1>l, DeliverRun DEF Before, Encoding
    <2> QED
      BY <1>2, <2>1, <2>2, <2>3, <2>4, <2>5, <2>7, <2>8, <2>9, <2>10, <2>11,
         <2>12, <2>13 DEF RunStep
  <1>3. ASSUME ~Exit(r)
        PROVE  job'[r] = job[r]
    BY <1>3 DEF RunStep, Acquire, Start, NextFile, Inspect, RemoveStale, Launch, Attach,
       Reap, Settle, MoveEntry, MoveFails, MoveEnds, Clean, Unpersist, runs
  <1>4. ASSUME Exit(r), NEW k \in Job, k = job[r]
        PROVE  Delivering(k)'
    <2>1. /\ UNCHANGED <<status, persisted, output, parts, rpc, rjob, spoiled>>
          /\ pc[r] = "exit"
      BY <1>4 DEF Exit, memory, disk, handler, bounds
    <2>2. \A s \in Run : job'[s] # k
      BY <1>4, <1>o, <1>l, ManagerAssumption DEF Exit, TypeOK
    <2>3. status[k] \in Terminal /\ persisted[k] = None
      BY <1>4, <1>f, <1>o, <2>1 DEF PInv, Phased, After, Delivering, Owned
    <2>4. Swept(k)'
      BY <1>4, <2>1, <2>3 DEF Swept, PInv, AtRest, Terminal
    <2> QED
      BY <1>4, <1>f, <2>1, <2>2, <2>3, <2>4
      DEF Delivering, Through, Started, Owned, Behind, Whole
  <1> QED
    BY <1>1, <1>2, <1>3, <1>4 DEF DInv

LEMMA DeliverAside ==
  ASSUME TypeOK, DInv, Aside, spoiled' = spoiled,
         \A k \in Job : tmp[k] \subseteq tmp'[k],
         \A k \in Job, f \in File :
           /\ container'[k][f] = "exited0" => container[k][f] = "exited0" \/ f \in tmp'[k]
           /\ container'[k][f] = "created" => container[k][f] = "created"
           /\ container[k][f] = "none" => container'[k][f] = "none",
         \A q \in Req : rpc'[q] = "reset" =>
           \/ rpc[q] = "reset" /\ rjob'[q] = rjob[q]
           \/ \A f \in File : container'[rjob'[q]][f] = "none"
  PROVE  DInv'
  <1> SUFFICES ASSUME NEW k \in Job
               PROVE  Delivering(k)'
    BY DEF DInv
  <1>1. \/ \A f \in File : container'[k][f] = "none"
        \/ \A q \in Req : rjob'[q] = k /\ rpc'[q] = "reset"
                            => rjob[q] = k /\ rpc[q] = "reset"
    OBVIOUS
  <1> QED
    BY <1>1, DeliverFrame DEF DInv, Aside

LEMMA DeliverWorker ==
  ASSUME TypeOK, DInv, NEW j \in Job, NEW f \in File,
         WorkerSucceeds(j, f) \/ WorkerFails(j, f)
  PROVE  DInv'
  <1>1. Aside /\ UNCHANGED <<spoiled, rpc, rjob>>
    BY DEF WorkerSucceeds, WorkerFails, Aside, memory, runs, handler, disk, bounds
  <1>2. \A k \in Job : tmp[k] \subseteq tmp'[k]
    BY DEF WorkerSucceeds, WorkerFails, TypeOK, disk
  <1>3. \A k \in Job, g \in File :
          /\ container'[k][g] = "exited0" => container[k][g] = "exited0" \/ g \in tmp'[k]
          /\ container'[k][g] = "created" => container[k][g] = "created"
          /\ container[k][g] = "none" => container'[k][g] = "none"
    <2>1. /\ container[j][f] = "running"
          /\ \/ container'[j][f] = "exited0" /\ f \in tmp'[j]
             \/ container'[j][f] = "exited1"
      BY DEF WorkerSucceeds, WorkerFails, Docked, TypeOK
    <2>2. \A k \in Job, g \in File :
            ~(k = j /\ g = f) => container'[k][g] = container[k][g]
      BY DEF WorkerSucceeds, WorkerFails, Docked, TypeOK
    <2> QED
      BY <2>1, <2>2
  <1> QED
    BY <1>1, <1>2, <1>3, DeliverAside

LEMMA DeliverHandler ==
  ASSUME TypeOK, DInv, NEW q \in Req,
         \/ \E j \in Job : Cancel(q, j) \/ Resume(q, j)
         \/ CancelMark(q) \/ CancelPs(q) \/ CancelStop(q) \/ CancelRm(q)
         \/ ResumeSweep(q)
  PROVE  DInv'
  <1>1. Aside /\ UNCHANGED <<spoiled, tmp>>
    BY DEF Cancel, Resume, CancelMark, CancelPs, CancelStop, CancelRm, ResumeSweep,
           Aside, memory, runs, disk, bounds
  <1>2. \A k \in Job, g \in File :
          /\ container'[k][g] = "exited0" => container[k][g] = "exited0"
          /\ container'[k][g] = "created" => container[k][g] = "created"
          /\ container[k][g] = "none" => container'[k][g] = "none"
    <2>1. CASE (\E j \in Job : Cancel(q, j) \/ Resume(q, j)) \/ CancelMark(q) \/ CancelPs(q)
      BY <2>1 DEF Cancel, Resume, CancelMark, CancelPs
    <2>2. CASE CancelStop(q)
      <3>1. rjob[q] \in Job
        BY <2>2 DEF CancelStop, TypeOK
      <3> QED
        BY <2>2, <3>1 DEF CancelStop, TypeOK
    <2>3. CASE CancelRm(q)
      <3>1. rjob[q] \in Job
        BY <2>3 DEF CancelRm, TypeOK
      <3> QED
        BY <2>3, <3>1 DEF CancelRm, TypeOK
    <2>4. CASE ResumeSweep(q)
      BY <2>4 DEF ResumeSweep, TypeOK
    <2> QED
      BY <2>1, <2>2, <2>3, <2>4
  <1>3. \A p \in Req : rpc'[p] = "reset" =>
          \/ rpc[p] = "reset" /\ rjob'[p] = rjob[p]
          \/ \A f \in File : container'[rjob'[p]][f] = "none"
    <2>1. CASE ResumeSweep(q)
      <3>1. /\ \A p \in Req : p # q => rpc'[p] = rpc[p]
            /\ rjob' = rjob /\ rjob[q] \in Job
        BY <2>1 DEF ResumeSweep, TypeOK
      <3>2. \A f \in File : container'[rjob'[q]][f] = "none"
        BY <2>1, <3>1 DEF ResumeSweep, TypeOK
      <3> QED
        BY <3>1, <3>2
    <2>2. CASE ~ResumeSweep(q)
      <3>1. /\ rpc'[q] # "reset"
            /\ \A p \in Req : p # q => rpc'[p] = rpc[p] /\ rjob'[p] = rjob[p]
        BY <2>2 DEF Cancel, Resume, CancelMark, CancelPs, CancelStop, CancelRm,
                    Admit, Return, TypeOK
      <3> QED
        BY <3>1
    <2> QED
      BY <2>1, <2>2
  <1> QED
    BY <1>1, <1>2, <1>3, DeliverAside

LEMMA DeliverSpawn ==
  ASSUME TypeOK, DInv, NEW r \in Run, NEW j \in Job, Spawn(r, j), Saved(j, 0),
         status' = [status EXCEPT ![j] = "queued"],
         \A q \in Req : rpc'[q] = "reset" =>
           rpc[q] = "reset" /\ rjob'[q] = rjob[q] /\ rjob[q] # j,
         UNCHANGED <<container, tmp, output, parts, spoiled>>,
         \A s \in Run : job[s] # j,
         \/ status[j] = "absent"
         \/ \E q \in Req : rjob[q] = j /\ rpc[q] = "reset"
  PROVE  DInv'
  <1>1. /\ \A s \in Run : pc'[s] = IF s = r THEN "wait" ELSE pc[s]
        /\ \A s \in Run : job'[s] = IF s = r THEN j ELSE job[s]
        /\ \A s \in Run : idx'[s] = IF s = r THEN 0 ELSE idx[s]
        /\ \A k \in Job : status'[k] = IF k = j THEN "queued" ELSE status[k]
        /\ \A k \in Job : persisted'[k] = IF k = j THEN 0 ELSE persisted[k]
        /\ job[r] \notin Job
    BY ManagerAssumption DEF Spawn, Saved, TypeOK
  <1>2. ASSUME NEW k \in Job, k # j
        PROVE  Delivering(k)'
    <2>1. \A s \in Run : /\ job'[s] = k <=> job[s] = k
                         /\ job[s] = k => pc'[s] = pc[s] /\ idx'[s] = idx[s]
      BY <1>1, <1>2
    <2> QED
      BY <1>1, <1>2, <2>1, DeliverFrame DEF DInv
  <1>3. Delivering(j)'
    <2>1. \A s \in Run : job'[s] = j <=> s = r
      BY <1>1
    <2>2. \A f \in File : container[j][f] = "none"
      BY DEF DInv, Delivering, Swept
    <2>3. \A f \in File : ~(f < 0)
      BY ManagerAssumption DEF File
    <2>4. Behind(j)'
      BY <1>1, <2>1, <2>2, <2>3 DEF Behind
    <2>5. Through(j)' /\ Started(j)' /\ Swept(j)' /\ Owned(j)' /\ Whole(j)'
      BY <1>1, <2>1 DEF Through, Started, Swept, Owned, Whole
    <2> QED
      BY <2>4, <2>5 DEF Delivering
  <1> QED
    BY <1>2, <1>3 DEF DInv

(* A restart: a job whose staging was cleaned is spoiled, any other goes   *)
(* on from a file that its last run had reached.                           *)
LEMMA DeliverRestart ==
  ASSUME TypeOK, TypeOK', PInv, DInv, Restart
  PROVE  DInv'
  <1>1. PICK saved \in SUBSET Job :
          /\ \A j \in saved : persisted[j] # None
          /\ \A j \in Job : status'[j] = IF j \in saved THEN "queued"
                                         ELSE IF status[j] = "absent" THEN "absent"
                                         ELSE "gone"
          /\ \A j \in Job : persisted'[j] = IF j \in saved THEN persisted[j] ELSE None
          /\ \A j \in saved : \E r \in Run : job'[r] = j
          /\ \A r \in Run : job'[r] \in saved \cup {NoJob}
          /\ \A r \in Run : pc'[r] = IF job'[r] = NoJob THEN "idle" ELSE "wait"
          /\ \A r \in Run : idx'[r] = IF job'[r] = NoJob THEN 0 ELSE persisted[job'[r]]
    <2>1. PICK torn \in SUBSET {j \in Job : Torn(j)} :
            Reconcile({j \in Job : persisted[j] # None} \ torn)
      BY DEF Restart
    <2> DEFINE saved == {j \in Job : persisted[j] # None} \ torn
    <2>2. saved \in SUBSET Job
      OBVIOUS
    <2> QED
      BY <2>1, <2>2 DEF Reconcile
  <1>2. /\ UNCHANGED <<container, tmp>>
        /\ \A j \in Job : Kept(j) \subseteq Kept(j)'
        /\ spoiled' = spoiled \cup {j \in Job : \E r \in LiveRun(j) : pc[r] = "unpersist"}
        /\ \A q \in Req : rpc'[q] = "idle"
    BY MoversOnly DEF Restart, Kept
  <1>3. SUFFICES ASSUME NEW k \in Job
                 PROVE  Delivering(k)'
    BY DEF DInv
  <1>4. Through(k)' /\ Started(k)'
    BY <1>1 DEF Through, Started
  <1>5. Swept(k)' /\ Whole(k)'
    BY <1>1, <1>2 DEF Swept, Whole, DInv, Delivering
  <1>6. Owned(k)'
    BY <1>1, ManagerAssumption DEF Owned
  <1>7. ASSUME k \notin spoiled', NEW r \in Run, job'[r] = k
        PROVE  /\ persisted'[k] <= idx'[r]
               /\ \A f \in File : f < idx'[r] \/ container'[k][f] = "exited0"
                    => f \in Kept(k)'
    <2>1. k \in saved /\ idx'[r] = persisted[k] /\ persisted'[k] = persisted[k]
      BY <1>1, <1>7, ManagerAssumption
    <2>2. PICK s \in Run : job[s] = k /\ pc[s] # "exit"
      BY <1>1, <2>1 DEF DInv, Delivering, Owned
    <2>3. pc[s] # "unpersist" /\ k \notin spoiled
      BY <1>2, <1>7, <2>2 DEF LiveRun
    <2>4. pc[s] \in Staging
      BY <2>2, <2>3, ManagerAssumption DEF TypeOK, Labels, Staging, After
    <2>5. /\ persisted[k] <= idx[s]
          /\ \A f \in File : f < idx[s] \/ container[k][f] = "exited0" => f \in Kept(k)
      BY <2>2, <2>3, <2>4 DEF DInv, Delivering, Behind
    <2>6. persisted[k] \in Int /\ idx[s] \in Int /\ \A f \in File : f \in Int
      BY ManagerAssumption DEF TypeOK, File, None
    <2> QED
      BY <1>2, <2>1, <2>5, <2>6
  <1>8. k \notin spoiled' => Behind(k)'
    BY <1>7 DEF Behind
  <1> QED
    BY <1>4, <1>5, <1>6, <1>8 DEF Delivering

LEMMA DeliverStep ==
  ASSUME ~Impatient
  PROVE  TypeOK /\ TypeOK' /\ PInv /\ PInv' /\ FInv /\ DInv /\ [Next]_vars => DInv'
  <1> SUFFICES ASSUME TypeOK, TypeOK', PInv, PInv', FInv, DInv, [Next]_vars
               PROVE  DInv'
    OBVIOUS
  <1>1. ASSUME NEW j \in Job, Submit(j)
        PROVE  DInv'
    <2>1. /\ status[j] = "absent" /\ Saved(j, 0)
          /\ UNCHANGED <<rpc, rjob, container, tmp, output, parts, spoiled>>
          /\ status' = [status EXCEPT ![j] = "queued"]
      BY <1>1 DEF Submit, Fresh, handler, bounds
    <2>2. \A s \in Run : job[s] # j
      <3>1. SUFFICES ASSUME NEW s \in Run, job[s] = j
                     PROVE  FALSE
        OBVIOUS
      <3>2. pc[s] \in Before \cup Encoding \cup After
        BY <3>1, ManagerAssumption DEF TypeOK, Labels
      <3> QED
        BY <2>1, <3>1, <3>2 DEF PInv, Phased, Terminal
    <2>3. \A q \in Req : rpc[q] = "reset" => rjob[q] # j
      BY <2>1 DEF PInv, AtRest
    <2>4. PICK r \in Run : Spawn(r, j)
      BY <1>1 DEF Submit
    <2> QED
      BY <2>1, <2>2, <2>3, <2>4, DeliverSpawn
  <1>2. ASSUME NEW q \in Req, ResumeReset(q)
        PROVE  DInv'
    <2>1. /\ rjob[q] \in Job /\ rpc[q] = "reset" /\ Saved(rjob[q], 0)
          /\ rpc'[q] = "idle"
          /\ \A p \in Req : p # q => rpc'[p] = rpc[p] /\ rjob'[p] = rjob[p]
          /\ status' = [status EXCEPT ![rjob[q]] = "queued"]
          /\ UNCHANGED <<container, tmp, output, parts, spoiled>>
      BY <1>2 DEF ResumeReset, Return, TypeOK, bounds
    <2>2. /\ \A s \in Run : job[s] # rjob[q]
          /\ \A p \in Req : rjob[p] = rjob[q] => p = q
      BY <2>1 DEF PInv, AtRest
    <2>3. PICK r \in Run : Spawn(r, rjob[q])
      BY <1>2 DEF ResumeReset
    <2> QED
      BY <2>1, <2>2, <2>3, DeliverSpawn
  <1>3. CASE UNCHANGED vars
    BY <1>3, DeliverAside DEF vars, memory, runs, handler, disk, bounds, Aside
  <1> QED
    BY <1>1, <1>2, <1>3, DeliverRunStep, DeliverWorker, DeliverHandler, DeliverRestart
    DEF Next, ReqStep

LEMMA DeliveryInvariant ==
  ASSUME ~Impatient
  PROVE  Spec => [](SInv /\ PInv /\ FInv /\ DInv)
  <1>1. Init => SInv /\ PInv /\ FInv /\ DInv
    BY SlotsInit, PatientInit, FoundInit, DeliverInit
  <1>2. SInv /\ PInv /\ FInv /\ DInv /\ [Next]_vars => SInv' /\ PInv' /\ FInv' /\ DInv'
    BY SlotsStep, TypeStep, PatientStep, FoundStep, DeliverStep DEF SInv
  <1> QED
    BY <1>1, <1>2, PTL DEF Spec

(* The parts.  A file is delivered whole or in part, and nothing goes on   *)
(* from a move that was cut short before a Resume or a restart.            *)
Apart == \A j \in Job : output[j] \cap parts[j] = {}

Uninterrupted == resumes + restarts = 0 =>
  /\ \A j \in Job : parts[j] # {} => status[j] = "failed"
  /\ \A q \in Req : rpc[q] \notin {"sweep", "reset"}

CInv == Apart /\ Uninterrupted

LEMMA PartsRunStep ==
  ASSUME TypeOK, TypeOK', PInv, CInv, NEW r \in Run, RunStep(r)
  PROVE  CInv'
  <1>l. Local(r) /\ pc[r] # "idle" /\ job[r] \in Job
    BY RunIsLocal
  <1>s. pc[r] \in Before \cup Encoding => status[job[r]] # "failed"
    BY DEF PInv, Phased
  <1>1. /\ output'[job[r]] \cap parts'[job[r]] = {}
        /\ \/ parts'[job[r]] \subseteq parts[job[r]] /\ status'[job[r]] = status[job[r]]
           \/ parts'[job[r]] \subseteq parts[job[r]] /\ pc[r] \in Before \cup Encoding
           \/ status'[job[r]] = "failed"
    <2>1. CASE MoveFails(r)
      <3>1. output'[job[r]] \cap parts'[job[r]] = {}
        BY <2>1, <1>l, MoversOnly DEF MoveFails, CInv, Apart
      <3>2. status'[job[r]] = "failed"
        BY <2>1, <1>l DEF MoveFails, TypeOK
      <3> QED
        BY <3>1, <3>2
    <2>2. CASE MoveEntry(r)
      <3>1. status'[job[r]] = status[job[r]]
        BY <2>2 DEF MoveEntry, memory
      <3>2. output'[job[r]] \cap parts'[job[r]] = {} /\ parts'[job[r]] \subseteq parts[job[r]]
        BY <2>2, <1>l DEF MoveEntry, CInv, Apart, TypeOK
      <3> QED
        BY <3>1, <3>2
    <2>3. CASE ~MoveFails(r) /\ ~MoveEntry(r)
      <3>1. UNCHANGED <<output, parts>>
        BY <2>3 DEF RunStep, Acquire, Start, NextFile, Inspect, RemoveStale, Launch, Attach,
           Reap, Settle, MoveEnds, Clean, Unpersist, Exit, disk
      <3>2. pc[r] \in Before \cup Encoding \/ status' = status
        BY <2>3 DEF RunStep, Acquire, Start, NextFile, Inspect, RemoveStale, Launch, Attach,
           Reap, Settle, MoveEnds, Clean, Unpersist, Exit, memory, Before, Encoding
      <3> QED
        BY <3>1, <3>2, <1>l DEF CInv, Apart
    <2> QED
      BY <2>1, <2>2, <2>3
  <1>2. Apart'
    BY <1>1, <1>l DEF Local, CInv, Apart
  <1>3. Uninterrupted'
    BY <1>1, <1>l, <1>s DEF Local, CInv, Uninterrupted, handler, bounds
  <1> QED
    BY <1>2, <1>3 DEF CInv

LEMMA PartsStep == TypeOK /\ TypeOK' /\ PInv /\ CInv /\ [Next]_vars => CInv'
  <1> SUFFICES ASSUME TypeOK, TypeOK', PInv, CInv, [Next]_vars
               PROVE  CInv'
    OBVIOUS
  <1>1. ASSUME NEW j \in Job, Submit(j)
        PROVE  CInv'
    BY <1>1 DEF Submit, Fresh, handler, bounds, CInv, Apart, Uninterrupted, TypeOK
  <1>2. ASSUME NEW j \in Job, NEW f \in File, WorkerSucceeds(j, f) \/ WorkerFails(j, f)
        PROVE  CInv'
    BY <1>2 DEF WorkerSucceeds, WorkerFails, memory, handler, disk, bounds, CInv, Apart,
                Uninterrupted
  <1>3. ASSUME NEW q \in Req, NEW j \in Job, Cancel(q, j)
        PROVE  CInv'
    BY <1>3 DEF Cancel, Admit, memory, disk, bounds, CInv, Apart, Uninterrupted, TypeOK
  <1>4. ASSUME NEW q \in Req, NEW j \in Job, Resume(q, j)
        PROVE  CInv'
    <2>1. resumes' + restarts' # 0 /\ UNCHANGED <<output, parts>>
      BY <1>4 DEF Resume, disk, TypeOK
    <2> QED
      BY <2>1 DEF CInv, Apart, Uninterrupted
  <1>5. ASSUME NEW q \in Req, ReqStep(q)
        PROVE  CInv'
    <2>1. UNCHANGED <<output, parts, resumes, restarts>>
      BY <1>5 DEF ReqStep, CancelMark, CancelPs, CancelStop, CancelRm, ResumeSweep,
                  ResumeReset, disk, bounds
    <2>2. CASE resumes + restarts # 0
      BY <2>1, <2>2 DEF CInv, Apart, Uninterrupted
    <2>3. CASE resumes + restarts = 0
      <3>1. rpc[q] \notin {"sweep", "reset"}
        BY <2>3 DEF CInv, Uninterrupted
      <3>2. status' = status
        BY <1>5, <3>1 DEF ReqStep, CancelMark, CancelPs, CancelStop, CancelRm, ResumeSweep,
                          ResumeReset, memory
      <3>3. \A p \in Req : rpc'[p] \in {"sweep", "reset"} => rpc[p] \in {"sweep", "reset"}
        BY <1>5, <3>1 DEF ReqStep, CancelMark, CancelPs, CancelStop, CancelRm, ResumeSweep,
                          ResumeReset, Return, TypeOK
      <3> QED
        BY <2>1, <3>2, <3>3 DEF CInv, Apart, Uninterrupted
    <2> QED
      BY <2>2, <2>3
  <1>6. CASE Restart
    <2>1. resumes' + restarts' # 0
      BY <1>6 DEF Restart, TypeOK
    <2>2. Apart'
      BY <1>6, MoversOnly DEF Restart, CInv, Apart
    <2> QED
      BY <2>1, <2>2 DEF CInv, Uninterrupted
  <1>7. CASE UNCHANGED vars
    BY <1>7 DEF vars, memory, handler, disk, bounds, CInv, Apart, Uninterrupted
  <1> QED
    BY <1>1, <1>2, <1>3, <1>4, <1>5, <1>6, <1>7, PartsRunStep DEF Next

(* "done" means delivered: every file of the job is in OUTPUT_DIR, however *)
(* often the job was cancelled, resumed, or taken up by another server,    *)
(* unless one ended between its clean-up and the removal of its state file;*)
(* and whole, but for a file whose own move had been cut short before a    *)
(* Resume or a restart.                                                    *)
THEOREM DoneIsDelivered == ASSUME ~Impatient PROVE Spec => []DoneDelivers
  <1>1. Init => CInv
    BY DEF Init, CInv, Apart, Uninterrupted
  <1>2. TypeOK /\ DInv /\ CInv => DoneDelivers
    <2> SUFFICES ASSUME TypeOK, DInv, CInv, NEW j \in Job \ spoiled, status[j] = "done"
                 PROVE  /\ output[j] = File \ parts[j]
                        /\ parts[j] # {} => resumes + restarts > 0
      BY DEF DoneDelivers
    <2>1. output[j] \cup parts[j] = File /\ output[j] \cap parts[j] = {}
      BY DEF DInv, Delivering, Whole, CInv, Apart
    <2>2. resumes + restarts = 0 => parts[j] = {}
      BY DEF CInv, Uninterrupted
    <2>3. resumes \in Nat /\ restarts \in Nat
      BY DEF TypeOK
    <2> QED
      BY <2>1, <2>2, <2>3
  <1>3. TypeOK /\ TypeOK' /\ PInv /\ CInv /\ [Next]_vars => CInv'
    BY PartsStep
  <1> QED
    BY <1>1, <1>2, <1>3, DeliveryInvariant, TypeCorrect, PTL DEF Spec

-----------------------------------------------------------------------------
(* What a finished job leaves.  The strengthening is about the first       *)
(* server: a worker that it has running has a run waiting for it, and the  *)
(* staging of a job has a run that will clean it.                          *)
Attended(j) ==
  /\ \A f \in File : container[j][f] = "running" =>
       \E r \in Run : job[r] = j /\ pc[r] = "attach"
  /\ tmp[j] # {} => \E r \in Run : job[r] = j /\ pc[r] \in Staging

QInv == restarts = 0 => \A j \in Job : Attended(j)

LEMMA QuietInit == Init => QInv
  BY DEF Init, QInv, Attended

LEMMA QuietRunStep ==
  ASSUME TypeOK, TypeOK', PInv, FInv, QInv, NEW r \in Run, RunStep(r)
  PROVE  QInv'
  <1>l. Local(r) /\ pc[r] # "idle" /\ job[r] \in Job
    BY RunIsLocal
  <1>o. \A s \in Run : job[s] = job[r] => s = r
    BY <1>l, ManagerAssumption DEF PInv, OneRun
  <1>1. SUFFICES ASSUME restarts = 0, NEW k \in Job
                 PROVE  Attended(k)'
    BY <1>l DEF QInv, Local, bounds
  <1>2. Attended(k)
    BY <1>1 DEF QInv
  <1>3. CASE k # job[r]
    BY <1>l, <1>2, <1>3 DEF Local, Attended
  <1>4. CASE k = job[r]
    <2>1. \A f \in File : container[k][f] = "running" => pc[r] = "attach" /\ idx[r] = f
      <3>1. SUFFICES ASSUME NEW f \in File, container[k][f] = "running"
                     PROVE  pc[r] = "attach" /\ idx[r] = f
        OBVIOUS
      <3>2. pc[r] = "attach"
        BY <1>o, <1>2, <1>4, <3>1 DEF Attended
      <3>3. Found(job[r])
        BY <1>l DEF FInv
      <3> QED
        BY <1>l, <1>4, <3>1, <3>2, <3>3, FoundPhase DEF After
    <2>2. tmp[k] # {} => pc[r] \in Staging
      BY <1>o, <1>2, <1>4 DEF Attended
    <2>3. \A f \in File : container'[k][f] = "running" => job'[r] = k /\ pc'[r] = "attach"
      <3>1. CASE Launch(r)
        <4>1. \A f \in File : container[k][f] # "running"
          BY <2>1, <3>1 DEF Launch
        <4>2. \/ pc'[r] = "attach"
              \/ \A f \in File : container'[k][f] # "running"
          BY <1>4, <1>l, <3>1, <4>1 DEF Launch, Docked, Goto, TypeOK
        <4> QED
          BY <1>4, <3>1, <4>2 DEF Launch
      <3>2. CASE ~Launch(r)
        <4>1. \A f \in File : container'[k][f] = "running" => container[k][f] = "running"
          BY <1>4, <1>l, <3>2 DEF RunStep, Acquire, Start, NextFile, Inspect, RemoveStale,
             Attach, Reap, Settle, MoveEntry, MoveFails, MoveEnds, Clean, Unpersist, Exit,
             Docked, TypeOK
        <4>2. \A f \in File : container[k][f] # "running"
          <5>1. pc[r] = "attach" => container[k][idx[r]] # "running"
            BY <1>4, <3>2 DEF RunStep, Acquire, Start, NextFile, Inspect, RemoveStale,
               Attach, Reap, Settle, MoveEntry, MoveFails, MoveEnds, Clean, Unpersist, Exit
          <5> QED
            BY <2>1, <5>1
        <4> QED
          BY <4>1, <4>2
      <3> QED
        BY <3>1, <3>2
    <2>4. ASSUME tmp'[k] # {}
          PROVE  job'[r] = k /\ pc'[r] \in Staging
      <3>1. ~Clean(r)
        BY <1>4, <1>l, <2>4 DEF Clean, TypeOK
      <3>2. tmp'[k] \subseteq tmp[k]
        BY <1>4, <1>l, <3>1 DEF RunStep, Acquire, Start, NextFile, Inspect, RemoveStale, Launch,
           Attach, Reap, Settle, MoveEntry, MoveFails, MoveEnds, Unpersist, Exit, disk, TypeOK
      <3>3. pc[r] \in Staging
        BY <2>2, <2>4, <3>2
      <3>4. ~Unpersist(r) /\ ~Exit(r)
        BY <3>3 DEF Unpersist, Exit, Staging, Before, Encoding
      <3>5. job'[r] = k
        BY <1>4, <3>4 DEF RunStep, Acquire, Start, NextFile, Inspect, RemoveStale, Launch,
           Attach, Reap, Settle, MoveEntry, MoveFails, MoveEnds, Clean, runs
      <3>6. pc'[r] \in Before \cup Encoding \cup {"clean"}
        BY <3>1, <3>3, <3>4 DEF RunStep, Acquire, Start, NextFile, Inspect, RemoveStale, Launch,
           Attach, Reap, Settle, MoveEntry, MoveFails, MoveEnds, runs,
           Goto, TypeOK, Before, Encoding, Staging
      <3> QED
        BY <3>5, <3>6 DEF Staging
    <2> QED
      BY <2>3, <2>4 DEF Attended
  <1> QED
    BY <1>3, <1>4

LEMMA QuietAside ==
  ASSUME TypeOK, QInv, restarts' = restarts,
         \A s \in Run : pc[s] # "idle" => pc'[s] = pc[s] /\ job'[s] = job[s],
         \A k \in Job, f \in File :
           container'[k][f] = "running" => container[k][f] = "running",
         \A k \in Job : \/ tmp'[k] = tmp[k]
                        \/ \E f \in File : container[k][f] = "running"
  PROVE  QInv'
  <1> SUFFICES ASSUME restarts = 0, NEW k \in Job
               PROVE  Attended(k)'
    BY DEF QInv
  <1>1. Attended(k)
    BY DEF QInv
  <1>2. \A f \in File : container'[k][f] = "running" =>
          \E r \in Run : job'[r] = k /\ pc'[r] = "attach"
    BY <1>1 DEF Attended
  <1>3. (\E f \in File : container[k][f] = "running") =>
          \E r \in Run : job[r] = k /\ pc[r] \in Staging
    BY <1>1 DEF Attended, Staging, Encoding
  <1>4. tmp'[k] # {} => \E r \in Run : job'[r] = k /\ pc'[r] \in Staging
    BY <1>1, <1>3 DEF Attended, Staging, Before, Encoding
  <1> QED
    BY <1>2, <1>4 DEF Attended

LEMMA QuietStep ==
  TypeOK /\ TypeOK' /\ PInv /\ FInv /\ QInv /\ [Next]_vars => QInv'
  <1> SUFFICES ASSUME TypeOK, TypeOK', PInv, FInv, QInv, [Next]_vars
               PROVE  QInv'
    OBVIOUS
  <1>1. ASSUME \/ \E j \in Job : Submit(j)
               \/ \E q \in Req : ResumeReset(q)
        PROVE  QInv'
    <2>1. PICK r \in Run, j \in Job : Spawn(r, j)
      BY <1>1 DEF Submit, ResumeReset, TypeOK
    <2>2. \A s \in Run : pc[s] # "idle" => pc'[s] = pc[s] /\ job'[s] = job[s]
      BY <2>1 DEF Spawn, TypeOK
    <2>3. UNCHANGED <<restarts, container, tmp>>
      BY <1>1 DEF Submit, ResumeReset, bounds
    <2> QED
      BY <2>2, <2>3, QuietAside
  <1>2. ASSUME NEW j \in Job, NEW f \in File, WorkerSucceeds(j, f) \/ WorkerFails(j, f)
        PROVE  QInv'
    <2>1. UNCHANGED <<restarts, pc, job>> /\ container[j][f] = "running"
      BY <1>2 DEF WorkerSucceeds, WorkerFails, runs, bounds
    <2>2. \A k \in Job : k # j => tmp'[k] = tmp[k]
      BY <1>2 DEF WorkerSucceeds, WorkerFails, disk, TypeOK
    <2>3. \A k \in Job, g \in File :
            container'[k][g] = "running" => container[k][g] = "running"
      <3>1. \A k \in Job, g \in File :
              ~(k = j /\ g = f) => container'[k][g] = container[k][g]
        BY <1>2 DEF WorkerSucceeds, WorkerFails, Docked, TypeOK
      <3> QED
        BY <2>1, <3>1
    <2> QED
      BY <2>1, <2>2, <2>3, QuietAside
  <1>3. ASSUME NEW q \in Req,
               \/ \E j \in Job : Cancel(q, j) \/ Resume(q, j)
               \/ CancelMark(q) \/ CancelPs(q) \/ CancelStop(q) \/ CancelRm(q)
               \/ ResumeSweep(q)
        PROVE  QInv'
    <2>1. UNCHANGED <<restarts, pc, job, tmp>>
      BY <1>3 DEF Cancel, Resume, CancelMark, CancelPs, CancelStop, CancelRm, ResumeSweep,
                  runs, disk, bounds
    <2>2. rpc[q] # "idle" => rjob[q] \in Job
      BY DEF TypeOK
    <2>3. \A k \in Job, g \in File :
            container'[k][g] = "running" => container[k][g] = "running"
      <3>1. CASE (\E j \in Job : Cancel(q, j) \/ Resume(q, j)) \/ CancelMark(q) \/ CancelPs(q)
        BY <3>1 DEF Cancel, Resume, CancelMark, CancelPs
      <3>2. CASE CancelStop(q)
        BY <2>2, <3>2 DEF CancelStop, TypeOK
      <3>3. CASE CancelRm(q)
        BY <2>2, <3>3 DEF CancelRm, TypeOK
      <3>4. CASE ResumeSweep(q)
        BY <3>4 DEF ResumeSweep, TypeOK
      <3> QED
        BY <1>3, <3>1, <3>2, <3>3, <3>4
    <2> QED
      BY <2>1, <2>3, QuietAside
  <1>4. CASE Restart
    BY <1>4 DEF Restart, QInv, TypeOK
  <1>5. CASE UNCHANGED vars
    BY <1>5, QuietAside DEF vars, runs, disk, bounds
  <1> QED
    BY <1>1, <1>2, <1>3, <1>4, <1>5, QuietRunStep DEF Next, ReqStep

(* A job that has come to its end leaves no state file that would have it  *)
(* run again, no worker, and, as long as the server was not restarted, no  *)
(* staging.                                                                *)
THEOREM FinishedLeavesNothing == ASSUME ~Impatient PROVE Spec => []FinishedIsQuiet
  <1>1. Init => QInv
    BY QuietInit
  <1>2. /\ SInv /\ PInv /\ FInv /\ DInv /\ QInv /\ [Next]_vars
        /\ (SInv /\ PInv /\ FInv /\ DInv)'
        => QInv'
    BY QuietStep DEF SInv
  <1>3. SInv /\ PInv /\ FInv /\ DInv /\ QInv => FinishedIsQuiet
    <2> SUFFICES ASSUME TypeOK, PInv, FInv, DInv, QInv, NEW j \in Job,
                        LiveRun(j) \cup Requests(j) = {}
                 PROVE  /\ status[j] \notin Active
                        /\ status[j] \in Terminal =>
                             /\ persisted[j] = None
                             /\ tmp[j] = {} \/ restarts > 0
                             /\ \A f \in File : container[j][f] # "running"
      BY DEF FinishedIsQuiet, SInv
    <2>1. (\A r \in Run : job[r] # j) /\ (\A q \in Req : rjob[q] # j)
      BY DEF LiveRun, Requests
    <2>2. status[j] \notin Active
      BY <2>1 DEF PInv, Manned
    <2>3. persisted[j] = None
      BY <2>1 DEF DInv, Delivering, Owned
    <2>4. tmp[j] = {} \/ restarts > 0
      <3>1. restarts = 0 \/ restarts > 0
        BY DEF TypeOK
      <3> QED
        BY <2>1, <3>1 DEF QInv, Attended
    <2>5. ASSUME status[j] \in Terminal, NEW f \in File
          PROVE  container[j][f] # "running"
      BY <2>1, <2>5 DEF FInv, Found, Aboard, Answered, Awaited, Doomed, Terminal
    <2> QED
      BY <2>2, <2>3, <2>4, <2>5
  <1> QED
    BY <1>1, <1>2, <1>3, DeliveryInvariant, PTL DEF Spec
=============================================================================
