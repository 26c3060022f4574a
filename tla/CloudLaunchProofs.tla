-------------------------- MODULE CloudLaunchProofs --------------------------
(***************************************************************************)
(* The safety of the cloud target for any number of jobs, files, slots,    *)
(* executions, cancels, resumes and restarts: executions start in queue    *)
(* order, a job polls an execution of its own file, nobody sleeps without  *)
(* a cause, and no execution is duplicated or lost sight of but for the    *)
(* causes the code has, a call to AWS that fails being the first of them.  *)
(*                                                                         *)
(* Then the mezzanine gate that its files reach first: mutual exclusion,   *)
(* and its refinement of one mutex per key, for any number of jobs, keys,  *)
(* gates and attempts.                                                     *)
(***************************************************************************)
EXTENDS CloudLaunch, MezzGate, SequenceTheorems, FiniteSetTheorems, TLAPS

Launching == {"prep", "turn", "asleep", "gate", "submit"}
InFile == Launching \cup {"persist", "poll", "ok", "err"}
InCloud == InFile \cup {"file", "failed"}
Labels == InCloud \cup {"idle", "slot", "start", "work", "ended", "exit"}

Execution == [job : Job, file : Nat, state : {"running", "succeeded", "failed"}]

Types ==
  /\ status \in [Job -> {"absent", "gone"} \cup Active \cup Terminal]
  /\ cancelled \in [Job -> BOOLEAN]
  /\ launched \in [Job -> BOOLEAN]
  /\ launchDone \in [Job -> BOOLEAN]
  /\ arn \in [Job -> Nat] /\ savedArn \in [Job -> Nat]
  /\ pc \in [Job -> Labels]
  /\ idx \in [Job -> Nat] /\ savedIdx \in [Job -> Nat \cup {None}]
  /\ execs \in Seq(Execution)
  /\ cancels \in Nat /\ resumes \in Nat /\ restarts \in Nat

(* What holds of one job at every place of its goroutine: it is active     *)
(* while it runs, has a state file from its submission to its exit, its    *)
(* ARNs are of its own executions, and it has launched before it can end.  *)
Placed(j) ==
  /\ status[j] \in Active <=> pc[j] \notin {"idle", "exit"}
  /\ savedIdx[j] = None <=> pc[j] = "idle"
  /\ savedIdx[j] = None => savedArn[j] = NoArn
  /\ pc[j] = "idle" => idx[j] = 0
  /\ status[j] = "absent" => arn[j] = NoArn /\ ~launched[j] /\ pc[j] = "idle"
  /\ pc[j] \in InCloud => j \in Cloud
  /\ pc[j] = "work" => j \notin Cloud
  /\ pc[j] \in {"persist", "poll"} => arn[j] # NoArn
  /\ pc[j] \in InFile \cup {"slot", "start"} => idx[j] < NFiles
  /\ pc[j] = "file" /\ ~launched[j] => idx[j] < NFiles
  /\ savedIdx[j] # None => savedIdx[j] < NFiles
  /\ pc[j] \in {"ended", "failed"} /\ j \in Cloud => launched[j]
  /\ launchDone[j] => launched[j] /\ pc[j] \in {"poll", "ok", "err"}

ArnsOwn(j) ==
  /\ arn[j] # NoArn => arn[j] \in DOMAIN execs /\ execs[arn[j]].job = j
  /\ savedArn[j] # NoArn => savedArn[j] \in DOMAIN execs /\ execs[savedArn[j]].job = j

(* No goroutine but one's own touches a job, but to wake it.               *)
Others(j) ==
  \A k \in Job \ {j} :
    /\ status'[k] = status[k] /\ cancelled'[k] = cancelled[k]
    /\ launched'[k] = launched[k] /\ launchDone'[k] = launchDone[k]
    /\ arn'[k] = arn[k] /\ savedArn'[k] = savedArn[k]
    /\ idx'[k] = idx[k] /\ savedIdx'[k] = savedIdx[k]
    /\ pc'[k] = pc[k] \/ (pc[k] = "asleep" /\ pc'[k] = "turn")

(* Executions keep their job and file; a running one may end.              *)
Kept ==
  /\ DOMAIN execs \subseteq DOMAIN execs'
  /\ \A e \in DOMAIN execs :
       /\ execs'[e].job = execs[e].job /\ execs'[e].file = execs[e].file
       /\ Running(e)' => Running(e)

NoneNew == DOMAIN execs' = DOMAIN execs

-----------------------------------------------------------------------------
LEMMA EndsKeeps ==
  ASSUME Types, NEW e \in DOMAIN execs, NEW s \in {"succeeded", "failed"}, Ends(e, s)
  PROVE  execs' \in Seq(Execution) /\ Kept /\ NoneNew
  <1> DEFINE x == [execs[e] EXCEPT !.state = s]
  <1>1. /\ execs \in [1 .. Len(execs) -> Execution] /\ DOMAIN execs = 1 .. Len(execs)
        /\ Len(execs) \in Nat
    BY LenProperties DEF Types
  <1>2. x \in Execution /\ x.job = execs[e].job /\ x.file = execs[e].file /\ x.state = s
    BY <1>1 DEF Execution
  <1>3. execs' = [execs EXCEPT ![e] = x]
    BY DEF Ends
  <1> HIDE DEF x
  <1>4. /\ execs' \in Seq(Execution) /\ Len(execs') = Len(execs)
        /\ \A d \in DOMAIN execs : execs'[d] = IF d = e THEN x ELSE execs[d]
    BY <1>1, <1>2, <1>3, ExceptSeq DEF Types
  <1>5. DOMAIN execs' = DOMAIN execs
    BY <1>1, <1>4, LenProperties
  <1> QED BY <1>2, <1>4, <1>5 DEF Kept, NoneNew, Running

LEMMA SameKeeps == Types /\ UNCHANGED execs => execs' \in Seq(Execution) /\ Kept /\ NoneNew
  BY DEF Types, Kept, NoneNew, Running

(* A submission ends executions, but for those it missed, and starts one.  *)
LEMMA StoppedKeeps ==
  ASSUME Types, NEW j \in Job, NEW missed, execs' = Stopped(j, missed)
  PROVE  /\ execs' \in Seq(Execution) /\ Kept /\ NoneNew
         /\ \A e \in DOMAIN execs :
              Running(e)' /\ execs[e].job = j /\ execs[e].file = idx[j] => e \in missed
  <1>1. /\ execs \in [1 .. Len(execs) -> Execution] /\ DOMAIN execs = 1 .. Len(execs)
        /\ Len(execs) \in Nat
    BY LenProperties DEF Types
  <1>2. /\ DOMAIN execs' = DOMAIN execs
        /\ \A e \in DOMAIN execs :
             execs'[e] = IF e \in Prior(j) \ missed THEN [execs[e] EXCEPT !.state = "failed"]
                                                   ELSE execs[e]
    BY DEF Stopped
  <1>3. ASSUME NEW e \in DOMAIN execs
        PROVE  /\ execs'[e] \in Execution
               /\ execs'[e].job = execs[e].job /\ execs'[e].file = execs[e].file
               /\ execs'[e].state = "running" =>
                    execs[e].state = "running" /\ e \notin Prior(j) \ missed
    <2>1. execs[e] \in Execution
      BY <1>1
    <2> QED BY <1>2, <2>1 DEF Execution
  <1>4. execs' \in [1 .. Len(execs) -> Execution]
    BY <1>1, <1>2, <1>3 DEF Stopped
  <1>5. execs' \in Seq(Execution)
    BY <1>1, <1>4, SeqDef
  <1>6. Kept /\ NoneNew
    BY <1>2, <1>3 DEF Kept, NoneNew, Running
  <1>7. ASSUME NEW e \in DOMAIN execs, Running(e)', execs[e].job = j, execs[e].file = idx[j]
        PROVE  e \in missed
    BY <1>3, <1>7 DEF Prior, Running
  <1> QED BY <1>5, <1>6, <1>7

LEMMA StartedKeeps ==
  ASSUME Types, NEW j \in Job, execs' = Started(j)
  PROVE  /\ execs' \in Seq(Execution) /\ Kept
         /\ Len(execs) \in Nat /\ DOMAIN execs = 1 .. Len(execs)
         /\ DOMAIN execs' = 1 .. Len(execs) + 1
         /\ \A e \in 1 .. Len(execs) : execs'[e] = execs[e]
         /\ execs'[Len(execs) + 1] = [job |-> j, file |-> idx[j], state |-> "running"]
  <1> DEFINE x == [job |-> j, file |-> idx[j], state |-> "running"]
  <1>1. x \in Execution /\ execs' = Append(execs, x)
    BY DEF Types, Execution, Started
  <1> HIDE DEF x
  <1>2. /\ execs' \in Seq(Execution) /\ Len(execs) \in Nat /\ DOMAIN execs = 1 .. Len(execs)
        /\ DOMAIN execs' = 1 .. Len(execs) + 1
        /\ \A e \in 1 .. Len(execs) : execs'[e] = execs[e]
        /\ execs'[Len(execs) + 1] = x
    BY <1>1, AppendProperties, LenProperties DEF Types
  <1>3. Kept
    BY <1>2 DEF Kept, Running
  <1> QED BY <1>2, <1>3 DEF x

(* A broadcast moves sleepers and nobody else.                             *)
LEMMA WokenMoves ==
  ASSUME NEW p \in [Job -> Labels]
  PROVE  /\ Woken(p) \in [Job -> Labels]
         /\ \A k \in Job : Woken(p)[k] = IF p[k] = "asleep" THEN "turn" ELSE p[k]
  BY DEF Woken, Labels, InCloud, InFile, Launching

LEMMA MarkMoves ==
  ASSUME Types, NEW j \in Job, NEW p \in [Job -> Labels], MarkLaunched(j, p)
  PROVE  /\ launched' \in [Job -> BOOLEAN] /\ launched'[j]
         /\ \A k \in Job \ {j} : launched'[k] = launched[k]
         /\ pc' \in [Job -> Labels]
         /\ \A k \in Job : pc'[k] = p[k] \/ (p[k] = "asleep" /\ pc'[k] = "turn")
         /\ ~launchDone[j] => \A k \in Job : pc'[k] # "asleep"
  <1>1. /\ launched' \in [Job -> BOOLEAN] /\ launched'[j]
        /\ \A k \in Job \ {j} : launched'[k] = launched[k]
    BY DEF Types, MarkLaunched
  <1>2. CASE launchDone[j]
    BY <1>1, <1>2 DEF MarkLaunched
  <1>3. CASE ~launchDone[j]
    BY <1>1, <1>3, WokenMoves DEF MarkLaunched
  <1> QED BY <1>2, <1>3

(* A step of one job changes nothing else of another one than its sleep,   *)
(* and keeps the executions there are.                                     *)
Local(j) == Types' /\ Others(j) /\ Kept

LEMMA LocalStep ==
  ASSUME Types, NEW j \in Job, Submit(j) \/ RunStep(j) \/ Cancel(j) \/ Resume(j)
  PROVE  Local(j)
  <1> USE DEF Local, job, saved, bounds
  <1> DEFINE Typed == Types' /\ Others(j)
  <1>1. CASE Submit(j)
    <2>1. Typed
      BY <1>1 DEF Types, Submit, Goto, Others, Active, Labels, InCloud, InFile
    <2> QED BY <1>1, <2>1, SameKeeps DEF Submit
  <1>2. CASE Acquire(j)
    <2>1. Typed
      BY <1>2 DEF Types, Acquire, Goto, Others, Labels, InCloud, InFile
    <2> QED BY <1>2, <2>1, SameKeeps DEF Acquire
  <1>3. CASE Start(j)
    <2>1. PICK l \in Labels, v \in {"cancelled", "running"} :
            Goto(j, l) /\ status' = [status EXCEPT ![j] = v]
      BY <1>3 DEF Start, Labels, InCloud
    <2>2. UNCHANGED <<cancelled, launched, arn, idx, launchDone, saved, execs, bounds>>
      BY <1>3 DEF Start
    <2>3. /\ status' \in [Job -> {"absent", "gone"} \cup Active \cup Terminal]
          /\ \A k \in Job \ {j} : status'[k] = status[k]
      BY <2>1 DEF Types, Active, Terminal
    <2>4. pc' \in [Job -> Labels] /\ \A k \in Job \ {j} : pc'[k] = pc[k]
      BY <2>1 DEF Types, Goto
    <2>5. Typed
      BY <2>2, <2>3, <2>4 DEF Types, Others
    <2> QED BY <2>2, <2>5, SameKeeps
  <1>4. CASE LocalWork(j)
    <2>1. Typed
      BY <1>4 DEF Types, LocalWork, Goto, Others, Labels, InCloud, InFile
    <2> QED BY <1>4, <2>1, SameKeeps DEF LocalWork
  <1>5. CASE NextFile(j)
    <2>1. PICK l \in Labels : Goto(j, l) /\ (UNCHANGED saved \/ Persist(j, idx[j]))
      BY <1>5 DEF NextFile, Labels, InCloud, InFile, Launching
    <2>2. UNCHANGED <<job, idx, launchDone, execs, bounds>>
      BY <1>5 DEF NextFile, job
    <2>3. /\ savedIdx' \in [Job -> Nat \cup {None}] /\ savedArn' \in [Job -> Nat]
          /\ \A k \in Job \ {j} : savedIdx'[k] = savedIdx[k] /\ savedArn'[k] = savedArn[k]
      BY <2>1, <2>2 DEF Types, Persist
    <2>4. pc' \in [Job -> Labels] /\ \A k \in Job \ {j} : pc'[k] = pc[k]
      BY <2>1 DEF Types, Goto
    <2>5. Typed
      BY <2>2, <2>3, <2>4 DEF Types, Others
    <2> QED BY <2>2, <2>5, SameKeeps
  <1>6. CASE Prepare(j)
    <2>1. Typed
      BY <1>6 DEF Types, Prepare, Goto, Others, Labels, InCloud, InFile, Launching
    <2> QED BY <1>6, <2>1, SameKeeps DEF Prepare
  <1>7. CASE TakeTurn(j)
    <2>1. Typed
      BY <1>7 DEF Types, TakeTurn, Goto, Others, Labels, InCloud, InFile, Launching
    <2> QED BY <1>7, <2>1, SameKeeps DEF TakeTurn
  <1>8. CASE StopPrior(j)
    <2>1. execs' \in Seq(Execution) /\ Kept
      BY <1>8, StoppedKeeps, SameKeeps DEF StopPrior
    <2>2. PICK l \in {"ok", "err", "submit"} : Goto(j, l)
      BY <1>8 DEF StopPrior
    <2>3. UNCHANGED <<job, idx, launchDone, saved, bounds>>
      BY <1>8 DEF StopPrior
    <2>4. pc' \in [Job -> Labels] /\ \A k \in Job \ {j} : pc'[k] = pc[k]
      BY <2>2 DEF Types, Goto, Labels, InCloud, InFile, Launching
    <2> QED BY <2>1, <2>3, <2>4 DEF Types, Others
  <1>18. CASE StartExecution(j)
    <2>1. PICK l \in {"err", "persist"} : Goto(j, l)
      BY <1>18 DEF StartExecution
    <2>2. UNCHANGED <<status, cancelled, launched, idx, launchDone, saved, bounds>>
      BY <1>18 DEF StartExecution
    <2>3. pc' \in [Job -> Labels] /\ \A k \in Job \ {j} : pc'[k] = pc[k]
      BY <2>1 DEF Types, Goto, Labels, InCloud, InFile
    <2>4. Len(execs) \in Nat /\ execs' \in Seq(Execution) /\ Kept
      BY <1>18, StartedKeeps, SameKeeps, LenProperties DEF StartExecution, Types
    <2>5. arn' = arn \/ arn' = [arn EXCEPT ![j] = Len(execs) + 1]
      BY <1>18 DEF StartExecution
    <2>6. arn' \in [Job -> Nat] /\ \A k \in Job \ {j} : arn'[k] = arn[k]
      <3>1. CASE arn' = arn
        BY <3>1 DEF Types
      <3>2. CASE arn' = [arn EXCEPT ![j] = Len(execs) + 1]
        <4>1. Len(execs) + 1 \in Nat /\ arn \in [Job -> Nat]
          BY <2>4 DEF Types
        <4> QED BY <3>2, <4>1
      <3> QED BY <2>5, <3>1, <3>2
    <2> QED BY <2>2, <2>3, <2>4, <2>6 DEF Types, Others
  <1>9. CASE PersistArn(j)
    <2>1. Typed
      BY <1>9 DEF Types, PersistArn, Persist, Goto, Others, Labels, InCloud, InFile
    <2> QED BY <1>9, <2>1, SameKeeps DEF PersistArn
  <1>10. CASE FanOut(j)
    <2>0. pc \in [Job -> Labels] /\ MarkLaunched(j, pc)
      BY <1>10 DEF Types, FanOut
    <2>2. /\ launched' \in [Job -> BOOLEAN] /\ pc' \in [Job -> Labels]
          /\ \A k \in Job \ {j} : launched'[k] = launched[k]
          /\ \A k \in Job : pc'[k] = pc[k] \/ (pc[k] = "asleep" /\ pc'[k] = "turn")
      <3> QED BY <2>0, MarkMoves
    <2>1. Typed
      BY <1>10, <2>2 DEF Types, FanOut, Others
    <2> QED BY <1>10, <2>1, SameKeeps DEF FanOut
  <1>11. CASE PollEnds(j)
    <2>1. Typed
      BY <1>11 DEF Types, PollEnds, Goto, Others, Labels, InCloud, InFile
    <2> QED BY <1>11, <2>1, SameKeeps DEF PollEnds
  <1>12. CASE CancelWatch(j)
    <2>1. execs' \in Seq(Execution) /\ Kept
      <3>1. CASE Running(arn[j]) /\ Ends(arn[j], "failed")
        <4>1. CASE arn[j] \in DOMAIN execs
          BY <3>1, <4>1, EndsKeeps
        <4>2. CASE arn[j] \notin DOMAIN execs
          <5>1. execs' = execs
            BY <3>1, <4>2, LenProperties DEF Ends, Types
          <5> QED BY <5>1, SameKeeps
        <4> QED BY <4>1, <4>2
      <3> QED BY <1>12, <3>1, SameKeeps DEF CancelWatch
    <2>2. Typed
      BY <1>12, <2>1 DEF Types, CancelWatch, Goto, Others, Labels, InCloud, InFile
    <2> QED BY <2>1, <2>2
  <1>13. CASE ReturnFile(j)
    <2> DEFINE back == [pc EXCEPT ![j] = "file"]
               lost == [pc EXCEPT ![j] = "failed"]
    <2>0. back \in [Job -> Labels] /\ lost \in [Job -> Labels]
      BY DEF Types, Labels, InCloud
    <2>1. CASE pc[j] = "ok"
      <3>1. /\ MarkLaunched(j, back)
            /\ idx' = [idx EXCEPT ![j] = @ + 1] /\ arn' = [arn EXCEPT ![j] = NoArn]
        BY <1>13, <2>1 DEF ReturnFile, DropArn
      <3>2. \A k \in Job \ {j} : back[k] = pc[k]
        BY DEF Types
      <3> HIDE DEF back
      <3>3. /\ launched' \in [Job -> BOOLEAN] /\ pc' \in [Job -> Labels]
            /\ \A k \in Job \ {j} : launched'[k] = launched[k]
            /\ \A k \in Job : pc'[k] = back[k] \/ (back[k] = "asleep" /\ pc'[k] = "turn")
        BY <2>0, <3>1, MarkMoves
      <3>4. Typed
        <4>1. /\ launchDone' = [launchDone EXCEPT ![j] = FALSE]
              /\ UNCHANGED <<status, cancelled, saved, execs, bounds>>
          BY <1>13 DEF ReturnFile
        <4>2. /\ idx' \in [Job -> Nat] /\ arn' \in [Job -> Nat] /\ launchDone' \in [Job -> BOOLEAN]
              /\ \A k \in Job \ {j} : /\ idx'[k] = idx[k] /\ arn'[k] = arn[k]
                                       /\ launchDone'[k] = launchDone[k]
          BY <3>1, <4>1 DEF Types, NoArn
        <4>3. Types'
          BY <3>3, <4>1, <4>2 DEF Types
        <4>4. Others(j)
          BY <3>2, <3>3, <4>1, <4>2 DEF Others
        <4> QED BY <4>3, <4>4
      <3> QED BY <1>13, <3>4, SameKeeps DEF ReturnFile
    <2>2. CASE pc[j] = "err"
      <3>1. MarkLaunched(j, lost) /\ UNCHANGED <<idx, arn>>
        BY <1>13, <2>2 DEF ReturnFile
      <3>2. \A k \in Job \ {j} : lost[k] = pc[k]
        BY DEF Types
      <3> HIDE DEF lost
      <3>3. /\ launched' \in [Job -> BOOLEAN] /\ pc' \in [Job -> Labels]
            /\ \A k \in Job \ {j} : launched'[k] = launched[k]
            /\ \A k \in Job : pc'[k] = lost[k] \/ (lost[k] = "asleep" /\ pc'[k] = "turn")
        BY <2>0, <3>1, MarkMoves
      <3>4. Typed
        BY <1>13, <3>1, <3>2, <3>3 DEF Types, ReturnFile, Others
      <3> QED BY <1>13, <3>4, SameKeeps DEF ReturnFile
    <2> QED BY <1>13, <2>1, <2>2 DEF ReturnFile
  <1>14. CASE Settle(j)
    <2>1. Typed
      BY <1>14 DEF Types, Settle, Goto, Others, Labels, InCloud, InFile, Terminal
    <2> QED BY <1>14, <2>1, SameKeeps DEF Settle
  <1>15. CASE Exit(j)
    <2>1. Typed
      BY <1>15 DEF Types, Exit, Goto, Others, Labels, InCloud, InFile, NoArn
    <2> QED BY <1>15, <2>1, SameKeeps DEF Exit
  <1>16. CASE Cancel(j)
    <2>0. pc' \in [Job -> Labels] /\ \A k \in Job : pc'[k] = IF pc[k] = "asleep" THEN "turn" ELSE pc[k]
      <3>1. pc' = Woken(pc) /\ pc \in [Job -> Labels]
        BY <1>16 DEF Types, Cancel
      <3> QED BY <3>1, WokenMoves
    <2>1. Types'
      <3>1. /\ cancels' = cancels + 1 /\ cancelled' = [cancelled EXCEPT ![j] = TRUE]
            /\ UNCHANGED <<status, launched, arn, idx, launchDone, saved, execs, resumes, restarts>>
        BY <1>16 DEF Cancel
      <3>2. cancelled' \in [Job -> BOOLEAN] /\ cancels' \in Nat
        BY <3>1 DEF Types
      <3> QED BY <2>0, <3>1, <3>2 DEF Types
    <2>2. Others(j)
      BY <1>16, <2>0 DEF Types, Cancel, Others
    <2> QED BY <1>16, <2>1, <2>2, SameKeeps DEF Cancel
  <1>17. CASE Resume(j)
    <2>1. Typed
      BY <1>17 DEF Types, Resume, Persist, Goto, Others, Active, Labels, InCloud, InFile
    <2> QED BY <1>17, <2>1, SameKeeps DEF Resume
  <1> QED BY <1>1, <1>2, <1>3, <1>4, <1>5, <1>6, <1>7, <1>8, <1>9, <1>10, <1>11, <1>12, <1>13,
             <1>14, <1>15, <1>16, <1>17, <1>18 DEF RunStep

(* A restart, and the state machine.                                       *)
LEMMA RestartTypes == Types /\ Restart => Types' /\ Kept /\ NoneNew
  <1> SUFFICES ASSUME Types, Restart PROVE Types' /\ Kept /\ NoneNew
    OBVIOUS
  <1>1. \A j \in Job : savedIdx[j] # None => savedIdx[j] \in Nat
    BY DEF Types
  <1>2. Types'
    BY <1>1 DEF Types, Restart, Active, Terminal, Labels, saved
  <1> QED BY <1>2, SameKeeps DEF Restart

LEMMA ExecutionTypes ==
  ASSUME Types, NEW e \in DOMAIN execs, ExecutionEnds(e)
  PROVE  Types' /\ Kept /\ NoneNew
  <1>1. PICK s \in {"succeeded", "failed"} : Ends(e, s)
    BY DEF ExecutionEnds
  <1>2. execs' \in Seq(Execution) /\ Kept /\ NoneNew
    BY <1>1, EndsKeeps
  <1> QED BY <1>2 DEF Types, ExecutionEnds, job, saved, bounds
-----------------------------------------------------------------------------
(* What launched and pc come to for the job that counts as launched.       *)
LEMMA FanOutAt ==
  ASSUME Types, NEW j \in Job, FanOut(j)
  PROVE  pc[j] = "poll" /\ pc'[j] = "poll" /\ launched'[j] /\ launchDone'[j]
  <1>1. pc \in [Job -> Labels] /\ MarkLaunched(j, pc)
    BY DEF Types, FanOut
  <1>2. launched'[j] /\ (pc'[j] = pc[j] \/ pc[j] = "asleep")
    BY <1>1, MarkMoves
  <1> QED BY <1>2 DEF Types, FanOut

LEMMA ReturnAt ==
  ASSUME Types, NEW j \in Job, ReturnFile(j)
  PROVE  /\ launched'[j] /\ ~launchDone'[j]
         /\ \/ /\ pc[j] = "ok" /\ pc'[j] = "file"
               /\ idx'[j] = idx[j] + 1 /\ arn'[j] = NoArn
            \/ /\ pc[j] = "err" /\ pc'[j] = "failed"
               /\ idx'[j] = idx[j] /\ arn'[j] = arn[j]
  <1> DEFINE back == [pc EXCEPT ![j] = "file"]
             lost == [pc EXCEPT ![j] = "failed"]
  <1>1. back \in [Job -> Labels] /\ lost \in [Job -> Labels]
    BY DEF Types, Labels, InCloud
  <1>2. ~launchDone'[j]
    BY DEF Types, ReturnFile
  <1>3. back[j] = "file" /\ lost[j] = "failed"
    BY DEF Types
  <1>4. CASE pc[j] = "ok"
    <2>1. /\ MarkLaunched(j, back)
          /\ idx' = [idx EXCEPT ![j] = @ + 1] /\ arn' = [arn EXCEPT ![j] = NoArn]
      BY <1>4 DEF ReturnFile, DropArn
    <2> HIDE DEF back
    <2>2. launched'[j] /\ pc'[j] = "file"
      BY <1>1, <1>3, <2>1, MarkMoves
    <2> QED BY <1>2, <1>4, <2>1, <2>2 DEF Types
  <1>5. CASE pc[j] = "err"
    <2>1. MarkLaunched(j, lost) /\ UNCHANGED <<idx, arn>>
      BY <1>5 DEF ReturnFile
    <2> HIDE DEF lost
    <2>2. launched'[j] /\ pc'[j] = "failed"
      BY <1>1, <1>3, <2>1, MarkMoves
    <2> QED BY <1>2, <1>5, <2>1, <2>2
  <1> QED BY <1>4, <1>5 DEF ReturnFile

(* Whoever is not the one that steps keeps what holds of it.               *)
LEMMA OthersPlaced ==
  ASSUME NEW j \in Job, Others(j), NEW k \in Job \ {j}, Placed(k)
  PROVE  Placed(k)'
  BY DEF Others, Placed, InCloud, InFile, Launching

LEMMA OthersArns ==
  ASSUME NEW j \in Job, Others(j), Kept, NEW k \in Job \ {j}, ArnsOwn(k)
  PROVE  ArnsOwn(k)'
  BY DEF Others, ArnsOwn, Kept

LEMMA PlacedStep ==
  ASSUME Types, NEW j \in Job, Placed(j), Submit(j) \/ RunStep(j) \/ Cancel(j) \/ Resume(j)
  PROVE  Placed(j)'
  <1> USE CloudAssumption DEF Active, Terminal, InCloud, InFile, Launching, job, saved, bounds, None
  <1>1. CASE Submit(j)
    BY <1>1 DEF Types, Placed, Submit, Goto
  <1>16. CASE Cancel(j)
    <2>1. pc \in [Job -> Labels] /\ pc' = Woken(pc) /\ UNCHANGED <<status, launched, arn, idx, launchDone, saved>>
      BY <1>16 DEF Types, Cancel
    <2>2. pc'[j] = IF pc[j] = "asleep" THEN "turn" ELSE pc[j]
      BY <2>1, WokenMoves
    <2> QED BY <2>1, <2>2 DEF Placed
  <1>17. CASE Resume(j)
    BY <1>17 DEF Types, Placed, Resume, Persist, Goto
  <1>2. CASE Acquire(j)
    BY <1>2 DEF Types, Placed, Acquire, Goto
  <1>3. CASE Start(j)
    BY <1>3 DEF Types, Placed, Start, Goto
  <1>4. CASE LocalWork(j)
    BY <1>4 DEF Types, Placed, LocalWork, Goto
  <1>5. CASE NextFile(j)
    <2>1. CASE ~MoreFiles(j)
      BY <1>5, <2>1 DEF Types, Placed, NextFile, Goto, MoreFiles
    <2>2. CASE MoreFiles(j)
      <3>1. PICK l \in {"poll", "prep"} : Goto(j, l) /\ (l = "poll" => Resumable(arn[j]))
        BY <1>5, <2>2 DEF NextFile
      <3>2. UNCHANGED <<status, launched, arn, idx, launchDone>> /\ Persist(j, idx[j]) /\ pc[j] = "file"
        BY <1>5, <2>2 DEF NextFile
      <3>3. arn'[j] = arn[j] /\ (l = "poll" => arn[j] # NoArn)
        BY <3>1, <3>2 DEF Resumable
      <3> QED BY <2>2, <3>1, <3>2, <3>3 DEF Types, Placed, Goto, Persist, MoreFiles
    <2> QED BY <2>1, <2>2
  <1>6. CASE Prepare(j)
    BY <1>6 DEF Types, Placed, Prepare, Goto
  <1>7. CASE TakeTurn(j)
    BY <1>7 DEF Types, Placed, TakeTurn, Goto
  <1>8. CASE StopPrior(j)
    <2>1. PICK l \in {"ok", "err", "submit"} : Goto(j, l)
      BY <1>8 DEF StopPrior
    <2>2. pc[j] = "gate" /\ UNCHANGED <<status, launched, arn, idx, launchDone, saved>>
      BY <1>8 DEF StopPrior
    <2> QED BY <2>1, <2>2 DEF Types, Placed, Goto
  <1>18. CASE StartExecution(j)
    <2>1. PICK l \in {"err", "persist"} :
            /\ Goto(j, l) /\ pc[j] = "submit"
            /\ arn' = arn \/ arn' = [arn EXCEPT ![j] = Len(execs) + 1]
            /\ l = "persist" => arn' = [arn EXCEPT ![j] = Len(execs) + 1]
      BY <1>18 DEF StartExecution
    <2>2. Len(execs) \in Nat
      BY LenProperties DEF Types
    <2>3. UNCHANGED <<status, launched, idx, launchDone, saved>>
      BY <1>18 DEF StartExecution
    <2> QED BY <2>1, <2>2, <2>3 DEF Types, Placed, Goto, NoArn
  <1>9. CASE PersistArn(j)
    BY <1>9 DEF Types, Placed, PersistArn, Goto, Persist
  <1>10. CASE FanOut(j)
    BY <1>10, FanOutAt DEF Types, Placed, FanOut
  <1>11. CASE PollEnds(j)
    BY <1>11 DEF Types, Placed, PollEnds, Goto
  <1>12. CASE CancelWatch(j)
    BY <1>12 DEF Types, Placed, CancelWatch, Goto
  <1>13. CASE ReturnFile(j)
    BY <1>13, ReturnAt DEF Types, Placed, ReturnFile
  <1>14. CASE Settle(j)
    BY <1>14 DEF Types, Placed, Settle, Goto
  <1>15. CASE Exit(j)
    BY <1>15 DEF Types, Placed, Exit, Goto
  <1> QED BY <1>1, <1>2, <1>3, <1>4, <1>5, <1>6, <1>7, <1>8, <1>9, <1>10, <1>11, <1>12, <1>13, <1>14, <1>15, <1>16, <1>17, <1>18 DEF RunStep

(* A submission leaves only the executions it missed, and starts at most   *)
(* one, which it may not hear of.                                          *)
LEMMA StopAt ==
  ASSUME Types, NEW j \in Job, StopPrior(j)
  PROVE  /\ pc[j] = "gate" /\ UNCHANGED <<job, idx, launchDone, saved, unseen, dropped, bounds>>
         /\ spared \subseteq spared' /\ NoneNew
         /\ \/ pc'[j] = "ok" /\ cancelled[j]
            \/ pc'[j] = "err"
            \/ /\ pc'[j] = "submit" /\ ~cancelled[j]
               /\ \A e \in DOMAIN execs :
                    Running(e)' /\ execs[e].job = j /\ execs[e].file = idx[j] => e \in spared'
  <1>1. /\ pc[j] = "gate" /\ UNCHANGED <<job, idx, launchDone, saved, unseen, dropped, bounds>>
        /\ \/ cancelled[j] /\ Goto(j, "ok") /\ UNCHANGED <<execs, spared>>
           \/ Goto(j, "err") /\ UNCHANGED <<execs, spared>>
           \/ /\ ~cancelled[j] /\ Goto(j, "submit")
              /\ \E missed \in SUBSET Prior(j) : /\ execs' = Stopped(j, missed)
                                                /\ spared' = spared \cup missed
    BY DEF StopPrior
  <1>2. CASE UNCHANGED <<execs, spared>> /\ (Goto(j, "err") \/ (cancelled[j] /\ Goto(j, "ok")))
    BY <1>1, <1>2 DEF Types, Goto, NoneNew
  <1>3. CASE /\ ~cancelled[j] /\ Goto(j, "submit")
             /\ \E missed \in SUBSET Prior(j) : /\ execs' = Stopped(j, missed)
                                               /\ spared' = spared \cup missed
    <2>1. PICK missed \in SUBSET Prior(j) : execs' = Stopped(j, missed) /\ spared' = spared \cup missed
      BY <1>3
    <2>2. NoneNew /\ \A e \in DOMAIN execs :
            Running(e)' /\ execs[e].job = j /\ execs[e].file = idx[j] => e \in missed
      BY <2>1, StoppedKeeps
    <2>3. pc'[j] = "submit"
      BY <1>3 DEF Types, Goto
    <2> QED BY <1>1, <1>3, <2>1, <2>2, <2>3
  <1> QED BY <1>1, <1>2, <1>3

NotStarted(j) == pc'[j] = "err" /\ UNCHANGED <<arn, execs, unseen>>

Begun(j) ==
  /\ \/ pc'[j] = "persist" /\ arn'[j] = Len(execs) + 1 /\ unseen' = unseen
     \/ pc'[j] = "err" /\ arn' = arn /\ unseen' = unseen \cup {Len(execs) + 1}
  /\ Len(execs) \in Nat
  /\ DOMAIN execs = 1 .. Len(execs) /\ DOMAIN execs' = 1 .. Len(execs) + 1
  /\ \A e \in 1 .. Len(execs) : execs'[e] = execs[e]
  /\ execs'[Len(execs) + 1] = [job |-> j, file |-> idx[j], state |-> "running"]

LEMMA StartAt ==
  ASSUME Types, NEW j \in Job, StartExecution(j)
  PROVE  /\ pc[j] = "submit"
         /\ UNCHANGED <<status, cancelled, launched, idx, launchDone, saved, dropped, spared, bounds>>
         /\ NotStarted(j) \/ Begun(j)
  <1>1. /\ pc[j] = "submit"
        /\ UNCHANGED <<status, cancelled, launched, idx, launchDone, saved, dropped, spared, bounds>>
        /\ \/ Goto(j, "err") /\ UNCHANGED <<arn, execs, unseen>>
           \/ /\ execs' = Started(j)
              /\ \/ Goto(j, "err") /\ unseen' = unseen \cup {Len(execs) + 1} /\ arn' = arn
                 \/ /\ Goto(j, "persist") /\ unseen' = unseen
                    /\ arn' = [arn EXCEPT ![j] = Len(execs) + 1]
    BY DEF StartExecution
  <1>2. CASE Goto(j, "err") /\ UNCHANGED <<arn, execs, unseen>>
    BY <1>1, <1>2 DEF Types, Goto, NotStarted
  <1>3. CASE execs' = Started(j) /\ Goto(j, "err") /\ unseen' = unseen \cup {Len(execs) + 1} /\ arn' = arn
    <2>1. pc'[j] = "err"
      BY <1>3 DEF Types, Goto
    <2> QED BY <1>1, <1>3, <2>1, StartedKeeps DEF Begun
  <1>4. CASE /\ execs' = Started(j) /\ Goto(j, "persist") /\ unseen' = unseen
             /\ arn' = [arn EXCEPT ![j] = Len(execs) + 1]
    <2>1. pc'[j] = "persist" /\ arn'[j] = Len(execs) + 1
      BY <1>4 DEF Types, Goto
    <2> QED BY <1>1, <1>4, <2>1, StartedKeeps DEF Begun
  <1> QED BY <1>1, <1>2, <1>3, <1>4

LEMMA OnlyStartAdds ==
  ASSUME Types, NEW j \in Job, Submit(j) \/ RunStep(j) \/ Cancel(j) \/ Resume(j)
  PROVE  StartExecution(j) \/ NoneNew
  <1>5. CASE StopPrior(j)
    BY <1>5, StopAt
  <1> USE DEF NoneNew
  <1>1. CASE CancelWatch(j)
    BY <1>1 DEF CancelWatch, Ends
  <1>2. CASE Submit(j) \/ Cancel(j) \/ Resume(j)
    BY <1>2 DEF Submit, Cancel, Resume
  <1>3. CASE Acquire(j) \/ Start(j) \/ LocalWork(j) \/ NextFile(j) \/ Prepare(j) \/ TakeTurn(j)
    BY <1>3 DEF Acquire, Start, LocalWork, NextFile, Prepare, TakeTurn
  <1>4. CASE PersistArn(j) \/ FanOut(j) \/ PollEnds(j) \/ ReturnFile(j) \/ Settle(j) \/ Exit(j)
    BY <1>4 DEF PersistArn, FanOut, PollEnds, ReturnFile, Settle, Exit
  <1> QED BY <1>1, <1>2, <1>3, <1>4, <1>5 DEF RunStep

(* The ARNs of the job that steps are, after it, those it had, or none, or *)
(* the one of the execution it has just started.                           *)
LEMMA ArnsAt ==
  ASSUME Types, NEW j \in Job, Submit(j) \/ RunStep(j) \/ Cancel(j) \/ Resume(j)
  PROVE  \/ StartExecution(j)
         \/ /\ arn'[j] = arn[j] \/ (arn'[j] = NoArn /\ pc[j] = "ok" /\ pc'[j] = "file")
            /\ \/ savedArn'[j] = savedArn[j] /\ savedIdx'[j] = savedIdx[j]
               \/ savedArn'[j] = NoArn /\ savedIdx'[j] = None /\ pc'[j] = "idle"
               \/ savedArn'[j] = savedArn[j] /\ Submit(j)
               \/ savedArn'[j] = arn'[j] /\ savedIdx'[j] = idx[j] /\ pc'[j] \in {"poll", "prep"}
               \/ savedArn'[j] = arn'[j] /\ Resume(j)
  <1> USE DEF job, saved, bounds, Goto
  <1>1. CASE Submit(j)
    BY <1>1 DEF Types, Submit
  <1>2. CASE Resume(j)
    BY <1>2 DEF Types, Resume, Persist
  <1>3. CASE NextFile(j) \/ PersistArn(j)
    BY <1>3 DEF Types, NextFile, PersistArn, Persist
  <1>4. CASE ReturnFile(j)
    <2>1. savedArn' = savedArn /\ savedIdx' = savedIdx
      BY <1>4 DEF ReturnFile
    <2> QED BY <1>4, <2>1, ReturnAt
  <1>5. CASE Exit(j)
    BY <1>5 DEF Types, Exit
  <1>6. CASE Acquire(j) \/ Start(j) \/ LocalWork(j) \/ Prepare(j) \/ TakeTurn(j) \/ StopPrior(j)
    BY <1>6 DEF Acquire, Start, LocalWork, Prepare, TakeTurn, StopPrior
  <1>7. CASE FanOut(j) \/ PollEnds(j) \/ CancelWatch(j) \/ Settle(j) \/ Cancel(j)
    BY <1>7 DEF FanOut, PollEnds, CancelWatch, Settle, Cancel
  <1> QED BY <1>1, <1>2, <1>3, <1>4, <1>5, <1>6, <1>7 DEF RunStep

LEMMA ArnsStep ==
  ASSUME Types, NEW j \in Job, ArnsOwn(j), Kept,
         Submit(j) \/ RunStep(j) \/ Cancel(j) \/ Resume(j)
  PROVE  ArnsOwn(j)'
  <1>1. CASE StartExecution(j)
    <2>1. UNCHANGED savedArn /\ (NotStarted(j) \/ Begun(j))
      BY <1>1, StartAt DEF saved
    <2>2. CASE NotStarted(j)
      BY <2>1, <2>2 DEF ArnsOwn, NotStarted
    <2>3. CASE Begun(j)
      <3>1. Len(execs) + 1 \in DOMAIN execs' /\ execs'[Len(execs) + 1].job = j
        BY <2>3 DEF Begun
      <3> QED BY <2>1, <2>3, <3>1 DEF ArnsOwn, Begun, Kept
    <2> QED BY <2>1, <2>2, <2>3
  <1>2. CASE ~StartExecution(j)
    <2>1. arn'[j] \in {arn[j], NoArn} /\ savedArn'[j] \in {savedArn[j], arn'[j], NoArn}
      BY <1>2, ArnsAt
    <2> QED BY <2>1 DEF ArnsOwn, Kept
  <1> QED BY <1>1, <1>2

-----------------------------------------------------------------------------
Base == Types /\ \A j \in Job : Placed(j) /\ ArnsOwn(j)

LEMMA InitBase == Init => Base
  <1> SUFFICES ASSUME Init PROVE Base
    OBVIOUS
  <1> USE DEF Init, None, NoArn
  <1>1. Types
    BY DEF Types, Labels
  <1>2. \A j \in Job : Placed(j) /\ ArnsOwn(j)
    BY DEF Placed, ArnsOwn, Active, InCloud, InFile, Launching
  <1> QED BY <1>1, <1>2 DEF Base

LEMMA LocalBase ==
  ASSUME Base, NEW j \in Job, Submit(j) \/ RunStep(j) \/ Cancel(j) \/ Resume(j)
  PROVE  Base' /\ Others(j) /\ Kept
  <1>1. Types' /\ Others(j) /\ Kept
    BY LocalStep DEF Base, Local
  <1>2. Placed(j)' /\ ArnsOwn(j)'
    BY <1>1, PlacedStep, ArnsStep DEF Base
  <1>3. \A k \in Job \ {j} : Placed(k)' /\ ArnsOwn(k)'
    BY <1>1, OthersPlaced, OthersArns DEF Base
  <1> QED BY <1>1, <1>2, <1>3 DEF Base

LEMMA RestartBase == Base /\ Restart => Base'
  <1> SUFFICES ASSUME Base, Restart PROVE Base'
    OBVIOUS
  <1>1. Types' /\ Kept
    BY RestartTypes DEF Base
  <1>2. ASSUME NEW j \in Job PROVE Placed(j)'
    <2>1. Placed(j)
      BY DEF Base
    <2> QED BY <2>1, CloudAssumption
        DEF Base, Types, Placed, Restart, Active, InCloud, InFile, Launching, saved, None
  <1>3. ASSUME NEW j \in Job PROVE ArnsOwn(j)'
    BY <1>1 DEF Base, ArnsOwn, Kept, Restart, saved
  <1> QED BY <1>1, <1>2, <1>3 DEF Base

LEMMA ExecutionBase ==
  ASSUME Base, NEW e \in DOMAIN execs, ExecutionEnds(e)
  PROVE  Base' /\ Kept /\ NoneNew
  <1>1. Types' /\ Kept /\ NoneNew
    BY ExecutionTypes DEF Base
  <1>2. \A j \in Job : Placed(j)' /\ ArnsOwn(j)'
    BY <1>1 DEF Base, Placed, ArnsOwn, Kept, ExecutionEnds, job, saved
  <1> QED BY <1>1, <1>2 DEF Base

LEMMA StutterBase == Base /\ UNCHANGED vars => Base'
  BY DEF Base, Types, Placed, ArnsOwn, vars, job, saved, bounds

-----------------------------------------------------------------------------
(* What a job polls is an execution of its file.                           *)
OwnAt(j) ==
  /\ pc[j] # "idle" /\ arn[j] # NoArn => execs[arn[j]].file = idx[j]
  /\ savedArn[j] # NoArn => execs[savedArn[j]].file = savedIdx[j]

Own == resumes = 0 => \A j \in Job : OwnAt(j)

(* A job that keeps an ARN keeps its file.                                 *)
LEMMA FileKept ==
  ASSUME Types, NEW j \in Job, Placed(j), ~StartExecution(j),
         Submit(j) \/ RunStep(j) \/ Cancel(j), pc'[j] # "idle", arn'[j] # NoArn
  PROVE  pc[j] # "idle" /\ idx'[j] = idx[j]
  <1> USE DEF job, saved, bounds
  <1>1. CASE Submit(j)
    BY <1>1, CloudAssumption DEF Submit, Placed
  <1>2. CASE Cancel(j)
    BY <1>2 DEF Cancel, Placed, Active
  <1>3. CASE Acquire(j) \/ Start(j) \/ LocalWork(j) \/ NextFile(j) \/ Prepare(j) \/ TakeTurn(j)
    BY <1>3 DEF Acquire, Start, LocalWork, NextFile, Prepare, TakeTurn
  <1>4. CASE PersistArn(j) \/ FanOut(j) \/ PollEnds(j) \/ CancelWatch(j) \/ Settle(j) \/ StopPrior(j)
    BY <1>4 DEF PersistArn, FanOut, PollEnds, CancelWatch, Settle, StopPrior
  <1>5. CASE ReturnFile(j)
    BY <1>5, ReturnAt
  <1>6. CASE Exit(j)
    BY <1>6 DEF Types, Exit, Goto
  <1> QED BY <1>1, <1>2, <1>3, <1>4, <1>5, <1>6 DEF RunStep

LEMMA ResumesKept ==
  ASSUME NEW j \in Job, Submit(j) \/ RunStep(j) \/ Cancel(j)
  PROVE  resumes' = resumes /\ restarts' = restarts
  BY DEF Submit, RunStep, Cancel, Acquire, Start, LocalWork, NextFile, Prepare, TakeTurn,
         StopPrior, StartExecution, PersistArn, FanOut, PollEnds, CancelWatch, ReturnFile, Settle, Exit, bounds

LEMMA NotResumed ==
  ASSUME Types, NEW j \in Job, resumes' = resumes
  PROVE  ~Resume(j)
  BY DEF Types, Resume

LEMMA OwnLocal ==
  ASSUME Base, Own, NEW j \in Job, Submit(j) \/ RunStep(j) \/ Cancel(j)
  PROVE  Own'
  <1> SUFFICES ASSUME resumes' = 0 PROVE \A k \in Job : OwnAt(k)'
    BY DEF Own
  <1>0. resumes = 0 /\ ~Resume(j)
    BY ResumesKept, NotResumed DEF Base
  <1>1. Others(j) /\ Kept /\ Types /\ Base'
    BY LocalBase DEF Base
  <1>2. ASSUME NEW k \in Job \ {j} PROVE OwnAt(k)'
    <2>1. OwnAt(k) /\ ArnsOwn(k)
      BY <1>0 DEF Own, Base
    <2> QED BY <1>1, <2>1 DEF OwnAt, ArnsOwn, Others, Kept
  <1>3. OwnAt(j)'
    <2>1. OwnAt(j) /\ ArnsOwn(j) /\ Placed(j)
      BY <1>0 DEF Own, Base
    <2>3. /\ savedArn[j] # NoArn => execs'[savedArn[j]].file = execs[savedArn[j]].file
          /\ arn[j] # NoArn => execs'[arn[j]].file = execs[arn[j]].file
      BY <1>1, <2>1 DEF ArnsOwn, Kept
    <2>4. CASE StartExecution(j)
      <3>1. /\ UNCHANGED <<idx, savedIdx, savedArn>> /\ pc[j] = "submit"
            /\ NotStarted(j) \/ Begun(j)
        BY <1>1, <2>4, StartAt DEF saved
      <3>2. CASE NotStarted(j)
        BY <2>1, <3>1, <3>2 DEF OwnAt, NotStarted
      <3>3. CASE Begun(j)
        BY <2>1, <2>3, <3>1, <3>3 DEF OwnAt, Begun
      <3> QED BY <3>1, <3>2, <3>3
    <2>5. CASE ~StartExecution(j)
      <3>1. /\ arn'[j] = arn[j] \/ arn'[j] = NoArn
            /\ \/ savedArn'[j] = savedArn[j] /\ savedIdx'[j] = savedIdx[j]
               \/ savedArn'[j] = NoArn
               \/ savedArn'[j] = savedArn[j] /\ Submit(j)
               \/ /\ savedArn'[j] = arn'[j] /\ savedIdx'[j] = idx[j] /\ pc'[j] \in {"poll", "prep"}
        BY <1>0, <1>1, <2>5, ArnsAt
      <3>2. Submit(j) => savedArn[j] = NoArn
        BY <1>1, <2>1, CloudAssumption DEF Submit, Placed
      <3>3. pc'[j] # "idle" /\ arn'[j] # NoArn => pc[j] # "idle" /\ idx'[j] = idx[j]
        BY <1>1, <2>1, <2>5, FileKept
      <3> QED BY <2>1, <2>3, <3>1, <3>2, <3>3 DEF OwnAt
    <2> QED BY <2>4, <2>5
  <1> QED BY <1>2, <1>3

LEMMA OwnNext == Base /\ Own /\ [Next]_vars => Base' /\ Own'
  <1> SUFFICES ASSUME Base, Own, [Next]_vars PROVE Base' /\ Own'
    OBVIOUS
  <1> USE DEF Own
  <1>1. ASSUME NEW j \in Job, Submit(j) \/ RunStep(j) \/ Cancel(j) PROVE Base' /\ Own'
    <2>1. Base'
      BY <1>1, LocalBase
    <2> QED BY <1>1, <2>1, OwnLocal
  <1>2. ASSUME NEW j \in Job, Resume(j) PROVE Base' /\ Own'
    <2>1. Base'
      BY <1>2, LocalBase
    <2>2. resumes' # 0
      BY <1>2 DEF Resume, Base, Types
    <2> QED BY <2>1, <2>2
  <1>3. CASE Restart
    <2>1. Base'
      BY <1>3, RestartBase
    <2>2. ASSUME NEW j \in Job, resumes' = 0 PROVE OwnAt(j)'
      <3>1. OwnAt(j) /\ Placed(j)
        BY <1>3, <2>2 DEF Restart, Base
      <3> QED BY <1>3, <3>1 DEF Restart, saved, OwnAt, Placed, Base, Types
    <2> QED BY <2>1, <2>2
  <1>4. ASSUME NEW e \in DOMAIN execs, ExecutionEnds(e) PROVE Base' /\ Own'
    <2>1. Base' /\ Kept
      BY <1>4, ExecutionBase
    <2>2. UNCHANGED <<job, pc, idx, saved, bounds>>
      BY <1>4 DEF ExecutionEnds
    <2>3. ASSUME NEW j \in Job, resumes' = 0 PROVE OwnAt(j)'
      <3>1. OwnAt(j) /\ ArnsOwn(j)
        BY <2>2, <2>3 DEF Base, bounds
      <3> QED BY <2>1, <2>2, <3>1 DEF OwnAt, ArnsOwn, Kept, job, saved
    <2> QED BY <2>1, <2>3
  <1>5. CASE UNCHANGED vars
    BY <1>5, StutterBase DEF OwnAt, vars, job, saved, bounds
  <1> QED BY <1>1, <1>2, <1>3, <1>4, <1>5 DEF Next

(* A job that was never resumed polls an execution of its own, of the file *)
(* it is at (runOneCloudBatchSFN, Reconcile).                              *)
THEOREM PollsOwnFile == Spec => []OwnFile
  <1>1. Init => Base /\ Own
    <2>1. Init => Own
      BY DEF Init, Own, OwnAt, NoArn
    <2> QED BY <2>1, InitBase
  <1>2. Base /\ Own => OwnFile
    BY DEF Base, Own, OwnAt, OwnFile, Placed, ArnsOwn
  <1> QED BY <1>1, <1>2, OwnNext, PTL DEF Spec

-----------------------------------------------------------------------------
(* The order of the executions.  Whoever has passed the gate, or is at it, *)
(* has only older jobs that will not submit a first file any more.         *)
Past(i) == status[i] \notin Active \/ launched[i]

AtGate(k) == (pc[k] = "gate" /\ ~cancelled[k]) \/ pc[k] = "submit"

HasExecution(k) == \E e \in DOMAIN execs : execs[e].job = k

OlderPast(k) ==
  AtGate(k) \/ HasExecution(k) =>
    status[k] # "absent" /\ \A i \in Cloud : i < k => Past(i)

LaunchedLate(j) ==
  launched[j] /\ idx[j] = 0 => pc[j] \in {"poll", "ok", "err", "failed", "exit", "idle"}

InOrder ==
  \A a, b \in DOMAIN execs : a < b /\ execs[b].file = 0 => execs[a].job <= execs[b].job

Queue ==
  resumes = 0 /\ restarts = 0 =>
    /\ \A j \in Job : OlderPast(j) /\ LaunchedLate(j)
    /\ InOrder

(* How far a step takes the job that makes it.                             *)
LEMMA Onward ==
  ASSUME Types, NEW j \in Job, Placed(j), RunStep(j) \/ Cancel(j)
  PROVE  /\ status[j] # "absent" => status'[j] # "absent"
         /\ status'[j] \in Active => status[j] \in Active
         /\ launched[j] => launched'[j]
         /\ LaunchedLate(j) => LaunchedLate(j)'
         /\ AtGate(j)' => AtGate(j) \/ (~OlderStillLaunching(j) /\ UNCHANGED job)
  <1> USE CloudAssumption
      DEF Active, Terminal, LaunchedLate, AtGate, job, saved, bounds, Goto
  <1>1. CASE Cancel(j)
    <2>1. /\ pc \in [Job -> Labels] /\ pc' = Woken(pc) /\ cancelled'[j]
          /\ UNCHANGED <<status, launched, idx>>
      BY <1>1 DEF Types, Cancel
    <2>2. pc'[j] = IF pc[j] = "asleep" THEN "turn" ELSE pc[j]
      BY <2>1, WokenMoves
    <2> QED BY <2>1, <2>2
  <1>2. CASE Acquire(j)
    BY <1>2 DEF Types, Acquire
  <1>3. CASE Start(j)
    BY <1>3 DEF Types, Start, Placed
  <1>4. CASE LocalWork(j)
    BY <1>4 DEF Types, LocalWork
  <1>5. CASE NextFile(j)
    BY <1>5 DEF Types, NextFile, MoreFiles, Placed, InCloud
  <1>6. CASE Prepare(j)
    BY <1>6 DEF Types, Prepare
  <1>7. CASE TakeTurn(j)
    BY <1>7 DEF Types, TakeTurn
  <1>8. CASE StopPrior(j)
    <2>1. UNCHANGED <<status, launched, idx>> /\ pc[j] = "gate" /\ pc'[j] \in {"ok", "err", "submit"}
      BY <1>8, StopAt
    <2>2. pc'[j] = "submit" => ~cancelled[j]
      BY <1>8, StopAt
    <2> QED BY <2>1, <2>2
  <1>16. CASE StartExecution(j)
    <2>1. UNCHANGED <<status, launched, idx>> /\ pc[j] = "submit" /\ pc'[j] \in {"err", "persist"}
      BY <1>16, StartAt DEF NotStarted, Begun
    <2> QED BY <2>1
  <1>9. CASE PersistArn(j)
    BY <1>9 DEF Types, PersistArn
  <1>10. CASE FanOut(j)
    BY <1>10, FanOutAt DEF FanOut
  <1>11. CASE PollEnds(j)
    BY <1>11 DEF Types, PollEnds
  <1>12. CASE CancelWatch(j)
    BY <1>12 DEF Types, CancelWatch
  <1>13. CASE ReturnFile(j)
    <2>1. status' = status
      BY <1>13 DEF ReturnFile
    <2>2. launched'[j] /\ ((pc'[j] = "file" /\ idx'[j] = idx[j] + 1) \/ pc'[j] = "failed")
      BY <1>13, ReturnAt
    <2>3. idx[j] \in Nat
      BY DEF Types
    <2> QED BY <2>1, <2>2, <2>3
  <1>14. CASE Settle(j)
    BY <1>14 DEF Types, Settle
  <1>15. CASE Exit(j)
    BY <1>15 DEF Types, Exit
  <1> QED BY <1>1, <1>2, <1>3, <1>4, <1>5, <1>6, <1>7, <1>8, <1>9, <1>10, <1>11, <1>12, <1>13,
             <1>14, <1>15, <1>16 DEF RunStep

(* Others keep their order behind a step of j, but for its submission,     *)
(* which comes before all of them.                                         *)
LEMMA OthersPast ==
  ASSUME Types, NEW j \in Job, Others(j), Kept, NoneNew \/ Begun(j),
         NEW k \in Job \ {j}, OlderPast(k),
         status[k] # "absent" /\ j \in Cloud /\ j < k /\ Past(j) => Past(j)'
  PROVE  OlderPast(k)'
  <1> SUFFICES ASSUME (AtGate(k) \/ HasExecution(k))'
               PROVE  status'[k] # "absent" /\ \A i \in Cloud : i < k => Past(i)'
    BY DEF OlderPast
  <1>1. AtGate(k) \/ HasExecution(k)
    <2>1. CASE AtGate(k)'
      BY <2>1 DEF AtGate, Others
    <2>2. CASE HasExecution(k)'
      <3>1. PICK e \in DOMAIN execs' : execs'[e].job = k
        BY <2>2 DEF HasExecution
      <3>2. CASE e \in DOMAIN execs
        BY <3>1, <3>2 DEF HasExecution, Kept
      <3>3. CASE e \notin DOMAIN execs
        BY <3>1, <3>3 DEF NoneNew, Begun
      <3> QED BY <3>2, <3>3
    <2> QED BY <2>1, <2>2
  <1>2. status[k] # "absent" /\ \A i \in Cloud : i < k => Past(i)
    BY <1>1 DEF OlderPast
  <1>3. ASSUME NEW i \in Cloud, i < k PROVE Past(i)'
    <2>1. CASE i = j
      BY <1>2, <1>3, <2>1
    <2>2. CASE i # j
      BY <1>2, <1>3, <2>2, CloudAssumption DEF Past, Others
    <2> QED BY <2>1, <2>2
  <1> QED BY <1>2, <1>3 DEF Others

LEMMA QueueLocal ==
  ASSUME Base, Queue, NEW j \in Job, RunStep(j) \/ Cancel(j)
  PROVE  Queue'
  <1> SUFFICES ASSUME resumes' = 0, restarts' = 0
               PROVE  /\ \A k \in Job : OlderPast(k)' /\ LaunchedLate(k)'
                      /\ InOrder'
    BY DEF Queue
  <1>1. /\ Types /\ Base' /\ Others(j) /\ Kept
        /\ \A k \in Job : Placed(k) /\ OlderPast(k) /\ LaunchedLate(k)
        /\ InOrder
    BY LocalBase, ResumesKept DEF Base, Queue
  <1>2. /\ status[j] # "absent" => status'[j] # "absent"
        /\ status'[j] \in Active => status[j] \in Active
        /\ launched[j] => launched'[j]
        /\ LaunchedLate(j)'
        /\ AtGate(j)' => AtGate(j) \/ (~OlderStillLaunching(j) /\ UNCHANGED job)
    BY <1>1, Onward
  <1>3. NoneNew \/ (Begun(j) /\ AtGate(j))
    <2>1. CASE StartExecution(j)
      <3>1. pc[j] = "submit" /\ (NotStarted(j) \/ Begun(j))
        BY <1>1, <2>1, StartAt
      <3> QED BY <3>1 DEF NoneNew, NotStarted, Begun, AtGate
    <2> QED BY <1>1, <2>1, OnlyStartAdds
  <1>4. ASSUME NEW k \in Job PROVE OlderPast(k)'
    <2>1. CASE k # j
      <3>1. Past(j) => Past(j)'
        BY <1>2 DEF Past
      <3>2. OlderPast(k) /\ k \in Job \ {j}
        BY <1>1, <2>1
      <3> QED BY <1>1, <1>3, <3>1, <3>2, OthersPast
    <2>2. CASE k = j
      <3> SUFFICES ASSUME (AtGate(j) \/ HasExecution(j))'
                   PROVE  status'[j] # "absent" /\ \A i \in Cloud : i < j => Past(i)'
        BY <2>2 DEF OlderPast
      <3>1. status[j] # "absent" /\ \A i \in Cloud : i < j => Past(i)
        <4>1. CASE AtGate(j)'
          <5>1. status'[j] # "absent"
            BY <1>1, <4>1 DEF AtGate, Base, Placed, Active
          <5> QED BY <1>1, <1>2, <4>1, <5>1 DEF OlderPast, OlderStillLaunching, Past, job
        <4>2. CASE HasExecution(j)'
          <5>1. HasExecution(j) \/ AtGate(j)
            BY <1>1, <1>3, <4>2 DEF HasExecution, NoneNew, Kept
          <5> QED BY <1>1, <5>1 DEF OlderPast
        <4> QED BY <4>1, <4>2
      <3>2. ASSUME NEW i \in Cloud, i < j PROVE Past(i)'
        <4>1. i \in Job \ {j} /\ Past(i)
          BY <3>1, <3>2, CloudAssumption
        <4> QED BY <1>1, <4>1 DEF Past, Others
      <3> QED BY <1>2, <3>1, <3>2
    <2> QED BY <2>1, <2>2
  <1>5. ASSUME NEW k \in Job PROVE LaunchedLate(k)'
    BY <1>1, <1>2 DEF LaunchedLate, Others
  <1>6. InOrder'
    <2>1. CASE NoneNew
      BY <1>1, <2>1 DEF InOrder, NoneNew, Kept
    <2>2. CASE Begun(j) /\ AtGate(j)
      <3> SUFFICES ASSUME NEW a \in DOMAIN execs', NEW b \in DOMAIN execs',
                          a < b, execs'[b].file = 0
                   PROVE  execs'[a].job <= execs'[b].job
        BY DEF InOrder
      <3>1. CASE b \in DOMAIN execs
        <4>1. a \in DOMAIN execs
          BY <2>2, <3>1 DEF Begun
        <4> QED BY <1>1, <3>1, <4>1 DEF InOrder, Kept
      <3>2. CASE b \notin DOMAIN execs
        <4>1. /\ b = Len(execs) + 1 /\ execs'[b].job = j /\ idx[j] = 0
              /\ a \in DOMAIN execs /\ execs'[a] = execs[a]
          BY <2>2, <3>2 DEF Begun
        <4>2. execs[a].job \in Job
          <5>1. execs[a] \in Execution
            BY <1>1, <4>1, LenProperties DEF Types
          <5> QED BY <5>1 DEF Execution
        <4>3. OlderPast(execs[a].job) /\ HasExecution(execs[a].job)
          BY <1>1, <4>1, <4>2 DEF HasExecution
        <4>4. j \in Cloud /\ ~Past(j)
          BY <1>1, <2>2, <4>1 DEF AtGate, Past, LaunchedLate, Placed, InCloud, InFile, Launching
        <4>5. ~(j < execs[a].job)
          BY <4>3, <4>4 DEF OlderPast
        <4>6. execs[a].job \in Nat /\ j \in Nat
          BY <4>2, CloudAssumption
        <4> QED BY <4>1, <4>5, <4>6
      <3> QED BY <3>1, <3>2
    <2> QED BY <1>3, <2>1, <2>2
  <1> QED BY <1>4, <1>5, <1>6

LEMMA QueueSubmit ==
  ASSUME Base, Queue, NEW j \in Job, Submit(j)
  PROVE  Queue'
  <1> SUFFICES ASSUME resumes' = 0, restarts' = 0
               PROVE  /\ \A k \in Job : OlderPast(k)' /\ LaunchedLate(k)'
                      /\ InOrder'
    BY DEF Queue
  <1>1. /\ Types /\ Others(j) /\ Kept
        /\ \A k \in Job : Placed(k) /\ OlderPast(k) /\ LaunchedLate(k)
        /\ InOrder /\ execs' = execs
        /\ \A k \in Job : k >= j => status[k] = "absent"
    BY LocalBase, ResumesKept DEF Base, Queue, Submit
  <1>2. NoneNew
    BY <1>1 DEF NoneNew
  <1>3. ASSUME NEW k \in Job PROVE OlderPast(k)'
    <2>1. CASE k # j
      <3>1. ~(status[k] # "absent" /\ j < k)
        BY <1>1, CloudAssumption
      <3>2. OlderPast(k) /\ k \in Job \ {j}
        BY <1>1, <2>1
      <3> QED BY <1>1, <1>2, <3>1, <3>2, OthersPast
    <2>2. CASE k = j
      <3>1. status[j] = "absent" /\ pc'[j] = "slot"
        BY <1>1, CloudAssumption DEF Types, Submit, Goto
      <3>2. ~HasExecution(j)
        BY <1>1, <3>1 DEF OlderPast
      <3> QED BY <1>1, <2>2, <3>1, <3>2 DEF OlderPast, AtGate, HasExecution
    <2> QED BY <2>1, <2>2
  <1>4. ASSUME NEW k \in Job PROVE LaunchedLate(k)'
    <2>1. CASE k # j
      BY <1>1, <2>1 DEF LaunchedLate, Others
    <2>2. CASE k = j
      BY <1>1, <2>2, CloudAssumption DEF LaunchedLate, Placed, Submit
    <2> QED BY <2>1, <2>2
  <1>5. InOrder'
    BY <1>1 DEF InOrder
  <1> QED BY <1>3, <1>4, <1>5

LEMMA QueueNext == Base /\ Queue /\ [Next]_vars => Base' /\ Queue'
  <1> SUFFICES ASSUME Base, Queue, [Next]_vars PROVE Base' /\ Queue'
    OBVIOUS
  <1>1. ASSUME NEW j \in Job, Submit(j) \/ RunStep(j) \/ Cancel(j) PROVE Base' /\ Queue'
    <2>1. Base'
      BY <1>1, LocalBase
    <2> QED BY <1>1, <2>1, QueueSubmit, QueueLocal
  <1>2. ASSUME NEW j \in Job, Resume(j) PROVE Base' /\ Queue'
    <2>1. Base'
      BY <1>2, LocalBase
    <2>2. resumes' # 0
      BY <1>2 DEF Resume, Base, Types
    <2> QED BY <2>1, <2>2 DEF Queue
  <1>3. CASE Restart
    <2>1. Base'
      BY <1>3, RestartBase
    <2>2. restarts' # 0
      BY <1>3 DEF Restart, Base, Types
    <2> QED BY <2>1, <2>2 DEF Queue
  <1>4. ASSUME NEW e \in DOMAIN execs, ExecutionEnds(e) PROVE Base' /\ Queue'
    <2>1. Base' /\ Kept /\ NoneNew
      BY <1>4, ExecutionBase
    <2>2. UNCHANGED <<job, pc, idx, bounds>>
      BY <1>4 DEF ExecutionEnds
    <2>3. InOrder => InOrder'
      BY <2>1 DEF InOrder, Kept, NoneNew
    <2>4. ASSUME NEW k \in Job, OlderPast(k) /\ LaunchedLate(k)
          PROVE  OlderPast(k)' /\ LaunchedLate(k)'
      <3>1. HasExecution(k)' => HasExecution(k)
        BY <2>1 DEF HasExecution, Kept, NoneNew
      <3> QED BY <2>2, <2>4, <3>1 DEF OlderPast, LaunchedLate, AtGate, Past, job
    <2> QED BY <2>1, <2>2, <2>3, <2>4 DEF Queue, bounds
  <1>5. CASE UNCHANGED vars
    <2>1. Base'
      BY <1>5, StutterBase
    <2> QED BY <1>5, <2>1
        DEF Queue, OlderPast, LaunchedLate, AtGate, HasExecution, Past, InOrder, vars, job, bounds
  <1> QED BY <1>1, <1>2, <1>3, <1>4, <1>5 DEF Next

(* As long as nothing is resumed or restarted, the first files of the jobs *)
(* are started in the order of the jobs: "guarantees cloud executions      *)
(* start in queue order" (waitForLaunchTurn).                              *)
THEOREM LaunchesInOrder == Spec => []InQueueOrder
  <1>1. Init => Base /\ Queue
    <2>1. Init => Queue
      BY DEF Init, Queue, OlderPast, AtGate, HasExecution, LaunchedLate, InOrder
    <2> QED BY <2>1, InitBase
  <1>2. Queue => InQueueOrder
    BY DEF Queue, InOrder, InQueueOrder
  <1> QED BY <1>1, <1>2, QueueNext, PTL DEF Spec

-----------------------------------------------------------------------------
(* Sleep.  Whoever makes a sleeper's cause go away wakes everybody.        *)
StillLaunching(i) == status[i] \in Active /\ ~launched[i]

Sleeps ==
  cancels = 0 =>
    \A j \in Job : ~cancelled[j] /\ (pc[j] = "asleep" => OlderStillLaunching(j))

LEMMA StaysOrWakes ==
  ASSUME Types, NEW j \in Cloud, Placed(j), ~cancelled[j], Submit(j) \/ RunStep(j) \/ Resume(j)
  PROVE  StillLaunching(j) => StillLaunching(j)' \/ \A k \in Job : pc'[k] # "asleep"
  <1> SUFFICES ASSUME StillLaunching(j)
               PROVE  StillLaunching(j)' \/ \A k \in Job : pc'[k] # "asleep"
    OBVIOUS
  <1>0. /\ j \in Job /\ status[j] \in Active /\ ~launched[j] /\ ~launchDone[j]
        /\ pc[j] \notin {"ended", "failed"}
    BY CloudAssumption DEF StillLaunching, Placed
  <1> USE <1>0 DEF StillLaunching, Active, job, saved, bounds
  <1>1. CASE Submit(j)
    BY <1>1, CloudAssumption DEF Submit
  <1>2. CASE Resume(j)
    BY <1>2 DEF Resume
  <1>3. CASE Start(j)
    BY <1>3 DEF Types, Start
  <1>4. CASE FanOut(j)
    <2>1. pc \in [Job -> Labels] /\ MarkLaunched(j, pc)
      BY <1>4 DEF Types, FanOut
    <2> QED BY <2>1, MarkMoves
  <1>5. CASE ReturnFile(j)
    <2>1. PICK p \in [Job -> Labels] : MarkLaunched(j, p)
      BY <1>5 DEF Types, ReturnFile, Labels, InCloud
    <2> QED BY <2>1, MarkMoves
  <1>6. CASE Settle(j)
    BY <1>6 DEF Settle
  <1>7. CASE Acquire(j) \/ LocalWork(j) \/ NextFile(j) \/ Prepare(j) \/ TakeTurn(j)
    BY <1>7 DEF Acquire, LocalWork, NextFile, Prepare, TakeTurn
  <1>8. CASE StopPrior(j) \/ StartExecution(j) \/ PersistArn(j) \/ PollEnds(j) \/ CancelWatch(j) \/ Exit(j)
    BY <1>8 DEF StopPrior, StartExecution, PersistArn, PollEnds, CancelWatch, Exit
  <1> QED BY <1>1, <1>2, <1>3, <1>4, <1>5, <1>6, <1>7, <1>8 DEF RunStep

(* Only its own turn sends a job to sleep, and only Cancel cancels it.     *)
LEMMA FallsAsleep ==
  ASSUME Types, NEW j \in Job, ~cancelled[j], Submit(j) \/ RunStep(j) \/ Resume(j)
  PROVE  /\ ~cancelled'[j]
         /\ pc'[j] = "asleep" => OlderStillLaunching(j) /\ UNCHANGED <<status, launched>>
  <1> USE DEF Goto, job, saved, bounds
  <1>1. CASE Submit(j)
    BY <1>1 DEF Types, Submit
  <1>2. CASE Resume(j)
    BY <1>2 DEF Types, Resume
  <1>3. CASE Acquire(j) \/ Start(j) \/ LocalWork(j) \/ NextFile(j) \/ Prepare(j)
    BY <1>3 DEF Types, Acquire, Start, LocalWork, NextFile, Prepare
  <1>4. CASE TakeTurn(j)
    BY <1>4 DEF Types, TakeTurn
  <1>5. CASE StopPrior(j) \/ StartExecution(j)
    BY <1>5, StopAt, StartAt DEF NotStarted, Begun
  <1>6. CASE FanOut(j)
    BY <1>6, FanOutAt DEF FanOut
  <1>7. CASE ReturnFile(j)
    <2>1. cancelled' = cancelled
      BY <1>7 DEF ReturnFile
    <2> QED BY <1>7, <2>1, ReturnAt
  <1>8. CASE PersistArn(j) \/ PollEnds(j) \/ CancelWatch(j) \/ Settle(j) \/ Exit(j)
    BY <1>8 DEF Types, PersistArn, PollEnds, CancelWatch, Settle, Exit
  <1> QED BY <1>1, <1>2, <1>3, <1>4, <1>5, <1>6, <1>7, <1>8 DEF RunStep

LEMMA CancelsKept ==
  ASSUME NEW j \in Job, Submit(j) \/ RunStep(j) \/ Resume(j)
  PROVE  cancels' = cancels
  BY DEF Submit, RunStep, Resume, Acquire, Start, LocalWork, NextFile, Prepare, TakeTurn,
         StopPrior, StartExecution, PersistArn, FanOut, PollEnds, CancelWatch, ReturnFile, Settle, Exit, bounds

LEMMA SleepsLocal ==
  ASSUME Base, Sleeps, NEW j \in Job, Submit(j) \/ RunStep(j) \/ Resume(j)
  PROVE  Sleeps'
  <1> SUFFICES ASSUME cancels' = 0, NEW k \in Job
               PROVE  ~cancelled'[k] /\ (pc'[k] = "asleep" => OlderStillLaunching(k)')
    BY DEF Sleeps
  <1>1. /\ Types /\ Others(j) /\ Placed(j)
        /\ \A i \in Job : ~cancelled[i] /\ (pc[i] = "asleep" => OlderStillLaunching(i))
    BY LocalBase, CancelsKept DEF Base, Sleeps
  <1>2. /\ ~cancelled'[j]
        /\ pc'[j] = "asleep" => OlderStillLaunching(j) /\ UNCHANGED <<status, launched>>
    BY <1>1, FallsAsleep
  <1>3. CASE k = j
    BY <1>2, <1>3 DEF OlderStillLaunching
  <1>4. CASE k # j
    <2> SUFFICES ASSUME pc'[k] = "asleep" PROVE OlderStillLaunching(k)'
      BY <1>1, <1>4 DEF Others
    <2>1. PICK i \in Cloud : i < k /\ StillLaunching(i)
      BY <1>1, <1>4 DEF Others, OlderStillLaunching, StillLaunching
    <2>2. CASE i = j
      <3>1. StillLaunching(j) => StillLaunching(j)' \/ \A l \in Job : pc'[l] # "asleep"
        BY <1>1, <2>2, StaysOrWakes
      <3> QED BY <2>1, <2>2, <3>1 DEF OlderStillLaunching, StillLaunching
    <2>3. CASE i # j
      <3>1. StillLaunching(i)'
        BY <1>1, <2>1, <2>3, CloudAssumption DEF StillLaunching, Others
      <3> QED BY <2>1, <3>1 DEF OlderStillLaunching, StillLaunching
    <2> QED BY <2>2, <2>3
  <1> QED BY <1>3, <1>4

LEMMA SleepsNext == Base /\ Sleeps /\ [Next]_vars => Base' /\ Sleeps'
  <1> SUFFICES ASSUME Base, Sleeps, [Next]_vars PROVE Base' /\ Sleeps'
    OBVIOUS
  <1>1. ASSUME NEW j \in Job, Submit(j) \/ RunStep(j) \/ Resume(j) PROVE Base' /\ Sleeps'
    <2>1. Base'
      BY <1>1, LocalBase
    <2> QED BY <1>1, <2>1, SleepsLocal
  <1>2. ASSUME NEW j \in Job, Cancel(j) PROVE Base' /\ Sleeps'
    <2>1. Base'
      BY <1>2, LocalBase
    <2>2. cancels' # 0
      BY <1>2 DEF Cancel, Base, Types
    <2> QED BY <2>1, <2>2 DEF Sleeps
  <1>3. CASE Restart
    <2>1. Base'
      BY <1>3, RestartBase
    <2> QED BY <1>3, <2>1 DEF Restart, Sleeps
  <1>4. ASSUME NEW e \in DOMAIN execs, ExecutionEnds(e) PROVE Base' /\ Sleeps'
    <2>1. Base'
      BY <1>4, ExecutionBase
    <2>2. UNCHANGED <<job, pc, bounds>>
      BY <1>4 DEF ExecutionEnds
    <2> QED BY <2>1, <2>2 DEF Sleeps, OlderStillLaunching, job, bounds
  <1>5. CASE UNCHANGED vars
    <2>1. Base'
      BY <1>5, StutterBase
    <2> QED BY <1>5, <2>1 DEF Sleeps, OlderStillLaunching, vars, job, bounds
  <1> QED BY <1>1, <1>2, <1>3, <1>4, <1>5 DEF Next

(* While no job is cancelled nobody sleeps through the broadcast that was  *)
(* to wake it (waitForLaunchTurn, markLaunched).                           *)
THEOREM NoWakeupLost == Spec => []AsleepForCause
  <1>1. Init => Base /\ Sleeps
    <2>1. Init => Sleeps
      BY DEF Init, Sleeps
    <2> QED BY <2>1, InitBase
  <1>2. Sleeps => AsleepForCause
    BY DEF Sleeps, AsleepForCause
  <1> QED BY <1>1, <1>2, SleepsNext, PTL DEF Spec

-----------------------------------------------------------------------------
(* Sight.  A running execution is the one its job holds, which its state   *)
(* file names from the moment the file is there, or the job has lost sight *)
(* of it; only a job that a restart forgot keeps no account.               *)
Forgotten(j) == status[j] = "gone"

Lost(e) == e \in unseen \cup dropped

Holds(j, e) ==
  /\ arn[j] = e
  /\ pc[j] \notin Launching
  /\ pc[j] = "ok" => cancelled[j]
  /\ savedIdx[j] # None => savedArn[j] = e \/ pc[j] = "persist"

InSight ==
  \A j \in Job, e \in DOMAIN execs :
    Running(e) /\ execs[e].job = j => Forgotten(j) \/ Holds(j, e) \/ Lost(e)

(* The ARNs of a job are not of files it has passed.                       *)
Ahead(j) ==
  /\ savedIdx[j] <= idx[j]
  /\ arn[j] # NoArn => idx[j] <= execs[arn[j]].file
  /\ savedArn[j] # NoArn => savedIdx[j] <= execs[savedArn[j]].file

Over(j) == Forgotten(j) => pc[j] = "idle"

(* What a job did not see start is of a file it has yet to submit, or was  *)
(* left behind or spared; and what it submits beside was spared.           *)
Unsent ==
  \A e \in DOMAIN execs :
    e \in unseen /\ Running(e) =>
      idx[execs[e].job] <= execs[e].file \/ e \in dropped \cup spared

SparedBeside(j) ==
  pc[j] = "submit" =>
    \A e \in DOMAIN execs :
      Running(e) /\ execs[e].job = j /\ execs[e].file = idx[j] => e \in spared

Sight ==
  /\ \A j \in Job : Ahead(j) /\ Over(j) /\ SparedBeside(j)
  /\ InSight /\ Unsent /\ NoDuplicate

Steps(j) == Submit(j) \/ RunStep(j) \/ Cancel(j) \/ Resume(j)

Grown == unseen \subseteq unseen' /\ dropped \subseteq dropped' /\ spared \subseteq spared'

LEMMA HistoryGrows == ASSUME NEW j \in Job, Steps(j) PROVE Grown
  BY DEF Grown, Steps, Submit, RunStep, Cancel, Resume, Acquire, Start, LocalWork, NextFile,
         Prepare, TakeTurn, StopPrior, StartExecution, PersistArn, FanOut, PollEnds, CancelWatch,
         ReturnFile, Settle, Exit, history

(* A job lets go of a running execution only into what it has lost.        *)
LEMMA HoldsOn ==
  ASSUME Types, NEW j \in Job, Placed(j), NEW e \in DOMAIN execs, e # NoArn,
         Running(e)', Running(e), Holds(j, e), Steps(j)
  PROVE  Holds(j, e)' \/ Lost(e)'
  <1> USE DEF Goto, job, saved, bounds, Launching, Holds, None, Lost
  <1>1. CASE Submit(j)
    BY <1>1, CloudAssumption DEF Submit, Placed
  <1>2. CASE Resume(j)
    BY <1>2 DEF Types, Resume, Persist
  <1>3. CASE NextFile(j)
    <2>1. CASE ~MoreFiles(j)
      BY <1>3, <2>1 DEF Types, NextFile
    <2>2. CASE e \in unseen'
      BY <2>2
    <2>3. CASE MoreFiles(j) /\ e \notin unseen'
      <3>1. Resumable(arn[j])
        BY DEF Resumable, Running
      <3>2. Goto(j, "poll") /\ Persist(j, idx[j]) /\ arn' = arn
        BY <1>3, <2>3, <3>1 DEF NextFile
      <3>3. arn'[j] = e /\ pc'[j] = "poll" /\ savedArn'[j] = e
        BY <3>2 DEF Types, Persist
      <3> QED BY <3>3
    <2> QED BY <2>1, <2>2, <2>3
  <1>4. CASE Acquire(j) \/ Start(j) \/ LocalWork(j)
    BY <1>4 DEF Types, Acquire, Start, LocalWork
  <1>5. CASE Prepare(j) \/ TakeTurn(j) \/ StopPrior(j) \/ StartExecution(j)
    BY <1>5 DEF Prepare, TakeTurn, StopPrior, StartExecution
  <1>6. CASE PersistArn(j)
    BY <1>6 DEF Types, PersistArn, Persist
  <1>7. CASE FanOut(j)
    <2>1. UNCHANGED <<arn, saved>>
      BY <1>7 DEF FanOut
    <2> QED BY <1>7, <2>1, FanOutAt
  <1>8. CASE PollEnds(j)
    BY <1>8 DEF Types, PollEnds, Running
  <1>9. CASE CancelWatch(j)
    BY <1>9 DEF Types, CancelWatch
  <1>10. CASE ReturnFile(j)
    <2>1. UNCHANGED saved
      BY <1>10 DEF ReturnFile
    <2>2. CASE pc[j] = "err"
      <3>1. pc'[j] = "failed" /\ arn'[j] = arn[j]
        BY <1>10, <2>2, ReturnAt
      <3> QED BY <2>1, <2>2, <3>1
    <2>3. CASE pc[j] = "ok"
      <3>1. e \in LeftBehind(j)
        BY <2>3 DEF LeftBehind
      <3>2. dropped' = dropped \cup LeftBehind(j)
        BY <1>10, <2>3 DEF ReturnFile
      <3> QED BY <3>1, <3>2
    <2> QED BY <1>10, <2>2, <2>3 DEF ReturnFile
  <1>11. CASE Settle(j)
    BY <1>11 DEF Types, Settle
  <1>12. CASE Exit(j)
    BY <1>12 DEF Types, Exit
  <1>13. CASE Cancel(j)
    <2>1. /\ pc \in [Job -> Labels] /\ pc' = Woken(pc) /\ cancelled'[j]
          /\ UNCHANGED <<arn, saved>>
      BY <1>13 DEF Types, Cancel
    <2>2. pc'[j] = pc[j]
      BY <2>1, WokenMoves
    <2> QED BY <2>1, <2>2
  <1> QED BY <1>1, <1>2, <1>3, <1>4, <1>5, <1>6, <1>7, <1>8, <1>9, <1>10, <1>11, <1>12, <1>13
          DEF Steps, RunStep

(* A forgotten job is over.                                                *)
LEMMA ForgottenStays ==
  ASSUME Types, NEW j \in Job, Placed(j), Over(j), Steps(j)
  PROVE  ~Forgotten(j) /\ ~Forgotten(j)'
  <1> USE DEF Forgotten, Over, job, saved, bounds
  <1>1. CASE Submit(j)
    <2>1. j \in Nat
      BY CloudAssumption
    <2>2. status[j] = "absent" /\ status' = [status EXCEPT ![j] = "queued"]
      BY <1>1, <2>1 DEF Submit
    <2> QED BY <2>2 DEF Types
  <1>2. CASE Resume(j)
    BY <1>2 DEF Types, Resume
  <1>3. CASE Start(j) \/ Settle(j)
    BY <1>3 DEF Types, Start, Settle
  <1>4. CASE Acquire(j) \/ LocalWork(j) \/ NextFile(j) \/ Prepare(j) \/ TakeTurn(j)
    BY <1>4 DEF Acquire, LocalWork, NextFile, Prepare, TakeTurn
  <1>5. CASE StopPrior(j) \/ StartExecution(j) \/ PersistArn(j) \/ FanOut(j)
    BY <1>5 DEF StopPrior, StartExecution, PersistArn, FanOut
  <1>6. CASE PollEnds(j) \/ CancelWatch(j) \/ ReturnFile(j) \/ Exit(j)
    BY <1>6 DEF PollEnds, CancelWatch, ReturnFile, Exit
  <1>7. CASE Cancel(j)
    BY <1>7 DEF Cancel, Active
  <1> QED BY <1>1, <1>2, <1>3, <1>4, <1>5, <1>6, <1>7 DEF Steps, RunStep

(* Where the file index of a job goes, and what it loses sight of.         *)
LEMMA IndexAt ==
  ASSUME Types, NEW j \in Job, Placed(j), Steps(j)
  PROVE  /\ \/ ReturnFile(j) /\ pc[j] = "ok"
            \/ idx'[j] = idx[j]
            \/ idx'[j] = 0
         /\ \/ savedIdx'[j] = savedIdx[j]
            \/ savedIdx'[j] = None
            \/ savedIdx'[j] = 0 /\ idx'[j] = idx[j]
            \/ savedIdx'[j] = idx[j] /\ idx'[j] = idx[j]
         /\ idx'[j] = 0 => idx[j] = 0 \/ savedIdx'[j] = None
         /\ \A e \in DOMAIN execs : e \in unseen' => e \in unseen \/ (e = arn[j] /\ e # NoArn)
  <1> USE DEF Goto, job, saved, bounds, history
  <1>0. idx[j] \in Nat /\ \A e \in DOMAIN execs : e # Len(execs) + 1
    BY LenProperties DEF Types
  <1>1. CASE Submit(j)
    BY <1>1, CloudAssumption DEF Types, Submit, Placed
  <1>2. CASE Resume(j)
    BY <1>2 DEF Types, Resume, Persist
  <1>3. CASE Exit(j)
    BY <1>3 DEF Types, Exit
  <1>4. CASE ReturnFile(j)
    <2>1. UNCHANGED <<unseen, saved>>
      BY <1>4 DEF ReturnFile
    <2> QED BY <1>0, <1>4, <2>1, ReturnAt
  <1>5. CASE StartExecution(j)
    BY <1>0, <1>5, StartAt DEF NotStarted, Begun
  <1>6. CASE NextFile(j) \/ PersistArn(j)
    BY <1>6 DEF Types, NextFile, PersistArn, Persist
  <1>7. CASE Acquire(j) \/ Start(j) \/ LocalWork(j) \/ Prepare(j) \/ TakeTurn(j) \/ StopPrior(j)
    BY <1>7 DEF Acquire, Start, LocalWork, Prepare, TakeTurn, StopPrior
  <1>8. CASE FanOut(j) \/ PollEnds(j) \/ CancelWatch(j) \/ Settle(j) \/ Cancel(j)
    BY <1>8 DEF FanOut, PollEnds, CancelWatch, Settle, Cancel
  <1> QED BY <1>1, <1>2, <1>3, <1>4, <1>5, <1>6, <1>7, <1>8 DEF Steps, RunStep

LEMMA AheadStep ==
  ASSUME Types, NEW j \in Job, Placed(j), ArnsOwn(j), Ahead(j), Kept, Types', Steps(j)
  PROVE  Ahead(j)'
  <1> USE DEF None, NoArn
  <1>1. /\ idx[j] \in Nat /\ idx'[j] \in Nat /\ savedIdx[j] \in Nat \cup {None}
        /\ savedIdx'[j] \in Nat \cup {None}
    BY DEF Types
  <1>2. /\ arn[j] # NoArn => execs'[arn[j]].file = execs[arn[j]].file
        /\ savedArn[j] # NoArn => execs'[savedArn[j]].file = execs[savedArn[j]].file
    BY DEF ArnsOwn, Kept
  <1>f. /\ arn[j] # NoArn => execs[arn[j]].file \in Nat
        /\ savedArn[j] # NoArn => execs[savedArn[j]].file \in Nat
    <2>1. \A e \in DOMAIN execs : execs[e] \in Execution
      BY LenProperties DEF Types
    <2>2. \A e \in DOMAIN execs : execs[e].file \in Nat
      BY <2>1 DEF Execution
    <2> QED BY <2>2 DEF ArnsOwn
  <1>3. CASE ReturnFile(j) /\ pc[j] = "ok"
    <2>1. UNCHANGED saved /\ idx'[j] = idx[j] + 1 /\ arn'[j] = NoArn
      BY <1>3, ReturnAt DEF ReturnFile
    <2> QED BY <1>1, <1>2, <2>1 DEF Ahead, saved
  <1>4. CASE StartExecution(j)
    <2>1. UNCHANGED <<idx, saved>> /\ (NotStarted(j) \/ Begun(j))
      BY <1>4, StartAt
    <2> QED BY <1>1, <1>2, <2>1 DEF Ahead, saved, NotStarted, Begun
  <1>5. CASE ~StartExecution(j) /\ ~(ReturnFile(j) /\ pc[j] = "ok")
    <2>1. /\ arn'[j] = arn[j] \/ arn'[j] = NoArn
          /\ \/ savedArn'[j] = savedArn[j] /\ savedIdx'[j] = savedIdx[j]
             \/ savedArn'[j] = NoArn /\ savedIdx'[j] = None
             \/ savedArn'[j] = savedArn[j] /\ Submit(j)
             \/ savedArn'[j] = arn'[j] /\ savedIdx'[j] = idx[j]
             \/ savedArn'[j] = arn'[j] /\ Resume(j)
      BY <1>5, ArnsAt DEF Steps
    <2>2. Submit(j) => savedArn[j] = NoArn /\ savedIdx'[j] = 0
      BY CloudAssumption DEF Submit, Placed, Types
    <2>3. Resume(j) => savedIdx'[j] = 0
      BY DEF Resume, Persist, Types
    <2>4. /\ idx'[j] = idx[j] \/ idx'[j] = 0
          /\ \/ savedIdx'[j] = savedIdx[j] \/ savedIdx'[j] = None
             \/ savedIdx'[j] = 0 /\ idx'[j] = idx[j]
             \/ savedIdx'[j] = idx[j] /\ idx'[j] = idx[j]
          /\ idx'[j] = 0 => idx[j] = 0 \/ savedIdx'[j] = None
      BY <1>5, IndexAt
    <2>5. savedIdx'[j] <= idx'[j]
      BY <1>1, <2>4 DEF Ahead
    <2>6. arn'[j] # NoArn => idx'[j] <= execs'[arn'[j]].file
      BY <1>1, <1>2, <1>f, <2>1, <2>4 DEF Ahead
    <2>7. savedArn'[j] # NoArn => savedIdx'[j] <= execs'[savedArn'[j]].file
      BY <1>1, <1>2, <1>f, <2>1, <2>2, <2>3 DEF Ahead
    <2> QED BY <2>5, <2>6, <2>7 DEF Ahead
  <1> QED BY <1>3, <1>4, <1>5

LEMMA UnsentStep ==
  ASSUME Types, NEW j \in Job, Placed(j), ArnsOwn(j), Ahead(j), Unsent, Kept, Others(j), Steps(j)
  PROVE  Unsent'
  <1> SUFFICES ASSUME NEW e \in DOMAIN execs', e \in unseen', Running(e)', e \notin (dropped \cup spared)'
               PROVE  idx'[execs'[e].job] <= execs'[e].file
    BY DEF Unsent
  <1>1. CASE e \notin DOMAIN execs
    <2>1. StartExecution(j)
      BY <1>1, OnlyStartAdds DEF NoneNew, Steps
    <2>2. UNCHANGED idx /\ Begun(j)
      BY <1>1, <2>1, StartAt DEF NotStarted
    <2> QED BY <1>1, <2>2 DEF Begun, Types
  <1>2. CASE e \in DOMAIN execs
    <2> DEFINE k == execs[e].job
    <2>1. /\ k \in Job /\ execs[e].file \in Nat
          /\ execs'[e].job = k /\ execs'[e].file = execs[e].file /\ Running(e)
      <3>1. execs[e] \in Execution
        BY <1>2, LenProperties DEF Types
      <3> QED BY <1>2, <3>1 DEF Kept, Execution
    <2>2. e \notin dropped \cup spared
      BY HistoryGrows DEF Grown
    <2>3. e \in unseen \/ (e = arn[j] /\ e # NoArn)
      BY <1>2, IndexAt
    <2>4. idx[k] <= execs[e].file
      BY <1>2, <2>1, <2>2, <2>3 DEF Unsent, Ahead, ArnsOwn
    <2> HIDE DEF k
    <2>5. CASE k # j
      BY <2>1, <2>4, <2>5 DEF Others
    <2>6. CASE k = j /\ ~(ReturnFile(j) /\ pc[j] = "ok")
      <3>1. idx'[j] = idx[j] \/ idx'[j] = 0
        BY <2>6, IndexAt
      <3> QED BY <2>1, <2>4, <2>6, <3>1
    <2>7. CASE k = j /\ ReturnFile(j) /\ pc[j] = "ok"
      <3>1. /\ idx'[j] = idx[j] + 1 /\ idx[j] \in Nat
            /\ dropped' = dropped \cup LeftBehind(j) /\ unseen' = unseen
        BY <2>7, ReturnAt DEF ReturnFile, Types
      <3>2. execs[e].file # idx[j]
        BY <1>2, <2>1, <2>7, <3>1 DEF LeftBehind, Prior, k
      <3> QED BY <2>1, <2>4, <2>7, <3>1, <3>2
    <2> QED BY <2>5, <2>6, <2>7
  <1> QED BY <1>1, <1>2

LEMMA EntersSubmit ==
  ASSUME Types, NEW j \in Job, Steps(j), ~StopPrior(j), pc'[j] = "submit"
  PROVE  pc[j] = "submit" /\ idx'[j] = idx[j]
  <1> USE DEF Goto
  <1>1. CASE Submit(j) \/ Resume(j) \/ Acquire(j) \/ Start(j) \/ LocalWork(j) \/ NextFile(j)
    BY <1>1 DEF Types, Submit, Resume, Acquire, Start, LocalWork, NextFile
  <1>2. CASE Prepare(j) \/ TakeTurn(j) \/ PersistArn(j) \/ PollEnds(j) \/ CancelWatch(j) \/ Settle(j) \/ Exit(j)
    BY <1>2 DEF Types, Prepare, TakeTurn, PersistArn, PollEnds, CancelWatch, Settle, Exit
  <1>3. CASE StartExecution(j)
    BY <1>3, StartAt DEF NotStarted, Begun
  <1>4. CASE FanOut(j) \/ ReturnFile(j)
    BY <1>4, FanOutAt, ReturnAt
  <1>5. CASE Cancel(j)
    <2>1. pc \in [Job -> Labels] /\ pc' = Woken(pc) /\ idx' = idx
      BY <1>5 DEF Types, Cancel
    <2>2. pc'[j] = IF pc[j] = "asleep" THEN "turn" ELSE pc[j]
      BY <2>1, WokenMoves
    <2> QED BY <2>1, <2>2
  <1> QED BY <1>1, <1>2, <1>3, <1>4, <1>5 DEF Steps, RunStep

LEMMA SparedStep ==
  ASSUME Types, NEW j \in Job, NEW k \in Job, SparedBeside(k), Kept, Others(j), Steps(j)
  PROVE  SparedBeside(k)'
  <1> SUFFICES ASSUME pc'[k] = "submit", NEW e \in DOMAIN execs', Running(e)',
                      execs'[e].job = k, execs'[e].file = idx'[k]
               PROVE  e \in spared'
    BY DEF SparedBeside
  <1>0. Grown
    BY HistoryGrows
  <1>1. CASE StartExecution(j)
    <2>1. k # j /\ (NotStarted(j) \/ Begun(j))
      BY <1>1, StartAt DEF NotStarted, Begun
    <2>2. e \in DOMAIN execs
      BY <2>1 DEF NotStarted, Begun
    <2> QED BY <1>0, <2>1, <2>2 DEF SparedBeside, Others, Kept, Grown
  <1>2. CASE ~StartExecution(j)
    <2>1. e \in DOMAIN execs
      BY <1>2, OnlyStartAdds DEF NoneNew, Steps
    <2>2. CASE pc[k] = "submit" /\ idx'[k] = idx[k]
      BY <1>0, <2>1, <2>2 DEF SparedBeside, Kept, Grown
    <2>3. CASE k = j /\ StopPrior(j)
      BY <2>1, <2>3, StopAt DEF Kept
    <2>4. CASE k # j
      BY <2>2, <2>4 DEF Others
    <2>5. CASE k = j /\ ~StopPrior(j)
      <3>1. pc[j] = "submit" /\ idx'[j] = idx[j]
        BY <1>2, <2>5, EntersSubmit
      <3> QED BY <2>2, <2>5, <3>1
    <2> QED BY <2>3, <2>4, <2>5
  <1> QED BY <1>1, <1>2

LEMMA SightLocal ==
  ASSUME Base, Sight, NEW j \in Job, Steps(j)
  PROVE  Sight'
  <1>1. /\ Types /\ Base' /\ Others(j) /\ Kept /\ Placed(j) /\ ArnsOwn(j)
        /\ Ahead(j) /\ Over(j) /\ InSight /\ Unsent /\ NoDuplicate
        /\ \A k \in Job : ArnsOwn(k) /\ Ahead(k) /\ Over(k) /\ SparedBeside(k)
    BY LocalBase DEF Base, Sight, Steps
  <1>2. Grown /\ ~Forgotten(j) /\ ~Forgotten(j)'
    BY <1>1, HistoryGrows, ForgottenStays
  <1>3. \A e \in DOMAIN execs : e # NoArn
    BY <1>1, LenProperties DEF Types, NoArn
  <1>4. ASSUME NEW k \in Job PROVE Ahead(k)' /\ Over(k)' /\ SparedBeside(k)'
    <2>1. SparedBeside(k)'
      BY <1>1, SparedStep
    <2>2. CASE k = j
      <3>1. Ahead(j)'
        BY <1>1, AheadStep DEF Base
      <3> QED BY <1>2, <2>1, <2>2, <3>1 DEF Over
    <2>3. CASE k # j
      <3>1. ArnsOwn(k) /\ Ahead(k) /\ Over(k)
        BY <1>1
      <3>2. Ahead(k)'
        BY <1>1, <2>3, <3>1 DEF Ahead, Others, ArnsOwn, Kept
      <3>3. Over(k)'
        BY <1>1, <2>3, <3>1 DEF Over, Forgotten, Others
      <3> QED BY <2>1, <3>2, <3>3
    <2> QED BY <2>2, <2>3
  <1>5. ASSUME NEW e \in DOMAIN execs, NEW k \in Job, Running(e)', execs'[e].job = k
        PROVE  Forgotten(k)' \/ Holds(k, e)' \/ Lost(e)'
    <2>1. Running(e) /\ execs[e].job = k /\ (Forgotten(k) \/ Holds(k, e) \/ Lost(e))
      BY <1>1, <1>5 DEF Kept, InSight
    <2>2. CASE Lost(e)
      BY <1>2, <2>2 DEF Lost, Grown
    <2>3. CASE k = j /\ Holds(j, e)
      BY <1>1, <1>3, <1>5, <2>1, <2>3, HoldsOn
    <2>4. CASE k # j /\ Forgotten(k)
      BY <1>1, <2>4 DEF Others, Forgotten
    <2>5. CASE k # j /\ Holds(k, e)
      BY <1>1, <2>5 DEF Others, Holds, Launching
    <2> QED BY <1>2, <2>1, <2>2, <2>3, <2>4, <2>5
  <1>6. Unsent'
    BY <1>1, UnsentStep
  <1>7. CASE NoneNew
    <2>1. NoDuplicate'
      BY <1>1, <1>2, <1>7 DEF NoneNew, Kept, NoDuplicate, Grown
    <2>2. InSight'
      BY <1>5, <1>7 DEF InSight, NoneNew
    <2> QED BY <1>4, <1>6, <2>1, <2>2 DEF Sight
  <1>8. CASE StartExecution(j) /\ ~NoneNew
    <2>1. Begun(j) /\ UNCHANGED saved /\ pc[j] = "submit"
      BY <1>1, <1>8, StartAt DEF NotStarted, NoneNew
    <2>2. PICK n \in DOMAIN execs' :
            /\ execs'[n].job = j /\ execs'[n].file = idx[j]
            /\ (arn'[j] = n /\ pc'[j] = "persist") \/ n \in unseen'
            /\ \A e \in DOMAIN execs' : e = n \/ e \in DOMAIN execs
      BY <2>1 DEF Begun
    <2>3. Holds(j, n)' \/ Lost(n)'
      BY <2>2 DEF Holds, Launching, Lost
    <2>4. InSight'
      BY <1>5, <2>2, <2>3 DEF InSight
    <2>5. ASSUME NEW e \in DOMAIN execs, Running(e)', execs'[e].job = j, execs'[e].file = idx[j]
          PROVE  e \in (unseen' \cup dropped') \cap spared'
      <3>1. Running(e) /\ execs[e].job = j /\ execs[e].file = idx[j]
        BY <1>1, <2>5 DEF Kept
      <3>2. e \in spared
        BY <1>1, <2>1, <3>1 DEF SparedBeside
      <3>3. ~Holds(j, e)
        BY <2>1 DEF Holds, Launching
      <3>4. Lost(e)
        BY <1>1, <1>2, <3>1, <3>3 DEF InSight
      <3> QED BY <1>2, <3>2, <3>4 DEF Lost, Grown
    <2>6. NoDuplicate'
      <3> SUFFICES ASSUME NEW a \in DOMAIN execs', NEW b \in DOMAIN execs', a # b,
                          Running(a)', Running(b)', execs'[a].job = execs'[b].job,
                          execs'[a].file = execs'[b].file
                   PROVE  {a, b} \cap (unseen' \cup dropped') \cap spared' # {}
        BY DEF NoDuplicate
      <3>1. CASE a \in DOMAIN execs /\ b \in DOMAIN execs
        <4>1. {a, b} \cap (unseen \cup dropped) \cap spared # {}
          BY <1>1, <3>1 DEF NoDuplicate, Kept
        <4> QED BY <1>2, <4>1 DEF Grown
      <3>2. CASE a = n /\ b \in DOMAIN execs
        BY <2>2, <2>5, <3>2
      <3>3. CASE b = n /\ a \in DOMAIN execs
        BY <2>2, <2>5, <3>3
      <3> QED BY <2>2, <3>1, <3>2, <3>3
    <2> QED BY <1>4, <1>6, <2>4, <2>6 DEF Sight
  <1> QED BY <1>1, <1>7, <1>8, OnlyStartAdds DEF Steps

(* What the state file does not name when the server stops is lost, and    *)
(* what it names is held from the start.                                   *)
LEMMA SightRestart == Base /\ Sight /\ Restart => Sight'
  <1> SUFFICES ASSUME Base, Sight, Restart PROVE Sight'
    OBVIOUS
  <1>1. /\ Types /\ Base' /\ UNCHANGED <<saved, execs, dropped, spared>>
        /\ unseen' = unseen \cup {arn[j] : j \in {k \in Job : pc[k] = "persist"}}
        /\ arn' = savedArn
    BY RestartBase DEF Base, Restart
  <1>2. ASSUME NEW j \in Job
        PROVE  /\ savedIdx[j] # None => pc'[j] = "slot" /\ idx'[j] = savedIdx[j]
               /\ savedIdx[j] = None => pc'[j] = "idle" /\ idx'[j] = 0
               /\ savedIdx[j] = None => status[j] = "absent" \/ Forgotten(j)'
               /\ Forgotten(j)' => savedIdx[j] = None
    BY DEF Restart, Forgotten
  <1>3. \A j \in Job : idx'[j] <= idx[j]
    <2>1. ASSUME NEW j \in Job PROVE idx'[j] <= idx[j]
      <3>1. savedIdx[j] <= idx[j] /\ idx[j] \in Nat
        BY <1>1 DEF Sight, Ahead, Types
      <3> QED BY <1>2, <3>1
    <2> QED BY <2>1
  <1>4. ASSUME NEW j \in Job PROVE Ahead(j)' /\ Over(j)' /\ SparedBeside(j)'
    <2>1. Placed(j) /\ Ahead(j)
      BY DEF Base, Sight
    <2>2. savedIdx[j] \in Nat \cup {None}
      BY <1>1 DEF Types
    <2>3. Ahead(j)'
      BY <1>1, <1>2, <2>1, <2>2 DEF Ahead, Placed, saved, None
    <2> QED BY <1>2, <2>3 DEF Over, SparedBeside
  <1>5. InSight'
    <2> SUFFICES ASSUME NEW k \in Job, NEW e \in DOMAIN execs, Running(e), execs[e].job = k
                 PROVE  Forgotten(k)' \/ Holds(k, e)' \/ Lost(e)'
      BY <1>1 DEF InSight, Running
    <2>1. e # NoArn
      BY <1>1, LenProperties DEF Types, NoArn
    <2>2. Placed(k) /\ Over(k) /\ (Forgotten(k) \/ Holds(k, e) \/ Lost(e))
      BY DEF Sight, InSight, Base
    <2>3. CASE Lost(e)
      BY <1>1, <2>3 DEF Lost
    <2>4. CASE Forgotten(k)
      <3>1. savedIdx[k] = None /\ status[k] # "absent"
        BY <2>2, <2>4 DEF Placed, Over, Forgotten
      <3> QED BY <1>2, <3>1
    <2>5. CASE Holds(k, e) /\ savedIdx[k] = None
      <3>1. status[k] # "absent"
        BY <2>1, <2>2, <2>5 DEF Holds, Placed
      <3> QED BY <1>2, <2>5, <3>1
    <2>6. CASE Holds(k, e) /\ pc[k] = "persist"
      <3>1. e \in unseen'
        BY <1>1, <2>6 DEF Holds
      <3> QED BY <3>1 DEF Lost
    <2>7. CASE Holds(k, e) /\ savedIdx[k] # None /\ savedArn[k] = e
      BY <1>1, <1>2, <2>7 DEF Holds, Launching, saved
    <2> QED BY <2>2, <2>3, <2>4, <2>5, <2>6, <2>7 DEF Holds
  <1>6. Unsent'
    <2> SUFFICES ASSUME NEW e \in DOMAIN execs, e \in unseen', Running(e), e \notin dropped \cup spared
                 PROVE  idx'[execs[e].job] <= execs[e].file
      BY <1>1 DEF Unsent, Running
    <2> DEFINE k == execs[e].job
    <2>1. k \in Job /\ execs[e].file \in Nat
      <3>1. execs[e] \in Execution
        BY <1>1, LenProperties DEF Types
      <3> QED BY <3>1 DEF Execution
    <2>2. e \in unseen \/ \E i \in Job : pc[i] = "persist" /\ arn[i] = e
      BY <1>1
    <2>3. idx[k] <= execs[e].file
      <3>1. CASE e \in unseen
        BY <3>1 DEF Sight, Unsent
      <3>2. CASE \E i \in Job : pc[i] = "persist" /\ arn[i] = e
        <4>1. PICK i \in Job : pc[i] = "persist" /\ arn[i] = e
          BY <3>2
        <4>2. Placed(i) /\ ArnsOwn(i) /\ Ahead(i)
          BY DEF Base, Sight
        <4> QED BY <4>1, <4>2 DEF Placed, ArnsOwn, Ahead
      <3> QED BY <2>2, <3>1, <3>2
    <2> HIDE DEF k
    <2>4. idx'[k] <= idx[k] /\ idx[k] \in Nat /\ idx'[k] \in Nat
      BY <1>1, <1>3, <2>1 DEF Types, Base
    <2> QED BY <2>1, <2>3, <2>4 DEF k
  <1>7. NoDuplicate'
    BY <1>1 DEF Sight, NoDuplicate, Running
  <1> QED BY <1>4, <1>5, <1>6, <1>7 DEF Sight

LEMMA SightNext == Base /\ Sight /\ [Next]_vars => Base' /\ Sight'
  <1> SUFFICES ASSUME Base, Sight, [Next]_vars PROVE Base' /\ Sight'
    OBVIOUS
  <1>1. ASSUME NEW j \in Job, Steps(j) PROVE Base' /\ Sight'
    <2>1. Base'
      BY <1>1, LocalBase DEF Steps
    <2> QED BY <1>1, <2>1, SightLocal
  <1>2. CASE Restart
    BY <1>2, RestartBase, SightRestart
  <1>3. ASSUME NEW e \in DOMAIN execs, ExecutionEnds(e) PROVE Base' /\ Sight'
    <2>1. Base' /\ Kept /\ NoneNew
      BY <1>3, ExecutionBase
    <2>2. UNCHANGED <<job, pc, idx, saved, history>>
      BY <1>3 DEF ExecutionEnds
    <2>3. InSight'
      <3>1. \A j \in Job : (Forgotten(j) => Forgotten(j)') /\ \A d : Holds(j, d) => Holds(j, d)'
        BY <2>2 DEF Forgotten, Holds, job, saved
      <3>2. \A d : Lost(d) => Lost(d)'
        BY <2>2 DEF Lost, history
      <3> QED BY <2>1, <3>1, <3>2 DEF Sight, InSight, Kept, NoneNew
    <2>4. ASSUME NEW j \in Job PROVE Ahead(j)' /\ Over(j)' /\ SparedBeside(j)'
      <3>1. Ahead(j) /\ Over(j) /\ SparedBeside(j) /\ ArnsOwn(j)
        BY DEF Sight, Base
      <3>2. Ahead(j)'
        BY <2>1, <2>2, <3>1 DEF Ahead, ArnsOwn, Kept, job, saved
      <3>3. SparedBeside(j)'
        BY <2>1, <2>2, <3>1 DEF SparedBeside, Kept, NoneNew, history
      <3> QED BY <2>2, <3>1, <3>2, <3>3 DEF Over, Forgotten, job
    <2>5. Unsent'
      BY <2>1, <2>2 DEF Sight, Unsent, Kept, NoneNew, history
    <2>6. NoDuplicate'
      BY <2>1, <2>2 DEF Sight, NoDuplicate, Kept, NoneNew, history
    <2> QED BY <2>1, <2>3, <2>4, <2>5, <2>6 DEF Sight
  <1>4. CASE UNCHANGED vars
    <2>1. Base'
      BY <1>4, StutterBase
    <2>2. Sight'
      BY <1>4 DEF Sight, Ahead, Over, SparedBeside, InSight, Unsent, NoDuplicate, Forgotten, Lost,
                  Holds, Running, vars, job, saved, history
    <2> QED BY <2>1, <2>2
  <1> QED BY <1>1, <1>2, <1>3, <1>4 DEF Next, Steps

LEMMA SightAlways == Spec => [](Base /\ Sight)
  <1>1. Init => Base /\ Sight
    <2>1. Init => Sight
      <3> SUFFICES ASSUME Init PROVE Sight
        OBVIOUS
      <3>1. execs = << >> /\ \A e \in DOMAIN execs : FALSE
        BY DEF Init
      <3> QED BY <3>1 DEF Init, Sight, Ahead, Over, SparedBeside, InSight, Unsent, NoDuplicate,
                          Forgotten, None, NoArn
    <2> QED BY <2>1, InitBase
  <1> QED BY <1>1, SightNext, PTL DEF Spec

(* A job has two executions of one file running only if AWS kept, as the   *)
(* job submitted the file again, one that it had lost sight of: otherwise  *)
(* a restart and a Resume re-attach "instead of submitting a duplicate",   *)
(* and a submission aborts what runs (runOneCloudBatchSFN, cmd_submit).    *)
THEOREM ReattachesNotDuplicates == Spec => []NoDuplicate
  <1>1. Sight => NoDuplicate
    BY DEF Sight
  <1> QED BY <1>1, SightAlways, PTL

(* The execution of an active job is in its state file or about to be, or  *)
(* its file is yet to be submitted again, or it was left behind or spared  *)
(* (persistState, cmd_submit).                                             *)
THEOREM ExecutionsStayInSight == Spec => []NoOrphan
  <1>1. Base /\ Sight => NoOrphan
    <2> SUFFICES ASSUME Base, Sight, NEW e \in DOMAIN execs, Running(e),
                        status[execs[e].job] \in Active, e \notin dropped \cup spared
                 PROVE  \/ savedArn[execs[e].job] = e
                        \/ pc[execs[e].job] = "persist" /\ arn[execs[e].job] = e
                        \/ e \in unseen /\ idx[execs[e].job] <= execs[e].file
      BY DEF NoOrphan
    <2> DEFINE k == execs[e].job
    <2>1. execs[e] \in Execution
      BY LenProperties DEF Base, Types
    <2>2. k \in Job /\ (Holds(k, e) \/ e \in unseen) /\ status[k] \in Active
      BY <2>1 DEF Sight, InSight, Forgotten, Execution, Active, Lost
    <2>3. e \in unseen => idx[k] <= execs[e].file
      BY DEF Sight, Unsent
    <2> HIDE DEF k
    <2>4. Placed(k)
      BY <2>2 DEF Base
    <2>5. savedIdx[k] # None
      BY <2>2, <2>4 DEF Placed
    <2> QED BY <2>2, <2>3, <2>5 DEF Holds, k
  <1> QED BY <1>1, SightAlways, PTL
-----------------------------------------------------------------------------
(* The jobs that, in the pointer map f, point at gate g.                   *)
Users(f, g) == {j \in CloudJob : f[j] = g}

(* The strengthening: a job inside the step points at the gate its key is  *)
(* registered under, and a job outside points at none; a gate is           *)
(* registered under one key, and only while some job points at it; refs    *)
(* counts the pointers, so it reaches zero exactly when the last job       *)
(* leaves; the mutex is held by the job in the section it guards.          *)
Pointing == \A j \in CloudJob :
  /\ at[j] \in InGate => gate[j] \in Gate /\ mezzBuild[KeyOf[j]] = gate[j]
  /\ at[j] \notin InGate => gate[j] = NoGate

OneKey == \A k, l \in Key :
  mezzBuild[k] = mezzBuild[l] /\ mezzBuild[k] # NoGate => k = l

InUse == \A k \in Key :
  mezzBuild[k] # NoGate => \E j \in CloudJob : gate[j] = mezzBuild[k]

Counted == \A k \in Key :
  mezzBuild[k] # NoGate => refs[mezzBuild[k]] = Cardinality(Users(gate, mezzBuild[k]))

Held ==
  /\ \A j \in CloudJob : at[j] \in Holding => holder[gate[j]] = j
  /\ \A g \in Gate : holder[g] # NoJob => /\ gate[holder[g]] = g
                                          /\ at[holder[g]] \in Holding

IInv == TypeOK /\ Pointing /\ OneKey /\ InUse /\ Counted /\ Held

(* The finite set of a gate's users changes by one job at a time.          *)
LEMMA UsersFinite ==
  ASSUME NEW f, NEW g
  PROVE  /\ IsFiniteSet(Users(f, g))
         /\ Cardinality(Users(f, g)) \in Nat
  BY GateAssumption, FS_Subset, FS_CardinalityType DEF Users

(* Every variable has its type at the start, and every step keeps it.      *)
LEMMA TypeInit == GateInit => TypeOK
  BY GateAssumption DEF GateInit, TypeOK, Places

LEMMA TypeStep == TypeOK /\ [GateNext]_gateVars => TypeOK'
  <2> SUFFICES ASSUME TypeOK, [GateNext]_gateVars
               PROVE  TypeOK'
    OBVIOUS
  <2> USE GateAssumption DEF TypeOK, Places, InGate, Holding
  <2>1. ASSUME NEW j \in CloudJob, Register(j)
        PROVE  TypeOK'
    <3>1. KeyOf[j] \in Key
      OBVIOUS
    <3>2. CASE mezzBuild[KeyOf[j]] # NoGate
      BY <2>1, <3>1, <3>2 DEF Register, GateFor
    <3>3. CASE mezzBuild[KeyOf[j]] = NoGate
      BY <2>1, <3>1, <3>3 DEF Register, GateFor
    <3> QED
      BY <3>2, <3>3
  <2>2. ASSUME NEW j \in CloudJob, Lock(j)
        PROVE  TypeOK'
    BY <2>2 DEF Lock
  <2>3. ASSUME NEW j \in CloudJob, Probe(j)
        PROVE  TypeOK'
    BY <2>3 DEF Probe, CacheHit
  <2>4. ASSUME NEW j \in CloudJob, UploadObject(j)
        PROVE  TypeOK'
    BY <2>4 DEF UploadObject
  <2>5. ASSUME NEW j \in CloudJob, UploadDone(j)
        PROVE  TypeOK'
    BY <2>5 DEF UploadDone
  <2>6. ASSUME NEW j \in CloudJob, BuildFails(j)
        PROVE  TypeOK'
    BY <2>6 DEF BuildFails
  <2>7. ASSUME NEW j \in CloudJob, Unlock(j)
        PROVE  TypeOK'
    BY <2>7 DEF Unlock
  <2>8. ASSUME NEW j \in CloudJob, Drop(j)
        PROVE  TypeOK'
    <3>1. refs' \in [Gate -> Int]
      <4>1. gate[j] \in Gate => refs[gate[j]] - 1 \in Int
        OBVIOUS
      <4> QED
        BY <4>1, <2>8 DEF Drop, LastOut
    <3>2. mezzBuild' \in [Key -> Gate \cup {NoGate}]
      BY <2>8 DEF Drop, LastOut
    <3>3. /\ at' \in [CloudJob -> Places]
          /\ gate' \in [CloudJob -> Gate \cup {NoGate}]
          /\ UNCHANGED <<holder, s3, builds, attempts>>
      BY <2>8 DEF Drop, LastOut
    <3> QED
      BY <3>1, <3>2, <3>3
  <2>9. CASE UNCHANGED gateVars
    BY <2>9 DEF gateVars
  <2> QED
    BY <2>1, <2>2, <2>3, <2>4, <2>5, <2>6, <2>7, <2>8, <2>9 DEF GateNext, Step

THEOREM TypeCorrect == GateSpec => []TypeOK
  BY TypeInit, TypeStep, PTL DEF GateSpec

(* A job that leaves is not counted twice, and a job that joins is new.    *)
LEMMA UsersChange ==
  ASSUME NEW f, NEW g, NEW j
  PROVE  /\ j \notin Users(f, g) => Cardinality(Users(f, g) \cup {j})
                                      = Cardinality(Users(f, g)) + 1
         /\ j \in Users(f, g) => Cardinality(Users(f, g) \ {j})
                                   = Cardinality(Users(f, g)) - 1
  BY UsersFinite, FS_AddElement, FS_RemoveElement

THEOREM GateInvariant == GateSpec => []IInv
<1>1. GateInit => IInv
  BY TypeInit, GateAssumption
     DEF GateInit, IInv, Pointing, OneKey, InUse, Counted, Held, InGate, Holding
<1>2. IInv /\ [GateNext]_gateVars => IInv'
  <2> SUFFICES ASSUME IInv, [GateNext]_gateVars
               PROVE  IInv'
    OBVIOUS
  <2> USE GateAssumption DEF IInv
  <2>0. TypeOK'
    BY TypeStep
  <2>1. ASSUME NEW j \in CloudJob, Register(j)
        PROVE  IInv'
    <3> DEFINE k == KeyOf[j]
               old == mezzBuild[k]
               g == gate'[j]
    <3>1. /\ at[j] = "idle" /\ at' = [at EXCEPT ![j] = "lock"]
          /\ gate[j] = NoGate
          /\ k \in Key
          /\ UNCHANGED holder
      BY <2>1 DEF Register, GateFor, Pointing, InGate, Holding
    <3>2. CASE old # NoGate
      <4>1. /\ g = old /\ g \in Gate
            /\ gate' = [gate EXCEPT ![j] = g]
            /\ refs' = [refs EXCEPT ![g] = refs[g] + 1]
            /\ mezzBuild' = mezzBuild
        BY <2>1, <3>2, <3>1 DEF Register, GateFor, TypeOK
      <4>2. Pointing'
        BY <3>1, <4>1 DEF Pointing, InGate, Holding, TypeOK
      <4>3. OneKey'
        BY <4>1 DEF OneKey
      <4>4. InUse'
        BY <3>1, <4>1 DEF InUse, TypeOK
      <4>5. Counted'
        <5> SUFFICES ASSUME NEW l \in Key, mezzBuild[l] # NoGate
                     PROVE  refs'[mezzBuild[l]] = Cardinality(Users(gate', mezzBuild[l]))
          BY <4>1 DEF Counted
        <5> DEFINE h == mezzBuild[l]
        <5>1. refs[h] = Cardinality(Users(gate, h)) /\ h \in Gate
          BY DEF Counted, TypeOK
        <5>2. CASE h = g
          <6>1. Users(gate', h) = Users(gate, h) \cup {j} /\ j \notin Users(gate, h)
            BY <3>1, <4>1, <5>2 DEF Users, TypeOK
          <6> QED
            BY <6>1, <4>1, <5>1, <5>2, UsersChange DEF TypeOK
        <5>3. CASE h # g
          <6>1. Users(gate', h) = Users(gate, h)
            BY <3>1, <4>1, <5>3, <5>1 DEF Users, TypeOK
          <6> QED
            BY <6>1, <4>1, <5>1, <5>3 DEF TypeOK
        <5> QED
          BY <5>2, <5>3
      <4>6. Held'
        BY <3>1, <4>1 DEF Held, TypeOK, InGate, Holding
      <4> QED
        BY <2>0, <4>2, <4>3, <4>4, <4>5, <4>6
    <3>3. CASE old = NoGate
      <4>1. /\ g \in Gate /\ Unreferenced(g)
            /\ gate' = [gate EXCEPT ![j] = g]
            /\ refs' = [refs EXCEPT ![g] = 1]
            /\ mezzBuild' = [mezzBuild EXCEPT ![k] = g]
        <5>1. PICK f \in Gate :
                /\ Unreferenced(f)
                /\ gate' = [gate EXCEPT ![j] = f]
                /\ refs' = [refs EXCEPT ![f] = IF mezzBuild[k] = f
                                                THEN refs[f] + 1 ELSE 1]
                /\ mezzBuild' = [mezzBuild EXCEPT ![k] = f]
          BY <2>1, <3>3 DEF Register, GateFor
        <5>2. mezzBuild[k] # f
          BY <3>1, <5>1 DEF Unreferenced
        <5>3. g = f
          BY <5>1 DEF TypeOK
        <5> QED
          BY <5>1, <5>2, <5>3
      <4>2. Pointing'
        BY <3>1, <3>3, <4>1 DEF Pointing, InGate, Holding, TypeOK, Unreferenced
      <4>3. OneKey'
        BY <3>1, <4>1 DEF OneKey, TypeOK, Unreferenced
      <4>4. InUse'
        BY <3>1, <4>1 DEF InUse, TypeOK
      <4>5. Counted'
        <5> SUFFICES ASSUME NEW l \in Key, mezzBuild'[l] # NoGate
                     PROVE  refs'[mezzBuild'[l]] = Cardinality(Users(gate', mezzBuild'[l]))
          BY DEF Counted
        <5>1. CASE l = k
          <6>1. mezzBuild'[l] = g /\ Users(gate', g) = {j}
            BY <3>1, <4>1, <5>1 DEF Users, TypeOK, Unreferenced
          <6>2. refs'[g] = 1
            BY <4>1 DEF TypeOK
          <6> QED
            BY <6>1, <6>2, FS_Singleton
        <5>2. CASE l # k
          <6>1. mezzBuild'[l] = mezzBuild[l] /\ mezzBuild[l] # g
                /\ mezzBuild[l] \in Gate
            BY <3>1, <4>1, <5>2 DEF TypeOK, Unreferenced
          <6>2. Users(gate', mezzBuild[l]) = Users(gate, mezzBuild[l])
            BY <3>1, <4>1, <6>1 DEF Users, TypeOK
          <6>3. refs[mezzBuild[l]] = Cardinality(Users(gate, mezzBuild[l]))
            BY <6>1 DEF Counted
          <6> QED
            BY <6>1, <6>2, <6>3, <4>1 DEF TypeOK
        <5> QED
          BY <5>1, <5>2
      <4>6. Held'
        BY <3>1, <4>1 DEF Held, TypeOK, InGate, Holding
      <4> QED
        BY <2>0, <4>2, <4>3, <4>4, <4>5, <4>6
    <3> QED
      BY <3>2, <3>3
  <2>2. ASSUME NEW j \in CloudJob, Lock(j)
        PROVE  IInv'
    <3>1. /\ at[j] = "lock" /\ at' = [at EXCEPT ![j] = "probe"]
          /\ gate[j] \in Gate /\ holder[gate[j]] = NoJob
          /\ holder' = [holder EXCEPT ![gate[j]] = j]
          /\ UNCHANGED <<gate, mezzBuild, refs>>
      BY <2>2 DEF Lock, Pointing, InGate
    <3>2. Pointing' /\ OneKey' /\ InUse'
      BY <3>1 DEF Pointing, OneKey, InUse, TypeOK, InGate, Holding
    <3>3. Counted'
      BY <3>1 DEF Counted, Users
    <3>4. Held'
      BY <3>1 DEF Held, Pointing, TypeOK, InGate, Holding
    <3> QED
      BY <2>0, <3>2, <3>3, <3>4
  <2>3. ASSUME NEW j \in CloudJob,
               Probe(j) \/ UploadObject(j) \/ UploadDone(j) \/ BuildFails(j)
        PROVE  IInv'
    <3>1. /\ at[j] \in Holding
          /\ \E to \in Holding : at' = [at EXCEPT ![j] = to]
          /\ UNCHANGED <<gate, mezzBuild, refs, holder>>
      BY <2>3 DEF Probe, CacheHit, UploadObject, UploadDone, BuildFails, Holding
    <3>2. Pointing' /\ OneKey' /\ InUse'
      BY <3>1 DEF Pointing, OneKey, InUse, TypeOK, InGate
    <3>3. Counted'
      BY <3>1 DEF Counted, Users
    <3>4. Held'
      BY <3>1 DEF Held, TypeOK
    <3> QED
      BY <2>0, <3>2, <3>3, <3>4
  <2>4. ASSUME NEW j \in CloudJob, Unlock(j)
        PROVE  IInv'
    <3>1. /\ at[j] = "unlock" /\ at' = [at EXCEPT ![j] = "drop"]
          /\ gate[j] \in Gate /\ holder[gate[j]] = j
          /\ holder' = [holder EXCEPT ![gate[j]] = NoJob]
          /\ UNCHANGED <<gate, mezzBuild, refs>>
      BY <2>4 DEF Unlock, Pointing, Held, InGate, Holding
    <3>2. Pointing' /\ OneKey' /\ InUse'
      BY <3>1 DEF Pointing, OneKey, InUse, TypeOK, InGate, Holding
    <3>3. Counted'
      BY <3>1 DEF Counted, Users
    <3>4. Held'
      BY <3>1 DEF Held, TypeOK, Holding
    <3> QED
      BY <2>0, <3>2, <3>3, <3>4
  <2>5. ASSUME NEW j \in CloudJob, Drop(j)
        PROVE  IInv'
    <3> DEFINE k == KeyOf[j]
               g == gate[j]
    <3>1. /\ at[j] = "drop" /\ at' = [at EXCEPT ![j] = "idle"]
          /\ g \in Gate /\ k \in Key /\ mezzBuild[k] = g
          /\ gate' = [gate EXCEPT ![j] = NoGate]
          /\ refs' = [refs EXCEPT ![g] = refs[g] - 1]
          /\ mezzBuild' = IF refs[g] = 1 THEN [mezzBuild EXCEPT ![k] = NoGate]
                                          ELSE mezzBuild
          /\ UNCHANGED holder
      BY <2>5 DEF Drop, LastOut, Pointing, InGate
    <3>2. /\ refs[g] = Cardinality(Users(gate, g))
          /\ j \in Users(gate, g) /\ Users(gate', g) = Users(gate, g) \ {j}
      BY <3>1 DEF Counted, Users, TypeOK
    <3>3. refs[g] - 1 = Cardinality(Users(gate', g))
      BY <3>2, UsersChange
    <3>4. \A l \in Key : mezzBuild'[l] # NoGate =>
            /\ mezzBuild'[l] = mezzBuild[l] /\ mezzBuild[l] \in Gate
            /\ l = k \/ mezzBuild[l] # g
      BY <3>1 DEF OneKey, TypeOK
    <3>5. Pointing'
      <4> SUFFICES ASSUME NEW i \in CloudJob
                   PROVE  /\ at'[i] \in InGate => /\ gate'[i] \in Gate
                                                  /\ mezzBuild'[KeyOf[i]] = gate'[i]
                          /\ at'[i] \notin InGate => gate'[i] = NoGate
        BY DEF Pointing
      <4>1. CASE i = j
        BY <3>1, <4>1 DEF TypeOK, InGate, Holding
      <4>2. CASE i # j /\ (at[i] \notin InGate \/ KeyOf[i] # k)
        BY <3>1, <4>2 DEF Pointing, TypeOK
      <4>3. CASE i # j /\ at[i] \in InGate /\ KeyOf[i] = k
        <5>1. gate[i] = g
          BY <3>1, <4>3 DEF Pointing
        <5>2. i \in Users(gate', g)
          BY <3>1, <4>3, <5>1 DEF Users, TypeOK
        <5>3. Cardinality(Users(gate', g)) # 0
          <6>1. IsFiniteSet(Users(gate', g))
            BY <3>2, UsersFinite, FS_RemoveElement
          <6> QED
            BY <6>1, <5>2, FS_EmptySet
        <5>4. refs[g] # 1
          BY <3>3, <5>3
        <5> QED
          BY <3>1, <4>3, <5>1, <5>4 DEF Pointing, TypeOK
      <4> QED
        BY <4>1, <4>2, <4>3
    <3>6. OneKey'
      BY <3>4 DEF OneKey
    <3>7. InUse'
      <4> SUFFICES ASSUME NEW l \in Key, mezzBuild'[l] # NoGate
                   PROVE  \E i \in CloudJob : gate'[i] = mezzBuild'[l]
        BY DEF InUse
      <4>1. CASE l = k
        <5>1. refs[g] # 1 /\ mezzBuild'[l] = g
          BY <3>1, <4>1 DEF TypeOK
        <5>2. Users(gate', g) # {}
          <6>1. Cardinality(Users(gate', g)) # 0
            BY <5>1, <3>1, <3>3 DEF TypeOK
          <6> QED
            BY <6>1, FS_EmptySet
        <5>3. PICK i \in CloudJob : gate'[i] = g
          BY <5>2 DEF Users
        <5> QED
          BY <5>1, <5>3
      <4>2. CASE l # k
        <5>1. mezzBuild'[l] = mezzBuild[l] /\ mezzBuild[l] # g
          BY <3>4, <4>2
        <5>2. PICK i \in CloudJob : gate[i] = mezzBuild[l]
          BY <5>1 DEF InUse
        <5> QED
          BY <3>1, <5>1, <5>2 DEF TypeOK
      <4> QED
        BY <4>1, <4>2
    <3>8. Counted'
      <4> SUFFICES ASSUME NEW l \in Key, mezzBuild'[l] # NoGate
                   PROVE  refs'[mezzBuild'[l]] = Cardinality(Users(gate', mezzBuild'[l]))
        BY DEF Counted
      <4>1. CASE l = k
        BY <3>1, <3>3, <3>4, <4>1 DEF TypeOK
      <4>2. CASE l # k
        <5>1. /\ mezzBuild'[l] = mezzBuild[l] /\ mezzBuild[l] # g
              /\ mezzBuild[l] \in Gate
          BY <3>4, <4>2
        <5>2. Users(gate', mezzBuild[l]) = Users(gate, mezzBuild[l])
          BY <3>1, <5>1, GateAssumption DEF Users, TypeOK
        <5> QED
          BY <3>1, <5>1, <5>2 DEF Counted, TypeOK
      <4> QED
        BY <4>1, <4>2
    <3>9. Held'
      BY <3>1 DEF Held, TypeOK, Holding
    <3> QED
      BY <2>0, <3>5, <3>6, <3>7, <3>8, <3>9
  <2>6. CASE UNCHANGED gateVars
    BY <2>0, <2>6 DEF gateVars, Pointing, OneKey, InUse, Counted, Held, Users
  <2> QED
    BY <2>1, <2>2, <2>3, <2>4, <2>5, <2>6 DEF GateNext, Step
<1> QED
  BY <1>1, <1>2, PTL DEF GateSpec

(* Two jobs never check or build one key at the same time.                 *)
THEOREM NoTwoBuilders == GateSpec => []MutualExclusion
<1>1. IInv => MutualExclusion
  BY GateAssumption
     DEF IInv, TypeOK, Pointing, Held, MutualExclusion, InGate, Holding
<1> QED
  BY <1>1, GateInvariant, PTL

(* A key's gate exists exactly while some job is inside the step, and its  *)
(* count is the number of those jobs.                                      *)
THEOREM CountsAreExact == GateSpec => []RefsAreJobs
<1>1. IInv => RefsAreJobs
  <2> SUFFICES ASSUME IInv, NEW k \in Key
               PROVE  LET inside == {j \in CloudJob : KeyOf[j] = k /\ at[j] \in InGate}
                      IN  IF mezzBuild[k] = NoGate
                            THEN inside = {}
                            ELSE inside # {} /\ refs[mezzBuild[k]]
                                                 = Cardinality(inside)
    BY DEF RefsAreJobs
  <2> DEFINE inside == {j \in CloudJob : KeyOf[j] = k /\ at[j] \in InGate}
  <2> USE GateAssumption DEF IInv
  <2>1. CASE mezzBuild[k] = NoGate
    BY <2>1 DEF Pointing
  <2>2. CASE mezzBuild[k] # NoGate
    <3>1. inside = Users(gate, mezzBuild[k])
      BY <2>2 DEF Users, Pointing, OneKey, TypeOK
    <3>2. inside # {}
      BY <2>2, <3>1 DEF InUse, Users
    <3> QED
      BY <2>2, <3>1, <3>2 DEF Counted
  <2> QED
    BY <2>1, <2>2
<1> QED
  BY <1>1, GateInvariant, PTL

(* Whoever builds has found the key unbuilt, and alone in the step it      *)
(* stays so: with a truthful probe a key is built to completion once.      *)
Unbuilt ==
  /\ \A k \in Key : builds[k] <= 1 /\ (s3[k] # "done" => builds[k] = 0)
  /\ \A j \in CloudJob : at[j] \in {"build", "mark"} => s3[KeyOf[j]] # "done"

THEOREM OneBuild == GateSpec => []BuiltOnce
<1>1. ASSUME ~ProbeErrors
      PROVE  GateInit => Unbuilt
  BY GateAssumption DEF GateInit, Unbuilt
<1>2. ASSUME ~ProbeErrors
      PROVE  TypeOK /\ MutualExclusion /\ Unbuilt /\ [GateNext]_gateVars => Unbuilt'
  <2> SUFFICES ASSUME TypeOK, MutualExclusion, Unbuilt, [GateNext]_gateVars
               PROVE  Unbuilt'
    OBVIOUS
  <2> USE DEF Unbuilt
  <2>1. ASSUME NEW j \in CloudJob,
               Register(j) \/ Lock(j) \/ BuildFails(j) \/ Unlock(j) \/ Drop(j)
        PROVE  Unbuilt'
    <3>1. UNCHANGED <<s3, builds>>
      BY <2>1 DEF Register, Lock, BuildFails, Unlock, Drop
    <3>2. \A i \in CloudJob : at'[i] \in {"build", "mark"} => at[i] \in {"build", "mark"}
      BY <2>1 DEF Register, Lock, BuildFails, Unlock, Drop, TypeOK
    <3> QED
      BY <3>1, <3>2
  <2>2. ASSUME NEW j \in CloudJob, Probe(j)
        PROVE  Unbuilt'
    BY <1>2, <2>2 DEF Probe, CacheHit, TypeOK
  <2>3. ASSUME NEW j \in CloudJob, UploadObject(j)
        PROVE  Unbuilt'
    BY <2>3, GateAssumption DEF UploadObject, TypeOK
  <2>4. ASSUME NEW j \in CloudJob, UploadDone(j)
        PROVE  Unbuilt'
    <3>1. KeyOf[j] \in Key /\ builds[KeyOf[j]] = 0 /\ at[j] = "mark"
      BY <2>4, GateAssumption DEF UploadDone
    <3>2. \A i \in CloudJob : i # j /\ KeyOf[i] = KeyOf[j] => at'[i] \notin {"build", "mark"}
      BY <2>4, <3>1 DEF UploadDone, MutualExclusion, Holding, TypeOK
    <3>3. /\ at'[j] = "unlock"
          /\ builds'[KeyOf[j]] = 1
          /\ \A k \in Key : k # KeyOf[j] => s3'[k] = s3[k] /\ builds'[k] = builds[k]
          /\ s3'[KeyOf[j]] = "done"
          /\ \A i \in CloudJob : i # j => at'[i] = at[i]
      BY <2>4, <3>1 DEF UploadDone, TypeOK
    <3> QED
      BY <3>1, <3>2, <3>3, GateAssumption
  <2>5. CASE UNCHANGED gateVars
    BY <2>5 DEF gateVars
  <2> QED
    BY <2>1, <2>2, <2>3, <2>4, <2>5 DEF GateNext, Step
<1>3. CASE ProbeErrors
  <2>1. BuiltOnce
    BY <1>3 DEF BuiltOnce
  <2> QED
    BY <2>1, PTL
<1>4. CASE ~ProbeErrors
  <2>1. Unbuilt => BuiltOnce
    BY DEF Unbuilt, BuiltOnce
  <2> QED
    BY <1>1, <1>2, <1>4, <2>1, TypeCorrect, NoTwoBuilders, PTL DEF GateSpec
<1> QED
  BY <1>3, <1>4

(* The gate implements one mutex per key: taking g.mu is Enter, giving it  *)
(* back is Leave, and creating, sharing, counting and deleting gates is    *)
(* invisible.                                                              *)
THEOREM Refinement == GateSpec => ImplementsKeyMutex
<1> DEFINE in == {j \in CloudJob : at[j] \in Holding}
<1> USE GateAssumption
<1>1. GateInit => Abstract!Init
  BY DEF GateInit, Abstract!Init, Holding
<1>2. IInv /\ [GateNext]_gateVars => [Abstract!Next]_in
  <2> SUFFICES ASSUME IInv, [GateNext]_gateVars
               PROVE  Abstract!Next \/ in' = in
    OBVIOUS
  <2> USE DEF IInv
  <2>1. ASSUME NEW j \in CloudJob, Register(j) \/ Drop(j)
        PROVE  in' = in
    BY <2>1 DEF Register, Drop, TypeOK, Holding
  <2>2. ASSUME NEW j \in CloudJob, Lock(j)
        PROVE  Abstract!Enter(j)
    <3>1. /\ holder[gate[j]] = NoJob /\ mezzBuild[KeyOf[j]] = gate[j]
          /\ at' = [at EXCEPT ![j] = "probe"]
      BY <2>2 DEF Lock, Pointing, InGate
    <3>2. ASSUME NEW i \in in
          PROVE  KeyOf[i] # KeyOf[j]
      BY <3>1, <3>2 DEF Pointing, Held, InGate
    <3>3. in' = in \cup {j}
      BY <3>1 DEF TypeOK, Holding
    <3> QED
      BY <3>2, <3>3 DEF Abstract!Enter
  <2>3. ASSUME NEW j \in CloudJob, Unlock(j)
        PROVE  Abstract!Leave(j)
    BY <2>3 DEF Unlock, Abstract!Leave, TypeOK, Holding
  <2>4. ASSUME NEW j \in CloudJob,
               Probe(j) \/ UploadObject(j) \/ UploadDone(j) \/ BuildFails(j)
        PROVE  in' = in
    BY <2>4 DEF Probe, UploadObject, UploadDone, BuildFails, TypeOK, Holding
  <2>5. CASE UNCHANGED gateVars
    BY <2>5 DEF gateVars
  <2> QED
    BY <2>1, <2>2, <2>3, <2>4, <2>5 DEF GateNext, Step, Abstract!Next
<1> QED
  BY <1>1, <1>2, GateInvariant, PTL DEF GateSpec, ImplementsKeyMutex, Abstract!Spec
=============================================================================
