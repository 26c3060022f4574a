---------------------------- MODULE JobLifecycle ----------------------------
(***************************************************************************)
(* The five states of a job as an operator sees them, and the transitions  *)
(* between them (docs/spec/job-lifecycle.md).  Running jobs are bounded by *)
(* MAX_CONCURRENT.  A restart of the server forgets finished jobs and puts *)
(* every unfinished one back in the queue; it never forgets an unfinished  *)
(* one.  A job that finished but whose state file was not yet removed is   *)
(* queued again by a restart.                                              *)
(***************************************************************************)
EXTENDS Naturals, FiniteSets

CONSTANTS Job, MaxConcurrent

VARIABLE status

Running == {j \in Job : status[j] = "running"}

Init == status = [j \in Job |-> "absent"]

Move(j, from, to) == /\ status[j] \in from
                     /\ status' = [status EXCEPT ![j] = to]

Submit(j) == Move(j, {"absent"}, "queued")

Start(j) == /\ Cardinality(Running) < MaxConcurrent
            /\ Move(j, {"queued"}, "running")

Finish(j) == \/ Move(j, {"running"}, "done")
             \/ Move(j, {"running"}, "failed")
             \/ Move(j, {"queued", "running"}, "cancelled")

Resume(j) == Move(j, {"failed", "cancelled"}, "queued")

Restart ==
  /\ status' \in [Job -> {"absent", "queued", "gone"}]
  /\ \A j \in Job :
       /\ status[j] = "absent" <=> status'[j] = "absent"
       /\ status[j] \in {"queued", "running"} => status'[j] = "queued"
       /\ status[j] = "gone" => status'[j] = "gone"

Next == \/ \E j \in Job : Submit(j) \/ Start(j) \/ Finish(j) \/ Resume(j)
        \/ Restart

Spec == Init /\ [][Next]_status
=============================================================================
