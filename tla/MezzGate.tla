------------------------------ MODULE MezzGate ------------------------------
(***************************************************************************)
(* The check-then-build of one source's mezzanine (internal/encode/job.go, *)
(* lockMezz and the mezzanine step of runOneCloudBatchSFN).                *)
(*                                                                         *)
(* Every cloud job of one source maps to one cache key.  The step takes a  *)
(* reference-counted mutex for the key, probes the cache prefix for the    *)
(* object and its .done sidecar, builds and uploads both on a miss, and    *)
(* releases the mutex.  The mutex object (a mezzGate) is created by the    *)
(* first job that asks for the key and deleted by the last one to leave:   *)
(* a job that slept on a deleted gate while another created a fresh one    *)
(* would defeat the mutual exclusion, which is what refs is for.           *)
(***************************************************************************)
EXTENDS Integers, FiniteSets

CONSTANTS
  CloudJob,      \* the cloud jobs
  Key,           \* mezzanine cache keys
  KeyOf,         \* the key sourceMezzKey derives for a job's source
  Gate,          \* mezzGate objects the allocator may hand out
  NoGate, NoJob, \* nil
  MaxAttempts,   \* bound: runs of one job (its first and its retries)
  ProbeErrors    \* whether s3ObjectExists may report an error as "absent"

ASSUME GateAssumption ==
  /\ IsFiniteSet(CloudJob)
  /\ KeyOf \in [CloudJob -> Key]
  /\ NoGate \notin Gate
  /\ NoJob \notin CloudJob
  /\ MaxAttempts \in Nat
  /\ ProbeErrors \in BOOLEAN

VARIABLES
  at,        \* where each job is in the mezzanine step
  gate,      \* the *mezzGate a job holds a pointer to
  mezzBuild, \* Manager.mezzBuild: the gate registered under each key
  refs,      \* mezzGate.refs
  holder,    \* the job inside mezzGate.mu
  s3,        \* mezz/<key>/: "none", "object" (no .done yet) or "done"
  builds,    \* completed builds per key
  attempts   \* runs started per job

gateVars == <<at, gate, mezzBuild, refs, holder, s3, builds, attempts>>

Holding == {"probe", "build", "mark", "unlock"}
InGate  == {"lock", "drop"} \cup Holding
Places  == {"idle"} \cup InGate

TypeOK ==
  /\ at \in [CloudJob -> Places]
  /\ gate \in [CloudJob -> Gate \cup {NoGate}]
  /\ mezzBuild \in [Key -> Gate \cup {NoGate}]
  /\ refs \in [Gate -> Int]
  /\ holder \in [Gate -> CloudJob \cup {NoJob}]
  /\ s3 \in [Key -> {"none", "object", "done"}]
  /\ builds \in [Key -> Nat]
  /\ attempts \in [CloudJob -> Nat]

GateInit ==
  /\ at = [j \in CloudJob |-> "idle"]
  /\ gate = [j \in CloudJob |-> NoGate]
  /\ mezzBuild = [k \in Key |-> NoGate]
  /\ refs = [g \in Gate |-> 0]
  /\ holder = [g \in Gate |-> NoJob]
  /\ s3 = [k \in Key |-> "none"]
  /\ builds = [k \in Key |-> 0]
  /\ attempts = [j \in CloudJob |-> 0]

Unreferenced(g) == /\ \A j \in CloudJob : gate[j] # g
                   /\ \A k \in Key : mezzBuild[k] # g

-----------------------------------------------------------------------------
(* Each "wrong" operator below is a mistake its neighbour could have been  *)
(* written with; the properties are checked to tell the two apart.         *)

(* The gate a job registers under: the key's own, or a fresh one.          *)
WrongGateFor(k) == {g \in Gate : Unreferenced(g)}

GateFor(k) == IF mezzBuild[k] # NoGate THEN {mezzBuild[k]}
                                       ELSE {g \in Gate : Unreferenced(g)}

(* lockMezz: find or create the key's gate and count this job in, all      *)
(* under mezzMu.                                                           *)
Register(j) ==
  LET k == KeyOf[j]
  IN  /\ at[j] = "idle"
      /\ attempts[j] < MaxAttempts
      /\ attempts' = [attempts EXCEPT ![j] = @ + 1]
      /\ \E g \in GateFor(k) :
           /\ gate' = [gate EXCEPT ![j] = g]
           /\ refs' = [refs EXCEPT ![g] = IF mezzBuild[k] = g THEN @ + 1 ELSE 1]
           /\ mezzBuild' = [mezzBuild EXCEPT ![k] = g]
      /\ at' = [at EXCEPT ![j] = "lock"]
      /\ UNCHANGED <<holder, s3, builds>>

(* g.mu.Lock(): after mezzMu has been released.                            *)
Lock(j) ==
  /\ at[j] = "lock"
  /\ holder[gate[j]] = NoJob
  /\ holder' = [holder EXCEPT ![gate[j]] = j]
  /\ at' = [at EXCEPT ![j] = "probe"]
  /\ UNCHANGED <<gate, mezzBuild, refs, s3, builds, attempts>>

(* Both head-object calls: a hit needs the object and its .done.           *)
WrongCacheHit(k) == s3[k] = "object"

CacheHit(k) == s3[k] = "done"

Probe(j) ==
  /\ at[j] = "probe"
  /\ \/ /\ CacheHit(KeyOf[j])
        /\ at' = [at EXCEPT ![j] = "unlock"]
     \/ /\ ~CacheHit(KeyOf[j]) \/ ProbeErrors
        /\ at' = [at EXCEPT ![j] = "build"]
  /\ UNCHANGED <<gate, mezzBuild, refs, holder, s3, builds, attempts>>

(* buildMezzanineOnHost uploads the object, then its sidecar ...           *)

UploadObject(j) ==
  /\ at[j] = "build"
  /\ s3' = [s3 EXCEPT ![KeyOf[j]] = IF @ = "none" THEN "object" ELSE @]
  /\ at' = [at EXCEPT ![j] = "mark"]
  /\ UNCHANGED <<gate, mezzBuild, refs, holder, builds, attempts>>

UploadDone(j) ==
  /\ at[j] = "mark"
  /\ s3' = [s3 EXCEPT ![KeyOf[j]] = "done"]
  /\ builds' = [builds EXCEPT ![KeyOf[j]] = @ + 1]
  /\ at' = [at EXCEPT ![j] = "unlock"]
  /\ UNCHANGED <<gate, mezzBuild, refs, holder, attempts>>

(* ... and may fail, or be killed by a cancel, before either.              *)
WrongBuildFails(j) ==
  /\ at[j] \in {"build", "mark"}
  /\ at' = [at EXCEPT ![j] = "drop"]
  /\ UNCHANGED <<gate, mezzBuild, refs, holder, s3, builds, attempts>>

BuildFails(j) ==
  /\ at[j] \in {"build", "mark"}
  /\ at' = [at EXCEPT ![j] = "unlock"]
  /\ UNCHANGED <<gate, mezzBuild, refs, holder, s3, builds, attempts>>

(* The deferred unlock: g.mu.Unlock() ...                                  *)
Unlock(j) ==
  /\ at[j] = "unlock"
  /\ holder' = [holder EXCEPT ![gate[j]] = NoJob]
  /\ at' = [at EXCEPT ![j] = "drop"]
  /\ UNCHANGED <<gate, mezzBuild, refs, s3, builds, attempts>>

(* ... then, under mezzMu, count out and delete the gate at zero.          *)
WrongLastOut(g) == TRUE

NeverLastOut(g) == FALSE

LastOut(g) == refs[g] = 1

Drop(j) ==
  /\ at[j] = "drop"
  /\ refs' = [refs EXCEPT ![gate[j]] = @ - 1]
  /\ mezzBuild' = IF LastOut(gate[j])
                    THEN [mezzBuild EXCEPT ![KeyOf[j]] = NoGate]
                    ELSE mezzBuild
  /\ gate' = [gate EXCEPT ![j] = NoGate]
  /\ at' = [at EXCEPT ![j] = "idle"]
  /\ UNCHANGED <<holder, s3, builds, attempts>>

Step(j) == \/ Lock(j) \/ Probe(j) \/ UploadObject(j) \/ UploadDone(j)
           \/ BuildFails(j) \/ Unlock(j) \/ Drop(j)

GateNext == \E j \in CloudJob : Register(j) \/ Step(j)

GateSpec == GateInit /\ [][GateNext]_gateVars

(* Go's mutexes do not starve and the subprocesses of a build end.         *)
FairGateSpec == GateSpec /\ \A j \in CloudJob : WF_gateVars(Step(j)) /\ SF_gateVars(Lock(j))
-----------------------------------------------------------------------------
(* Two jobs never check or build one key at the same time, although the    *)
(* mutex that keeps them apart is created and deleted on demand.           *)
MutualExclusion ==
  \A i, j \in CloudJob : /\ i # j
                    /\ KeyOf[i] = KeyOf[j]
                    /\ at[i] \in Holding
                    => at[j] \notin Holding

(* The waste #291 removed does not come back: as long as the probe is      *)
(* truthful, a key is built to completion at most once, whatever the       *)
(* number of jobs, retries and failed or cancelled builds.                 *)
BuiltOnce == ProbeErrors \/ \A k \in Key : builds[k] <= 1

(* The map does not accumulate: a key has a gate only while some job is    *)
(* inside lockMezz's critical region or waiting for it, and the count in   *)
(* the gate is the number of those jobs.                                   *)
RefsAreJobs ==
  \A k \in Key :
    LET inside == {j \in CloudJob : KeyOf[j] = k /\ at[j] \in InGate}
    IN  IF mezzBuild[k] = NoGate
          THEN inside = {}
          ELSE inside # {} /\ refs[mezzBuild[k]] = Cardinality(inside)

(* The gate implements one mutex per key.                                  *)
Abstract == INSTANCE KeyMutex WITH Job <- CloudJob, inside <- {j \in CloudJob : at[j] \in Holding}
ImplementsKeyMutex == Abstract!Spec

(* Every job that registers leaves again: no gate is left locked and no    *)
(* job waits on a gate nobody will unlock.                                 *)
EveryoneLeaves == \A j \in CloudJob : at[j] = "lock" ~> at[j] = "idle"
=============================================================================
