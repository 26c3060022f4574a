----------------------------- MODULE DistEncode -----------------------------
(***************************************************************************)
(* One local job on a farm: its orchestrator (cli_local_dist.run_temporal),*)
(* the durable Temporal workflow it starts (temporal_worker), the attempts *)
(* the workers make at the workflow's activities (cli_phase), and the      *)
(* staging prefix in MinIO through which they exchange everything.  A      *)
(* Resume runs the orchestrator again on the same prefix and with the same *)
(* workflow ID, but with a chunk plan sized anew.                          *)
(*                                                                         *)
(* A staged object is represented by the number of chunks of the grid that *)
(* its rung was cut into, which tells encodes of different stretches apart,*)
(* and by its size, which tells those of one stretch apart: no two encodes *)
(* have the same bytes, and their .done files record sizes only.           *)
(***************************************************************************)
EXTENDS Naturals, FiniteSets, SequencesExt

CONSTANTS
  Band,          \* activities encode one band of rungs: a sequence, lead first
  CodecOf,       \* the codec of a band
  Grids,         \* chunk plans: how many chunks each band is cut into
  Size,          \* sizes of an object as an attempt that counts may make it,
  LateSize,      \* and one that no longer counts
  Slots,         \* activities the farm runs at once
  MaxAttempts,   \* maximum_attempts of the retry policy
  MaxRuns,       \* bound: runs of the orchestrator
  MaxFaults      \* bound: attempts that fail or fall silent, kills of the
                 \* orchestrator, calls that fail

ASSUME DistAssumption ==
  /\ \A b \in Band : b \in Seq(ToSet(b)) /\ Len(b) > 0
  /\ \A b, c \in Band : b # c => ToSet(b) \cap ToSet(c) = {}
  /\ IsFiniteSet(Band)
  /\ IsFiniteSet(Grids) /\ Grids \subseteq [Band -> Nat \ {0}]
  /\ Size # {} /\ LateSize # {} /\ Size \cup LateSize \subseteq Nat \ {0}
  /\ {Slots, MaxAttempts, MaxRuns} \subseteq Nat \ {0} /\ MaxFaults \in Nat

Codec == {CodecOf[b] : b \in Band}
Widest(b) == CHOOSE n \in {g[b] : g \in Grids} : \A g \in Grids : g[b] <= n

Audio == <<"audio">>
Package == {<<"pkg", c>> : c \in Codec}
Encode == UNION {{<<"enc", b, i>> : i \in 0 .. Widest(b) - 1} : b \in Band}
Act == {Audio} \cup Encode \cup Package

Chunk(rung, i) == <<rung, i>>
ChunksOf(b) == {Chunk(b[k], i) : k \in DOMAIN b, i \in 0 .. Widest(b) - 1}
Object == {Audio} \cup UNION {ChunksOf(b) : b \in Band}
Nothing == 0

VARIABLES
  hosted,     \* whether the orchestrator packages, or workers do
  orch,       \* where the orchestrator is, or how it left
  outcome,    \* what the orchestrator makes of the workflow
  runs,
  plan,       \* the grid of the orchestrator's plan
  mezzanine,  \* whether it is in MinIO
  wf,         \* status of the workflow
  wfplan,     \* the grid of the workflow's input
  act,        \* the workflow's activities
  failures,   \* attempts of an activity that failed
  reusing,    \* activities whose attempt found its output there
  ghosts,     \* attempts that Temporal no longer counts
  store,      \* staged objects: the grid of each,
  size,       \* and its size
  done,       \* their .done files: the grid of the attempt that wrote it,
  told,       \* and the size it tells
  outs,       \* codecs a worker packaged: what is in <prefix>/out
  fetched,    \* prefetched objects
  delivered,
  listed,     \* whether the staging sweep took this job for inactive
  cause,      \* history: the first thing that made the staging unfit
  abandoned,  \* history: the orchestrator was killed or could not cancel
  faults

staging == <<store, size, done, told, outs>>
engine == <<wf, wfplan, act, failures, reusing, ghosts>>
client == <<hosted, orch, outcome, runs, plan, mezzanine, fetched, delivered>>
history == <<cause, abandoned>>
vars == <<engine, client, staging, listed, history, faults>>

Empty == [o \in Object |-> Nothing]

Init ==
  /\ hosted \in BOOLEAN
  /\ orch = "planning" /\ outcome = "none" /\ runs = 1
  /\ plan \in Grids
  /\ mezzanine = FALSE
  /\ wf = "none" /\ wfplan = plan
  /\ act = [a \in Act |-> "waiting"]
  /\ failures = [a \in Act |-> 0]
  /\ reusing = {}
  /\ ghosts = {}
  /\ store = Empty /\ done = Empty /\ fetched = Empty
  /\ size = Empty /\ told = Empty
  /\ outs = [c \in Codec |-> "none"]
  /\ delivered = [c \in Codec |-> "none"]
  /\ listed = FALSE
  /\ cause = "none" /\ abandoned = FALSE
  /\ faults = 0

Blame(what) == cause' = IF cause = "none" THEN what ELSE cause

Fault == faults < MaxFaults /\ faults' = faults + 1

Gone == {"done", "failed", "cancelled", "killed"}

-----------------------------------------------------------------------------
(* What a phase reads and writes.                                          *)

(* The objects an attempt puts, the lead's first.                          *)
Outputs(a) ==
  CASE a \in Encode -> [k \in DOMAIN a[2] |-> Chunk(a[2][k], a[3])]
    [] a = Audio    -> <<Audio>>
    [] OTHER        -> <<>>

(* What an attempt under the plan g makes of them.                         *)
Content(a, g) == IF a \in Encode THEN g[a[2]] ELSE 1

EarlyPuts(a) == 2 * Len(Outputs(a)) - 1
AllPuts(a) == 2 * Len(Outputs(a))

(* For each output in turn: the object (odd), then its .done (even); n the *)
(* size the attempt made.                                                  *)
Put(a, g, n, puts) ==
  LET wrote(o, k) == Outputs(a)[k] = o /\ 2 * k - 1 \in puts
      marked(o, k) == Outputs(a)[k] = o /\ 2 * k \in puts
  IN
  /\ store' = [o \in Object |->
       IF \E k \in DOMAIN Outputs(a) : wrote(o, k) THEN Content(a, g) ELSE store[o]]
  /\ size' = [o \in Object |->
       IF \E k \in DOMAIN Outputs(a) : wrote(o, k) THEN n ELSE size[o]]
  /\ done' = [o \in Object |->
       IF \E k \in DOMAIN Outputs(a) : marked(o, k) THEN Content(a, g) ELSE done[o]]
  /\ told' = [o \in Object |->
       IF \E k \in DOMAIN Outputs(a) : marked(o, k) THEN n ELSE told[o]]
  /\ UNCHANGED outs

Staged(o) == store[o] # Nothing

(* The skip looks at the object of the lead, and not at its .done.         *)
Reusable(a) == Staged(Outputs(a)[1])
AllThere(a, g) ==
  \A k \in DOMAIN Outputs(a) :
    LET o == Outputs(a)[k] IN store[o] = Content(a, g) /\ done[o] = store[o]

(* Encodes of different stretches have different sizes, too.               *)
Complete(o) == Staged(o) /\ done[o] = store[o] /\ told[o] = size[o]

(* The object is of one attempt, the .done of another.                     *)
AtOdds(o) == Staged(o) /\ done[o] # Nothing /\ ~Complete(o)

(* What package-all joins: for each rung all chunks up to the last listed. *)
RungsOf(c) == UNION {ToSet(b) : b \in {x \in Band : CodecOf[x] = c}}
Indices(rung) == 0 .. Widest(CHOOSE b \in Band : rung \in ToSet(b)) - 1
Listed(rung) == {i \in Indices(rung) : Staged(Chunk(rung, i))}
Wanted(rung) == {i \in Indices(rung) : \E last \in Listed(rung) : i <= last}
Prefetched(o) == fetched[o] # Nothing
Read(o) == IF Prefetched(o) THEN fetched[o] ELSE store[o]

Packable(c) ==
  /\ \E rung \in RungsOf(c) : Listed(rung) # {}
  /\ \A rung \in RungsOf(c) : \A i \in Wanted(rung) :
       Prefetched(Chunk(rung, i)) \/ Complete(Chunk(rung, i))

Inputs(c) == {Audio} \cup UNION {ChunksOf(b) : b \in {x \in Band : CodecOf[x] = c}}

(* The ladder has every rung, each all of one encode, and the sound.       *)
Joined(c) ==
  IF /\ Complete(Audio)
     /\ \A rung \in RungsOf(c) :
          /\ Wanted(rung) # {}
          /\ \A i \in Wanted(rung) :
               Read(Chunk(rung, i)) = Cardinality(Wanted(rung))
  THEN "whole" ELSE "wrong"

-----------------------------------------------------------------------------
(* The workflow.                                                           *)
Enc(g) == {a \in Encode : a[3] < g[a[2]]}

EagerReady(a) ==
  /\ a # Audio => act[Audio] = "done"
  /\ a \in Encode => a \in Enc(wfplan)
  /\ a \in Package => ~hosted

(* The sound, then all chunks at once, then the packaging.                 *)
Ready(a) ==
  /\ a # Audio => act[Audio] = "done"
  /\ a \in Encode => a \in Enc(wfplan)
  /\ a \in Package => ~hosted /\ \A e \in Enc(wfplan) : act[e] = "done"

Running == {a \in Act : act[a] = "running"}

(* An attempt begins: it may find its output there.                        *)
Start(a) ==
  /\ wf = "running" /\ act[a] = "waiting" /\ Ready(a)
  /\ Cardinality(Running) < Slots
  /\ act' = [act EXCEPT ![a] = "running"]
  /\ LET reuse == a \notin Package /\ Reusable(a) IN
       /\ reusing' = IF reuse THEN reusing \cup {a} ELSE reusing \ {a}
       /\ IF reuse /\ ~AllThere(a, wfplan) THEN Blame("reuse") ELSE UNCHANGED cause
  /\ UNCHANGED <<wf, wfplan, failures, ghosts, client, staging, listed, abandoned, faults>>

Completed(a) ==
  /\ act' = [act EXCEPT ![a] = "done"]
  /\ reusing' = reusing \ {a}
  /\ UNCHANGED <<wf, wfplan, failures, ghosts, client, listed, abandoned, faults>>

(* Nobody looks at the puts of an attempt while it counts, so they are one *)
(* step here; those of an attempt that fails or no longer counts are not,  *)
(* and may come before, after and, for one object, around them.            *)
Succeed(a) ==
  /\ a \in Running \ Package
  /\ IF a \in reusing THEN UNCHANGED staging ELSE \E n \in Size : Put(a, wfplan, n, 1 .. AllPuts(a))
  /\ Completed(a)
  /\ UNCHANGED cause

(* package-all in a worker; it has no prefetched chunks, and goes without  *)
(* a sound that is not complete.                                           *)
PackageInWorker(a) ==
  /\ a \in Running \cap Package /\ Packable(a[2])
  /\ outs' = [outs EXCEPT ![a[2]] = Joined(a[2])]
  /\ IF AtOdds(Audio) THEN Blame("rival") ELSE UNCHANGED cause
  /\ Completed(a)
  /\ UNCHANGED <<store, size, done, told>>

Planned ==
  {Audio} \cup Enc(wfplan) \cup (IF hosted THEN {} ELSE Package)

Finish ==
  /\ wf = "running"
  /\ \A a \in Planned : act[a] = "done"
  /\ wf' = "completed"
  /\ UNCHANGED <<wfplan, act, failures, reusing, ghosts, client, staging, listed, history, faults>>

Ghost(a) == [act |-> a, plan |-> wfplan, puts |-> 0, size |-> Nothing]

(* A closed workflow no longer counts its attempts.                        *)
Close(status, ended) ==
  /\ wf' = status
  /\ act' = [a \in Act |-> "waiting"]
  /\ reusing' = {}
  /\ ghosts' = ghosts \cup {Ghost(a) : a \in Running \ (Package \cup reusing \cup ended)}

(* After a failed attempt: another one, or the end of the workflow.        *)
Again(a, ended) ==
  /\ failures' = [failures EXCEPT ![a] = @ + 1]
  /\ IF failures'[a] < MaxAttempts
     THEN /\ act' = [act EXCEPT ![a] = "waiting"]
          /\ ghosts' = ghosts \cup {Ghost(x) : x \in {a} \ (Package \cup reusing \cup ended)}
          /\ UNCHANGED <<wf, reusing>>
     ELSE Close("failed", ended)

(* cli_phase exits with an error, or with its worker.                      *)
AttemptFails(a) ==
  /\ a \in Running
  /\ \/ Fault
     \/ a \in Package /\ ~Packable(a[2]) /\ UNCHANGED faults
  /\ IF a \in Package \cup reusing
     THEN UNCHANGED staging
     ELSE \E n \in Size, last \in 0 .. AllPuts(a) : Put(a, wfplan, n, 1 .. last)
  /\ Again(a, {a})
  /\ UNCHANGED <<wfplan, client, listed, history>>

(* The heartbeats of an attempt stop arriving; it goes on.                 *)
Silence(a) ==
  /\ a \in Running \ Package
  /\ Fault
  /\ Again(a, {})
  /\ UNCHANGED <<wfplan, client, staging, listed, history>>

(* The server accepts a cancellation; the workflow is cancelled later.     *)
Cancelled ==
  /\ wf = "cancelling"
  /\ Close("cancelled", {})
  /\ UNCHANGED <<wfplan, failures, client, staging, listed, history, faults>>

Further(x, n) == [act |-> x.act, plan |-> x.plan, puts |-> x.puts + 1, size |-> n]

(* An attempt that no longer counts goes on until a heartbeat tells it.    *)
GhostUploads(x) ==
  /\ \E n \in IF x.puts % 2 = 0 THEN LateSize ELSE {x.size} :
       /\ Put(x.act, x.plan, n, {x.puts + 1})
       /\ ghosts' = (ghosts \ {x}) \cup
            {y \in {Further(x, n)} : y.puts < AllPuts(x.act)}
  /\ UNCHANGED <<wf, wfplan, act, failures, reusing, client, listed, history, faults>>

GhostEnds(x) ==
  /\ ghosts' = ghosts \ {x}
  /\ UNCHANGED <<wf, wfplan, act, failures, reusing, client, staging, listed, history, faults>>

-----------------------------------------------------------------------------
(* The orchestrator.                                                       *)

(* Check and build are made under the lock that orchestrators share.       *)
ReuseMezzanine ==
  /\ orch = "planning" /\ mezzanine
  /\ orch' = "starting"
  /\ UNCHANGED <<hosted, outcome, runs, plan, mezzanine, fetched, delivered>>
  /\ UNCHANGED <<engine, staging, listed, history, faults>>

BuildMezzanine ==
  /\ orch = "planning" /\ ~mezzanine
  /\ mezzanine' = TRUE
  /\ orch' = "starting"
  /\ UNCHANGED <<hosted, outcome, runs, plan, fetched, delivered>>
  /\ UNCHANGED <<engine, staging, listed, history, faults>>

BuildFails ==
  /\ orch = "planning" /\ ~mezzanine
  /\ Fault
  /\ orch' = "failed"
  /\ UNCHANGED <<hosted, outcome, runs, plan, mezzanine, fetched, delivered>>
  /\ UNCHANGED <<engine, staging, listed, history>>

(* start_workflow refuses an ID that a running workflow has.               *)
StartWorkflow ==
  /\ orch = "starting"
  /\ IF wf \in {"running", "cancelling"}
     THEN /\ orch' = "failed"
          /\ UNCHANGED engine
     ELSE /\ orch' = "waiting"
          /\ wf' = "running" /\ wfplan' = plan
          /\ act' = [a \in Act |-> "waiting"]
          /\ failures' = [a \in Act |-> 0]
          /\ reusing' = {}
          /\ UNCHANGED ghosts
  /\ UNCHANGED <<hosted, outcome, runs, plan, mezzanine, fetched, delivered>>
  /\ UNCHANGED <<staging, listed, history, faults>>

(* The poll learns from the history which activities are done.             *)
Seen(a) == orch \in {"waiting", "guarding"} /\ act[a] = "done"

(* It hands the object that an activity is named for to the prefetcher.    *)
Prefetch(a) ==
  LET o == Outputs(a)[1] IN
  /\ hosted /\ Seen(a)
  /\ Complete(o) /\ ~Prefetched(o)
  /\ fetched' = [fetched EXCEPT ![o] = store[o]]
  /\ UNCHANGED <<hosted, orch, outcome, runs, plan, mezzanine, delivered>>
  /\ UNCHANGED <<engine, staging, listed, history, faults>>

Leave(how) ==
  /\ orch = "waiting"
  /\ outcome' = how
  /\ orch' = "guarding"
  /\ UNCHANGED <<hosted, runs, plan, mezzanine, fetched, delivered>>

Result ==
  /\ wf \in {"completed", "failed", "cancelled"}
  /\ Leave(IF wf = "completed" THEN "result" ELSE "failed")
  /\ UNCHANGED <<engine, staging, listed, history, faults>>

(* SIGTERM while the result is awaited: the user cancelled the job.        *)
Cancel ==
  /\ wf' = IF wf = "running" THEN "cancelling" ELSE wf
  /\ Leave("cancelled")
  /\ UNCHANGED <<wfplan, act, failures, reusing, ghosts, staging, listed, history, faults>>

(* The cancellation, or the loop that emits progress, raises.              *)
LoopRaises ==
  /\ Fault
  /\ \E how \in {"failed", "cancelled"} : Leave(how)
  /\ UNCHANGED <<engine, staging, listed, history>>

After == IF outcome = "result" THEN "packaging" ELSE outcome

Unguarded(status) == status

Guarded(status) ==
  IF status = "running" THEN "cancelling" ELSE status

(* The orphan guard.                                                       *)
Guard ==
  /\ orch = "guarding"
  /\ orch' = After
  /\ \/ /\ wf' = Guarded(wf)
        /\ UNCHANGED <<faults, abandoned>>
     \/ /\ Fault
        /\ abandoned' = (abandoned \/ wf = "running")
        /\ UNCHANGED wf
  /\ UNCHANGED <<hosted, outcome, runs, plan, mezzanine, fetched, delivered>>
  /\ UNCHANGED <<wfplan, act, failures, reusing, ghosts, staging, listed, cause>>

(* SIGKILL, or SIGTERM when nothing handles it.                            *)
Kill ==
  /\ orch \notin Gone
  /\ Fault
  /\ orch' = "killed"
  /\ abandoned' = TRUE
  /\ UNCHANGED <<hosted, outcome, runs, plan, mezzanine, fetched, delivered>>
  /\ UNCHANGED <<engine, staging, listed, cause>>

Undelivered == {c \in Codec : delivered[c] = "none"}

(* Codecs are packaged or downloaded one by one.                           *)
PackageOnHost(c) ==
  /\ orch = "packaging" /\ hosted /\ c \in Undelivered
  /\ IF Packable(c)
     THEN /\ delivered' = [delivered EXCEPT ![c] = Joined(c)]
          /\ UNCHANGED orch
     ELSE /\ orch' = "failed"
          /\ UNCHANGED delivered
  /\ fetched' = [o \in Object |->
       IF \E rung \in RungsOf(c) : o[1] = rung THEN Nothing ELSE fetched[o]]
  /\ IF \E o \in Inputs(c) : AtOdds(o) THEN Blame("rival") ELSE UNCHANGED cause
  /\ UNCHANGED <<hosted, outcome, runs, plan, mezzanine>>
  /\ UNCHANGED <<engine, staging, listed, abandoned, faults>>

Download(c) ==
  /\ orch = "packaging" /\ ~hosted /\ c \in Undelivered
  /\ delivered' = [delivered EXCEPT ![c] = IF outs[c] = "none" THEN "nothing" ELSE outs[c]]
  /\ UNCHANGED <<hosted, orch, outcome, runs, plan, mezzanine, fetched>>
  /\ UNCHANGED <<engine, staging, listed, history, faults>>

(* The staging goes only when every codec delivered a file.                *)
Reclaim ==
  /\ orch = "packaging" /\ Undelivered = {}
  /\ orch' = "done"
  /\ IF \E c \in Codec : delivered[c] = "nothing"
     THEN UNCHANGED staging
     ELSE /\ store' = Empty /\ size' = Empty /\ done' = Empty /\ told' = Empty
          /\ outs' = [c \in Codec |-> "none"]
  /\ UNCHANGED <<hosted, outcome, runs, plan, mezzanine, fetched, delivered>>
  /\ UNCHANGED <<engine, listed, history, faults>>

(* Resume: a new orchestrator and, from what has been learned of the       *)
(* speed of encodes meanwhile, a new plan.                                 *)
Resume ==
  /\ orch \in Gone \ {"done"} /\ runs < MaxRuns
  /\ runs' = runs + 1
  /\ plan' \in Grids
  /\ IF plan' = plan THEN UNCHANGED cause ELSE Blame("plan")
  /\ orch' = "planning" /\ outcome' = "none"
  /\ fetched' = Empty
  /\ delivered' = [c \in Codec |-> "none"]
  /\ UNCHANGED <<hosted, mezzanine, engine, staging, listed, abandoned, faults>>

(* The sweep is told which jobs are active, and deletes idle prefixes.     *)
SweepLists ==
  /\ orch \in Gone /\ runs < MaxRuns
  /\ wf \notin {"running", "cancelling"} /\ ghosts = {}
  /\ \E o \in Object : Staged(o)
  /\ listed' = TRUE
  /\ UNCHANGED <<engine, client, staging, history, faults>>

SweepDeletes ==
  /\ listed
  /\ listed' = FALSE
  /\ store' = Empty /\ size' = Empty /\ done' = Empty /\ told' = Empty
  /\ outs' = [c \in Codec |-> "none"]
  /\ IF orch \in Gone THEN UNCHANGED cause ELSE Blame("sweep")
  /\ UNCHANGED <<engine, client, abandoned, faults>>

-----------------------------------------------------------------------------
Next ==
  \/ ReuseMezzanine \/ BuildMezzanine \/ BuildFails \/ StartWorkflow
  \/ Result \/ Cancel \/ LoopRaises \/ Guard \/ Kill \/ Reclaim \/ Resume
  \/ \E c \in Codec : PackageOnHost(c) \/ Download(c)
  \/ \E a \in Encode : Prefetch(a)
  \/ \E a \in Act : Start(a) \/ Succeed(a) \/ PackageInWorker(a)
  \/ \E a \in Act : AttemptFails(a) \/ Silence(a)
  \/ Finish \/ Cancelled
  \/ \E x \in ghosts : GhostUploads(x) \/ GhostEnds(x)
  \/ SweepLists \/ SweepDeletes

Spec == Init /\ [][Next]_vars

-----------------------------------------------------------------------------
(* A job that reports success delivered every rung whole, of one encode,   *)
(* and with its sound.  Four things can break this, and nothing else:      *)
(* reuse of a chunk whose band was not all there (phase_variant and        *)
(* phase_audio look only at the first object, and not at its .done), a     *)
(* Resume on another chunk plan (the names of chunks do not say which),    *)
(* a sweep that listed the active jobs before the Resume, and an attempt   *)
(* that no longer counts whose sound lies beside the .done of its retry:   *)
(* the ladder is then packaged without a sound.                            *)
DeliversWhole ==
  orch = "done" =>
    \/ \A c \in Codec : delivered[c] = "whole"
    \/ cause # "none"

(* Packaging after a workflow that completed fails for the same causes     *)
(* only, the fourth being at work when it fails: of one of its inputs the  *)
(* object is of one attempt and the .done of another.  A retry, a          *)
(* reclaimed worker or an earlier cancel alone is no cause, and neither is *)
(* a prefetch that missed.                                                 *)
PackagingFailsForCause ==
  orch = "failed" /\ outcome = "result" => cause # "none"

(* An orchestrator that leaves in any way but by a kill, or by failing     *)
(* to cancel even in the orphan guard, leaves no workflow that goes on     *)
(* starting attempts (run_temporal: "on ANY exit ... cancel it").          *)
LeavesNoOrphan ==
  orch \in Gone /\ ~abandoned => wf # "running"
=============================================================================
