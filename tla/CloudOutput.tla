---------------------------- MODULE CloudOutput ----------------------------
(***************************************************************************)
(* What becomes of the output of a cloud job: cmd_poll packages or         *)
(* downloads it (scripts/infinite_streaming_encoder/cli_batch.py), the     *)
(* server delivers the directory to OUTPUT_DIR, and a click fetches or     *)
(* packages later what was left in S3 (cmd_fetch, cmd_package, and         *)
(* FetchOutput and PackageOutput in internal/encode).  Meanwhile the       *)
(* bucket's lifecycle and cloud/cleanup.py delete staged objects, the      *)
(* clip is encoded again under the same name, and the server restarts.     *)
(*                                                                         *)
(* One output directory, of one codec; its encodes, one job after another, *)
(* are generations 1..MaxGen.  A sidecar file is the only record of what   *)
(* is still in S3, and readers act on paths, whichever generation is there.*)
(***************************************************************************)
EXTENDS Integers, FiniteSets

CONSTANTS
  MaxGen,       \* bound: generations
  MaxMedia,     \* bound: media objects (and chunks) of a generation
  Mode,         \* how a job ends: in which ways it may be configured
  MaxSubmits,   \* bound: executions started
  MaxClicks,    \* bound: calls of FetchOutput and PackageOutput
  MaxSweeps,    \* bound: runs of cleanup.py
  MaxFaults     \* bound: restarts of the server, failed writes of a sidecar,
                \* failed deletions

ASSUME OutputAssumption ==
  /\ {MaxGen, MaxMedia} \subseteq Nat \ {0}
  /\ {MaxSubmits, MaxClicks, MaxSweeps, MaxFaults} \subseteq Nat
  /\ Mode \subseteq {"full", "manifests", "host", "defer"}

Gen == 1..MaxGen
Media == 1..MaxMedia         \* _MEDIA_SUFFIXES; and the chunks they come from
Piece == 0..MaxMedia         \* 0: the manifests
NoGen == 0

VARIABLES
  mode,    \* the job's configuration
  exec,    \* its last execution: none, running, encoded, succeeded, failed
  job,     \* the orchestrator and the goroutine that delivers
  chunks,  \* encoded chunks under jobs/<id>/
  staged,  \* packaged objects under jobs/<id>/output_<codec>/
  todo,    \* objects the running job has still to download, and how many
           \* media objects it leaves where they are
  tmp,     \* TMP_DIR/<id>/<dir> of the running job
  live,    \* OUTPUT_DIR/<dir>
  fetch,   \* the process of cmd_fetch
  pack,    \* the process of cmd_package
  sweep,   \* the process of cleanup.py and the handler that started it
  excuse,  \* history: what has happened that the protocol does not survive
  count    \* uses of the bounds

vars == <<mode, exec, job, chunks, staged, todo, tmp, live, fetch, pack, sweep, excuse, count>>
poll == <<mode, exec, job, todo, tmp>>
s3 == <<chunks, staged>>

(* A sidecar: whose media, how many, and who found them gone.              *)
NoSide == [gen |-> NoGen, want |-> 0, gone |-> "no"]
NoDir == [made |-> FALSE, files |-> [p \in Piece |-> NoGen],
          remote |-> NoSide, pending |-> NoSide]
Idle == [pc |-> "idle", gen |-> NoGen, want |-> 0, todo |-> {}, ok |-> TRUE]
NoSweep == [pc |-> "idle", scope |-> {}, todo |-> {}, any |-> FALSE, ok |-> TRUE,
            seen |-> NoSide]
Nothing == [get |-> {}, leave |-> 0]

Init ==
  /\ mode = [g \in Gen |-> "none"]
  /\ exec = [g \in Gen |-> "none"]
  /\ job = [g \in Gen |-> "new"]
  /\ chunks = [g \in Gen |-> {}]
  /\ staged = [g \in Gen |-> {}]
  /\ todo = Nothing
  /\ tmp = NoDir
  /\ live = NoDir
  /\ fetch = Idle
  /\ pack = Idle
  /\ sweep = NoSweep
  /\ excuse = {}
  /\ count = [submits |-> 0, clicks |-> 0, sweeps |-> 0, faults |-> 0]

Bump(c, max) ==
  /\ count[c] < max
  /\ count' = [count EXCEPT ![c] = @ + 1]

Over(g) == job[g] \in {"done", "failed"}
Step(g, from, to) == job[g] = from /\ job' = [job EXCEPT ![g] = to]
Set(files, ps, g) == [p \in Piece |-> IF p \in ps THEN g ELSE files[p]]
Local(d) == {p \in Media : d.files[p] # NoGen}
Whole(d) == \E g \in Gen : \A p \in Piece : d.files[p] = g

(* What an execution uploads while a sweep is at its prefix.               *)
Refill(g) == IF g \in sweep.scope THEN {"refilled"} ELSE {}

(* Objects in the order of their names: downloads run in parallel, but     *)
(* which of them is first makes no difference.                             *)
First(ps) == {p \in ps : \A q \in ps : p <= q}

(* A listing that is neither empty nor complete is taken for complete.     *)
Short(found, all) == IF found # {} /\ found # all THEN {"swept"} ELSE {}

-----------------------------------------------------------------------------
(* The execution.  A submission first stops what still runs of the job.    *)
Submit(g) ==
  /\ job[g] \in {"new", "failed"}
  /\ \A h \in Gen : h < g => Over(h)
  /\ \A h \in Gen : h > g => job[h] = "new"
  /\ Bump("submits", MaxSubmits)
  /\ job' = [job EXCEPT ![g] = "poll"]
  /\ exec' = [exec EXCEPT ![g] = "running"]
  /\ \E m \in Mode :
       /\ job[g] = "failed" => m = mode[g]
       /\ mode' = [mode EXCEPT ![g] = m]
  /\ UNCHANGED <<s3, todo, tmp, live, fetch, pack, sweep, excuse>>

Encode(g) ==
  /\ exec[g] = "running"
  /\ exec' = [exec EXCEPT ![g] = IF mode[g] \in {"host", "defer"} THEN "succeeded" ELSE "encoded"]
  /\ chunks' = [chunks EXCEPT ![g] = Media]
  /\ excuse' = excuse \cup Refill(g)
  /\ UNCHANGED <<mode, job, staged, todo, tmp, live, fetch, pack, sweep, count>>

(* package-all takes the last chunk it lists for the last there is, and    *)
(* fails on a hole before it.                                              *)
Packable(found) == found # {} /\ \A p \in found : 1..p \subseteq found

PackageInBatch(g) ==
  /\ exec[g] = "encoded"
  /\ IF Packable(chunks[g])
     THEN /\ exec' = [exec EXCEPT ![g] = "succeeded"]
          /\ staged' = [staged EXCEPT ![g] = @ \cup {0} \cup chunks[g]]
          /\ excuse' = excuse \cup Short(chunks[g], Media) \cup Refill(g)
     ELSE /\ exec' = [exec EXCEPT ![g] = "failed"]
          /\ UNCHANGED <<staged, excuse>>
  /\ UNCHANGED <<mode, job, chunks, todo, tmp, live, fetch, pack, sweep, count>>

ExecutionFails(g) ==
  /\ exec[g] \in {"running", "encoded"}
  /\ exec' = [exec EXCEPT ![g] = "failed"]
  /\ UNCHANGED <<mode, job, s3, todo, tmp, live, fetch, pack, sweep, excuse, count>>

-----------------------------------------------------------------------------
(* cmd_poll from the end of the execution.  A failure of any step is an    *)
(* exit code, after which the server fails the job and drops its staging   *)
(* directory.                                                              *)
FailJob(g) ==
  /\ job' = [job EXCEPT ![g] = "failed"]
  /\ tmp' = NoDir
  /\ todo' = Nothing

PollFails(g) ==
  /\ job[g] = "poll"
  /\ exec[g] # "succeeded"   \* ended otherwise, or the poll timed out
  /\ FailJob(g)
  /\ UNCHANGED <<mode, exec, s3, live, fetch, pack, sweep, excuse, count>>

PollSucceeds(g) ==
  /\ exec[g] = "succeeded"
  /\ Step(g, "poll", CASE mode[g] = "defer" -> "pending"
                       [] mode[g] = "host" -> "package"
                       [] OTHER -> "list")
  /\ UNCHANGED <<mode, exec, s3, todo, tmp, live, fetch, pack, sweep, excuse, count>>

(* The writers of both sidecars warn of a failed write and go on.          *)
WriteSidecar(kind, g, want) ==
  \/ /\ tmp' = [tmp EXCEPT !.made = TRUE,
                           ![kind] = [gen |-> g, want |-> want, gone |-> "no"]]
     /\ UNCHANGED <<count, excuse>>
  \/ /\ Bump("faults", MaxFaults)
     /\ tmp' = [tmp EXCEPT !.made = TRUE]
     /\ excuse' = excuse \cup {"unwritten"}

DeferPackaging(g) ==
  /\ Step(g, "pending", "archive")
  /\ WriteSidecar("pending", g, 0)
  /\ UNCHANGED <<mode, exec, s3, todo, live, fetch, pack, sweep>>

(* _package_on_host replaces a directory that an earlier poll left.        *)
PackageOnHost(g) ==
  /\ job[g] = "package"
  /\ IF Packable(chunks[g])
     THEN /\ job' = [job EXCEPT ![g] = "list"]
          /\ tmp' = [NoDir EXCEPT !.made = TRUE, !.files = Set(@, {0} \cup chunks[g], g)]
          /\ excuse' = excuse \cup Short(chunks[g], Media)
          /\ UNCHANGED todo
     ELSE FailJob(g) /\ UNCHANGED excuse
  /\ UNCHANGED <<mode, exec, s3, live, fetch, pack, sweep, count>>

(* _download_outputs: one listing, then the objects in any order, then the *)
(* sidecar, with the numbers of the listing.  An empty listing is a        *)
(* success, of whatever an earlier poll left in the directory.             *)
Left(g) == IF mode[g] = "manifests" THEN staged[g] \cap Media ELSE {}

ListOutputs(g) ==
  /\ Step(g, "list", IF staged[g] \ Left(g) = {} THEN "archive" ELSE "get")
  /\ todo' = [get |-> staged[g] \ Left(g), leave |-> Cardinality(Left(g))]
  /\ excuse' = excuse \cup (IF mode[g] # "host" /\ staged[g] # Piece THEN {"swept"} ELSE {})
  /\ UNCHANGED <<mode, exec, s3, tmp, live, fetch, pack, sweep, count>>

GetOutput(g) ==
  /\ job[g] = "get"
  /\ \E p \in First(todo.get) :
       IF p \in staged[g]
       THEN /\ tmp' = [tmp EXCEPT !.made = TRUE, !.files[p] = g]
            /\ todo' = [todo EXCEPT !.get = @ \ {p}]
            /\ UNCHANGED job
       ELSE FailJob(g)
  /\ UNCHANGED <<mode, exec, s3, live, fetch, pack, sweep, excuse, count>>

LeaveInS3(g) ==
  /\ todo.get = {}
  /\ Step(g, "get", "archive")
  /\ IF todo.leave > 0 THEN WriteSidecar("remote", g, todo.leave)
     ELSE UNCHANGED <<tmp, count, excuse>>
  /\ UNCHANGED <<mode, exec, s3, todo, live, fetch, pack, sweep>>

-----------------------------------------------------------------------------
(* moveTmpToOutput.  A click's process that is under way goes on by path,  *)
(* in what has become another generation's directory; and so does a        *)
(* handler that has read the sidecar of the one before.                    *)
Underway == fetch.pc # "idle" \/ pack.pc # "idle" \/ sweep.pc = "write"

Archive(g) ==
  /\ Step(g, "archive", "place")
  /\ live' = IF tmp.made THEN NoDir ELSE live
  /\ excuse' = excuse \cup (IF Underway /\ live.made THEN {"overlap"} ELSE {})
  /\ UNCHANGED <<mode, exec, s3, todo, tmp, fetch, pack, sweep, count>>

(* A rename; or a copy over what a process has put there since.            *)
Place(g) ==
  /\ Step(g, "place", "done")
  /\ live' = IF ~tmp.made THEN live
             ELSE [made |-> TRUE,
                   files |-> [p \in Piece |-> IF tmp.files[p] # NoGen THEN tmp.files[p]
                                              ELSE live.files[p]],
                   remote |-> IF tmp.remote # NoSide THEN tmp.remote ELSE live.remote,
                   pending |-> IF tmp.pending # NoSide THEN tmp.pending ELSE live.pending]
  /\ tmp' = NoDir
  /\ todo' = Nothing
  /\ mode' = [mode EXCEPT ![g] = "none"]   \* of no consequence from here on
  /\ UNCHANGED <<exec, s3, fetch, pack, sweep, excuse, count>>

-----------------------------------------------------------------------------
(* FetchOutput and cmd_fetch.                                              *)
FetchOutput ==
  /\ fetch.pc = "idle"
  /\ live.remote # NoSide
  /\ live.remote.gone = "no"
  /\ Bump("clicks", MaxClicks)
  /\ fetch' = [Idle EXCEPT !.pc = "start"]
  /\ UNCHANGED <<poll, s3, live, pack, sweep, excuse>>

FetchReads ==
  /\ fetch.pc = "start"
  /\ fetch' = IF live.remote = NoSide \/ live.remote.gone # "no" THEN Idle
              ELSE [Idle EXCEPT !.pc = "list", !.gen = live.remote.gen, !.want = live.remote.want]
  /\ UNCHANGED <<poll, s3, live, pack, sweep, excuse, count>>

(* "Already complete" although nothing is staged any more: a fetch that    *)
(* was killed between its last object and the removal of the sidecar.  (A  *)
(* "Careless" operator is a mistake the code could have been written with, *)
(* which the properties are checked to tell from the operator after it.)   *)
CarelessComplete(want) == FALSE

Complete(want) == want > 0 /\ Cardinality(Local(live)) >= want

Gone(side, by) == [side EXCEPT !.gone = by]

FetchLists ==
  LET listed == staged[fetch.gen]
      side == [gen |-> fetch.gen, want |-> fetch.want, gone |-> "no"]
  IN  /\ fetch.pc = "list"
      /\ IF listed = {}
         THEN /\ fetch' = Idle
              /\ live' = [live EXCEPT !.remote =
                            IF Complete(fetch.want) THEN NoSide
                            ELSE IF live.made THEN Gone(side, "fetch") ELSE @]
         ELSE /\ fetch' = [fetch EXCEPT !.pc = "get",
                                        !.todo = {p \in listed : live.files[p] # fetch.gen}]
              /\ UNCHANGED live
      /\ excuse' = excuse \cup Short(listed, Piece)
      /\ UNCHANGED <<poll, s3, pack, sweep, count>>

(* _parallel_get: a failure surfaces when every download has ended.        *)
FetchGets ==
  /\ fetch.pc = "get"
  /\ \E p \in First(fetch.todo) :
       /\ fetch' = [fetch EXCEPT !.todo = @ \ {p}, !.ok = @ /\ p \in staged[fetch.gen]]
       /\ live' = IF p \in staged[fetch.gen]
                  THEN [live EXCEPT !.made = TRUE, !.files[p] = fetch.gen]
                  ELSE live
  /\ UNCHANGED <<poll, s3, pack, sweep, excuse, count>>

CarelessFetched == TRUE

Fetched == fetch.ok

FetchEnds ==
  /\ fetch.pc = "get"
  /\ fetch.todo = {}
  /\ fetch' = Idle
  /\ live' = IF Fetched THEN [live EXCEPT !.remote = NoSide] ELSE live
  /\ UNCHANGED <<poll, s3, pack, sweep, excuse, count>>

-----------------------------------------------------------------------------
(* PackageOutput and cmd_package.                                          *)
PackageOutput ==
  /\ pack.pc = "idle" /\ fetch.pc = "idle"
  /\ live.pending # NoSide
  /\ live.pending.gone = "no"
  /\ Bump("clicks", MaxClicks)
  /\ pack' = [Idle EXCEPT !.pc = "start"]
  /\ UNCHANGED <<poll, s3, live, fetch, sweep, excuse>>

PackageReads ==
  /\ pack.pc = "start"
  /\ pack' = IF live.pending = NoSide \/ live.pending.gone # "no" THEN Idle
             ELSE [Idle EXCEPT !.pc = IF chunks[live.pending.gen] = {} THEN "gone" ELSE "build",
                               !.gen = live.pending.gen]
  /\ UNCHANGED <<poll, s3, live, fetch, sweep, excuse, count>>

(* finishPackage after EXIT_STAGING_GONE                                   *)
MarkPendingGone ==
  /\ pack.pc = "gone"
  /\ pack' = Idle
  /\ live' = IF live.pending # NoSide /\ live.pending.gone = "no"
             THEN [live EXCEPT !.pending = Gone(@, "package")] ELSE live
  /\ UNCHANGED <<poll, s3, fetch, sweep, excuse, count>>

(* In a scratch directory, whose entries are then moved one by one.        *)
PackageBuilds ==
  /\ pack.pc = "build"
  /\ IF Packable(chunks[pack.gen])
     THEN /\ pack' = [pack EXCEPT !.pc = "move", !.todo = {0} \cup chunks[pack.gen]]
          /\ excuse' = excuse \cup Short(chunks[pack.gen], Media)
     ELSE pack' = Idle /\ UNCHANGED excuse
  /\ UNCHANGED <<poll, s3, live, fetch, sweep, count>>

PackageMoves ==
  /\ pack.pc = "move"
  /\ \E p \in First(pack.todo) :
       IF live.made
       THEN /\ live' = [live EXCEPT !.files[p] = pack.gen]
            /\ pack' = [pack EXCEPT !.todo = @ \ {p}]
       ELSE pack' = Idle /\ UNCHANGED live
  /\ UNCHANGED <<poll, s3, fetch, sweep, excuse, count>>

PackageEnds ==
  /\ pack.pc = "move"
  /\ pack.todo = {}
  /\ pack' = Idle
  /\ live' = [live EXCEPT !.pending = NoSide]
  /\ UNCHANGED <<poll, s3, fetch, sweep, excuse, count>>

-----------------------------------------------------------------------------
(* The lifecycle of the bucket deletes object by object, days later, the   *)
(* chunks before the objects made from them.  (What is staged of a         *)
(* generation that nobody can ask for any more makes no difference.)       *)
Sought(g) == \E x \in {live.remote, live.pending, fetch, pack} : x.gen = g

Expire(g) ==
  /\ job[g] = "done"
  /\ Sought(g)
  /\ IF chunks[g] # {}
     THEN /\ \E p \in chunks[g] : chunks' = [chunks EXCEPT ![g] = @ \ {p}]
          /\ UNCHANGED staged
     ELSE /\ \E p \in First(staged[g]) : staged' = [staged EXCEPT ![g] = @ \ {p}]
          /\ UNCHANGED chunks
  /\ UNCHANGED <<poll, live, fetch, pack, sweep, excuse, count>>

(* cleanup.py, for a job, a prefix, or everything: list, delete in the     *)
(* order of the listing, report.                                           *)
Objects(scope) ==
  UNION {({g} \X {"chunks"} \X chunks[g]) \cup ({g} \X {"staged"} \X staged[g]) : g \in scope}

Before(a, b) ==
  \/ a[1] < b[1]
  \/ a[1] = b[1] /\ a[2] = "chunks" /\ b[2] = "staged"
  \/ a[1] = b[1] /\ a[2] = b[2] /\ a[3] < b[3]

Scopes == {{g} : g \in Gen} \cup {Gen}   \* terminate_job or delete_prefix; sweep_all

SweepStarts ==
  /\ sweep.pc = "idle"
  /\ Bump("sweeps", MaxSweeps)
  /\ \E scope \in Scopes :
       sweep' = [NoSweep EXCEPT !.pc = "delete", !.scope = scope, !.todo = Objects(scope),
                               !.any = Objects(scope) # {}]
  /\ UNCHANGED <<poll, s3, live, fetch, pack, excuse>>

SweepDeletes ==
  /\ sweep.pc = "delete"
  /\ \E o \in sweep.todo : (\A x \in sweep.todo : ~Before(x, o)) /\
       \/ /\ chunks' = IF o[2] = "chunks" THEN [chunks EXCEPT ![o[1]] = @ \ {o[3]}] ELSE chunks
          /\ staged' = IF o[2] = "staged" THEN [staged EXCEPT ![o[1]] = @ \ {o[3]}] ELSE staged
          /\ sweep' = [sweep EXCEPT !.todo = @ \ {o}]
          /\ UNCHANGED count
       \/ /\ Bump("faults", MaxFaults)   \* reported among the Errors
          /\ sweep' = [sweep EXCEPT !.todo = @ \ {o}, !.ok = FALSE]
          /\ UNCHANGED s3
  /\ UNCHANGED <<poll, live, fetch, pack, excuse>>

(* The server reads the report unless the exit code says that something    *)
(* failed, and marks the outputs whose prefix is among the deleted (one    *)
(* that held nothing is not among them).                                   *)
SweepReports ==
  /\ sweep.pc = "delete"
  /\ sweep.todo = {}
  /\ sweep' = IF sweep.ok /\ sweep.any THEN [sweep EXCEPT !.pc = "mark"] ELSE NoSweep
  /\ UNCHANGED <<poll, s3, live, fetch, pack, excuse, count>>

MarkReads ==
  /\ sweep.pc = "mark"
  /\ sweep' = IF live.remote.gen \in sweep.scope /\ live.remote.gone = "no"
              THEN [sweep EXCEPT !.pc = "write", !.seen = live.remote] ELSE NoSweep
  /\ UNCHANGED <<poll, s3, live, fetch, pack, excuse, count>>

MarkWrites ==
  /\ sweep.pc = "write"
  /\ sweep' = NoSweep
  /\ live' = IF live.made THEN [live EXCEPT !.remote = Gone(sweep.seen, "clear")] ELSE live
  /\ UNCHANGED <<poll, s3, fetch, pack, excuse, count>>

(* Processes end with the server; a job that was running is polled again,  *)
(* with the staging directory it had.                                      *)
Restart ==
  /\ Bump("faults", MaxFaults)
  /\ job' = [g \in Gen |-> IF Over(g) \/ job[g] = "new" THEN job[g] ELSE "poll"]
  /\ todo' = Nothing
  /\ fetch' = Idle
  /\ pack' = Idle
  /\ sweep' = NoSweep
  /\ excuse' = excuse \cup (IF pack.pc = "move" THEN {"killed"} ELSE {})
  /\ UNCHANGED <<mode, exec, s3, tmp, live>>

Execution(g) == Submit(g) \/ Encode(g) \/ PackageInBatch(g) \/ ExecutionFails(g)
Poll(g) ==
  \/ PollFails(g) \/ PollSucceeds(g) \/ DeferPackaging(g) \/ PackageOnHost(g)
  \/ ListOutputs(g) \/ GetOutput(g) \/ LeaveInS3(g) \/ Archive(g) \/ Place(g)
Fetch == FetchOutput \/ FetchReads \/ FetchLists \/ FetchGets \/ FetchEnds
Package ==
  \/ PackageOutput \/ PackageReads \/ MarkPendingGone
  \/ PackageBuilds \/ PackageMoves \/ PackageEnds
Sweep == SweepStarts \/ SweepDeletes \/ SweepReports \/ MarkReads \/ MarkWrites

Next ==
  \/ \E g \in Gen : Execution(g) \/ Poll(g) \/ Expire(g)
  \/ Fetch \/ Package \/ Sweep \/ Restart

Spec == Init /\ [][Next]_vars

-----------------------------------------------------------------------------
Settled == fetch.pc = "idle" /\ pack.pc = "idle" /\ sweep.pc # "write"

(* "Its presence IS the remote state": an output with no sidecar holds     *)
(* every file of one encode.  Only three things break it: a listing of a   *)
(* prefix that is partly deleted, a sidecar that could not be written, and *)
(* a re-encode delivered under a fetch or packaging of the same name.      *)
CompleteIsWhole ==
  Settled /\ live.made /\ live.remote = NoSide /\ live.pending = NoSide =>
    Whole(live) \/ excuse \cap {"swept", "unwritten", "overlap"} # {}

(* An output is given up ("re-encode to recreate it") only when it cannot  *)
(* be had any more: nothing of it is staged, and what is on disk is less   *)
(* than the sidecar asks for.  (The server's own marks after a deletion do *)
(* not look at the disk; cmd_package's do not count after a kill.)         *)
GoneIsTrue ==
  Settled /\ excuse \cap {"overlap", "refilled"} = {} =>
    /\ live.remote.gone # "no" => staged[live.remote.gen] = {}
    /\ live.remote.gone = "fetch" => Cardinality(Local(live)) < live.remote.want
    /\ live.pending.gone # "no" =>
         /\ chunks[live.pending.gen] = {}
         /\ Whole(live) => "killed" \in excuse
=============================================================================
