----------------------------- MODULE StageRows -----------------------------
(***************************************************************************)
(* One cell of the chunk grid of a cloud run: what the poller (cmd_poll in *)
(* cli_batch.py) announces about a chunk from sources that disagree about  *)
(* the present.  Batch state events arrive late, twice, out of order or    *)
(* not at all; a worker's markers come through the queue of Telemetry and, *)
(* while it runs, from its log; a census reads the state of every job of   *)
(* the execution; reclaims are read off the attempts.  All of them go      *)
(* through _emit_stage, from several threads and one lock.                 *)
(*                                                                         *)
(* A chunk is one Batch job, retried on a new machine when its own is      *)
(* reclaimed or its container exits with 1.  Chunks share no state but the *)
(* queues, so there is one.                                                *)
(***************************************************************************)
EXTENDS Telemetry, Integers, FiniteSets

CONSTANTS
  NoHost,
  MaxAttempts,  \* Batch's attempts of a job
  MaxUnread,    \* bound: what the poller has yet to look at when something new comes
  EventsLost,   \* whether EventBridge may fail to deliver an event
  MaxFaults     \* bound: retried attempts, restarts of the poller, drains that fail

ASSUME RowsAssumption ==
  /\ NoHost \notin Worker
  /\ EventsLost \in BOOLEAN
  /\ {MaxAttempts, MaxUnread, MaxFaults} \subseteq Nat

VARIABLES
  job,       \* the chunk's Batch job: state, ended attempts, machine
  events,    \* events on their way, or delivered and not deleted
  row,       \* _STAGE_STATE and _STAGE_PCT of the chunk's key
  host,      \* the machine the cell is coloured by
  census,    \* the job as a scan saw it, before _sync_stages_from_batch uses it
  tailed,    \* lines of a worker's log that were forwarded
  over,      \* the poller has seen the execution end
  restarts,  \* of the poller
  stops      \* drains that failed

rowVars == <<job, events, row, host, census, tailed, over, restarts, stops>>
vars == <<telemetryVars, rowVars>>

Rank == [pending |-> 0, queued |-> 1, starting |-> 2, running |-> 3,
         reclaimed |-> 3, failed |-> 4, done |-> 5]
Interrupts == {"failed", "reclaimed"}

(* _BATCH_STAGE_STATUS                                                     *)
StageOf == [RUNNABLE |-> "queued", STARTING |-> "starting", RUNNING |-> "running",
            SUCCEEDED |-> "done", FAILED |-> "failed"]

Unknown == -1           \* percent=None
NoRow == [st |-> "unset", pct |-> 0]
NoJob == [st |-> "none", tries |-> 0, on |-> NoHost]

Init ==
  /\ TelemetryInit
  /\ job = NoJob
  /\ events = {}
  /\ row = NoRow
  /\ host = NoHost
  /\ census = NoJob
  /\ tailed = [w \in Worker |-> 0]
  /\ over = FALSE
  /\ restarts = 0
  /\ stops = 0

-----------------------------------------------------------------------------
(* The chokepoint.                                                         *)
Stale(r, st) ==
  \/ r.st = "done" /\ st # "done"
  \/ /\ r.st \notin {"unset", "failed"} /\ st \notin Interrupts
     /\ Rank[st] < Rank[r.st]

ForgetfulCarried(r, st, pct) == IF pct = Unknown THEN 0 ELSE pct

(* Who does not know the percent leaves it; nobody lowers it in place.     *)
Carried(r, st, pct) ==
  IF pct = Unknown \/ (st # "done" /\ st = r.st /\ pct < r.pct) THEN r.pct ELSE pct

Announced(r, st, pct) ==
  IF Stale(r, st) THEN r ELSE [st |-> st, pct |-> Carried(r, st, pct)]

EmitStage(st, pct) == row' = Announced(row, st, pct)

(* What the page paints of a row.                                          *)
Width(r) ==
  IF r.st \in {"unset", "pending", "queued", "starting"} THEN 0
  ELSE IF r.st \in {"done", "reclaimed"} THEN 2
  ELSE r.pct

SetHost(h) == host' = h

-----------------------------------------------------------------------------
(* Batch and the state machine.                                            *)
Unread ==
  Cardinality(events) + Len(queue) + Len(collected) + (IF census = NoJob THEN 0 ELSE 1)

Faults == job.tries + restarts + stops

Is(st) == job.st = st

(* A transition of the job, and its event, unless that is lost.            *)
Transition(j) ==
  /\ job' = j
  /\ Unread < MaxUnread
  /\ \/ events' = events \cup {[st |-> j.st, on |-> j.on]}
     \/ EventsLost /\ UNCHANGED events
  /\ UNCHANGED <<row, host, census, tailed, over, restarts, stops>>

SubmitJob ==
  /\ Is("none")
  /\ Transition([NoJob EXCEPT !.st = "RUNNABLE"])
  /\ UNCHANGED telemetryVars

(* The machines are numbered like the containers they run.                 *)
Place ==
  /\ Is("RUNNABLE")
  /\ \E w \in Worker :
       /\ said[w] = <<>>
       /\ \A v \in Worker : v < w => said[v] # <<>>
       /\ Transition([job EXCEPT !.st = "STARTING", !.on = w])
  /\ UNCHANGED telemetryVars

Run ==
  /\ Is("STARTING")
  /\ Transition([job EXCEPT !.st = "RUNNING"])
  /\ alive' = alive \cup {job.on}
  /\ UNCHANGED <<said, buf, due, held, queue, sent, pollerVars>>

(* The machine is reclaimed, or the container exits with 1: Batch tries    *)
(* again while attempts are left. Any other exit fails the job.            *)
AttemptEnds ==
  /\ Is("RUNNING")
  /\ said[job.on] # <<>>
  /\ \/ /\ job.tries + 1 < MaxAttempts /\ Faults < MaxFaults
        /\ Transition([st |-> "RUNNABLE", tries |-> job.tries + 1, on |-> NoHost])
     \/ Transition([job EXCEPT !.st = "FAILED"])
  /\ Ends(job.on)

JobSucceeds ==
  /\ Is("RUNNING")
  /\ Closed(job.on) /\ Last(said[job.on]) # Failed
  /\ Transition([job EXCEPT !.st = "SUCCEEDED"])
  /\ Ends(job.on)

Publish(w) ==
  /\ \/ Say(w) \/ TimerTakes(w)
     \/ Unread < MaxUnread /\ (Flush(w) \/ TimerSends(w))
  /\ UNCHANGED rowVars

-----------------------------------------------------------------------------
(* The poller's sources.                                                   *)

WorkerStage(m) ==
  IF m = Done THEN <<"done", 2>> ELSE IF m = Failed THEN <<"failed", 0>>
  ELSE <<"running", m - Start>>

(* The row r after one more marker: a record does not touch it.            *)
Marked(r, m) ==
  IF IsRecord(m) THEN r ELSE Announced(r, WorkerStage(m)[1], WorkerStage(m)[2])

(* Those of a worker's markers that are kept, one after the other.         *)
EmitMarkers(markers, kept) ==
  LET after[n \in 0 .. Len(markers)] ==
        IF n = 0 THEN row
        ELSE IF n \in kept THEN Marked(after[n - 1], markers[n]) ELSE after[n - 1]
  IN  row' = after[Len(markers)]

(* _drain_telemetry, and the failure that its thread swallows.             *)
DrainReceives == ~over /\ Receive /\ UNCHANGED rowVars

DrainAnnounces ==
  /\ ~over
  /\ \E message \in Range(collected) :
       Announce(message) /\ EmitMarkers(message.body, Kept(message))
  /\ UNCHANGED <<job, events, host, census, tailed, over, restarts, stops>>

DrainStops ==
  /\ ~over
  /\ Faults < MaxFaults
  /\ stops' = stops + 1
  /\ DrainFails
  /\ UNCHANGED <<job, events, row, host, census, tailed, over, restarts>>

(* _drain_state: an event colours the cell even when its status is stale.  *)
DrainState ==
  /\ ~over
  /\ \E e \in events :
       /\ \/ events' = events \ {e}
          \/ UNCHANGED events
       /\ EmitStage(StageOf[e.st], IF e.st = "SUCCEEDED" THEN 2 ELSE Unknown)
       /\ IF e.on # NoHost /\ e.st \in {"STARTING", "RUNNING", "SUCCEEDED"}
            THEN SetHost(e.on) ELSE UNCHANGED host
  /\ UNCHANGED <<job, census, tailed, over, restarts, stops, telemetryVars>>

(* _sync_stages_from_batch: one scan of the execution's jobs (it may be as *)
(* old as its cache).                                                      *)
CensusScan ==
  /\ ~over
  /\ census = NoJob /\ ~Is("none")
  /\ census' = job
  /\ UNCHANGED <<job, events, row, host, tailed, over, restarts, stops, telemetryVars>>

FirstSeen(r, st) == r.st # "unset"

Seen(r, st) == r.st = st \/ r.st \in {"done", "failed"}

CensusStep ==
  LET st == StageOf[census.st] IN
  /\ ~over
  /\ census # NoJob
  /\ census' = NoJob
  /\ IF Seen(row, st)
       THEN UNCHANGED <<row, host>>
       ELSE /\ EmitStage(st, IF st = "done" THEN 2 ELSE Unknown)
            /\ \/ census.on # NoHost /\ st \in {"running", "starting", "done"} /\ SetHost(census.on)
               \/ UNCHANGED host    \* describe_jobs failed, or has no machine yet
  /\ UNCHANGED <<job, events, tailed, over, restarts, stops, telemetryVars>>

(* _report_live_reclaims                                                   *)
ReportReclaim ==
  /\ ~over
  /\ Is("RUNNABLE") \/ Is("STARTING")
  /\ job.tries > 0
  /\ EmitStage("reclaimed", 0)
  /\ UNCHANGED <<job, events, host, census, tailed, over, restarts, stops, telemetryVars>>

(* _forward_running_logs: the new lines in the log of a running container, *)
(* whose markers come through the queue as well. (When the queue is silent *)
(* the logs of finished containers are read the same way.)                 *)
TailLog ==
  /\ ~over
  /\ Is("RUNNING")
  /\ LET w == job.on
         new == SubSeq(said[w], tailed[w] + 1, Len(said[w])) IN
     /\ new # <<>>
     /\ EmitMarkers(new, DOMAIN new)
     /\ PrintRecords(w, new)
     /\ tailed' = [tailed EXCEPT ![w] = Len(said[w])]
     /\ SetHost(w)
  /\ UNCHANGED <<job, events, census, over, restarts, stops>>

(* _backfill_completed_hosts                                               *)
BackfillHost ==
  /\ ~over
  /\ host = NoHost
  /\ Is("SUCCEEDED")
  /\ SetHost(job.on)
  /\ UNCHANGED <<job, events, row, census, tailed, over, restarts, stops, telemetryVars>>

(* The poll loop sees a terminal execution: last drains, then no queues.   *)
Finish ==
  /\ ~over
  /\ Is("SUCCEEDED") \/ Is("FAILED")
  /\ events = {}
  /\ DeleteQueue
  /\ over' = TRUE
  /\ UNCHANGED <<job, events, row, host, census, tailed, restarts, stops>>

(* The server restarts and attaches a new poller, which begins with a      *)
(* census; the queues keep what they hold.                                 *)
Reattach ==
  /\ ~over
  /\ Faults < MaxFaults
  /\ restarts' = restarts + 1
  /\ row' = NoRow
  /\ host' = NoHost
  /\ census' = NoJob
  /\ tailed' = [w \in Worker |-> 0]
  /\ Forget
  /\ UNCHANGED <<job, events, over, stops>>

Batch == SubmitJob \/ Place \/ Run \/ AttemptEnds \/ JobSucceeds
Poll == \/ DrainReceives \/ DrainAnnounces \/ DrainStops
        \/ DrainState \/ CensusScan \/ CensusStep
        \/ ReportReclaim \/ TailLog \/ BackfillHost \/ Finish \/ Reattach

Next == Batch \/ Poll \/ \E w \in Worker : Publish(w)

(* The loop's periodic work is repeated while the poller lives.            *)
Fairness ==
  /\ WF_vars(CensusScan) /\ WF_vars(CensusStep) /\ WF_vars(BackfillHost)

Spec == Init /\ [][Next]_vars /\ Fairness

-----------------------------------------------------------------------------
(* A cell loses colour only when an attempt was reported reclaimed or      *)
(* failed: whatever the order in which events, markers, logs and the       *)
(* census are read, no source that lags takes back what a faster one has   *)
(* announced.                                                              *)
LosesColourForCause ==
  [][Width(row') < Width(row) /\ restarts' = restarts
       => row'.st = "failed" \/ row.st \in {"reclaimed", "failed"}]_vars

(* A publisher's stage markers are announced in the order it emitted them, *)
(* although two threads send them and messages come back.                  *)
InEmissionOrder ==
  [][restarts' = restarts => \A w \in Worker : applied'[w] >= applied[w]]_vars

(* A record that reached the queue is printed, still waits in the queue or *)
(* in the poller's memory, or was in hand when a drain or the poller died  *)
(* over it, or in the queue when that was deleted. Nothing else loses one: *)
(* no record is taken for a repetition, even when a later batch overtook   *)
(* its own or a new poller reads what the old one had read.                *)
RecordsKept ==
  sent \ printed \subseteq RecordsOf(queue) \cup RecordsOf(collected) \cup dropped

(* Whatever was lost, a chunk whose job has succeeded is in the end shown  *)
(* done and coloured, as long as the execution goes on and no earlier      *)
(* attempt has left the row failed, which the census does not touch.       *)
SucceededIsShown ==
  Is("SUCCEEDED") ~> (over \/ row.st = "failed" \/ (row.st = "done" /\ host # NoHost))
=============================================================================
