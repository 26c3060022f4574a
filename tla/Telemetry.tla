----------------------------- MODULE Telemetry -----------------------------
(***************************************************************************)
(* How a worker's markers reach the process that polls its execution       *)
(* (telemetry.py in the worker, _drain_telemetry of cli_batch.py in the    *)
(* poller): a buffer with two threads that flush it, a FIFO queue whose    *)
(* messages come back when their deletion fails, and a guard per publisher *)
(* that tells a message that came back from a new one.                     *)
(*                                                                         *)
(* A marker is a number, and a worker emits its markers in ascending       *)
(* order: the number stands for its sequence number as well.               *)
(***************************************************************************)
EXTENDS Naturals, Sequences, SequencesExt

CONSTANTS
  Worker,      \* processes that publish: 1 .. n, in the order they start
  SendFails,   \* whether send_message_batch may fail
  MaxMarkers,  \* bound: markers all workers emit
  MaxLag,      \* bound: messages in the queue
  MaxHand      \* bound: messages a drain receives before it announces them

ASSUME TelemetryAssumption == 
  SendFails \in BOOLEAN /\ MaxMarkers \in Nat /\ {MaxLag, MaxHand} \subseteq Nat \ {0}

VARIABLES
  said,     \* the markers a worker has emitted, which its log holds too
  alive,    \* workers whose process runs
  buf,      \* _Publisher._buf
  due,      \* workers whose emitting thread has still to flush what it added
  held,     \* the batch the timer thread has taken and not yet sent
  queue,    \* the FIFO queue of the execution
  collected,  \* messages a drain has received and not yet announced
  announcing, \* the drain has received all it will
  seen,     \* _tel_seq: the highest sequence number seen of each publisher
  applied,  \* history: the last stage marker of a worker that was announced
  sent,     \* history: records that reached the queue
  printed,  \* history: records that reached the control plane
  dropped   \* history: records whose drain failed, or whose queue was deleted

pollerVars == <<collected, announcing, seen, applied, printed, dropped>>
telemetryVars == <<said, alive, buf, due, held, queue, sent, pollerVars>>

Start == 1  Half == 2  Done == 3  Timing == 4  Speed == 5  Failed == 6

(* The taxonomy: stage markers may be dropped, records may not; only a     *)
(* percentage in the middle waits for company.                             *)
IsRecord(m) == m \in {Timing, Speed}
IsHeartbeat(m) == m = Half

(* Where, among markers, there are records; and where stage markers.       *)
Records(markers) == {i \in DOMAIN markers : IsRecord(markers[i])}
Stages(markers) == DOMAIN markers \ Records(markers)

TelemetryInit ==
  /\ said = [w \in Worker |-> <<>>]
  /\ alive = {}
  /\ buf = [w \in Worker |-> <<>>]
  /\ due = {}
  /\ held = [w \in Worker |-> <<>>]
  /\ queue = <<>>
  /\ collected = <<>>
  /\ announcing = FALSE
  /\ seen = [w \in Worker |-> 0]
  /\ applied = [w \in Worker |-> 0]
  /\ sent = {}
  /\ printed = {}
  /\ dropped = {}

-----------------------------------------------------------------------------
(* The worker. After the start it may fail at any point before the end of  *)
(* its encode; otherwise it reports progress, the end of the encode, and,  *)
(* after the upload, its two records.                                      *)
Follows(log) ==
  IF log = <<>> THEN {Start}
  ELSE IF Last(log) \in {Start, Half} THEN {Last(log) + 1, Done, Failed}
  ELSE IF Last(log) \in {Done, Timing} THEN {Last(log) + 1}
  ELSE {}

(* A grouped encode has no speed to report.                                *)
SaidAll(w) == said[w] # <<>> /\ Last(said[w]) \in {Timing, Speed, Failed}

Emitted == FoldFunction(LAMBDA log, n : n + Len(log), 0, said)

(* _Publisher.add                                                          *)
Say(w) ==
  /\ w \in alive \ due
  /\ Emitted < MaxMarkers
  /\ \E m \in Follows(said[w]) :
       /\ said' = [said EXCEPT ![w] = Append(@, m)]
       /\ buf' = [buf EXCEPT ![w] = Append(@, m)]
       /\ due' = IF IsHeartbeat(m) THEN due ELSE due \cup {w}
  /\ UNCHANGED <<alive, held, queue, sent, pollerVars>>

(* _SqsSink.send, outside the lock: one message with the sequence number   *)
(* of its first marker. A batch whose send fails is dropped.               *)
Send(w, batch) ==
  \/ /\ Len(queue) < MaxLag
     /\ queue' = Append(queue, [pub |-> w, body |-> batch])
     /\ sent' = sent \cup {<<w, batch[i]>> : i \in Records(batch)}
  \/ SendFails /\ UNCHANGED <<queue, sent>>

(* _Publisher.flush by the emitting thread, after an event and at the end  *)
(* of the phase. It emits nothing until its batch is sent.                 *)
Flush(w) ==
  /\ w \in alive
  /\ w \in due \/ SaidAll(w)
  /\ IF buf[w] = <<>> THEN UNCHANGED <<queue, sent>> ELSE Send(w, buf[w])
  /\ buf' = [buf EXCEPT ![w] = <<>>]
  /\ due' = due \ {w}
  /\ UNCHANGED <<said, alive, held, pollerVars>>

(* The timer thread takes what has waited, and sends it when it gets to it.*)
TimerTakes(w) ==
  /\ w \in alive
  /\ held[w] = <<>> /\ buf[w] # <<>>
  /\ held' = [held EXCEPT ![w] = buf[w]]
  /\ buf' = [buf EXCEPT ![w] = <<>>]
  /\ UNCHANGED <<said, alive, due, queue, sent, pollerVars>>

TimerSends(w) ==
  /\ w \in alive
  /\ held[w] # <<>>
  /\ Send(w, held[w])
  /\ held' = [held EXCEPT ![w] = <<>>]
  /\ UNCHANGED <<said, alive, buf, due, pollerVars>>

(* Whether the worker has said all it had to say and closed its publisher. *)
(* The timer thread is a daemon: what it still holds goes with the process.*)
Closed(w) ==
  /\ w \in alive \ due
  /\ SaidAll(w)
  /\ buf[w] = <<>>

(* The process ends or is killed: buffer and batches are gone.             *)
Ends(w) ==
  /\ alive' = alive \ {w}
  /\ buf' = [buf EXCEPT ![w] = <<>>]
  /\ due' = due \ {w}
  /\ held' = [held EXCEPT ![w] = <<>>]
  /\ UNCHANGED <<said, queue, sent, pollerVars>>

-----------------------------------------------------------------------------
(* The poller.                                                             *)
UnguardedReplay(message) == FALSE

Replay(message) == Head(message.body) <= seen[message.pub]

HastyKept(message) == {i \in DOMAIN message.body : ~Replay(message)}

(* What of a message is announced: of one that came back, the records.     *)
Kept(message) ==
  {i \in DOMAIN message.body : Replay(message) => IsRecord(message.body[i])}

(* _drain_telemetry first receives what there is: of each publisher its    *)
(* messages in order, deleted unless that fails, in which case the message *)
(* comes back before its successors.                                       *)
Receive ==
  /\ ~announcing
  /\ Len(collected) < MaxHand
  /\ \E i \in DOMAIN queue :
       /\ \A j \in 1 .. i - 1 : queue[j].pub # queue[i].pub
       /\ collected' = Append(collected, queue[i])
       /\ queue' \in {queue, RemoveAt(queue, i)}
  /\ UNCHANGED <<said, alive, buf, due, held, announcing, seen, applied, sent, printed, dropped>>

(* Then it announces them, one after the other; what a message's stage     *)
(* markers do to the row is the caller's.                                  *)
Announce(message) ==
  LET w == message.pub
      body == message.body
      records == Kept(message) \cap Records(body)
      stages == Kept(message) \cap Stages(body)
  IN
  /\ collected # <<>>
  /\ message = Head(collected)
  /\ collected' = Tail(collected)
  /\ announcing' = (collected' # <<>>)
  /\ seen' = IF Replay(message) THEN seen ELSE [seen EXCEPT ![w] = Head(body)]
  /\ printed' = printed \cup {<<w, body[i]>> : i \in records}
  /\ applied' = IF stages = {} THEN applied
                ELSE [applied EXCEPT ![w] = body[Max(stages)]]
  /\ UNCHANGED <<said, alive, buf, due, held, queue, sent, dropped>>

RecordsOf(messages) ==
  UNION {{<<messages[i].pub, messages[i].body[k]>> : k \in Records(messages[i].body)} :
           i \in DOMAIN messages}

(* What a drain has collected is gone with it; only what it failed to      *)
(* delete is still in the queue.                                           *)
LosesCollected ==
  /\ collected' = <<>>
  /\ announcing' = FALSE
  /\ dropped' = dropped \cup (RecordsOf(collected) \ RecordsOf(queue))

(* A request fails in a way _drain_telemetry does not expect (no answer    *)
(* from the network): its caller swallows the exception and starts anew.   *)
DrainFails ==
  /\ ~announcing
  /\ collected # <<>>
  /\ LosesCollected
  /\ UNCHANGED <<said, alive, buf, due, held, queue, seen, applied, sent, printed>>

(* A worker's records as its log shows them: they are printed from there,  *)
(* too.                                                                    *)
PrintRecords(w, log) ==
  /\ printed' = printed \cup {<<w, log[i]>> : i \in Records(log)}
  /\ UNCHANGED <<said, alive, buf, due, held, queue, collected, announcing, seen, applied,
                 sent, dropped>>

(* The poller is restarted: what it had in memory is gone.                 *)
Forget ==
  /\ seen' = [w \in Worker |-> 0]
  /\ applied' = [w \in Worker |-> 0]
  /\ LosesCollected
  /\ UNCHANGED <<said, alive, buf, due, held, queue, sent, printed>>

(* The queue is deleted after a last drain, which may have failed.         *)
DeleteQueue ==
  /\ collected = <<>>
  /\ queue' = <<>>
  /\ dropped' = dropped \cup RecordsOf(queue)
  /\ UNCHANGED <<said, alive, buf, due, held, collected, announcing, seen, applied, sent,
                 printed>>
=============================================================================
