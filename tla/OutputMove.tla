----------------------------- MODULE OutputMove -----------------------------
(***************************************************************************)
(* How a job's encodes get from its staging directory TMP_DIR/<id>/ to     *)
(* OUTPUT_DIR (moveTmpToOutput, copyDir, archiveExisting and resolveCodec  *)
(* in internal/encode), one directory per codec.                           *)
(*                                                                         *)
(* The two directories are usually on different filesystems, so a move is  *)
(* a copy, file by file, and then the removal of the source.  Copies fail, *)
(* and the server may be stopped in the middle; a job that is run again    *)
(* encodes only what resolveCodec finds missing, and moves whatever its    *)
(* staging directory holds.                                                *)
(***************************************************************************)
EXTENDS Integers, FiniteSets

CONSTANTS
  Job, NoJob,
  Dir,           \* <stem>_<codec>: what every job of the clip produces
  Piece,         \* the files of a directory, in the order copyDir walks them
  OneMover,      \* whether one job at a time is past the semaphore
  MaxResumes,    \* bound: calls of Resume
  MaxRestarts    \* bound: restarts of the server

ASSUME MoveAssumption ==
  /\ NoJob \notin Job
  /\ Piece \subseteq Nat /\ Piece # {} /\ IsFiniteSet(Piece)
  /\ OneMover \in BOOLEAN
  /\ {MaxResumes, MaxRestarts} \subseteq Nat

VARIABLES
  status,  \* Job.Status
  pc,      \* where the job's goroutine is
  entries, \* directories that moveTmpToOutput has still to move
  copied,  \* files that copyDir has copied of the one it is at
  tmp,     \* the files in TMP_DIR/<id>/<dir>
  live,    \* OUTPUT_DIR/<dir>: the job that each of its files comes from
  archive, \* OUTPUT_DIR/.archive: superseded directories
  torn,    \* history: directories whose move was cut short, by an error of
           \* copyDir or by the end of the server
  resumes, restarts

vars == <<status, pc, entries, copied, tmp, live, archive, torn, resumes, restarts>>

Nothing == [p \in Piece |-> NoJob]   \* no directory
Whole(j) == [p \in Piece |-> j]
Working(j) == pc[j] \notin {"idle", "slot"}

(* The directory a job is moving: os.ReadDir lists them in order.          *)
Current(j) == CHOOSE d \in entries[j] : TRUE

Init ==
  /\ status = [j \in Job |-> "absent"]
  /\ pc = [j \in Job |-> "idle"]
  /\ entries = [j \in Job |-> {}]
  /\ copied = [j \in Job |-> {}]
  /\ tmp = [j \in Job |-> [d \in Dir |-> {}]]
  /\ live = [d \in Dir |-> Nothing]
  /\ archive = {}
  /\ torn = {}
  /\ resumes = 0
  /\ restarts = 0

Goto(j, l) == pc' = [pc EXCEPT ![j] = l]

-----------------------------------------------------------------------------
Submit(j) ==
  /\ status[j] = "absent"
  /\ status' = [status EXCEPT ![j] = "active"]
  /\ Goto(j, "slot")
  /\ UNCHANGED <<entries, copied, tmp, live, archive, torn, resumes, restarts>>

Acquire(j) ==
  /\ pc[j] = "slot"
  /\ OneMover => ~\E k \in Job : Working(k)
  /\ Goto(j, "encode")
  /\ UNCHANGED <<status, entries, copied, tmp, live, archive, torn, resumes, restarts>>

(* resolveCodec, unless the job is a forced re-encode: the codecs with no  *)
(* file in OUTPUT_DIR.  (A "Wrong" operator is a mistake the code could    *)
(* have been written with, which the properties are checked to tell from   *)
(* the operator after it.)                                                 *)
Missing == {d \in Dir : live[d] = Nothing}

(* The workers deliver them to the staging directory, or the job fails.    *)
Encode(j) ==
  /\ pc[j] = "encode"
  /\ \E wanted \in {Missing, Dir} :
       tmp' = [tmp EXCEPT ![j] = [d \in Dir |-> IF d \in wanted THEN Piece ELSE @[d]]]
  /\ Goto(j, "list")
  /\ UNCHANGED <<status, entries, copied, live, archive, torn, resumes, restarts>>

Fail(j) ==
  /\ status' = [status EXCEPT ![j] = "failed"]
  /\ Goto(j, "idle")
  /\ entries' = [entries EXCEPT ![j] = {}]
  /\ copied' = [copied EXCEPT ![j] = {}]
  /\ tmp' = [tmp EXCEPT ![j] = [d \in Dir |-> {}]]

EncodeFails(j) ==
  /\ pc[j] = "encode"
  /\ Fail(j)
  /\ UNCHANGED <<live, archive, torn, resumes, restarts>>

(* moveTmpToOutput                                                         *)
Staged(j) == {d \in Dir : tmp[j][d] # {}}

List(j) ==
  /\ pc[j] = "list"
  /\ entries' = [entries EXCEPT ![j] = Staged(j)]
  /\ Goto(j, "next")
  /\ UNCHANGED <<status, copied, tmp, live, archive, torn, resumes, restarts>>

NextEntry(j) ==
  /\ pc[j] = "next"
  /\ \/ /\ entries[j] = {}
        /\ status' = [status EXCEPT ![j] = "done"]
        /\ Goto(j, "idle")
     \/ /\ entries[j] # {}
        /\ Goto(j, "stat")
        /\ UNCHANGED status
  /\ UNCHANGED <<entries, copied, tmp, live, archive, torn, resumes, restarts>>

Present(d) == live[d] # Nothing

Stat(j) ==
  /\ pc[j] = "stat"
  /\ Goto(j, IF Present(Current(j)) THEN "archive" ELSE "move")
  /\ UNCHANGED <<status, entries, copied, tmp, live, archive, torn, resumes, restarts>>

(* archiveExisting gives the superseded copy a name of its own; another    *)
(* mover may have taken it away already.                                   *)
Superseded(d) == {[dir |-> d, content |-> c] : c \in {live[d]} \ {Nothing}}

WrongArchived(d) == {a \in archive : a.dir # d} \cup Superseded(d)

Archived(d) == archive \cup Superseded(d)

Archive(j) ==
  LET d == Current(j)
  IN  /\ pc[j] = "archive"
      /\ archive' = Archived(d)
      /\ live' = [live EXCEPT ![d] = Nothing]
      /\ Goto(j, "move")
      /\ UNCHANGED <<status, entries, copied, tmp, torn, resumes, restarts>>

(* os.Rename: not onto a directory with files in it, nor to another        *)
(* filesystem ...                                                          *)
Rename(j) ==
  LET d == Current(j)
  IN  /\ pc[j] = "move"
      /\ ~Present(d)
      /\ live' = [live EXCEPT ![d] = [p \in Piece |-> IF p \in tmp[j][d] THEN j ELSE NoJob]]
      /\ tmp' = [tmp EXCEPT ![j][d] = {}]
      /\ entries' = [entries EXCEPT ![j] = @ \ {d}]
      /\ Goto(j, "next")
      /\ UNCHANGED <<status, copied, archive, torn, resumes, restarts>>

RenameFails(j) ==
  /\ pc[j] = "move"
  /\ Goto(j, "copy")
  /\ UNCHANGED <<status, entries, copied, tmp, live, archive, torn, resumes, restarts>>

(* ... then copyDir, which overwrites,                                     *)
ToCopy(j) == tmp[j][Current(j)] \ copied[j]

CopyFile(j) ==
  /\ pc[j] = "copy"
  /\ \E p \in ToCopy(j) :
       /\ \A q \in ToCopy(j) : p <= q
       /\ live' = [live EXCEPT ![Current(j)][p] = j]
       /\ copied' = [copied EXCEPT ![j] = @ \cup {p}]
  /\ UNCHANGED <<status, pc, entries, tmp, archive, torn, resumes, restarts>>

CopyError(j) ==
  /\ pc[j] = "copy"
  /\ Fail(j)
  /\ torn' = torn \cup {Current(j)}
  /\ UNCHANGED <<live, archive, resumes, restarts>>

WrongCopied(j) == TRUE

Copied(j) == ToCopy(j) = {}

CopyEnds(j) ==
  /\ pc[j] = "copy"
  /\ Copied(j)
  /\ copied' = [copied EXCEPT ![j] = {}]
  /\ Goto(j, "remove")
  /\ UNCHANGED <<status, entries, tmp, live, archive, torn, resumes, restarts>>

(* and os.RemoveAll of the source, file by file.                           *)
RemoveFile(j) ==
  LET d == Current(j)
  IN  /\ pc[j] = "remove"
      /\ \/ /\ \E p \in tmp[j][d] : tmp' = [tmp EXCEPT ![j][d] = @ \ {p}]
            /\ UNCHANGED <<pc, entries>>
         \/ /\ tmp[j][d] = {}
            /\ entries' = [entries EXCEPT ![j] = @ \ {d}]
            /\ Goto(j, "next")
            /\ UNCHANGED tmp
      /\ UNCHANGED <<status, copied, live, archive, torn, resumes, restarts>>

JobStep(j) ==
  \/ Submit(j) \/ Acquire(j) \/ Encode(j) \/ EncodeFails(j) \/ List(j)
  \/ NextEntry(j) \/ Stat(j) \/ Archive(j) \/ Rename(j) \/ RenameFails(j)
  \/ CopyFile(j) \/ CopyError(j) \/ CopyEnds(j) \/ RemoveFile(j)

Resume(j) ==
  /\ status[j] = "failed"
  /\ resumes < MaxResumes
  /\ resumes' = resumes + 1
  /\ status' = [status EXCEPT ![j] = "active"]
  /\ Goto(j, "slot")
  /\ UNCHANGED <<entries, copied, tmp, live, archive, torn, restarts>>

(* The active jobs are run again, with the staging directory they had.     *)
Restart ==
  /\ restarts < MaxRestarts
  /\ torn' = torn \cup {Current(j) : j \in {j \in Job : pc[j] \in {"copy", "remove"}}}
  /\ restarts' = restarts + 1
  /\ pc' = [j \in Job |-> IF status[j] = "active" THEN "slot" ELSE "idle"]
  /\ entries' = [j \in Job |-> {}]
  /\ copied' = [j \in Job |-> {}]
  /\ UNCHANGED <<status, tmp, live, archive, resumes>>

Next == (\E j \in Job : JobStep(j) \/ Resume(j)) \/ Restart

Spec == Init /\ [][Next]_vars

-----------------------------------------------------------------------------
(* "A re-encode never destroys the previous output": a complete directory  *)
(* of OUTPUT_DIR stays as it is, or goes to the archive as it is, beside   *)
(* what is there (the sweeper of old archives aside).                      *)
PreservesOutputs ==
  [][/\ archive \subseteq archive'
     /\ \A d \in Dir, j \in Job :
          live[d] = Whole(j) => \/ live'[d] = Whole(j)
                                \/ [dir |-> d, content |-> Whole(j)] \in archive']_vars

DoneWith(d) ==
  \A j \in Job : status[j] = "active" /\ status'[j] = "done" =>
                  \E k \in Job : live'[d] = Whole(k)

(* "done: every file encoded and moved to OUTPUT_DIR": when a job is done, *)
(* every directory it stands for is there and complete, whichever job made *)
(* it, however often the job was interrupted, resumed or restarted: except *)
(* for a directory whose own move was cut short.                           *)
DoneIsWhole == [][\A d \in Dir \ torn : DoneWith(d)]_vars
=============================================================================
