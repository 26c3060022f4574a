------------------------------ MODULE BoxCache ------------------------------
(***************************************************************************)
(* The cache of large artifacts on one worker machine (cli_phase.py): the  *)
(* mezzanine of a job, downloaded once for all of its chunks, and the      *)
(* pre-scaled reference that the VMAF audit builds from it.  Concurrent    *)
(* phases share one download or build through an flock on a lock file; the *)
(* oldest entries are evicted before a download that does not fit and      *)
(* after every one that did.  An eviction is three unlinks made under the  *)
(* lock of another entry, and the third removes the entry's lock file.     *)
(*                                                                         *)
(* A process is one phase_variant. S3 holds its mezzanine and does not     *)
(* change it meanwhile.                                                    *)
(***************************************************************************)
EXTENDS Naturals, FiniteSets, SequencesExt

CONSTANTS
  Process,
  Source,        \* what jobs encode; each has a mezzanine and a reference
  SourceOf,      \* the source of a process
  Audits,        \* processes that measure VMAF against a pre-scaled reference
  Keep,          \* MEZZ_CACHE_KEEP
  Disk,          \* artifacts the volume may be found to have room for: other
                 \* containers write to it meanwhile
  MaxFaults      \* bound: processes killed, and failed writes

ASSUME BoxAssumption ==
  /\ IsFiniteSet(Process) /\ IsFiniteSet(Source)
  /\ SourceOf \in [Process -> Source]
  /\ Audits \subseteq Process
  /\ Keep \in Nat \ {0} /\ Disk \subseteq Nat \ {0} /\ MaxFaults \in Nat

Key == {"mezz", "ref"} \X Source
IsRef(k) == k[1] = "ref"
Inode == 1 .. Cardinality(Process) + Cardinality(Key)
NoFile == 0

VARIABLES
  pc,
  want,      \* the artifact a process is after
  fd,        \* the inode of the lock file it has open
  locked,    \* processes that hold the lock of their inode
  victims,   \* unlinks of the eviction a process is in the middle of
  lockfile,  \* the inode of an artifact's lock file
  order,     \* artifacts whose file is there, oldest first
  sealed,    \* artifacts whose .done file is there
  writers,   \* processes that (still) write the inode of an artifact's file
  building,  \* a reference's .building file: its writers
  orphaned,  \* history: artifacts whose lock file was unlinked while open
  faults

vars == <<pc, want, fd, locked, victims, lockfile, order, sealed, writers,
          building, orphaned, faults>>
disk == <<lockfile, order, sealed, writers, building, orphaned>>

NoBuild == {0}     \* no .building file

Init ==
  /\ pc = [p \in Process |-> "open"]
  /\ want = [p \in Process |-> <<"mezz", SourceOf[p]>>]
  /\ fd = [p \in Process |-> NoFile]
  /\ locked = {}
  /\ victims = [p \in Process |-> <<>>]
  /\ lockfile = [k \in Key |-> NoFile]
  /\ order = <<>>
  /\ sealed = {}
  /\ writers = [k \in Key |-> {}]
  /\ building = [k \in Key |-> NoBuild]
  /\ orphaned = {}
  /\ faults = 0

Goto(p, there) == pc' = [pc EXCEPT ![p] = there]

Stored == ToSet(order)
Building == {k \in Key : building[k] # NoBuild}

-----------------------------------------------------------------------------
(* The lock.                                                               *)
FreshInode ==
  CHOOSE i \in Inode :
    \A p \in Process, k \in Key : fd[p] # i /\ lockfile[k] # i

(* open(..., "w")                                                          *)
OpenLock(p) ==
  LET k == want[p]
      inode == IF lockfile[k] = NoFile THEN FreshInode ELSE lockfile[k] IN
  /\ pc[p] = "open"
  /\ fd' = [fd EXCEPT ![p] = inode]
  /\ lockfile' = [lockfile EXCEPT ![k] = inode]
  /\ Goto(p, "waiting")
  /\ UNCHANGED <<want, locked, victims, order, sealed, writers, building, orphaned, faults>>

SharedFree(p) == TRUE

Free(p) == \A q \in locked : fd[q] # fd[p]

(* _lock_with_timeout, or flock for a reference                            *)
Lock(p) ==
  /\ pc[p] = "waiting"
  /\ Free(p)
  /\ locked' = locked \cup {p}
  /\ Goto(p, "locked")
  /\ UNCHANGED <<want, fd, victims, disk, faults>>

Endless(p) == FALSE
Impatient(p) == pc[p] = "waiting" /\ ~IsRef(want[p])

(* The wait for a mezzanine gives up and downloads a private copy.         *)
LockTimeout(p) ==
  /\ Impatient(p)
  /\ ~Free(p)
  /\ Goto(p, "private")
  /\ UNCHANGED <<want, fd, locked, victims, disk, faults>>

Unlock(p, there) ==
  /\ fd' = [fd EXCEPT ![p] = NoFile]
  /\ locked' = locked \ {p}
  /\ Goto(p, there)

-----------------------------------------------------------------------------
(* Eviction.                                                               *)
Unlinks(k) == <<<<k, "file">>, <<k, "done">>, <<k, "lock">>>>
UnlinksOf(keys) == FlattenSeq([i \in DOMAIN keys |-> Unlinks(keys[i])])

(* _prune_mezz_cache: of each kind the newest stay. A .building file counts*)
(* as one, and is newer than any that is finished.                         *)
Surplus(kind, young) ==
  LET same == SelectSeq(order, LAMBDA k : k[1] = kind)
      n == Len(same) + young - Keep IN
  IF n > Len(same) THEN same ELSE IF n < 0 THEN <<>> ELSE SubSeq(same, 1, n)

Pruned ==
  UnlinksOf(Surplus("mezz", 0) \o Surplus("ref", Cardinality(Building)))
    \o (IF Cardinality(Building) <= Keep THEN <<>>
         ELSE <<<<CHOOSE k \in Building : TRUE, "building">>>>)

(* It has a lock file open, and not only for a private download.           *)
Bound(p) == fd[p] # NoFile /\ pc[p] # "private"

(* _evict_cache_entry, one unlink.                                         *)
EvictStep(p) ==
  LET k == Head(victims[p])[1]  what == Head(victims[p])[2] IN
  /\ victims[p] # <<>>
  /\ victims' = [victims EXCEPT ![p] = Tail(@)]
  /\ CASE what = "file" ->
            /\ order' = SelectSeq(order, LAMBDA x : x # k)
            /\ writers' = [writers EXCEPT ![k] = {}]
            /\ UNCHANGED <<sealed, building, lockfile, orphaned>>
       [] what = "building" ->
            /\ building' = [building EXCEPT ![k] = NoBuild]
            /\ UNCHANGED <<order, sealed, writers, lockfile, orphaned>>
       [] what = "done" ->
            /\ sealed' = sealed \ {k}
            /\ UNCHANGED <<order, building, writers, lockfile, orphaned>>
       [] OTHER ->
            /\ lockfile' = [lockfile EXCEPT ![k] = NoFile]
            /\ orphaned' = IF \E q \in Process : Bound(q) /\ fd[q] = lockfile[k]
                             THEN orphaned \cup {k} ELSE orphaned
            /\ UNCHANGED <<order, building, writers, sealed>>
  /\ UNCHANGED <<pc, want, fd, locked, faults>>

-----------------------------------------------------------------------------
(* _fetch_mezz_cached and _get_or_build_prescaled_ref, under the lock.     *)
Complete(k) == k \in Stored /\ k \in sealed

Hit(p) ==
  /\ pc[p] = "locked"
  /\ Complete(want[p])
  /\ Unlock(p, "using")
  /\ UNCHANGED <<want, victims, disk, faults>>

(* What the volume holds: finished artifacts, builds, downloads, and, in   *)
(* the work directories, private copies while they are downloaded and read.*)
Used ==
  Len(order) + Cardinality(Building)
    + Cardinality({p \in Process : pc[p] = "writing" /\ ~IsRef(want[p])})
    + Cardinality({p \in Process : pc[p] \in {"private", "alone"}})

(* _ensure_cache_room, one round of its loop; with nothing left to evict,  *)
(* a private download, which keeps the lock.                               *)
MakeRoom(p) ==
  /\ pc[p] = "locked" /\ victims[p] = <<>>
  /\ ~IsRef(want[p]) /\ ~Complete(want[p])
  /\ \E n \in Disk : Used >= n
  /\ IF order = <<>> /\ Building = {}
       THEN Goto(p, "private") /\ UNCHANGED victims
       ELSE /\ UNCHANGED pc
            /\ IF order # <<>>
                 THEN victims' = [victims EXCEPT ![p] = Unlinks(Head(order))]
                 ELSE \E k \in Building :
                        victims' = [victims EXCEPT ![p] = <<<<k, "building">>>>]
  /\ UNCHANGED <<want, fd, locked, disk, faults>>

(* The lock, if it is held, and the file close as the function returns.    *)
PrivateDownload(p) ==
  /\ pc[p] = "private"
  /\ \/ Unlock(p, "alone") /\ UNCHANGED faults
     \/ /\ Unlock(p, "failed")
        /\ faults < MaxFaults /\ faults' = faults + 1
  /\ UNCHANGED <<want, victims, disk>>

Download(p) ==
  /\ pc[p] = "locked" /\ victims[p] = <<>>
  /\ ~IsRef(want[p]) /\ ~Complete(want[p])
  /\ \E n \in Disk : Used < n
  /\ Goto(p, "writing")
  /\ UNCHANGED <<want, fd, locked, victims, disk, faults>>

InPlaceBuild(p) ==
  /\ pc[p] = "locked"
  /\ IsRef(want[p]) /\ ~Complete(want[p])
  /\ order' = Append(SelectSeq(order, LAMBDA x : x # want[p]), want[p])
  /\ writers' = [writers EXCEPT ![want[p]] = {p}]
  /\ building' = [building EXCEPT ![want[p]] = {p}]
  /\ Goto(p, "writing")
  /\ UNCHANGED <<want, fd, locked, victims, lockfile, sealed, orphaned, faults>>

(* A build truncates the .building file that is there, or makes one.       *)
Build(p) ==
  LET k == want[p] IN
  /\ pc[p] = "locked"
  /\ IsRef(k) /\ ~Complete(k)
  /\ building' = [building EXCEPT ![k] =
       {q \in @ : q \in Process /\ pc[q] = "writing" /\ want[q] = k} \cup {p}]
  /\ Goto(p, "writing")
  /\ UNCHANGED <<want, fd, locked, victims, lockfile, order, sealed, writers, orphaned, faults>>

(* The file appears under its name at once: a download and a build are     *)
(* both renamed into place.  A build whose .building file somebody else    *)
(* has renamed meanwhile fails, and the audit goes by the mezzanine.       *)
Place(p) ==
  LET k == want[p] IN
  /\ pc[p] = "writing"
  /\ IF IsRef(k) /\ building[k] = NoBuild
       THEN /\ writers' = [writers EXCEPT ![k] = @ \ {p}]
            /\ Unlock(p, "ended")
            /\ UNCHANGED <<order, building>>
       ELSE /\ writers' = [writers EXCEPT ![k] = building[k] \ {0, p}]
            /\ order' = Append(SelectSeq(order, LAMBDA x : x # k), k)
            /\ building' = [building EXCEPT ![k] = NoBuild]
            /\ Goto(p, "sealing")
            /\ UNCHANGED <<fd, locked>>
  /\ UNCHANGED <<want, victims, lockfile, sealed, orphaned, faults>>

(* The download fails, which fails the phase, or the build, which only     *)
(* costs the audit its reference.                                          *)
WriteFails(p) ==
  LET k == want[p] IN
  /\ pc[p] = "writing"
  /\ faults < MaxFaults /\ faults' = faults + 1
  /\ Unlock(p, IF IsRef(k) THEN "ended" ELSE "failed")
  /\ UNCHANGED <<want, victims, disk>>

(* The .done file, and the eviction of what is too much. Whoever finds the *)
(* file evicted already by another process fails.                          *)
Seal(p) ==
  LET k == want[p] IN
  /\ pc[p] = "sealing"
  /\ sealed' = IF k \in Stored \/ ~IsRef(k) THEN sealed \cup {k} ELSE sealed
  /\ IF k \in Stored
       THEN /\ victims' = [victims EXCEPT ![p] = Pruned]
            /\ Goto(p, "pruning")
            /\ UNCHANGED <<fd, locked>>
       ELSE /\ Unlock(p, IF IsRef(k) THEN "ended" ELSE "failed")
            /\ UNCHANGED victims
  /\ UNCHANGED <<want, lockfile, order, writers, building, orphaned, faults>>

Leave(p) ==
  /\ pc[p] = "pruning" /\ victims[p] = <<>>
  /\ Unlock(p, "using")
  /\ UNCHANGED <<want, victims, disk, faults>>

-----------------------------------------------------------------------------
(* The lock is gone; the path may be as well.                              *)
Use(p) ==
  LET k == want[p] IN
  /\ pc[p] = "using"
  /\ Goto(p, IF k \notin Stored THEN IF IsRef(k) THEN "ended" ELSE "failed" ELSE "reading")
  /\ UNCHANGED <<want, fd, locked, victims, disk, faults>>

Encoded(p) ==
  /\ pc[p] \in {"reading", "alone"}
  /\ ~IsRef(want[p])
  /\ IF p \in Audits
       THEN want' = [want EXCEPT ![p] = <<"ref", SourceOf[p]>>] /\ Goto(p, "open")
       ELSE Goto(p, "ended") /\ UNCHANGED want
  /\ UNCHANGED <<fd, locked, victims, disk, faults>>

Measured(p) ==
  /\ pc[p] = "reading"
  /\ IsRef(want[p])
  /\ Goto(p, "ended")
  /\ UNCHANGED <<want, fd, locked, victims, disk, faults>>

Final == {"ended", "failed", "killed"}

(* Killed by the scheduler or for memory: the kernel drops its lock, and   *)
(* what it was writing stays as it is.                                     *)
Kill(p) ==
  /\ pc[p] \notin Final
  /\ faults < MaxFaults
  /\ faults' = faults + 1
  /\ Unlock(p, "killed")
  /\ victims' = [victims EXCEPT ![p] = <<>>]
  /\ UNCHANGED <<want, disk>>

Wait(p) == Lock(p) \/ LockTimeout(p)

Work(p) ==
  \/ OpenLock(p) \/ Hit(p) \/ MakeRoom(p) \/ Download(p) \/ Build(p)
  \/ EvictStep(p) \/ Seal(p) \/ Leave(p) \/ Use(p) \/ Encoded(p) \/ Measured(p)

Ends(p) == Place(p) \/ WriteFails(p) \/ PrivateDownload(p)

Next == \E p \in Process : Wait(p) \/ Work(p) \/ Ends(p) \/ Kill(p)

(* ffmpeg ends; a download, private or not, may hang for ever.             *)
Fairness == \A p \in Process :
  /\ WF_vars(Wait(p)) /\ WF_vars(Work(p))
  /\ WF_vars(IsRef(want[p]) /\ Ends(p))

Spec == Init /\ [][Next]_vars /\ Fairness

-----------------------------------------------------------------------------
(* One download or build of an artifact at a time, whatever is evicted,    *)
(* killed or given up; the lock is lost only where an eviction unlinked    *)
(* the lock file that another process had open.                            *)
OneWriter ==
  \A p, q \in Process :
    p # q /\ {pc[p], pc[q]} \subseteq {"writing", "sealing"} /\ want[p] = want[q]
      => want[p] \in orphaned

(* No phase encodes or measures from a file that somebody is writing or    *)
(* has left unfinished, under the same exception: what is under its name   *)
(* is whole.                                                               *)
ReadsWhole ==
  \A p \in Process : pc[p] = "reading" => writers[want[p]] = {} \/ want[p] \in orphaned

(* A process whose download hangs, into the cache or beside it, holds up   *)
(* no other for ever, whatever lock it holds meanwhile: every phase ends,  *)
(* but for one whose own download does not.                                *)
Downloading(p) == pc[p] \in {"writing", "private"} /\ ~IsRef(want[p])
HangsAlone == \A p \in Process : <>[](pc[p] \in Final \/ Downloading(p))
=============================================================================
