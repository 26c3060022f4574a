--------------------------- MODULE CloudOutputProofs ---------------------------
(***************************************************************************)
(* An output with no sidecar is whole, and one that is given up is gone:   *)
(* for any number of generations and of media files, any configuration and *)
(* any number of clicks, sweeps, restarts and failed writes.               *)
(*                                                                         *)
(* The invariant has three parts.  DeliveryInv follows the one job that is *)
(* polled or delivered, and what of its generation is in the staging       *)
(* directory.  Sides, SweepInv and GoneInv say that a sidecar, and whoever *)
(* has read it, speak of a delivered generation, to which nothing is       *)
(* uploaded any more.  Alone and WholeInv are about the output directory.  *)
(* They hold as long as no delivery has replaced a directory under a click *)
(* that is under way, which is what "overlap" in excuse records: then one  *)
(* generation is in the directory, and the sidecar, the process that reads *)
(* it and the files agree on what is still missing.  WholeInv asks further *)
(* that no listing was short and that no sidecar went unwritten.           *)
(***************************************************************************)
EXTENDS CloudOutput, FiniteSetTheorems, TLAPS

States == {"none", "running", "encoded", "succeeded", "failed"}
Places == {"new", "poll", "pending", "package", "list", "get", "archive", "place", "done", "failed"}
Side == [gen : 0 .. MaxGen, want : Nat, gone : {"no", "fetch", "clear", "package"}]
Dir == [made : BOOLEAN, files : [Piece -> 0 .. MaxGen], remote : Side, pending : Side]
Process(pcs) == [pc : pcs, gen : 0 .. MaxGen, want : Nat, todo : SUBSET Piece, ok : BOOLEAN]
Object == Gen \X {"chunks", "staged"} \X Piece

Typed ==
  /\ mode \in [Gen -> {"none", "full", "manifests", "host", "defer"}]
  /\ exec \in [Gen -> States] /\ job \in [Gen -> Places]
  /\ chunks \in [Gen -> SUBSET Media] /\ staged \in [Gen -> SUBSET Piece]
  /\ todo \in [get : SUBSET Piece, leave : Nat]
  /\ tmp \in Dir /\ live \in Dir
  /\ fetch \in Process({"idle", "start", "list", "get"})
  /\ pack \in Process({"idle", "start", "gone", "build", "move"})
  /\ sweep \in [pc : {"idle", "delete", "mark", "write"}, scope : SUBSET Gen, todo : SUBSET Object,
                any : BOOLEAN, ok : BOOLEAN, seen : Side]
  /\ excuse \subseteq {"refilled", "swept", "unwritten", "overlap", "killed"}

(* A job that is polled or delivered.                                      *)
Active(g) == job[g] \notin {"new", "done", "failed"}

(* One job at a time, whose execution has succeeded once its poll goes on. *)
OneJob == \A g, h \in Gen : Active(g) /\ Active(h) => g = h
Ran == \A g \in Gen : job[g] \notin {"new", "poll", "failed"} => exec[g] = "succeeded"

(* The configuration decides what a job does.                              *)
ByMode(g) ==
  /\ Active(g) => mode[g] # "none"
  /\ job[g] = "new" => exec[g] = "none" /\ staged[g] = {}
  /\ mode[g] \in {"host", "defer"} => staged[g] = {} /\ exec[g] # "encoded"
  /\ job[g] = "pending" => mode[g] = "defer"
  /\ job[g] = "package" => mode[g] = "host"
  /\ job[g] = "list" => mode[g] # "defer"
  /\ job[g] = "get" => mode[g] \in {"full", "manifests"}
  /\ job[g] = "get" /\ mode[g] = "full" => todo.leave = 0

Own(g) ==
  /\ \A p \in Piece : tmp.files[p] \in {NoGen, g}
  /\ tmp.remote # NoSide =>
       tmp.remote.gen = g /\ tmp.remote.want > 0 /\ tmp.remote.gone = "no" /\ mode[g] = "manifests"
  /\ tmp.pending # NoSide =>
       tmp.pending.gen = g /\ tmp.pending.gone = "no" /\ mode[g] = "defer"
  /\ mode[g] = "defer" => \A p \in Piece : tmp.files[p] = NoGen
  /\ ~tmp.made => tmp = NoDir

Staging ==
  /\ \A g \in Gen : Active(g) => Own(g)
  /\ (\A g \in Gen : ~Active(g)) => tmp = NoDir

Clean == excuse \cap {"swept", "unwritten", "overlap"} = {}

(* What of a delivery is in the staging directory already.                 *)
Collected(g) ==
  /\ mode[g] = "defer" /\ job[g] \in {"archive", "place"} => tmp.pending # NoSide
  /\ mode[g] = "host" /\ job[g] \in {"list", "archive", "place"} =>
       \A p \in Piece : tmp.files[p] = g
  /\ mode[g] = "full" /\ job[g] = "get" => \A p \in Piece \ todo.get : tmp.files[p] = g
  /\ mode[g] = "full" /\ job[g] \in {"archive", "place"} => \A p \in Piece : tmp.files[p] = g
  /\ mode[g] = "manifests" /\ job[g] = "get" =>
       (0 \in todo.get \/ tmp.files[0] = g) /\ todo.leave = MaxMedia
  /\ mode[g] = "manifests" /\ job[g] \in {"archive", "place"} => tmp.remote # NoSide
  /\ tmp.remote # NoSide => tmp.remote.want = MaxMedia /\ tmp.files[0] = g

DeliveryInv ==
  /\ OneJob /\ Ran /\ \A g \in Gen : ByMode(g)
  /\ Staging
  /\ Clean => \A g \in Gen : Active(g) => Collected(g)

(* Sidecars, and the processes that have read one, speak of a generation   *)
(* that has been delivered.                                                *)
Delivered(g) == g # NoGen => job[g] = "done"

RemoteSide ==
  /\ Delivered(live.remote.gen)
  /\ live.remote # NoSide => live.remote.gen # NoGen /\ live.remote.want > 0
PendingSide ==
  /\ Delivered(live.pending.gen)
  /\ live.pending # NoSide => live.pending.gen # NoGen
FetchSide ==
  /\ Delivered(fetch.gen)
  /\ IF fetch.pc \in {"list", "get"} THEN fetch.gen # NoGen /\ fetch.want > 0 ELSE fetch.gen = NoGen
PackSide ==
  /\ Delivered(pack.gen)
  /\ IF pack.pc \in {"gone", "build", "move"} THEN pack.gen # NoGen ELSE pack.gen = NoGen
SweepSide ==
  /\ Delivered(sweep.seen.gen)
  /\ IF sweep.pc = "write" THEN sweep.seen.gen # NoGen /\ sweep.seen.want > 0
     ELSE sweep.seen = NoSide

Sides == RemoteSide /\ PendingSide /\ FetchSide /\ PackSide /\ SweepSide

(* Whose files and sidecars are in the output directory.                   *)
Of(g) ==
  /\ \A p \in Piece : live.files[p] \in {NoGen, g}
  /\ {live.remote.gen, live.pending.gen, sweep.seen.gen, fetch.gen, pack.gen} \subseteq {NoGen, g}

Alone ==
  /\ \E g \in Gen : Of(g)
  /\ ~live.made => live = NoDir
  /\ fetch.pc # "idle" => live.remote # NoSide
  /\ pack.pc # "idle" => live.pending # NoSide
  /\ sweep.pc = "write" => live.made
  /\ live.remote # NoSide \/ sweep.pc = "write" => live.pending = NoSide
  /\ \A g \in Gen : job[g] = "place" /\ tmp.made => ~live.made
  /\ live.remote.gone = "fetch" =>
       Cardinality(Local(live)) < live.remote.want /\ fetch.pc \notin {"list", "get"}
  /\ pack.pc \in {"gone", "build", "move"} => live.pending.gone = "no"
  /\ live.pending # NoSide /\ pack.pc # "move" /\ "killed" \notin excuse =>
       \A p \in Piece : live.files[p] = NoGen

WholeInv ==
  /\ live.made /\ live.remote = NoSide /\ live.pending = NoSide => Whole(live)
  /\ live.remote # NoSide => live.remote.want = MaxMedia /\ live.files[0] # NoGen
  /\ fetch.pc \in {"list", "get"} => fetch.want = MaxMedia
  /\ sweep.pc = "write" => sweep.seen.want = MaxMedia /\ live.files[0] # NoGen
  /\ fetch.pc = "get" /\ fetch.ok => \A p \in Piece \ fetch.todo : live.files[p] = fetch.gen
  /\ pack.pc = "move" => \A p \in Piece \ pack.todo : live.files[p] = pack.gen

(* A sweep that has failed at nothing has left nothing but what it has     *)
(* still to delete.                                                        *)
SweepInv ==
  /\ sweep.pc = "idle" => sweep.scope = {}
  /\ sweep.pc \in {"mark", "write"} => sweep.ok /\ sweep.todo = {}
  /\ sweep.pc = "write" => sweep.seen.gen \in sweep.scope
  /\ "refilled" \notin excuse /\ sweep.ok =>
       \A g \in sweep.scope :
         /\ \A p \in chunks[g] : <<g, "chunks", p>> \in sweep.todo
         /\ \A p \in staged[g] : <<g, "staged", p>> \in sweep.todo

GoneInv ==
  /\ live.remote.gone # "no" /\ "refilled" \notin excuse => staged[live.remote.gen] = {}
  /\ live.pending.gone # "no" /\ "overlap" \notin excuse => chunks[live.pending.gen] = {}
  /\ pack.pc = "gone" => chunks[pack.gen] = {}

IInv ==
  /\ Typed /\ DeliveryInv /\ Sides /\ SweepInv /\ GoneInv
  /\ "overlap" \notin excuse => Alone
  /\ Clean => WholeInv

-----------------------------------------------------------------------------
(* Types.                                                                  *)
LEMMA Sizes ==
  /\ MaxGen \in Nat /\ MaxGen > 0 /\ MaxMedia \in Nat /\ MaxMedia > 0
  /\ 0 \in Piece /\ Media \subseteq Piece /\ 0 \notin Media /\ Piece = Media \cup {0}
  /\ NoGen \notin Gen /\ Gen \subseteq 0 .. MaxGen /\ NoGen \in 0 .. MaxGen
  BY OutputAssumption DEF Piece, Media, Gen, NoGen

(* The values that stand for nothing have the types of what they stand for.*)
LEMMA Nulls ==
  /\ NoSide \in Side /\ NoDir \in Dir
  /\ Idle \in Process({"idle", "start", "list", "get"})
  /\ Idle \in Process({"idle", "start", "gone", "build", "move"})
  /\ NoSweep \in [pc : {"idle", "delete", "mark", "write"}, scope : SUBSET Gen, todo : SUBSET Object,
                  any : BOOLEAN, ok : BOOLEAN, seen : Side]
  /\ Nothing \in [get : SUBSET Piece, leave : Nat]
  <1>1. NoSide \in Side
    BY Sizes DEF NoSide, Side
  <1>2. NoDir \in Dir
    BY <1>1, Sizes DEF NoDir, Dir
  <1> QED BY <1>1, <1>2, Sizes DEF Idle, Process, NoSweep, Nothing

(* Types, initially and after a step of each part.                         *)
LEMMA InitTyped == Init => Typed
  BY Nulls DEF Init, Typed, States, Places

(* One more file in a directory; another sidecar.                          *)
LEMMA DirPut ==
  ASSUME NEW d \in Dir, NEW p \in Piece, NEW g \in 0 .. MaxGen, NEW e,
         e \in {[d EXCEPT !.files[p] = g], [d EXCEPT !.made = TRUE, !.files[p] = g]}
  PROVE  /\ e \in Dir
         /\ e.made = d.made \/ e.made = TRUE
         /\ e.files[p] = g /\ \A q \in Piece \ {p} : e.files[q] = d.files[q]
         /\ e.remote = d.remote /\ e.pending = d.pending
  <1>1. CASE e = [d EXCEPT !.files[p] = g]
    BY <1>1 DEF Dir
  <1>2. CASE e = [d EXCEPT !.made = TRUE, !.files[p] = g]
    BY <1>2 DEF Dir
  <1> QED BY <1>1, <1>2

LEMMA DirSide ==
  ASSUME NEW d \in Dir, NEW s \in Side
  PROVE  /\ LET e == [d EXCEPT !.remote = s] IN
              /\ e \in Dir /\ e.made = d.made /\ e.files = d.files
              /\ e.remote = s /\ e.pending = d.pending
         /\ LET e == [d EXCEPT !.pending = s] IN
              /\ e \in Dir /\ e.made = d.made /\ e.files = d.files
              /\ e.remote = d.remote /\ e.pending = s
  BY DEF Dir

(* A sidecar that is marked is the same sidecar, marked.                   *)
LEMMA SideGone ==
  ASSUME NEW s \in Side, NEW by \in {"fetch", "clear", "package"}
  PROVE  /\ Gone(s, by) \in Side /\ Gone(s, by) # NoSide
         /\ Gone(s, by).gen = s.gen /\ Gone(s, by).want = s.want /\ Gone(s, by).gone = by
  BY DEF Side, Gone, NoSide

(* What a job leaves in S3 is media that is staged.                        *)
LEMMA LeftTyped ==
  ASSUME Typed, NEW g \in Gen
  PROVE  Left(g) \subseteq Media /\ Left(g) \subseteq staged[g] /\ Cardinality(Left(g)) \in Nat
         /\ staged[g] \subseteq Piece
  <1>1. Left(g) \subseteq Media /\ Left(g) \subseteq staged[g] /\ staged[g] \subseteq Piece
    BY DEF Left, Typed
  <1>2. IsFiniteSet(Media)
    BY Sizes, FS_Interval DEF Media
  <1> QED BY <1>1, <1>2, FS_Subset, FS_CardinalityType

LEMMA ExecutionTyped ==
  ASSUME Typed, NEW g \in Gen, Execution(g)
  PROVE  Typed'
  <1>1. CASE Submit(g)
    <2>1. PICK m \in Mode : mode' = [mode EXCEPT ![g] = m]
      BY <1>1 DEF Submit
    <2>2. m \in {"full", "manifests", "host", "defer"}
      BY OutputAssumption
    <2> QED BY <1>1, <2>1, <2>2 DEF Submit, s3, Typed, States, Places
  <1>2. CASE Encode(g)
    BY <1>2, Sizes DEF Encode, Typed, States, Refill
  <1>3. CASE PackageInBatch(g)
    <2>1. {0} \cup chunks[g] \subseteq Piece
      BY Sizes DEF Typed
    <2>2. CASE Packable(chunks[g])
      <3>1. /\ exec' = [exec EXCEPT ![g] = "succeeded"]
            /\ staged' = [staged EXCEPT ![g] = @ \cup {0} \cup chunks[g]]
            /\ excuse' = excuse \cup Short(chunks[g], Media) \cup Refill(g)
        BY <1>3, <2>2 DEF PackageInBatch
      <3>2. staged' \in [Gen -> SUBSET Piece]
        BY <2>1, <3>1 DEF Typed
      <3>3. exec' \in [Gen -> States]
        BY <3>1 DEF Typed, States
      <3> QED BY <1>3, <3>1, <3>2, <3>3 DEF PackageInBatch, Typed, Refill, Short
    <2>3. CASE ~Packable(chunks[g])
      BY <1>3, <2>3 DEF PackageInBatch, Typed, States
    <2> QED BY <2>2, <2>3
  <1>4. CASE ExecutionFails(g)
    BY <1>4 DEF ExecutionFails, s3, Typed, States
  <1> QED BY <1>1, <1>2, <1>3, <1>4 DEF Execution

(* A sidecar is written, or is missing and that is known.                  *)
LEMMA WriteRemote ==
  ASSUME Typed, NEW g \in Gen, NEW want \in Nat, WriteSidecar("remote", g, want)
  PROVE  /\ tmp' \in Dir /\ tmp'.made /\ tmp'.files = tmp.files /\ tmp'.pending = tmp.pending
         /\ excuse' \in {excuse, excuse \cup {"unwritten"}}
         /\ \/ tmp'.remote = [gen |-> g, want |-> want, gone |-> "no"]
            \/ tmp'.remote = tmp.remote /\ "unwritten" \in excuse'
  <1> DEFINE side == [gen |-> g, want |-> want, gone |-> "no"]
  <1>1. side \in Side
    BY Sizes DEF Side
  <1>2. tmp \in Dir
    BY DEF Typed
  <1>3. CASE tmp' = [tmp EXCEPT !.made = TRUE, !["remote"] = side] /\ UNCHANGED excuse
    <2> HIDE DEF side
    <2>1. tmp' = [tmp EXCEPT !.made = TRUE, !.remote = side]
      BY <1>3
    <2> QED BY <1>1, <1>2, <1>3, <2>1 DEF Dir, side
  <1>4. CASE tmp' = [tmp EXCEPT !.made = TRUE] /\ excuse' = excuse \cup {"unwritten"}
    BY <1>2, <1>4 DEF Dir
  <1> QED BY <1>3, <1>4 DEF WriteSidecar

LEMMA WritePending ==
  ASSUME Typed, NEW g \in Gen, NEW want \in Nat, WriteSidecar("pending", g, want)
  PROVE  /\ tmp' \in Dir /\ tmp'.made /\ tmp'.files = tmp.files /\ tmp'.remote = tmp.remote
         /\ excuse' \in {excuse, excuse \cup {"unwritten"}}
         /\ \/ tmp'.pending = [gen |-> g, want |-> want, gone |-> "no"]
            \/ tmp'.pending = tmp.pending /\ "unwritten" \in excuse'
  <1> DEFINE side == [gen |-> g, want |-> want, gone |-> "no"]
  <1>1. side \in Side
    BY Sizes DEF Side
  <1>2. tmp \in Dir
    BY DEF Typed
  <1>3. CASE tmp' = [tmp EXCEPT !.made = TRUE, !["pending"] = side] /\ UNCHANGED excuse
    <2> HIDE DEF side
    <2>1. tmp' = [tmp EXCEPT !.made = TRUE, !.pending = side]
      BY <1>3
    <2> QED BY <1>1, <1>2, <1>3, <2>1 DEF Dir, side
  <1>4. CASE tmp' = [tmp EXCEPT !.made = TRUE] /\ excuse' = excuse \cup {"unwritten"}
    BY <1>2, <1>4 DEF Dir
  <1> QED BY <1>3, <1>4 DEF WriteSidecar

(* A delivery over a directory.                                            *)
LEMMA PlaceTyped ==
  ASSUME Typed, NEW g \in Gen, Place(g)
  PROVE  /\ live' \in Dir
         /\ ~tmp.made => live' = live
         /\ tmp.made =>
              /\ live'.made
              /\ \A p \in Piece : live'.files[p] = IF tmp.files[p] # NoGen THEN tmp.files[p] ELSE live.files[p]
              /\ live'.remote = IF tmp.remote # NoSide THEN tmp.remote ELSE live.remote
              /\ live'.pending = IF tmp.pending # NoSide THEN tmp.pending ELSE live.pending
  <1>1. tmp \in Dir /\ live \in Dir
    BY DEF Typed
  <1>2. CASE tmp.made
    <2>1. live' = [made |-> TRUE,
                   files |-> [p \in Piece |-> IF tmp.files[p] # NoGen THEN tmp.files[p]
                                              ELSE live.files[p]],
                   remote |-> IF tmp.remote # NoSide THEN tmp.remote ELSE live.remote,
                   pending |-> IF tmp.pending # NoSide THEN tmp.pending ELSE live.pending]
      BY <1>2 DEF Place
    <2> DEFINE f == [p \in Piece |-> IF tmp.files[p] # NoGen THEN tmp.files[p] ELSE live.files[p]]
               r == IF tmp.remote # NoSide THEN tmp.remote ELSE live.remote
               q == IF tmp.pending # NoSide THEN tmp.pending ELSE live.pending
    <2>2. f \in [Piece -> 0 .. MaxGen]
      BY <1>1 DEF Dir
    <2>3. r \in Side /\ q \in Side
      BY <1>1 DEF Dir
    <2>4. live' = [made |-> TRUE, files |-> f, remote |-> r, pending |-> q]
      BY <2>1
    <2>5. \A p \in Piece : f[p] = IF tmp.files[p] # NoGen THEN tmp.files[p] ELSE live.files[p]
      OBVIOUS
    <2> HIDE DEF f
    <2>6. live'.made /\ live'.files = f /\ live'.remote = r /\ live'.pending = q /\ live' \in Dir
      BY <2>2, <2>3, <2>4 DEF Dir
    <2> QED BY <1>2, <2>5, <2>6
  <1>3. CASE ~tmp.made
    BY <1>1, <1>3 DEF Place
  <1> QED BY <1>2, <1>3

LEMMA PollTyped ==
  ASSUME Typed, NEW g \in Gen, Poll(g)
  PROVE  Typed'
  <1> USE DEF Typed
  <1>1. CASE PollFails(g)
    BY <1>1, Nulls DEF PollFails, FailJob, s3, Places
  <1>2. CASE PollSucceeds(g)
    BY <1>2 DEF PollSucceeds, Step, s3, Places
  <1>3. CASE DeferPackaging(g)
    <2>1. WriteSidecar("pending", g, 0) /\ 0 \in Nat
      BY <1>3 DEF DeferPackaging
    <2>2. tmp' \in Dir /\ excuse' \in {excuse, excuse \cup {"unwritten"}}
      BY <2>1, WritePending
    <2> QED BY <1>3, <2>2 DEF DeferPackaging, Step, s3, Places
  <1>4. CASE PackageOnHost(g)
    <2>1. CASE Packable(chunks[g])
      <3> DEFINE f == Set(NoDir.files, {0} \cup chunks[g], g)
      <3>1. f \in [Piece -> 0 .. MaxGen]
        BY Sizes, Nulls DEF Set, Dir
      <3>2. tmp' = [NoDir EXCEPT !.made = TRUE, !.files = f]
        BY <1>4, <2>1 DEF PackageOnHost
      <3> HIDE DEF f
      <3>3. tmp' \in Dir
        BY <3>1, <3>2, Nulls DEF Dir
      <3> QED BY <1>4, <2>1, <3>3 DEF PackageOnHost, s3, Places, Short
    <2>2. CASE ~Packable(chunks[g])
      BY <1>4, <2>2, Nulls DEF PackageOnHost, FailJob, s3, Places
    <2> QED BY <2>1, <2>2
  <1>5. CASE ListOutputs(g)
    <2>1. todo' \in [get : SUBSET Piece, leave : Nat]
      BY <1>5, LeftTyped DEF ListOutputs
    <2> QED BY <1>5, <2>1 DEF ListOutputs, Step, s3, Places
  <1>6. CASE GetOutput(g)
    <2>1. PICK p \in First(todo.get) :
            IF p \in staged[g]
            THEN /\ tmp' = [tmp EXCEPT !.made = TRUE, !.files[p] = g]
                 /\ todo' = [todo EXCEPT !.get = @ \ {p}]
                 /\ UNCHANGED job
            ELSE FailJob(g)
      BY <1>6 DEF GetOutput
    <2>2. p \in Piece /\ g \in 0 .. MaxGen
      BY Sizes DEF First
    <2>3. CASE p \in staged[g]
      <3>0. tmp \in Dir
        OBVIOUS
      <3>1. tmp' \in Dir
        <4>1. tmp' = [tmp EXCEPT !.made = TRUE, !.files[p] = g]
          BY <2>1, <2>3
        <4> QED BY <2>2, <3>0, <4>1, DirPut
      <3> QED BY <1>6, <2>1, <2>3, <3>1 DEF GetOutput, s3
    <2>4. CASE p \notin staged[g]
      BY <1>6, <2>1, <2>4, Nulls DEF GetOutput, FailJob, s3, Places
    <2> QED BY <2>3, <2>4
  <1>7. CASE LeaveInS3(g)
    <2>1. CASE todo.leave > 0
      <3>1. todo.leave \in Nat /\ WriteSidecar("remote", g, todo.leave)
        BY <1>7, <2>1 DEF LeaveInS3
      <3>2. tmp' \in Dir /\ excuse' \in {excuse, excuse \cup {"unwritten"}}
        BY <3>1, WriteRemote
      <3> QED BY <1>7, <3>2 DEF LeaveInS3, Step, s3, Places
    <2>2. CASE ~(todo.leave > 0)
      BY <1>7, <2>2 DEF LeaveInS3, Step, s3, Places
    <2> QED BY <2>1, <2>2
  <1>8. CASE Archive(g)
    BY <1>8, Nulls DEF Archive, Step, s3, Places
  <1>9. CASE Place(g)
    <2>1. live' \in Dir
      BY <1>9, PlaceTyped
    <2> QED BY <1>9, <2>1, Nulls DEF Place, Step, s3, Places
  <1> QED BY <1>1, <1>2, <1>3, <1>4, <1>5, <1>6, <1>7, <1>8, <1>9 DEF Poll

LEMMA FetchTyped ==
  ASSUME Typed, Sides, Fetch
  PROVE  Typed'
  <1> USE DEF Typed
  <1>0. live \in Dir /\ live.remote \in Side /\ fetch.gen \in 0 .. MaxGen /\ fetch.want \in Nat
    BY DEF Dir, Process
  <1>1. CASE FetchOutput
    BY <1>1, Nulls DEF FetchOutput, poll, s3, Process
  <1>2. CASE FetchReads
    <2>1. fetch' \in Process({"idle", "start", "list", "get"})
      <3>1. CASE live.remote = NoSide \/ live.remote.gone # "no"
        BY <1>2, <3>1, Nulls DEF FetchReads
      <3>2. CASE ~(live.remote = NoSide \/ live.remote.gone # "no")
        <4>1. fetch' = [Idle EXCEPT !.pc = "list", !.gen = live.remote.gen, !.want = live.remote.want]
          BY <1>2, <3>2 DEF FetchReads
        <4>2. live.remote.gen \in 0 .. MaxGen /\ live.remote.want \in Nat
          BY <1>0 DEF Side
        <4> QED BY <4>1, <4>2 DEF Idle, Process
      <3> QED BY <3>1, <3>2
    <2> QED BY <1>2, <2>1 DEF FetchReads, poll, s3
  <1>3. CASE FetchLists
    <2>1. excuse' \subseteq {"refilled", "swept", "unwritten", "overlap", "killed"}
      BY <1>3 DEF FetchLists, Short
    <2>2. CASE staged[fetch.gen] = {}
      <3> DEFINE side == [gen |-> fetch.gen, want |-> fetch.want, gone |-> "no"]
                 new == IF Complete(fetch.want) THEN NoSide
                        ELSE IF live.made THEN Gone(side, "fetch") ELSE live.remote
      <3>1. fetch' = Idle /\ live' = [live EXCEPT !.remote = new]
        BY <1>3, <2>2 DEF FetchLists
      <3>2. side \in Side
        BY <1>0 DEF Side
      <3>3. Gone(side, "fetch") \in Side
        BY <3>2, SideGone
      <3>4. new \in Side
        BY <1>0, <3>3, Nulls
      <3> HIDE DEF new
      <3>5. live' \in Dir
        BY <1>0, <3>1, <3>4 DEF Dir
      <3> QED BY <1>3, <2>1, <3>1, <3>5, Nulls DEF FetchLists, poll, s3
    <2>3. CASE staged[fetch.gen] # {}
      <3> DEFINE rest == {p \in staged[fetch.gen] : live.files[p] # fetch.gen}
      <3>1. fetch' = [fetch EXCEPT !.pc = "get", !.todo = rest] /\ live' = live
        BY <1>3, <2>3 DEF FetchLists
      <3>2. rest \subseteq Piece
        <4>1. fetch.gen \in Gen => staged[fetch.gen] \subseteq Piece
          OBVIOUS
        <4>2. fetch.gen \in Gen
          BY <1>3, <1>0, Sizes DEF FetchLists, Sides, FetchSide, Gen, NoGen
        <4> QED BY <4>1, <4>2
      <3> HIDE DEF rest
      <3>3. fetch' \in Process({"idle", "start", "list", "get"})
        BY <3>1, <3>2 DEF Process
      <3> QED BY <1>3, <2>1, <3>1, <3>3 DEF FetchLists, poll, s3
    <2> QED BY <2>2, <2>3
  <1>4. CASE FetchGets
    <2>0. PICK p \in First(fetch.todo) :
            /\ fetch' = [fetch EXCEPT !.todo = @ \ {p}, !.ok = @ /\ p \in staged[fetch.gen]]
            /\ live' = IF p \in staged[fetch.gen]
                       THEN [live EXCEPT !.made = TRUE, !.files[p] = fetch.gen]
                       ELSE live
      BY <1>4 DEF FetchGets
    <2>1. p \in Piece
      BY DEF First, Process
    <2>2. fetch' \in Process({"idle", "start", "list", "get"})
      <3> DEFINE ok == fetch.ok /\ p \in staged[fetch.gen]
      <3>1. fetch' = [fetch EXCEPT !.todo = @ \ {p}, !.ok = ok] /\ ok \in BOOLEAN
        BY <2>0 DEF Process
      <3> HIDE DEF ok
      <3> QED BY <3>1 DEF Process
    <2>3. live' \in Dir
      <3>1. [live EXCEPT !.made = TRUE, !.files[p] = fetch.gen] \in Dir
        BY <1>0, <2>1, DirPut
      <3> QED BY <1>0, <2>0, <3>1
    <2> QED BY <1>4, <2>2, <2>3 DEF FetchGets, poll, s3
  <1>5. CASE FetchEnds
    <2>1. live' \in Dir
      <3>1. [live EXCEPT !.remote = NoSide] \in Dir
        BY <1>0, Nulls DEF Dir
      <3> QED BY <1>0, <1>5, <3>1 DEF FetchEnds
    <2> QED BY <1>5, <2>1, Nulls DEF FetchEnds, poll, s3
  <1> QED BY <1>1, <1>2, <1>3, <1>4, <1>5 DEF Fetch

LEMMA PackageTyped ==
  ASSUME Typed, Sides, Package
  PROVE  Typed'
  <1> USE DEF Typed
  <1> DEFINE Procs == Process({"idle", "start", "gone", "build", "move"})
  <1>0. live \in Dir /\ live.pending \in Side /\ pack.gen \in 0 .. MaxGen /\ pack \in Procs
    BY DEF Dir, Process
  <1>1. CASE PackageOutput
    BY <1>1, Nulls DEF PackageOutput, poll, s3, Process
  <1>2. CASE PackageReads
    <2>1. pack' \in Procs
      <3>1. CASE live.pending = NoSide \/ live.pending.gone # "no"
        BY <1>2, <3>1, Nulls DEF PackageReads
      <3>2. CASE ~(live.pending = NoSide \/ live.pending.gone # "no")
        <4> DEFINE to == IF chunks[live.pending.gen] = {} THEN "gone" ELSE "build"
        <4>1. pack' = [Idle EXCEPT !.pc = to, !.gen = live.pending.gen]
          BY <1>2, <3>2 DEF PackageReads
        <4>2. live.pending.gen \in 0 .. MaxGen /\ to \in {"gone", "build"}
          BY <1>0 DEF Side
        <4> HIDE DEF to
        <4> QED BY <4>1, <4>2 DEF Idle, Process
      <3> QED BY <3>1, <3>2
    <2> QED BY <1>2, <2>1 DEF PackageReads, poll, s3
  <1>3. CASE MarkPendingGone
    <2>1. live' \in Dir
      <3>1. Gone(live.pending, "package") \in Side
        BY <1>0, SideGone
      <3>2. [live EXCEPT !.pending = Gone(live.pending, "package")] \in Dir
        BY <1>0, <3>1 DEF Dir
      <3>3. live' \in {live, [live EXCEPT !.pending = Gone(live.pending, "package")]}
        BY <1>3 DEF MarkPendingGone
      <3> QED BY <1>0, <3>2, <3>3
    <2> QED BY <1>3, <2>1, Nulls DEF MarkPendingGone, poll, s3
  <1>4. CASE PackageBuilds
    <2>1. pack.gen \in Gen
      BY <1>4, <1>0, Sizes DEF PackageBuilds, Sides, PackSide, Gen, NoGen
    <2>2. {0} \cup chunks[pack.gen] \subseteq Piece
      BY <2>1, Sizes
    <2>3. pack' \in Procs
      <3>1. pack' \in {Idle, [pack EXCEPT !.pc = "move", !.todo = {0} \cup chunks[pack.gen]]}
        BY <1>4 DEF PackageBuilds
      <3>2. [pack EXCEPT !.pc = "move", !.todo = {0} \cup chunks[pack.gen]] \in Procs
        BY <1>0, <2>2 DEF Process
      <3> QED BY <3>1, <3>2, Nulls
    <2>4. excuse' \subseteq {"refilled", "swept", "unwritten", "overlap", "killed"}
      BY <1>4 DEF PackageBuilds, Short
    <2> QED BY <1>4, <2>3, <2>4 DEF PackageBuilds, poll, s3
  <1>5. CASE PackageMoves
    <2>1. PICK p \in First(pack.todo) :
            IF live.made
            THEN /\ live' = [live EXCEPT !.files[p] = pack.gen]
                 /\ pack' = [pack EXCEPT !.todo = @ \ {p}]
            ELSE pack' = Idle /\ UNCHANGED live
      BY <1>5 DEF PackageMoves
    <2>2. p \in Piece
      BY DEF First, Process
    <2>3. live' \in Dir
      <3>1. [live EXCEPT !.files[p] = pack.gen] \in Dir
        BY <1>0, <2>2, DirPut
      <3> QED BY <1>0, <2>1, <3>1
    <2>4. pack' \in Procs
      <3>1. [pack EXCEPT !.todo = @ \ {p}] \in Procs
        BY <1>0 DEF Process
      <3> QED BY <2>1, <3>1, Nulls
    <2> QED BY <1>5, <2>3, <2>4 DEF PackageMoves, poll, s3
  <1>6. CASE PackageEnds
    <2>1. live' \in Dir
      <3>1. [live EXCEPT !.pending = NoSide] \in Dir
        BY <1>0, Nulls DEF Dir
      <3> QED BY <1>6, <3>1 DEF PackageEnds
    <2> QED BY <1>6, <2>1, Nulls DEF PackageEnds, poll, s3
  <1> QED BY <1>1, <1>2, <1>3, <1>4, <1>5, <1>6 DEF Package

(* What of a prefix, or of several, there is to delete.                    *)
LEMMA ObjectsOf ==
  ASSUME Typed, NEW scope \in SUBSET Gen
  PROVE  /\ Objects(scope) \subseteq Object
         /\ \A g \in scope : /\ \A p \in chunks[g] : <<g, "chunks", p>> \in Objects(scope)
                             /\ \A p \in staged[g] : <<g, "staged", p>> \in Objects(scope)
  <1>1. \A g \in scope : chunks[g] \subseteq Piece /\ staged[g] \subseteq Piece
    BY Sizes DEF Typed
  <1> DEFINE Of1(g) == ({g} \X {"chunks"} \X chunks[g]) \cup ({g} \X {"staged"} \X staged[g])
  <1>2. Objects(scope) = UNION {Of1(g) : g \in scope}
    BY DEF Objects
  <1>3. \A g \in scope : Of1(g) \subseteq Object
    BY <1>1 DEF Object
  <1>4. \A g \in scope : /\ \A p \in chunks[g] : <<g, "chunks", p>> \in Of1(g)
                         /\ \A p \in staged[g] : <<g, "staged", p>> \in Of1(g)
    OBVIOUS
  <1> HIDE DEF Of1
  <1> QED BY <1>2, <1>3, <1>4

LEMMA SweepTyped ==
  ASSUME Typed, Sweep
  PROVE  Typed'
  <1> USE DEF Typed
  <1> DEFINE Sweeps == [pc : {"idle", "delete", "mark", "write"}, scope : SUBSET Gen,
                        todo : SUBSET Object, any : BOOLEAN, ok : BOOLEAN, seen : Side]
  <1>0. live \in Dir /\ live.remote \in Side /\ sweep \in Sweeps /\ sweep.seen \in Side
    BY DEF Dir
  <1>1. CASE SweepStarts
    <2>1. PICK scope \in Scopes :
            sweep' = [NoSweep EXCEPT !.pc = "delete", !.scope = scope, !.todo = Objects(scope),
                                     !.any = Objects(scope) # {}]
      BY <1>1 DEF SweepStarts
    <2>2. scope \in SUBSET Gen
      BY DEF Scopes
    <2>3. Objects(scope) \subseteq Object
      BY <2>2, ObjectsOf
    <2>4. sweep' \in Sweeps
      <3> DEFINE any == Objects(scope) # {}
      <3>1. any \in BOOLEAN /\ sweep' = [NoSweep EXCEPT !.pc = "delete", !.scope = scope,
                                                 !.todo = Objects(scope), !.any = any]
        BY <2>1
      <3> HIDE DEF any
      <3> QED BY <2>2, <2>3, <3>1, Nulls DEF NoSweep
    <2> QED BY <1>1, <2>4 DEF SweepStarts, poll, s3
  <1>2. CASE SweepDeletes
    <2>1. PICK o \in sweep.todo :
            \/ /\ chunks' = IF o[2] = "chunks" THEN [chunks EXCEPT ![o[1]] = @ \ {o[3]}] ELSE chunks
               /\ staged' = IF o[2] = "staged" THEN [staged EXCEPT ![o[1]] = @ \ {o[3]}] ELSE staged
               /\ sweep' = [sweep EXCEPT !.todo = @ \ {o}]
            \/ /\ sweep' = [sweep EXCEPT !.todo = @ \ {o}, !.ok = FALSE]
               /\ UNCHANGED s3
      BY <1>2 DEF SweepDeletes
    <2>2. sweep' \in Sweeps
      <3>1. [sweep EXCEPT !.todo = @ \ {o}] \in Sweeps /\ [sweep EXCEPT !.todo = @ \ {o}, !.ok = FALSE] \in Sweeps
        BY <1>0
      <3> QED BY <2>1, <3>1
    <2>3. o[1] \in Gen
      BY DEF Object
    <2>4. chunks' \in [Gen -> SUBSET Media] /\ staged' \in [Gen -> SUBSET Piece]
      BY <2>1, <2>3 DEF s3
    <2> QED BY <1>2, <2>2, <2>4 DEF SweepDeletes, poll
  <1>3. CASE SweepReports
    <2>1. sweep' \in Sweeps
      <3>1. [sweep EXCEPT !.pc = "mark"] \in Sweeps
        BY <1>0
      <3>2. sweep' \in {NoSweep, [sweep EXCEPT !.pc = "mark"]}
        BY <1>3 DEF SweepReports
      <3> QED BY <3>1, <3>2, Nulls
    <2> QED BY <1>3, <2>1 DEF SweepReports, poll, s3
  <1>4. CASE MarkReads
    <2>1. sweep' \in Sweeps
      <3>1. [sweep EXCEPT !.pc = "write", !.seen = live.remote] \in Sweeps
        BY <1>0
      <3>2. sweep' \in {NoSweep, [sweep EXCEPT !.pc = "write", !.seen = live.remote]}
        BY <1>4 DEF MarkReads
      <3> QED BY <3>1, <3>2, Nulls
    <2> QED BY <1>4, <2>1 DEF MarkReads, poll, s3
  <1>5. CASE MarkWrites
    <2>1. live' \in Dir
      <3>1. Gone(sweep.seen, "clear") \in Side
        BY <1>0, SideGone
      <3>2. [live EXCEPT !.remote = Gone(sweep.seen, "clear")] \in Dir
        BY <1>0, <3>1 DEF Dir
      <3>3. live' \in {live, [live EXCEPT !.remote = Gone(sweep.seen, "clear")]}
        BY <1>5 DEF MarkWrites
      <3> QED BY <1>0, <3>2, <3>3
    <2> QED BY <1>5, <2>1, Nulls DEF MarkWrites, poll, s3
  <1> QED BY <1>1, <1>2, <1>3, <1>4, <1>5 DEF Sweep

LEMMA RestTyped ==
  ASSUME Typed, Restart \/ (\E g \in Gen : Expire(g)) \/ UNCHANGED vars
  PROVE  Typed'
  <1>1. CASE Restart
    <2>1. job' \in [Gen -> Places]
      BY <1>1 DEF Restart, Typed, Places
    <2> QED BY <1>1, <2>1, Nulls DEF Restart, s3, Typed
  <1>2. ASSUME NEW g \in Gen, Expire(g) PROVE Typed'
    <2>1. chunks' \in [Gen -> SUBSET Media] /\ staged' \in [Gen -> SUBSET Piece]
      BY <1>2 DEF Expire, Typed
    <2> QED BY <1>2, <2>1 DEF Expire, poll, Typed
  <1>3. CASE UNCHANGED vars
    BY <1>3 DEF vars, Typed
  <1> QED BY <1>1, <1>2, <1>3

LEMMA NextTyped ==
  ASSUME Typed, Sides, [Next]_vars
  PROVE  Typed'
  BY ExecutionTyped, PollTyped, FetchTyped, PackageTyped, SweepTyped, RestTyped DEF Next

-----------------------------------------------------------------------------
(* Deliveries.                                                             *)
LEMMA NothingStaged ==
  /\ NoSide.gen = NoGen /\ NoSide.want = 0 /\ NoSide.gone = "no"
  /\ NoDir.made = FALSE /\ NoDir.remote = NoSide /\ NoDir.pending = NoSide
  /\ \A p \in Piece : NoDir.files[p] = NoGen
  BY DEF NoSide, NoDir

LEMMA InitDelivery == Init => DeliveryInv
  BY NothingStaged DEF Init, DeliveryInv, OneJob, Ran, ByMode, Staging, Active

(* No step of a job in hand.                                               *)
LEMMA StagingFrame ==
  ASSUME DeliveryInv, UNCHANGED <<mode, job, todo, tmp>>, excuse \subseteq excuse',
         Ran', \A g \in Gen : ByMode(g)'
  PROVE  DeliveryInv'
  <1>1. OneJob' /\ Staging'
    BY DEF DeliveryInv, OneJob, Staging, Active, Own
  <1>2. ASSUME Clean', NEW g \in Gen, Active(g)' PROVE Collected(g)'
    <2>1. Clean /\ Active(g)
      BY <1>2 DEF Clean, Active
    <2> QED BY <2>1 DEF DeliveryInv, Collected
  <1> QED BY <1>1, <1>2 DEF DeliveryInv

LEMMA DeliveryFrame ==
  ASSUME DeliveryInv, UNCHANGED <<mode, exec, job, todo, tmp>>, excuse \subseteq excuse',
         \A g \in Gen : staged'[g] \subseteq staged[g]
  PROVE  DeliveryInv'
  <1>1. Ran'
    BY DEF DeliveryInv, Ran
  <1>2. \A g \in Gen : ByMode(g)'
    BY DEF DeliveryInv, ByMode, Active
  <1> QED BY <1>1, <1>2, StagingFrame

(* A step of the one job in hand.                                          *)
LEMMA JobFrame ==
  ASSUME DeliveryInv, NEW g \in Gen, excuse \subseteq excuse',
         \A h \in Gen \ {g} : /\ ~Active(h) /\ job'[h] = job[h] /\ mode'[h] = mode[h]
                              /\ exec'[h] = exec[h] /\ staged'[h] = staged[h],
         job'[g] \notin {"new", "poll", "failed"} => exec'[g] = "succeeded",
         ByMode(g)', Active(g)' => Own(g)', ~Active(g)' => tmp' = NoDir,
         Clean' /\ Active(g)' => Collected(g)'
  PROVE  DeliveryInv'
  <1>1. \A h \in Gen \ {g} : ~Active(h)'
    BY DEF Active
  <1>2. OneJob' /\ Staging' /\ (Clean' => \A h \in Gen : Active(h)' => Collected(h)')
    BY <1>1 DEF OneJob, Staging
  <1>3. Ran'
    BY DEF DeliveryInv, Ran
  <1>4. ASSUME NEW h \in Gen \ {g} PROVE ByMode(h)'
    <2>1. ByMode(h) /\ ~Active(h) /\ ~Active(h)'
      BY <1>1 DEF DeliveryInv
    <2>2. job'[h] = job[h] /\ mode'[h] = mode[h] /\ exec'[h] = exec[h] /\ staged'[h] = staged[h]
      OBVIOUS
    <2> QED BY <2>1, <2>2 DEF ByMode, Active
  <1> QED BY <1>2, <1>3, <1>4 DEF DeliveryInv

LEMMA ExecutionDelivery ==
  ASSUME Typed, DeliveryInv, NEW g \in Gen, Execution(g)
  PROVE  DeliveryInv'
  <1>0. ByMode(g) /\ Ran /\ Staging /\ \A h \in Gen : ByMode(h)
    BY DEF DeliveryInv
  <1>1. CASE Submit(g)
    <2>1. \A h \in Gen \ {g} : ~Active(h)
      <3>1. ASSUME NEW h \in Gen \ {g} PROVE ~Active(h)
        <4>1. h \in Int /\ g \in Int /\ (h < g \/ h > g)
          BY Sizes DEF Gen
        <4> QED BY <1>1, <4>1 DEF Submit, Over, Active
      <3> QED BY <3>1
    <2>2. /\ job[g] \in {"new", "failed"}
          /\ job' = [job EXCEPT ![g] = "poll"] /\ exec' = [exec EXCEPT ![g] = "running"]
          /\ UNCHANGED <<s3, todo, tmp, excuse>>
      BY <1>1 DEF Submit
    <2>3. PICK m \in Mode : (job[g] = "failed" => m = mode[g]) /\ mode' = [mode EXCEPT ![g] = m]
      BY <1>1 DEF Submit
    <2>4. m \in {"full", "manifests", "host", "defer"}
      BY OutputAssumption
    <2>5. job'[g] = "poll" /\ exec'[g] = "running" /\ mode'[g] = m /\ staged' = staged
      BY <2>2, <2>3 DEF Typed, s3
    <2>6. \A h \in Gen \ {g} : job'[h] = job[h] /\ mode'[h] = mode[h] /\ exec'[h] = exec[h]
      BY <2>2, <2>3 DEF Typed
    <2>7. tmp = NoDir /\ tmp' = NoDir
      <3>1. \A h \in Gen : ~Active(h)
        BY <2>1, <2>2 DEF Active
      <3> QED BY <1>0, <2>2, <3>1 DEF Staging
    <2>8. ByMode(g)'
      <3>1. m \in {"host", "defer"} => staged[g] = {}
        BY <1>0, <2>2, <2>3 DEF ByMode
      <3> QED BY <2>4, <2>5, <3>1 DEF ByMode, Active
    <2>9. Own(g)' /\ Collected(g)' /\ Active(g)'
      BY <2>5, <2>7, NothingStaged DEF Own, Collected, Active
    <2> QED BY <2>1, <2>2, <2>5, <2>6, <2>8, <2>9, JobFrame
  <1>2. ASSUME exec[g] \in {"running", "encoded"}, UNCHANGED <<mode, job, todo, tmp>>, excuse \subseteq excuse',
               NEW e \in States, exec' = [exec EXCEPT ![g] = e], e \in {"encoded", "succeeded", "failed"},
               \A h \in Gen \ {g} : staged'[h] = staged[h],
               mode[g] \in {"host", "defer"} => staged'[g] = {} /\ e # "encoded"
        PROVE  DeliveryInv'
    <2>1. Ran'
      BY <1>0, <1>2 DEF Ran, Typed
    <2>2. ASSUME NEW h \in Gen PROVE ByMode(h)'
      <3>1. CASE h = g
        BY <1>0, <1>2, <3>1 DEF ByMode, Active, Typed
      <3>2. CASE h # g
        <4>1. exec'[h] = exec[h] /\ staged'[h] = staged[h] /\ ByMode(h)
          BY <1>0, <1>2, <3>2 DEF Typed
        <4> QED BY <1>2, <4>1 DEF ByMode, Active
      <3> QED BY <3>1, <3>2
    <2> QED BY <1>2, <2>1, <2>2, StagingFrame
  <1>3. CASE Encode(g)
    <2> DEFINE e == IF mode[g] \in {"host", "defer"} THEN "succeeded" ELSE "encoded"
    <2>1. /\ exec[g] = "running" /\ UNCHANGED <<mode, job, staged, todo, tmp>> /\ excuse \subseteq excuse'
          /\ exec' = [exec EXCEPT ![g] = e]
      BY <1>3 DEF Encode
    <2>2. e \in {"encoded", "succeeded", "failed"} /\ e \in States
      BY DEF States
    <2>3. mode[g] \in {"host", "defer"} => staged'[g] = {} /\ e # "encoded"
      BY <1>0, <2>1 DEF ByMode
    <2> HIDE DEF e
    <2> QED BY <1>2, <2>1, <2>2, <2>3
  <1>4. CASE PackageInBatch(g)
    <2>1. exec[g] = "encoded" /\ UNCHANGED <<mode, job, todo, tmp>> /\ mode[g] \notin {"host", "defer"}
      BY <1>0, <1>4 DEF PackageInBatch, ByMode
    <2>2. excuse \subseteq excuse' /\ \A h \in Gen \ {g} : staged'[h] = staged[h]
      BY <1>4 DEF PackageInBatch, Typed
    <2>3. \E e \in {"succeeded", "failed"} : exec' = [exec EXCEPT ![g] = e]
      BY <1>4 DEF PackageInBatch
    <2> QED BY <1>2, <2>1, <2>2, <2>3 DEF States
  <1>5. CASE ExecutionFails(g)
    <2>1. /\ exec[g] \in {"running", "encoded"} /\ UNCHANGED <<mode, job, staged, todo, tmp, excuse>>
          /\ exec' = [exec EXCEPT ![g] = "failed"] /\ "failed" \in States
      BY <1>5 DEF ExecutionFails, s3, States
    <2>2. mode[g] \in {"host", "defer"} => staged'[g] = {}
      BY <1>0, <2>1 DEF ByMode
    <2> QED BY <1>2, <2>1, <2>2
  <1> QED BY <1>1, <1>3, <1>4, <1>5 DEF Execution

LEMMA AllMedia == IsFiniteSet(Media) /\ Cardinality(Media) = MaxMedia
  BY Sizes, FS_Interval DEF Media

LEMMA PollDelivery ==
  ASSUME Typed, DeliveryInv, NEW g \in Gen, Poll(g)
  PROVE  DeliveryInv'
  <1>0. ByMode(g) /\ Ran /\ Staging /\ OneJob /\ (Clean /\ Active(g) => Collected(g))
    BY DEF DeliveryInv
  <1>1. Active(g) /\ excuse \subseteq excuse' /\ staged' = staged /\ exec' = exec
    <2>1. Active(g)
      BY DEF Poll, PollFails, PollSucceeds, DeferPackaging, PackageOnHost, ListOutputs, GetOutput,
             LeaveInS3, Archive, Place, Step, Active
    <2>2. excuse \subseteq excuse'
      BY DEF Poll, PollFails, PollSucceeds, DeferPackaging, PackageOnHost, ListOutputs, GetOutput,
             LeaveInS3, Archive, Place, WriteSidecar
    <2>3. staged' = staged /\ exec' = exec
      BY DEF Poll, PollFails, PollSucceeds, DeferPackaging, PackageOnHost, ListOutputs, GetOutput,
             LeaveInS3, Archive, Place, s3
    <2> QED BY <2>1, <2>2, <2>3
  <1>2. Own(g) /\ mode[g] \in {"full", "manifests", "host", "defer"} /\ \A h \in Gen \ {g} : ~Active(h)
    BY <1>0, <1>1 DEF Staging, ByMode, OneJob, Typed
  <1>3. (job[g] \notin {"new", "poll", "failed"} => exec[g] = "succeeded")
        /\ (Clean' => Clean) /\ tmp \in Dir /\ tmp.files \in [Piece -> 0 .. MaxGen] /\ g # NoGen
        /\ g \in 0 .. MaxGen
    BY <1>0, <1>1, Sizes DEF Ran, Clean, Typed, Dir
  (* What has to be shown of a step that changes the place of g.           *)
  <1>4. ASSUME NEW to \in Places, job' = [job EXCEPT ![g] = to], mode' = mode,
               to \notin {"new", "poll", "failed"} => exec[g] = "succeeded",
               to \notin {"new", "done", "failed"} =>
                 ByMode(g)' /\ Own(g)' /\ (Clean' => Collected(g)'),
               to \in {"failed"} => tmp' = NoDir, to \notin {"new", "done"}
        PROVE  DeliveryInv'
    <2>1. job'[g] = to /\ \A h \in Gen \ {g} : job'[h] = job[h]
      BY <1>4 DEF Typed
    <2>2. to = "failed" => ByMode(g)'
      BY <1>0, <1>1, <1>4, <2>1 DEF ByMode, Active
    <2>3. Active(g)' <=> to \notin {"new", "done", "failed"}
      BY <2>1 DEF Active
    <2> QED BY <1>1, <1>2, <1>4, <2>1, <2>2, <2>3, JobFrame
  <1>5. CASE FailJob(g) /\ UNCHANGED <<mode, exec>>
    BY <1>4, <1>5 DEF FailJob, Places
  <1>6. CASE PollSucceeds(g)
    <2> DEFINE to == CASE mode[g] = "defer" -> "pending" [] mode[g] = "host" -> "package" [] OTHER -> "list"
    <2>1. /\ exec[g] = "succeeded" /\ job[g] = "poll" /\ job' = [job EXCEPT ![g] = to]
          /\ UNCHANGED <<mode, todo, tmp, excuse>>
      BY <1>6 DEF PollSucceeds, Step
    <2>2. /\ to \in {"pending", "package", "list"}
          /\ (to = "pending" <=> mode[g] = "defer") /\ (to = "package" <=> mode[g] = "host")
      OBVIOUS
    <2> HIDE DEF to
    <2>3. job'[g] = to
      BY <2>1 DEF Typed
    <2>4. ByMode(g)'
      BY <1>0, <1>1, <2>1, <2>2, <2>3 DEF ByMode, Active
    <2>5. Own(g)' /\ (Clean' => Collected(g)')
      BY <1>0, <1>1, <1>2, <1>3, <2>1, <2>2, <2>3 DEF Own, Collected
    <2> QED BY <1>4, <2>1, <2>2, <2>4, <2>5 DEF Places
  <1>7. CASE DeferPackaging(g)
    <2>1. /\ job[g] = "pending" /\ job' = [job EXCEPT ![g] = "archive"] /\ WriteSidecar("pending", g, 0)
          /\ UNCHANGED <<mode, todo>> /\ 0 \in Nat
      BY <1>7 DEF DeferPackaging, Step
    <2>2. /\ tmp' \in Dir /\ tmp'.made /\ tmp'.files = tmp.files /\ tmp'.remote = tmp.remote
          /\ \/ tmp'.pending = [gen |-> g, want |-> 0, gone |-> "no"]
             \/ tmp'.pending = tmp.pending /\ "unwritten" \in excuse'
      BY <2>1, WritePending
    <2>3. mode[g] = "defer" /\ job'[g] = "archive"
      BY <1>0, <2>1 DEF ByMode, Typed
    <2>4. ByMode(g)'
      BY <1>0, <1>1, <2>1, <2>3 DEF ByMode, Active
    <2>5. Own(g)'
      BY <1>2, <2>1, <2>2, <2>3 DEF Own
    <2>6. Clean' => Collected(g)'
      <3>1. SUFFICES ASSUME Clean' PROVE Collected(g)'
        OBVIOUS
      <3>2. tmp'.pending = [gen |-> g, want |-> 0, gone |-> "no"]
        BY <2>2, <3>1 DEF Clean
      <3>3. tmp'.pending # NoSide
        BY <1>3, <3>2 DEF NoSide
      <3> QED BY <1>0, <1>1, <1>3, <2>1, <2>2, <2>3, <3>1, <3>3 DEF Collected
    <2> QED BY <1>3, <1>4, <2>1, <2>4, <2>5, <2>6 DEF Places
  <1>8. CASE PackageOnHost(g) /\ Packable(chunks[g])
    <2>1. /\ job[g] = "package" /\ job' = [job EXCEPT ![g] = "list"]
          /\ tmp' = [NoDir EXCEPT !.made = TRUE, !.files = Set(@, {0} \cup chunks[g], g)]
          /\ excuse' = excuse \cup Short(chunks[g], Media) /\ UNCHANGED <<mode, todo>>
      BY <1>8 DEF PackageOnHost
    <2>2. mode[g] = "host" /\ job'[g] = "list"
      BY <1>0, <2>1 DEF ByMode, Typed
    <2> DEFINE f == Set(NoDir.files, {0} \cup chunks[g], g)
    <2>3. /\ tmp'.made /\ tmp'.files = f /\ tmp'.remote = NoSide /\ tmp'.pending = NoSide
          /\ \A p \in Piece : f[p] = IF p \in {0} \cup chunks[g] THEN g ELSE NoGen
      BY <2>1, NothingStaged DEF Set, NoDir
    <2> HIDE DEF f
    <2>4. ByMode(g)'
      BY <1>0, <1>1, <2>1, <2>2 DEF ByMode, Active
    <2>5. Own(g)'
      BY <2>1, <2>2, <2>3 DEF Own
    <2>6. Clean' => Collected(g)'
      <3>1. SUFFICES ASSUME Clean' PROVE Collected(g)'
        OBVIOUS
      <3>2. chunks[g] = Media
        BY <1>8, <2>1, <3>1 DEF Clean, Packable, Short
      <3>3. \A p \in Piece : f[p] = g
        BY <2>3, <3>2, Sizes
      <3> QED BY <2>1, <2>2, <2>3, <3>3 DEF Collected
    <2> QED BY <1>3, <1>4, <2>1, <2>4, <2>5, <2>6 DEF Places
  <1>9. CASE ListOutputs(g)
    <2> DEFINE to == IF staged[g] \ Left(g) = {} THEN "archive" ELSE "get"
    <2>1. /\ job[g] = "list" /\ job' = [job EXCEPT ![g] = to] /\ UNCHANGED <<mode, tmp>>
          /\ todo' = [get |-> staged[g] \ Left(g), leave |-> Cardinality(Left(g))]
          /\ excuse' = excuse \cup (IF mode[g] # "host" /\ staged[g] # Piece THEN {"swept"} ELSE {})
      BY <1>9 DEF ListOutputs, Step
    <2>2. /\ todo'.get = staged[g] \ Left(g) /\ todo'.leave = Cardinality(Left(g))
          /\ to \in {"archive", "get"} /\ (to = "get" => staged[g] # {})
      BY <2>1
    <2>3. to = "archive" => staged[g] \subseteq Left(g)
      OBVIOUS
    <2> HIDE DEF to
    <2>4. job'[g] = to /\ mode[g] # "defer"
      BY <1>0, <2>1 DEF ByMode, Typed
    <2>5. /\ mode[g] # "manifests" => Left(g) = {} /\ Cardinality(Left(g)) = 0
          /\ mode[g] = "manifests" => Left(g) = staged[g] \cap Media
      BY FS_EmptySet DEF Left
    <2>6. ByMode(g)'
      BY <1>0, <1>1, <1>2, <2>1, <2>2, <2>4, <2>5 DEF ByMode, Active
    <2>7. Own(g)'
      BY <1>2, <2>1 DEF Own
    <2>8. Clean' => Collected(g)'
      <3>1. SUFFICES ASSUME Clean' PROVE Collected(g)'
        OBVIOUS
      <3>2. mode[g] # "host" => staged[g] = Piece
        BY <2>1, <3>1 DEF Clean
      <3>3. Collected(g)
        BY <1>0, <1>1, <1>3, <3>1
      <3>4. mode[g] = "host" => to = "archive"
        BY <1>0, <2>2 DEF ByMode
      <3>5. mode[g] \in {"full", "manifests"} => to = "get"
        BY <2>2, <2>3, <2>5, <3>2, Sizes
      <3>6. mode[g] = "manifests" => 0 \in todo'.get /\ todo'.leave = MaxMedia
        <4>1. mode[g] = "manifests" => Left(g) = Media
          BY <2>5, <3>2, Sizes
        <4> QED BY <2>2, <3>2, <4>1, AllMedia, Sizes
      <3>7. mode[g] = "full" => Piece \ todo'.get = {}
        BY <2>2, <2>5, <3>2
      <3> QED BY <1>2, <2>1, <2>4, <3>3, <3>4, <3>5, <3>6, <3>7 DEF Collected
    <2> QED BY <1>3, <1>4, <2>1, <2>2, <2>6, <2>7, <2>8 DEF Places
  <1>10. CASE GetOutput(g)
    <2>1. PICK p \in First(todo.get) :
            IF p \in staged[g]
            THEN /\ tmp' = [tmp EXCEPT !.made = TRUE, !.files[p] = g]
                 /\ todo' = [todo EXCEPT !.get = @ \ {p}]
                 /\ UNCHANGED job
            ELSE FailJob(g)
      BY <1>10 DEF GetOutput
    <2>2. job[g] = "get" /\ UNCHANGED <<mode, exec, excuse>> /\ p \in todo.get /\ p \in Piece
      BY <1>10 DEF GetOutput, First, Typed
    <2>3. CASE p \notin staged[g]
      BY <1>5, <2>1, <2>2, <2>3
    <2>4. CASE p \in staged[g]
      <3>0. tmp' = [tmp EXCEPT !.made = TRUE, !.files[p] = g]
        BY <2>1, <2>4
      <3>1. tmp'.made
        BY <1>3, <3>0 DEF Dir
      <3>2. /\ tmp'.files[p] = g /\ \A q \in Piece \ {p} : tmp'.files[q] = tmp.files[q]
            /\ tmp'.remote = tmp.remote /\ tmp'.pending = tmp.pending
        <4>1. tmp' \in {[tmp EXCEPT !.files[p] = g], [tmp EXCEPT !.made = TRUE, !.files[p] = g]}
          BY <3>0
        <4>2. tmp \in Dir /\ p \in Piece /\ g \in 0 .. MaxGen
          BY <1>3, <2>2
        <4>3. /\ tmp'.files[p] = g /\ \A q \in Piece \ {p} : tmp'.files[q] = tmp.files[q]
              /\ tmp'.remote = tmp.remote /\ tmp'.pending = tmp.pending
          BY <3>0, <4>2 DEF Dir
        <4> QED BY <4>3
      <3>3. /\ todo'.get = todo.get \ {p} /\ todo'.leave = todo.leave /\ UNCHANGED job
            /\ mode[g] \in {"full", "manifests"}
        BY <1>0, <2>1, <2>2, <2>4 DEF Typed, ByMode
      <3>4. ByMode(g)'
        BY <1>0, <1>1, <2>2, <3>3 DEF ByMode, Active
      <3>5. Own(g)'
        BY <1>2, <2>2, <3>1, <3>2, <3>3 DEF Own
      <3>6. Clean' => Collected(g)'
        <4>1. SUFFICES ASSUME Clean' PROVE Collected(g)'
          OBVIOUS
        <4>2. Collected(g)
          BY <1>0, <1>1, <1>3, <4>1
        <4> QED BY <2>2, <3>1, <3>2, <3>3, <4>2, Sizes DEF Collected
      <3>7. job' = [job EXCEPT ![g] = "get"]
        BY <2>2, <3>3 DEF Typed
      <3> QED BY <1>3, <1>4, <2>2, <3>4, <3>5, <3>6, <3>7 DEF Places
    <2> QED BY <2>3, <2>4
  <1>11. CASE LeaveInS3(g)
    <2>1. todo.get = {} /\ job[g] = "get" /\ job' = [job EXCEPT ![g] = "archive"] /\ UNCHANGED <<mode, todo>>
      BY <1>11 DEF LeaveInS3, Step
    <2>2. mode[g] \in {"full", "manifests"} /\ job'[g] = "archive" /\ todo.leave \in Nat
      BY <1>0, <2>1 DEF ByMode, Typed
    <2>3. ByMode(g)'
      BY <1>0, <1>1, <2>1, <2>2 DEF ByMode, Active
    <2>4. CASE todo.leave > 0
      <3>1. mode[g] = "manifests"
        BY <1>0, <2>1, <2>2, <2>4 DEF ByMode
      <3>2. /\ tmp' \in Dir /\ tmp'.made /\ tmp'.files = tmp.files /\ tmp'.pending = tmp.pending
            /\ \/ tmp'.remote = [gen |-> g, want |-> todo.leave, gone |-> "no"]
               \/ tmp'.remote = tmp.remote /\ "unwritten" \in excuse'
        <4>1. WriteSidecar("remote", g, todo.leave)
          BY <1>11, <2>4 DEF LeaveInS3
        <4> QED BY <2>2, <4>1, WriteRemote
      <3>3. Own(g)'
        BY <1>2, <2>1, <2>4, <3>1, <3>2 DEF Own
      <3>4. Clean' => Collected(g)'
        <4>1. SUFFICES ASSUME Clean' PROVE Collected(g)'
          OBVIOUS
        <4>2. Collected(g)
          BY <1>0, <1>1, <1>3, <4>1
        <4>3. tmp'.remote = [gen |-> g, want |-> todo.leave, gone |-> "no"]
          BY <3>2, <4>1 DEF Clean
        <4>4. tmp'.remote # NoSide /\ tmp'.remote.want = todo.leave
          BY <1>3, <4>3 DEF NoSide
        <4> QED BY <2>1, <2>2, <3>1, <3>2, <4>2, <4>4 DEF Collected
      <3> QED BY <1>3, <1>4, <2>1, <2>3, <3>3, <3>4 DEF Places
    <2>5. CASE ~(todo.leave > 0)
      <3>1. UNCHANGED <<tmp, excuse>>
        BY <1>11, <2>5 DEF LeaveInS3
      <3>2. Own(g)'
        BY <1>2, <2>1, <3>1 DEF Own
      <3>3. Clean' => Collected(g)'
        <4>1. SUFFICES ASSUME Clean' PROVE Collected(g)'
          OBVIOUS
        <4>2. Collected(g)
          BY <1>0, <1>1, <1>3, <4>1
        <4>3. mode[g] = "full"
          BY <2>1, <2>2, <2>5, <4>2, Sizes DEF Collected
        <4> QED BY <2>1, <2>2, <3>1, <4>2, <4>3 DEF Collected
      <3> QED BY <1>3, <1>4, <2>1, <2>3, <3>2, <3>3 DEF Places
    <2> QED BY <2>4, <2>5
  <1>12. CASE Archive(g)
    <2>1. job[g] = "archive" /\ job' = [job EXCEPT ![g] = "place"] /\ UNCHANGED <<mode, todo, tmp>>
      BY <1>12 DEF Archive, Step
    <2>2. job'[g] = "place"
      BY <2>1 DEF Typed
    <2>3. ByMode(g)'
      BY <1>0, <1>1, <2>1, <2>2 DEF ByMode, Active
    <2>4. Own(g)' /\ (Clean' => Collected(g)')
      BY <1>0, <1>1, <1>2, <1>3, <2>1, <2>2 DEF Own, Collected
    <2> QED BY <1>3, <1>4, <2>1, <2>3, <2>4 DEF Places
  <1>13. CASE Place(g)
    <2>1. /\ job[g] = "place" /\ job' = [job EXCEPT ![g] = "done"] /\ mode' = [mode EXCEPT ![g] = "none"]
          /\ tmp' = NoDir
      BY <1>13 DEF Place, Step
    <2>2. /\ job'[g] = "done" /\ mode'[g] = "none"
          /\ \A h \in Gen \ {g} : job'[h] = job[h] /\ mode'[h] = mode[h]
      BY <2>1 DEF Typed
    <2>3. ByMode(g)' /\ ~Active(g)'
      BY <2>2 DEF ByMode, Active
    <2> QED BY <1>1, <1>2, <1>3, <2>1, <2>2, <2>3, JobFrame
  <1> QED BY <1>5, <1>6, <1>7, <1>8, <1>9, <1>10, <1>11, <1>12, <1>13 DEF Poll, PollFails, PackageOnHost

LEMMA RestartDelivery ==
  ASSUME Typed, DeliveryInv, Restart
  PROVE  DeliveryInv'
  <1>0. Ran /\ Staging /\ OneJob /\ \A g \in Gen : ByMode(g)
    BY DEF DeliveryInv
  <1>1. /\ job' = [g \in Gen |-> IF Over(g) \/ job[g] = "new" THEN job[g] ELSE "poll"]
        /\ UNCHANGED <<mode, exec, staged, tmp>> /\ excuse \subseteq excuse' /\ todo' = Nothing
    BY DEF Restart, s3
  <1>2. \A g \in Gen : job'[g] = IF Active(g) THEN "poll" ELSE job[g]
    BY <1>1 DEF Active, Over
  <1>3. CASE \E g \in Gen : Active(g)
    <2>1. PICK g \in Gen : Active(g)
      BY <1>3
    <2>2. /\ job'[g] = "poll" /\ Own(g) /\ ByMode(g)
          /\ \A h \in Gen \ {g} : ~Active(h) /\ job'[h] = job[h]
      BY <1>0, <1>2, <2>1 DEF OneJob, Staging
    <2>3. ByMode(g)' /\ Active(g)' /\ Own(g)'
      BY <1>1, <2>1, <2>2 DEF ByMode, Active, Own
    <2>4. Clean' => Collected(g)'
      <3>1. SUFFICES ASSUME Clean' PROVE Collected(g)'
        OBVIOUS
      <3>2. Clean
        BY <1>1, <3>1 DEF Clean
      <3>3. Collected(g)
        BY <2>1, <3>2 DEF DeliveryInv
      <3> QED BY <1>1, <2>2, <3>3 DEF Collected
    <2> QED BY <1>1, <2>2, <2>3, <2>4, JobFrame
  <1>4. CASE \A g \in Gen : ~Active(g)
    <2>1. job' = job
      BY <1>1, <1>2, <1>4 DEF Typed
    <2>2. \A g \in Gen : ByMode(g)' /\ ~Active(g)'
      BY <1>0, <1>1, <1>4, <2>1 DEF ByMode, Active
    <2>3. OneJob' /\ Ran' /\ Staging'
      BY <1>0, <1>1, <1>4, <2>1, <2>2 DEF OneJob, Ran, Staging
    <2> QED BY <2>2, <2>3 DEF DeliveryInv
  <1> QED BY <1>3, <1>4

(* Clicks, sweeps and expiry leave the jobs alone and stage nothing.       *)
LEMMA OthersStageNothing ==
  ASSUME Typed, Fetch \/ Package \/ Sweep \/ \E g \in Gen : Expire(g)
  PROVE  /\ UNCHANGED poll /\ excuse \subseteq excuse'
         /\ \A g \in Gen : staged'[g] \subseteq staged[g] /\ chunks'[g] \subseteq chunks[g]
  <1>1. CASE Fetch
    BY <1>1 DEF Fetch, FetchOutput, FetchReads, FetchLists, FetchGets, FetchEnds, s3
  <1>2. CASE Package
    BY <1>2 DEF Package, PackageOutput, PackageReads, MarkPendingGone, PackageBuilds, PackageMoves,
                PackageEnds, s3
  <1>3. CASE Sweep
    <2>1. CASE SweepDeletes
      <3>1. \A g \in Gen : staged'[g] \subseteq staged[g] /\ chunks'[g] \subseteq chunks[g]
        BY <2>1 DEF SweepDeletes, s3, Typed
      <3> QED BY <2>1, <3>1 DEF SweepDeletes
    <2>2. CASE SweepStarts \/ SweepReports \/ MarkReads \/ MarkWrites
      BY <2>2 DEF SweepStarts, SweepReports, MarkReads, MarkWrites, s3
    <2> QED BY <1>3, <2>1, <2>2 DEF Sweep
  <1>4. ASSUME NEW g \in Gen, Expire(g)
        PROVE  /\ UNCHANGED poll /\ excuse \subseteq excuse'
               /\ \A h \in Gen : staged'[h] \subseteq staged[h] /\ chunks'[h] \subseteq chunks[h]
    BY <1>4 DEF Expire, Typed
  <1> QED BY <1>1, <1>2, <1>3, <1>4

LEMMA NextDelivery ==
  ASSUME Typed, DeliveryInv, [Next]_vars
  PROVE  DeliveryInv'
  <1>1. CASE \E g \in Gen : Execution(g)
    BY <1>1, ExecutionDelivery
  <1>2. CASE \E g \in Gen : Poll(g)
    BY <1>2, PollDelivery
  <1>3. CASE Fetch \/ Package \/ Sweep \/ \E g \in Gen : Expire(g)
    BY <1>3, OthersStageNothing, DeliveryFrame DEF poll
  <1>4. CASE Restart
    BY <1>4, RestartDelivery
  <1>5. CASE UNCHANGED vars
    BY <1>5, DeliveryFrame DEF vars
  <1> QED BY <1>1, <1>2, <1>3, <1>4, <1>5 DEF Next

-----------------------------------------------------------------------------
(* Sidecars, sweeps, and what is gone.                                     *)
LEMMA Grows == ASSUME [Next]_vars PROVE excuse \subseteq excuse'
  <1>1. ASSUME NEW g \in Gen, Execution(g) PROVE excuse \subseteq excuse'
    BY <1>1 DEF Execution, Submit, Encode, PackageInBatch, ExecutionFails
  <1>2. ASSUME NEW g \in Gen, Poll(g) PROVE excuse \subseteq excuse'
    BY <1>2 DEF Poll, PollFails, PollSucceeds, DeferPackaging, PackageOnHost, ListOutputs, GetOutput,
                LeaveInS3, Archive, Place, WriteSidecar
  <1>3. ASSUME NEW g \in Gen, Expire(g) PROVE excuse \subseteq excuse'
    BY <1>3 DEF Expire
  <1>4. CASE Fetch
    BY <1>4 DEF Fetch, FetchOutput, FetchReads, FetchLists, FetchGets, FetchEnds
  <1>5. CASE Package
    BY <1>5 DEF Package, PackageOutput, PackageReads, MarkPendingGone, PackageBuilds, PackageMoves,
                PackageEnds
  <1>6. CASE Sweep
    BY <1>6 DEF Sweep, SweepStarts, SweepDeletes, SweepReports, MarkReads, MarkWrites
  <1>7. CASE Restart
    BY <1>7 DEF Restart
  <1>8. CASE UNCHANGED vars
    BY <1>8 DEF vars
  <1> QED BY <1>1, <1>2, <1>3, <1>4, <1>5, <1>6, <1>7, <1>8 DEF Next

(* Only an execution uploads, and one that uploads under a sweep is known  *)
(* to.                                                                     *)
LEMMA UploadsAreKnown ==
  ASSUME Typed, [Next]_vars, NEW g \in Gen
  PROVE  \/ chunks'[g] \subseteq chunks[g] /\ staged'[g] \subseteq staged[g]
         \/ /\ exec[g] \in {"running", "encoded"} /\ sweep' = sweep
            /\ g \in sweep.scope => "refilled" \in excuse'
  <1>1. ASSUME NEW h \in Gen, Execution(h)
        PROVE  \/ chunks'[g] \subseteq chunks[g] /\ staged'[g] \subseteq staged[g]
               \/ /\ exec[g] \in {"running", "encoded"} /\ sweep' = sweep
                  /\ g \in sweep.scope => "refilled" \in excuse'
    <2>1. CASE Submit(h) \/ ExecutionFails(h)
      BY <2>1 DEF Submit, ExecutionFails, s3
    <2>2. CASE Encode(h)
      BY <2>2 DEF Encode, Refill, Typed
    <2>3. CASE PackageInBatch(h)
      BY <2>3 DEF PackageInBatch, Refill, Typed
    <2> QED BY <1>1, <2>1, <2>2, <2>3 DEF Execution
  <1>2. ASSUME NEW h \in Gen, Poll(h) PROVE UNCHANGED s3
    BY <1>2 DEF Poll, PollFails, PollSucceeds, DeferPackaging, PackageOnHost, ListOutputs, GetOutput,
                LeaveInS3, Archive, Place
  <1>3. CASE Restart \/ UNCHANGED vars
    BY <1>3 DEF Restart, vars, s3
  <1> QED BY <1>1, <1>2, <1>3, OthersStageNothing DEF Next, s3

(* What has been delivered stays so, and nothing of it is uploaded again.  *)
LEMMA DeliveredStays ==
  ASSUME Typed, DeliveryInv, [Next]_vars, NEW g \in Gen, job[g] = "done"
  PROVE  job'[g] = "done" /\ chunks'[g] \subseteq chunks[g] /\ staged'[g] \subseteq staged[g]
  <1>1. exec[g] = "succeeded"
    BY DEF DeliveryInv, Ran
  <1>2. chunks'[g] \subseteq chunks[g] /\ staged'[g] \subseteq staged[g]
    BY <1>1, UploadsAreKnown
  <1>3. ASSUME NEW h \in Gen, Execution(h) PROVE job'[g] = "done"
    BY <1>3 DEF Execution, Submit, Encode, PackageInBatch, ExecutionFails, Typed
  <1>4. ASSUME NEW h \in Gen, Poll(h) PROVE job'[g] = "done"
    <2>1. job[h] # "done"
      BY <1>4 DEF Poll, PollFails, PollSucceeds, DeferPackaging, PackageOnHost, ListOutputs, GetOutput,
                  LeaveInS3, Archive, Place, Step
    <2>2. job' = job \/ \E to \in Places : job' = [job EXCEPT ![h] = to]
      <3>1. CASE PollSucceeds(h)
        <4>1. \E to \in {"pending", "package", "list"} : job' = [job EXCEPT ![h] = to]
          BY <3>1 DEF PollSucceeds, Step
        <4> QED BY <4>1 DEF Places
      <3>2. CASE ListOutputs(h)
        <4>1. \E to \in {"archive", "get"} : job' = [job EXCEPT ![h] = to]
          BY <3>2 DEF ListOutputs, Step
        <4> QED BY <4>1 DEF Places
      <3>3. CASE PollFails(h) \/ PackageOnHost(h) \/ GetOutput(h)
        BY <3>3 DEF PollFails, PackageOnHost, GetOutput, FailJob, Places
      <3>4. CASE DeferPackaging(h) \/ LeaveInS3(h) \/ Archive(h) \/ Place(h)
        BY <3>4 DEF DeferPackaging, LeaveInS3, Archive, Place, Step, Places
      <3> QED BY <1>4, <3>1, <3>2, <3>3, <3>4 DEF Poll
    <2> QED BY <2>1, <2>2 DEF Typed
  <1>5. CASE Restart
    <2>1. job' = [h \in Gen |-> IF Over(h) \/ job[h] = "new" THEN job[h] ELSE "poll"]
      BY <1>5 DEF Restart
    <2> QED BY <1>2, <2>1 DEF Over
  <1>6. CASE UNCHANGED vars
    BY <1>6 DEF vars
  <1>7. CASE Fetch \/ Package \/ Sweep \/ \E h \in Gen : Expire(h)
    BY <1>7, OthersStageNothing DEF poll
  <1> QED BY <1>2, <1>3, <1>4, <1>5, <1>6, <1>7 DEF Next

(* What the types say of the generations that are spoken of.               *)
LEMMA SpokenOf ==
  ASSUME Typed
  PROVE  /\ live \in Dir /\ tmp \in Dir
         /\ {live.remote, live.pending, tmp.remote, tmp.pending, sweep.seen} \subseteq Side
         /\ {live.remote.gen, live.pending.gen, sweep.seen.gen, fetch.gen, pack.gen} \subseteq Gen \cup {NoGen}
         /\ {live.remote.want, sweep.seen.want, fetch.want} \subseteq Nat
         /\ live.files \in [Piece -> Gen \cup {NoGen}]
  <1>1. 0 .. MaxGen = Gen \cup {NoGen}
    BY Sizes DEF Gen, NoGen
  <1>2. live \in Dir /\ tmp \in Dir /\ sweep.seen \in Side
    BY DEF Typed
  <1>3. {live.remote, live.pending, tmp.remote, tmp.pending} \subseteq Side
    BY <1>2 DEF Dir
  <1>4. fetch.gen \in 0 .. MaxGen /\ fetch.want \in Nat /\ pack.gen \in 0 .. MaxGen
    BY DEF Typed, Process
  <1>5. \A s \in Side : s.gen \in 0 .. MaxGen /\ s.want \in Nat
    BY DEF Side
  <1>6. live.files \in [Piece -> Gen \cup {NoGen}]
    BY <1>1, <1>2 DEF Dir
  <1> QED BY <1>1, <1>2, <1>3, <1>4, <1>5, <1>6

LEMMA InitSides == Init => Sides
  BY NothingStaged DEF Init, Sides, RemoteSide, PendingSide, FetchSide, PackSide, SweepSide, Delivered,
                       Idle, NoSweep

(* A step that changes none of them.                                       *)
LEMMA SidesFrame ==
  ASSUME Typed, Sides, \A g \in Gen : job[g] = "done" => job'[g] = "done",
         live'.remote = live.remote \/ RemoteSide', live'.pending = live.pending \/ PendingSide',
         fetch' = fetch \/ FetchSide', pack' = pack \/ PackSide', sweep' = sweep \/ SweepSide'
  PROVE  Sides'
  <1>1. \A g \in Gen \cup {NoGen} : Delivered(g) => (g # NoGen => job'[g] = "done")
    BY Sizes DEF Delivered
  <1>2. RemoteSide'
    BY <1>1, SpokenOf DEF Sides, RemoteSide, Delivered
  <1>3. PendingSide'
    BY <1>1, SpokenOf DEF Sides, PendingSide, Delivered
  <1>4. FetchSide'
    BY <1>1, SpokenOf DEF Sides, FetchSide, Delivered
  <1>5. PackSide'
    BY <1>1, SpokenOf DEF Sides, PackSide, Delivered
  <1>6. SweepSide'
    BY <1>1, SpokenOf DEF Sides, SweepSide, Delivered
  <1> QED BY <1>2, <1>3, <1>4, <1>5, <1>6 DEF Sides

LEMMA NextSides ==
  ASSUME Typed, DeliveryInv, Sides, [Next]_vars
  PROVE  Sides'
  <1> DEFINE Old == \A g \in Gen : job[g] = "done" => job'[g] = "done"
  <1>0. Old /\ live \in Dir
    BY DeliveredStays, SpokenOf
  <1>1. ASSUME UNCHANGED <<live, fetch, pack, sweep>> PROVE Sides'
    BY <1>0, <1>1, SidesFrame
  <1>2. ASSUME NEW g \in Gen, Execution(g) \/ Expire(g) PROVE Sides'
    <2>1. UNCHANGED <<live, fetch, pack, sweep>>
      BY <1>2 DEF Execution, Submit, Encode, PackageInBatch, ExecutionFails, Expire
    <2> QED BY <1>1, <2>1
  <1>3. ASSUME NEW g \in Gen, Poll(g) PROVE Sides'
    <2>1. CASE Archive(g)
      <3>1. UNCHANGED <<fetch, pack, sweep>> /\ live' \in {live, NoDir}
        BY <2>1 DEF Archive
      <3>2. live' = live \/ (RemoteSide' /\ PendingSide')
        BY <3>1, NothingStaged DEF RemoteSide, PendingSide, Delivered
      <3> QED BY <1>0, <3>1, <3>2, SidesFrame
    <2>2. CASE Place(g)
      <3>1. UNCHANGED <<fetch, pack, sweep>> /\ job[g] = "place" /\ job' = [job EXCEPT ![g] = "done"]
        BY <2>2 DEF Place, Step
      <3>2. job'[g] = "done" /\ Own(g) /\ g # NoGen
        BY <3>1, Sizes DEF Typed, DeliveryInv, Staging, Active
      <3>3. live'.remote = live.remote \/ (live'.remote # NoSide /\ live'.remote = tmp.remote)
        BY <2>2, PlaceTyped
      <3>4. live'.pending = live.pending \/ (live'.pending # NoSide /\ live'.pending = tmp.pending)
        BY <2>2, PlaceTyped
      <3>5. live'.remote = live.remote \/ RemoteSide'
        BY <3>2, <3>3 DEF Own, RemoteSide, Delivered
      <3>6. live'.pending = live.pending \/ PendingSide'
        BY <3>2, <3>4 DEF Own, PendingSide, Delivered
      <3> QED BY <1>0, <3>1, <3>5, <3>6, SidesFrame
    <2>3. CASE ~Archive(g) /\ ~Place(g)
      <3>1. UNCHANGED <<live, fetch, pack, sweep>>
        BY <1>3, <2>3 DEF Poll, PollFails, PollSucceeds, DeferPackaging, PackageOnHost, ListOutputs,
                          GetOutput, LeaveInS3
      <3> QED BY <1>1, <3>1
    <2> QED BY <2>1, <2>2, <2>3
  <1>4. CASE Fetch
    <2>0. fetch \in Process({"idle", "start", "list", "get"}) /\ FetchSide /\ RemoteSide
      BY DEF Typed, Sides
    <2>1. CASE FetchOutput
      <3>1. UNCHANGED <<live, pack, sweep>> /\ FetchSide'
        BY <2>1 DEF FetchOutput, FetchSide, Delivered, Idle
      <3> QED BY <1>0, <3>1, SidesFrame
    <2>2. CASE FetchReads
      <3>1. UNCHANGED <<job, live, pack, sweep>>
        BY <2>2 DEF FetchReads, poll
      <3>2. CASE fetch' = Idle
        BY <1>0, <3>1, <3>2, SidesFrame DEF FetchSide, Delivered, Idle
      <3>3. CASE fetch' # Idle
        <4>1. /\ live.remote # NoSide
              /\ fetch' = [Idle EXCEPT !.pc = "list", !.gen = live.remote.gen, !.want = live.remote.want]
          BY <2>2, <3>3 DEF FetchReads
        <4>2. fetch'.pc = "list" /\ fetch'.gen = live.remote.gen /\ fetch'.want = live.remote.want
          BY <4>1 DEF Idle
        <4>3. FetchSide'
          BY <2>0, <3>1, <4>1, <4>2 DEF FetchSide, RemoteSide, Delivered
        <4> QED BY <1>0, <3>1, <4>3, SidesFrame
      <3> QED BY <3>2, <3>3
    <2>3. CASE FetchLists
      <3>1. UNCHANGED <<job, pack, sweep>> /\ fetch.pc = "list"
        BY <2>3 DEF FetchLists, poll
      <3>2. CASE staged[fetch.gen] = {}
        <4> DEFINE side == [gen |-> fetch.gen, want |-> fetch.want, gone |-> "no"]
                   new == IF Complete(fetch.want) THEN NoSide
                          ELSE IF live.made THEN Gone(side, "fetch") ELSE live.remote
        <4>1. fetch' = Idle /\ live' = [live EXCEPT !.remote = new]
          BY <2>3, <3>2 DEF FetchLists
        <4>2. Gone(side, "fetch") = [gen |-> fetch.gen, want |-> fetch.want, gone |-> "fetch"]
          BY DEF Gone
        <4>3. new = live.remote \/ (/\ new # NoSide => new.gen # NoGen /\ new.want > 0
                                    /\ Delivered(new.gen))
          BY <2>0, <3>1, <4>2, NothingStaged DEF FetchSide, Delivered
        <4> HIDE DEF new
        <4>4. live'.remote = new /\ live'.pending = live.pending
          BY <1>0, <4>1 DEF Dir
        <4>5. live'.remote = live.remote \/ RemoteSide'
          BY <3>1, <4>3, <4>4 DEF RemoteSide, Delivered
        <4> QED BY <1>0, <3>1, <4>1, <4>4, <4>5, SidesFrame DEF FetchSide, Delivered, Idle
      <3>3. CASE staged[fetch.gen] # {}
        <4> DEFINE rest == {p \in staged[fetch.gen] : live.files[p] # fetch.gen}
        <4>1. fetch' = [fetch EXCEPT !.pc = "get", !.todo = rest] /\ UNCHANGED live
          BY <2>3, <3>3 DEF FetchLists
        <4> HIDE DEF rest
        <4>2. fetch'.pc = "get" /\ fetch'.gen = fetch.gen /\ fetch'.want = fetch.want
          BY <2>0, <4>1 DEF Process
        <4>3. FetchSide'
          BY <2>0, <3>1, <4>2 DEF FetchSide, Delivered
        <4> QED BY <1>0, <3>1, <4>1, <4>3, SidesFrame
      <3> QED BY <3>2, <3>3
    <2>4. CASE FetchGets
      <3>0. PICK p \in First(fetch.todo) :
              /\ fetch' = [fetch EXCEPT !.todo = @ \ {p}, !.ok = @ /\ p \in staged[fetch.gen]]
              /\ live' = IF p \in staged[fetch.gen]
                         THEN [live EXCEPT !.made = TRUE, !.files[p] = fetch.gen]
                         ELSE live
        BY <2>4 DEF FetchGets
      <3>1. UNCHANGED <<job, pack, sweep>>
        BY <2>4 DEF FetchGets, poll
      <3>2. fetch'.pc = fetch.pc /\ fetch'.gen = fetch.gen /\ fetch'.want = fetch.want
        BY <2>0, <3>0 DEF Process
      <3>3. live'.remote = live.remote /\ live'.pending = live.pending
        BY <1>0, <3>0 DEF Dir
      <3>4. FetchSide'
        BY <2>0, <3>1, <3>2 DEF FetchSide, Delivered
      <3> QED BY <1>0, <3>1, <3>3, <3>4, SidesFrame
    <2>5. CASE FetchEnds
      <3>1. UNCHANGED <<pack, sweep>> /\ fetch' = Idle /\ live' \in {live, [live EXCEPT !.remote = NoSide]}
        BY <2>5 DEF FetchEnds
      <3>2. live'.pending = live.pending /\ live'.remote \in {live.remote, NoSide}
        BY <1>0, <3>1 DEF Dir
      <3>3. FetchSide' /\ (live'.remote = live.remote \/ RemoteSide')
        BY <3>1, <3>2, NothingStaged DEF FetchSide, RemoteSide, Delivered, Idle
      <3> QED BY <1>0, <3>1, <3>2, <3>3, SidesFrame
    <2> QED BY <1>4, <2>1, <2>2, <2>3, <2>4, <2>5 DEF Fetch
  <1>5. CASE Package
    <2>0. pack \in Process({"idle", "start", "gone", "build", "move"}) /\ PackSide /\ PendingSide
      BY DEF Typed, Sides
    <2>1. CASE PackageOutput
      <3>1. UNCHANGED <<live, fetch, sweep>> /\ PackSide'
        BY <2>1 DEF PackageOutput, PackSide, Delivered, Idle
      <3> QED BY <1>0, <3>1, SidesFrame
    <2>2. CASE PackageReads
      <3>1. UNCHANGED <<job, live, fetch, sweep>>
        BY <2>2 DEF PackageReads, poll
      <3>2. CASE pack' = Idle
        BY <1>0, <3>1, <3>2, SidesFrame DEF PackSide, Delivered, Idle
      <3>3. CASE pack' # Idle
        <4> DEFINE to == IF chunks[live.pending.gen] = {} THEN "gone" ELSE "build"
        <4>1. live.pending # NoSide /\ pack' = [Idle EXCEPT !.pc = to, !.gen = live.pending.gen]
          BY <2>2, <3>3 DEF PackageReads
        <4>2. to \in {"gone", "build"}
          OBVIOUS
        <4> HIDE DEF to
        <4>3. pack'.pc \in {"gone", "build"} /\ pack'.gen = live.pending.gen
          BY <4>1, <4>2 DEF Idle
        <4>4. PackSide'
          BY <2>0, <3>1, <4>1, <4>3 DEF PackSide, PendingSide, Delivered
        <4> QED BY <1>0, <3>1, <4>4, SidesFrame
      <3> QED BY <3>2, <3>3
    <2>3. CASE MarkPendingGone
      <3>1. UNCHANGED <<job, fetch, sweep>> /\ pack' = Idle
        BY <2>3 DEF MarkPendingGone, poll
      <3>2. \/ live' = live
            \/ live.pending # NoSide /\ live' = [live EXCEPT !.pending = Gone(live.pending, "package")]
        BY <2>3 DEF MarkPendingGone
      <3>3. live'.remote = live.remote /\ (live'.pending = live.pending \/ PendingSide')
        <4>1. CASE live' = live
          BY <4>1
        <4>2. CASE live.pending # NoSide /\ live' = [live EXCEPT !.pending = Gone(live.pending, "package")]
          <5>1. live'.remote = live.remote /\ live'.pending = Gone(live.pending, "package")
            BY <1>0, <4>2 DEF Dir
          <5>2. Gone(live.pending, "package").gen = live.pending.gen
            BY SpokenOf, SideGone
          <5> QED BY <2>0, <3>1, <4>2, <5>1, <5>2 DEF PendingSide, Delivered
        <4> QED BY <3>2, <4>1, <4>2
      <3> QED BY <1>0, <3>1, <3>3, SidesFrame DEF PackSide, Delivered, Idle
    <2>4. CASE PackageBuilds
      <3>1. UNCHANGED <<job, live, fetch, sweep>> /\ pack.pc = "build"
        BY <2>4 DEF PackageBuilds, poll
      <3>2. pack' = Idle \/ pack' = [pack EXCEPT !.pc = "move", !.todo = {0} \cup chunks[pack.gen]]
        BY <2>4 DEF PackageBuilds
      <3>3. pack' = Idle \/ (pack'.pc = "move" /\ pack'.gen = pack.gen)
        BY <2>0, <3>2 DEF Process
      <3>4. PackSide'
        BY <2>0, <3>1, <3>3 DEF PackSide, Delivered, Idle
      <3> QED BY <1>0, <3>1, <3>4, SidesFrame
    <2>5. CASE PackageMoves
      <3>1. UNCHANGED <<job, fetch, sweep>> /\ pack.pc = "move"
        BY <2>5 DEF PackageMoves, poll
      <3>2. PICK p \in First(pack.todo) :
              \/ live' = [live EXCEPT !.files[p] = pack.gen] /\ pack' = [pack EXCEPT !.todo = @ \ {p}]
              \/ live' = live /\ pack' = Idle
        BY <2>5 DEF PackageMoves
      <3>3. live'.remote = live.remote /\ live'.pending = live.pending
        BY <1>0, <3>2 DEF Dir
      <3>4. pack' = Idle \/ (pack'.pc = "move" /\ pack'.gen = pack.gen)
        BY <2>0, <3>1, <3>2 DEF Process
      <3>5. PackSide'
        BY <2>0, <3>1, <3>4 DEF PackSide, Delivered, Idle
      <3> QED BY <1>0, <3>1, <3>3, <3>5, SidesFrame
    <2>6. CASE PackageEnds
      <3>1. UNCHANGED <<fetch, sweep>> /\ pack' = Idle /\ live' = [live EXCEPT !.pending = NoSide]
        BY <2>6 DEF PackageEnds
      <3>2. live'.remote = live.remote /\ live'.pending = NoSide
        BY <1>0, <3>1 DEF Dir
      <3>3. PackSide' /\ PendingSide'
        BY <3>1, <3>2, NothingStaged DEF PackSide, PendingSide, Delivered, Idle
      <3> QED BY <1>0, <3>1, <3>2, <3>3, SidesFrame
    <2> QED BY <1>5, <2>1, <2>2, <2>3, <2>4, <2>5, <2>6 DEF Package
  <1>6. CASE Sweep
    <2>0. SweepSide /\ RemoteSide /\ sweep.seen \in Side
      BY SpokenOf DEF Sides
    <2>1. CASE MarkReads
      <3>1. UNCHANGED <<job, live, fetch, pack>>
        BY <2>1 DEF MarkReads, poll
      <3>2. \/ sweep' = NoSweep
            \/ /\ live.remote.gen \in sweep.scope
               /\ sweep' = [sweep EXCEPT !.pc = "write", !.seen = live.remote]
        BY <2>1 DEF MarkReads
      <3>3. \/ sweep' = NoSweep
            \/ live.remote.gen # NoGen /\ sweep'.pc = "write" /\ sweep'.seen = live.remote
        BY <3>2, Sizes DEF Typed
      <3>4. SweepSide'
        BY <2>0, <3>1, <3>3, NothingStaged DEF SweepSide, RemoteSide, Delivered, NoSweep
      <3> QED BY <1>0, <3>1, <3>4, SidesFrame
    <2>2. CASE MarkWrites
      <3>1. UNCHANGED <<job, fetch, pack>> /\ sweep' = NoSweep /\ sweep.pc = "write"
            /\ live' \in {live, [live EXCEPT !.remote = Gone(sweep.seen, "clear")]}
        BY <2>2 DEF MarkWrites, poll
      <3>2. live'.pending = live.pending /\ live'.remote \in {live.remote, Gone(sweep.seen, "clear")}
        BY <1>0, <3>1 DEF Dir
      <3>3. Gone(sweep.seen, "clear").gen = sweep.seen.gen /\ Gone(sweep.seen, "clear").want = sweep.seen.want
        BY <2>0, SideGone
      <3>4. live'.remote = live.remote \/ RemoteSide'
        BY <2>0, <3>1, <3>2, <3>3 DEF SweepSide, RemoteSide, Delivered
      <3>5. SweepSide'
        BY <3>1, NothingStaged DEF SweepSide, Delivered, NoSweep
      <3> QED BY <1>0, <3>1, <3>2, <3>4, <3>5, SidesFrame
    <2>3. CASE SweepStarts \/ SweepDeletes \/ SweepReports
      <3>1. UNCHANGED <<job, live, fetch, pack>> /\ sweep'.pc # "write" /\ sweep'.seen = NoSide
        <4>1. CASE SweepStarts
          BY <4>1 DEF SweepStarts, NoSweep, poll
        <4>2. CASE SweepDeletes
          BY <2>0, <4>2 DEF SweepDeletes, SweepSide, poll, Typed
        <4>3. CASE SweepReports
          BY <2>0, <4>3 DEF SweepReports, SweepSide, poll, Typed, NoSweep
        <4> QED BY <2>3, <4>1, <4>2, <4>3
      <3>2. SweepSide'
        BY <3>1, NothingStaged DEF SweepSide, Delivered
      <3> QED BY <1>0, <3>1, <3>2, SidesFrame
    <2> QED BY <1>6, <2>1, <2>2, <2>3 DEF Sweep
  <1>7. CASE Restart
    <2>1. live' = live /\ fetch' = Idle /\ pack' = Idle /\ sweep' = NoSweep
      BY <1>7 DEF Restart
    <2>2. FetchSide' /\ PackSide' /\ SweepSide'
      BY <2>1, NothingStaged DEF FetchSide, PackSide, SweepSide, Delivered, Idle, NoSweep
    <2> QED BY <1>0, <2>1, <2>2, SidesFrame
  <1>8. CASE UNCHANGED vars
    BY <1>1, <1>8 DEF vars
  <1> QED BY <1>2, <1>3, <1>4, <1>5, <1>6, <1>7, <1>8 DEF Next

-----------------------------------------------------------------------------
(* A sweep, and what is given up.                                          *)
LEMMA InitSweep == Init => SweepInv /\ GoneInv
  BY NothingStaged DEF Init, SweepInv, GoneInv, NoSweep, Idle

LEMMA NoSweepIs ==
  /\ NoSweep.pc = "idle" /\ NoSweep.scope = {} /\ NoSweep.todo = {} /\ NoSweep.ok = TRUE
  /\ NoSweep.seen = NoSide
  BY DEF NoSweep

LEMMA NextSweep ==
  ASSUME Typed, SweepInv, [Next]_vars
  PROVE  SweepInv'
  <1>0. /\ sweep \in [pc : {"idle", "delete", "mark", "write"}, scope : SUBSET Gen, todo : SUBSET Object,
                      any : BOOLEAN, ok : BOOLEAN, seen : Side]
        /\ excuse \subseteq excuse'
    BY Grows DEF Typed
  <1>1. CASE sweep' = NoSweep
    BY <1>1, NoSweepIs DEF SweepInv
  <1>2. CASE sweep' = sweep
    <2>1. ASSUME NEW g \in sweep.scope, "refilled" \notin excuse'
          PROVE  chunks'[g] \subseteq chunks[g] /\ staged'[g] \subseteq staged[g]
      <3>1. g \in Gen
        BY <1>0
      <3> QED BY <2>1, <3>1, UploadsAreKnown
    <2> QED BY <1>0, <1>2, <2>1 DEF SweepInv
  <1>3. CASE SweepStarts
    <2>1. PICK scope \in Scopes :
            sweep' = [NoSweep EXCEPT !.pc = "delete", !.scope = scope, !.todo = Objects(scope),
                                     !.any = Objects(scope) # {}]
      BY <1>3 DEF SweepStarts
    <2>2. scope \in SUBSET Gen
      BY DEF Scopes
    <2>3. sweep'.pc = "delete" /\ sweep'.scope = scope /\ sweep'.todo = Objects(scope)
      BY <2>1 DEF NoSweep
    <2>4. chunks' = chunks /\ staged' = staged
      BY <1>3 DEF SweepStarts, s3
    <2> QED BY <2>2, <2>3, <2>4, ObjectsOf DEF SweepInv
  <1>4. CASE SweepDeletes
    <2>0. sweep.pc = "delete"
      BY <1>4 DEF SweepDeletes
    <2>1. PICK o \in sweep.todo :
            \/ /\ chunks' = IF o[2] = "chunks" THEN [chunks EXCEPT ![o[1]] = @ \ {o[3]}] ELSE chunks
               /\ staged' = IF o[2] = "staged" THEN [staged EXCEPT ![o[1]] = @ \ {o[3]}] ELSE staged
               /\ sweep' = [sweep EXCEPT !.todo = @ \ {o}]
            \/ /\ sweep' = [sweep EXCEPT !.todo = @ \ {o}, !.ok = FALSE]
               /\ UNCHANGED s3
      BY <1>4 DEF SweepDeletes
    <2>2. CASE sweep' = [sweep EXCEPT !.todo = @ \ {o}, !.ok = FALSE]
      <3>1. sweep'.pc = "delete" /\ sweep'.ok = FALSE
        BY <1>0, <2>0, <2>2
      <3> QED BY <3>1 DEF SweepInv
    <2>3. CASE /\ chunks' = IF o[2] = "chunks" THEN [chunks EXCEPT ![o[1]] = @ \ {o[3]}] ELSE chunks
               /\ staged' = IF o[2] = "staged" THEN [staged EXCEPT ![o[1]] = @ \ {o[3]}] ELSE staged
               /\ sweep' = [sweep EXCEPT !.todo = @ \ {o}]
      <3>1. /\ sweep'.pc = "delete" /\ sweep'.ok = sweep.ok /\ sweep'.scope = sweep.scope
            /\ sweep'.todo = sweep.todo \ {o}
        BY <1>0, <2>0, <2>3
      <3>2. o \in Object
        BY <1>0
      <3>3. o = <<o[1], o[2], o[3]>> /\ o[1] \in Gen
        BY <3>2 DEF Object
      <3>4. ASSUME NEW g \in sweep.scope, NEW p \in chunks'[g], <<g, "chunks", p>> \in sweep.todo
            PROVE  <<g, "chunks", p>> # o
        BY <1>0, <2>3, <3>3 DEF Typed
      <3>5. ASSUME NEW g \in sweep.scope, NEW p \in staged'[g], <<g, "staged", p>> \in sweep.todo
            PROVE  <<g, "staged", p>> # o
        BY <1>0, <2>3, <3>3 DEF Typed
      <3>6. \A g \in sweep.scope : chunks'[g] \subseteq chunks[g] /\ staged'[g] \subseteq staged[g]
        BY <1>0, <2>3, <3>3 DEF Typed
      <3> QED BY <1>0, <3>1, <3>4, <3>5, <3>6 DEF SweepInv
    <2> QED BY <2>1, <2>2, <2>3
  <1>5. CASE SweepReports /\ sweep' # NoSweep
    <2>1. /\ sweep' = [sweep EXCEPT !.pc = "mark"] /\ sweep.ok /\ sweep.todo = {}
          /\ chunks' = chunks /\ staged' = staged
      BY <1>5 DEF SweepReports, s3
    <2>2. /\ sweep'.pc = "mark" /\ sweep'.ok = sweep.ok /\ sweep'.scope = sweep.scope
          /\ sweep'.todo = sweep.todo
      BY <1>0, <2>1
    <2> QED BY <1>0, <2>1, <2>2 DEF SweepInv
  <1>6. CASE MarkReads /\ sweep' # NoSweep
    <2>1. /\ sweep' = [sweep EXCEPT !.pc = "write", !.seen = live.remote] /\ sweep.pc = "mark"
          /\ live.remote.gen \in sweep.scope /\ chunks' = chunks /\ staged' = staged
      BY <1>6 DEF MarkReads, s3
    <2>2. /\ sweep'.pc = "write" /\ sweep'.ok = sweep.ok /\ sweep'.scope = sweep.scope
          /\ sweep'.todo = sweep.todo /\ sweep'.seen = live.remote
      BY <1>0, <2>1
    <2> QED BY <1>0, <2>1, <2>2 DEF SweepInv
  <1>7. sweep' = sweep \/ sweep' = NoSweep \/ SweepStarts \/ SweepDeletes \/ SweepReports \/ MarkReads
    <2>1. ASSUME NEW g \in Gen, Execution(g) \/ Poll(g) \/ Expire(g) PROVE sweep' = sweep
      BY <2>1 DEF Execution, Submit, Encode, PackageInBatch, ExecutionFails, Expire, Poll, PollFails,
                  PollSucceeds, DeferPackaging, PackageOnHost, ListOutputs, GetOutput, LeaveInS3,
                  Archive, Place
    <2>2. Fetch \/ Package => sweep' = sweep
      BY DEF Fetch, FetchOutput, FetchReads, FetchLists, FetchGets, FetchEnds, Package, PackageOutput,
             PackageReads, MarkPendingGone, PackageBuilds, PackageMoves, PackageEnds
    <2> QED BY <2>1, <2>2 DEF Next, Sweep, MarkWrites, Restart, vars
  <1> QED BY <1>1, <1>2, <1>3, <1>4, <1>5, <1>6, <1>7

(* What has been given up stays gone; and it is given up when it is gone.  *)
LEMMA GoneFrame ==
  ASSUME Typed, DeliveryInv, Sides, GoneInv, [Next]_vars,
         \/ live'.remote = live.remote \/ live'.remote.gone = "no"
         \/ "refilled" \notin excuse' => staged'[live'.remote.gen] = {},
         \/ live'.pending = live.pending \/ live'.pending.gone = "no"
         \/ "overlap" \notin excuse' => chunks'[live'.pending.gen] = {},
         \/ pack' = pack \/ pack'.pc # "gone" \/ chunks'[pack'.gen] = {}
  PROVE  GoneInv'
  <1>1. excuse \subseteq excuse'
    BY Grows
  <1>2. ASSUME NEW g \in Gen \cup {NoGen}, Delivered(g), g # NoGen
        PROVE  chunks'[g] \subseteq chunks[g] /\ staged'[g] \subseteq staged[g]
    BY <1>2, DeliveredStays DEF Delivered
  <1>3. live'.remote.gone # "no" /\ "refilled" \notin excuse' => staged'[live'.remote.gen] = {}
    <2>1. SUFFICES ASSUME live'.remote = live.remote, live.remote.gone # "no", "refilled" \notin excuse'
                   PROVE  staged'[live.remote.gen] = {}
      OBVIOUS
    <2>2. live.remote.gen # NoGen /\ Delivered(live.remote.gen)
      BY <2>1, NothingStaged DEF Sides, RemoteSide
    <2>3. staged[live.remote.gen] = {}
      BY <1>1, <2>1 DEF GoneInv
    <2> QED BY <1>2, <2>2, <2>3, SpokenOf
  <1>4. live'.pending.gone # "no" /\ "overlap" \notin excuse' => chunks'[live'.pending.gen] = {}
    <2>1. SUFFICES ASSUME live'.pending = live.pending, live.pending.gone # "no", "overlap" \notin excuse'
                   PROVE  chunks'[live.pending.gen] = {}
      OBVIOUS
    <2>2. live.pending.gen # NoGen /\ Delivered(live.pending.gen)
      BY <2>1, NothingStaged DEF Sides, PendingSide
    <2>3. chunks[live.pending.gen] = {}
      BY <1>1, <2>1 DEF GoneInv
    <2> QED BY <1>2, <2>2, <2>3, SpokenOf
  <1>5. pack'.pc = "gone" => chunks'[pack'.gen] = {}
    <2>1. SUFFICES ASSUME pack' = pack, pack.pc = "gone" PROVE chunks'[pack.gen] = {}
      OBVIOUS
    <2>2. pack.gen # NoGen /\ Delivered(pack.gen) /\ chunks[pack.gen] = {}
      BY <2>1 DEF Sides, PackSide, GoneInv
    <2> QED BY <1>2, <2>2, SpokenOf
  <1> QED BY <1>3, <1>4, <1>5 DEF GoneInv

(* Every mark is made where nothing is left.                               *)
LEMMA NextGone ==
  ASSUME Typed, DeliveryInv, Sides, SweepInv, GoneInv, "overlap" \notin excuse => Alone, [Next]_vars
  PROVE  GoneInv'
  <1>0. /\ live \in Dir /\ excuse \subseteq excuse'
        /\ pack \in Process({"idle", "start", "gone", "build", "move"}) /\ NoSide.gone = "no"
        /\ Idle.pc = "idle"
    BY Grows, SpokenOf, NothingStaged DEF Typed, Idle
  <1>1. ASSUME NEW g \in Gen, Execution(g) \/ Poll(g) \/ Expire(g) PROVE GoneInv'
    <2>1. pack' = pack
      BY <1>1 DEF Execution, Submit, Encode, PackageInBatch, ExecutionFails, Expire, Poll, PollFails,
                  PollSucceeds, DeferPackaging, PackageOnHost, ListOutputs, GetOutput, LeaveInS3,
                  Archive, Place
    <2>2. \/ live'.remote = live.remote \/ live'.remote.gone = "no"
      <3>1. CASE Place(g)
        <4>1. Own(g)
          BY <3>1 DEF DeliveryInv, Staging, Active, Place, Step
        <4> QED BY <3>1, <4>1, PlaceTyped DEF Own
      <3>2. CASE Archive(g)
        BY <3>2, NothingStaged DEF Archive
      <3>3. CASE ~Place(g) /\ ~Archive(g)
        BY <1>1, <3>3 DEF Execution, Submit, Encode, PackageInBatch, ExecutionFails, Expire, Poll,
                  PollFails, PollSucceeds, DeferPackaging, PackageOnHost, ListOutputs, GetOutput, LeaveInS3
      <3> QED BY <3>1, <3>2, <3>3
    <2>3. \/ live'.pending = live.pending \/ live'.pending.gone = "no"
      <3>1. CASE Place(g)
        <4>1. Own(g)
          BY <3>1 DEF DeliveryInv, Staging, Active, Place, Step
        <4> QED BY <3>1, <4>1, PlaceTyped DEF Own
      <3>2. CASE Archive(g)
        BY <3>2, NothingStaged DEF Archive
      <3>3. CASE ~Place(g) /\ ~Archive(g)
        BY <1>1, <3>3 DEF Execution, Submit, Encode, PackageInBatch, ExecutionFails, Expire, Poll,
                  PollFails, PollSucceeds, DeferPackaging, PackageOnHost, ListOutputs, GetOutput, LeaveInS3
      <3> QED BY <3>1, <3>2, <3>3
    <2> QED BY <2>1, <2>2, <2>3, GoneFrame
  <1>2. CASE Fetch
    <2>1. pack' = pack
      BY <1>2 DEF Fetch, FetchOutput, FetchReads, FetchLists, FetchGets, FetchEnds
    <2>2. CASE FetchLists /\ staged[fetch.gen] = {}
      <3> DEFINE side == [gen |-> fetch.gen, want |-> fetch.want, gone |-> "no"]
                 new == IF Complete(fetch.want) THEN NoSide
                        ELSE IF live.made THEN Gone(side, "fetch") ELSE live.remote
      <3>1. live' = [live EXCEPT !.remote = new] /\ staged' = staged
        BY <2>2 DEF FetchLists, s3
      <3>2. new = live.remote \/ new.gone = "no" \/ new.gen = fetch.gen
        BY <1>0 DEF Gone
      <3> HIDE DEF new
      <3>3. live'.remote = new /\ live'.pending = live.pending
        BY <1>0, <3>1 DEF Dir
      <3> QED BY <2>1, <2>2, <3>1, <3>2, <3>3, GoneFrame
    <2>3. CASE ~(FetchLists /\ staged[fetch.gen] = {})
      <3>1. \/ live' = live \/ live' = [live EXCEPT !.remote = NoSide]
            \/ \E p \in Piece : live' = [live EXCEPT !.made = TRUE, !.files[p] = fetch.gen]
        <4>1. First(fetch.todo) \subseteq Piece
          BY DEF First, Typed, Process
        <4> QED BY <1>2, <2>3, <4>1 DEF Fetch, FetchOutput, FetchReads, FetchLists, FetchGets, FetchEnds
      <3>2. live'.pending = live.pending /\ (live'.remote = live.remote \/ live'.remote = NoSide)
        BY <1>0, <3>1 DEF Dir
      <3> QED BY <1>0, <2>1, <3>2, GoneFrame
    <2> QED BY <2>2, <2>3
  <1>3. CASE Package
    <2>1. CASE PackageReads
      <3>1. live' = live /\ chunks' = chunks
        BY <2>1 DEF PackageReads, s3
      <3>2. pack' = Idle \/ pack' = [Idle EXCEPT !.pc = IF chunks[live.pending.gen] = {} THEN "gone" ELSE "build",
                                                 !.gen = live.pending.gen]
        BY <2>1 DEF PackageReads
      <3>3. pack'.pc = "gone" => chunks'[pack'.gen] = {}
        <4>1. CASE pack' = Idle
          BY <1>0, <4>1
        <4>2. CASE pack' # Idle
          <5> DEFINE to == IF chunks[live.pending.gen] = {} THEN "gone" ELSE "build"
          <5>1. pack' = [Idle EXCEPT !.pc = to, !.gen = live.pending.gen]
            BY <3>2, <4>2
          <5> HIDE DEF to
          <5>2. pack'.pc = to /\ pack'.gen = live.pending.gen
            BY <5>1 DEF Idle
          <5> QED BY <3>1, <5>2 DEF to
        <4> QED BY <4>1, <4>2
      <3> QED BY <3>1, <3>3, GoneFrame
    <2>2. CASE MarkPendingGone
      <3>1. pack' = Idle /\ chunks' = chunks /\ pack.pc = "gone" /\ excuse' = excuse
        BY <2>2 DEF MarkPendingGone, s3
      <3>2. live' = live \/ live' = [live EXCEPT !.pending = Gone(live.pending, "package")]
        BY <2>2 DEF MarkPendingGone
      <3>3. live'.remote = live.remote
            /\ (live'.pending = live.pending \/ live'.pending = Gone(live.pending, "package"))
        BY <1>0, <3>2 DEF Dir
      <3>4. Gone(live.pending, "package").gen = live.pending.gen
        BY SpokenOf, SideGone
      <3>5. "overlap" \notin excuse => chunks[live.pending.gen] = {}
        <4>1. SUFFICES ASSUME "overlap" \notin excuse PROVE chunks[live.pending.gen] = {}
          OBVIOUS
        <4>2. live.pending # NoSide /\ \E g \in Gen : Of(g)
          BY <3>1, <4>1 DEF Alone
        <4>3. live.pending.gen # NoGen /\ pack.gen # NoGen /\ chunks[pack.gen] = {}
          BY <3>1, <4>2 DEF Sides, PendingSide, PackSide, GoneInv
        <4> QED BY <4>2, <4>3 DEF Of
      <3> QED BY <1>0, <3>1, <3>3, <3>4, <3>5, GoneFrame
    <2>3. CASE PackageOutput \/ PackageBuilds \/ PackageMoves \/ PackageEnds
      <3>1. \/ live' = live \/ live' = [live EXCEPT !.pending = NoSide]
            \/ \E p \in Piece : live' = [live EXCEPT !.files[p] = pack.gen]
        <4>1. First(pack.todo) \subseteq Piece
          BY DEF First, Typed, Process
        <4> QED BY <2>3, <4>1 DEF PackageOutput, PackageBuilds, PackageMoves, PackageEnds
      <3>2. live'.remote = live.remote /\ (live'.pending = live.pending \/ live'.pending = NoSide)
        BY <1>0, <3>1 DEF Dir
      <3>3. pack'.pc # "gone"
        <4>1. CASE PackageOutput
          BY <4>1 DEF PackageOutput, Idle
        <4>2. CASE PackageBuilds
          <5>1. pack' = Idle \/ pack' = [pack EXCEPT !.pc = "move", !.todo = {0} \cup chunks[pack.gen]]
            BY <4>2 DEF PackageBuilds
          <5> QED BY <1>0, <5>1 DEF Process
        <4>3. CASE PackageMoves
          <5>1. pack.pc = "move" /\ \E p \in First(pack.todo) :
                  pack' = Idle \/ pack' = [pack EXCEPT !.todo = @ \ {p}]
            BY <4>3 DEF PackageMoves
          <5> QED BY <1>0, <5>1 DEF Process
        <4>4. CASE PackageEnds
          BY <1>0, <4>4 DEF PackageEnds
        <4> QED BY <2>3, <4>1, <4>2, <4>3, <4>4
      <3> QED BY <1>0, <3>2, <3>3, GoneFrame
    <2> QED BY <1>3, <2>1, <2>2, <2>3 DEF Package
  <1>4. CASE MarkWrites
    <2>1. /\ sweep.pc = "write" /\ UNCHANGED <<pack, staged, excuse>>
          /\ live' \in {live, [live EXCEPT !.remote = Gone(sweep.seen, "clear")]}
      BY <1>4 DEF MarkWrites, s3
    <2>2. live'.pending = live.pending /\ live'.remote \in {live.remote, Gone(sweep.seen, "clear")}
      BY <1>0, <2>1 DEF Dir
    <2>3. Gone(sweep.seen, "clear").gen = sweep.seen.gen
      BY SpokenOf, SideGone
    <2>4. "refilled" \notin excuse => staged[sweep.seen.gen] = {}
      BY <2>1 DEF SweepInv
    <2> QED BY <2>1, <2>2, <2>3, <2>4, GoneFrame
  <1>5. CASE SweepStarts \/ SweepDeletes \/ SweepReports \/ MarkReads \/ UNCHANGED vars
    <2>1. live' = live /\ pack' = pack
      BY <1>5 DEF SweepStarts, SweepDeletes, SweepReports, MarkReads, vars
    <2> QED BY <2>1, GoneFrame
  <1>6. CASE Restart
    <2>1. live' = live /\ pack' = Idle
      BY <1>6 DEF Restart
    <2> QED BY <1>0, <2>1, GoneFrame
  <1> QED BY <1>1, <1>2, <1>3, <1>4, <1>5, <1>6 DEF Next, Sweep

-----------------------------------------------------------------------------
(* One generation to a directory, and every file of it.                    *)
LEMMA IdleIs ==
  /\ Idle.pc = "idle" /\ Idle.gen = NoGen /\ Idle.want = 0 /\ Idle.todo = {} /\ Idle.ok = TRUE
  BY DEF Idle

LEMMA InitAlone == Init => Alone /\ WholeInv
  <1> SUFFICES ASSUME Init PROVE Alone /\ WholeInv
    OBVIOUS
  <1>1. live = NoDir /\ fetch = Idle /\ pack = Idle /\ sweep = NoSweep /\ \A g \in Gen : job[g] = "new"
    BY DEF Init
  <1>2. 1 \in Gen
    BY Sizes DEF Gen
  <1>3. Of(1)
    BY <1>1, NothingStaged, IdleIs, NoSweepIs DEF Of
  <1> QED BY <1>1, <1>2, <1>3, NothingStaged, IdleIs, NoSweepIs DEF Alone, WholeInv

LEMMA SameLocal == ASSUME NEW d, NEW e, e.files = d.files PROVE Local(e) = Local(d)
  BY DEF Local

LEMMA AloneFrame ==
  ASSUME Alone, Clean => WholeInv, UNCHANGED <<live, fetch, pack>>, excuse \subseteq excuse',
         sweep' = sweep \/ (sweep'.pc # "write" /\ sweep'.seen = NoSide),
         \A g \in Gen : job'[g] = "place" /\ tmp'.made => job[g] = "place" /\ tmp.made
  PROVE  Alone' /\ (Clean' => WholeInv')
  <1>1. \E g \in Gen : Of(g)'
    BY NothingStaged DEF Alone, Of
  <1>2. Alone'
    BY <1>1 DEF Alone, Local
  <1>3. Clean' => WholeInv'
    BY DEF Clean, WholeInv, Whole
  <1> QED BY <1>2, <1>3

(* Nothing is at work in a directory that is not there.                    *)
LEMMA NobodyUnderway ==
  ASSUME Sides, Alone, ~live.made \/ ~Underway
  PROVE  /\ ~live.made => live = NoDir
         /\ fetch.pc = "idle" /\ fetch.gen = NoGen /\ pack.pc = "idle" /\ pack.gen = NoGen
         /\ sweep.pc # "write" /\ sweep.seen = NoSide
  <1>1. fetch.pc = "idle" /\ pack.pc = "idle" /\ sweep.pc # "write"
    BY NothingStaged DEF Alone, Underway
  <1> QED BY <1>1 DEF Alone, Sides, FetchSide, PackSide, SweepSide

(* A delivery clears the directory, then fills it.                         *)
LEMMA ArchiveAlone ==
  ASSUME Typed, DeliveryInv, Sides, Alone, Clean => WholeInv, "overlap" \notin excuse',
         NEW g \in Gen, Archive(g)
  PROVE  Alone' /\ (Clean' => WholeInv')
  <1>1. /\ UNCHANGED <<fetch, pack, sweep, tmp>> /\ excuse \subseteq excuse'
        /\ live' = IF tmp.made THEN NoDir ELSE live
        /\ Underway /\ live.made => "overlap" \in excuse'
    BY DEF Archive
  <1>2. CASE ~tmp.made
    <2>1. live' = live /\ ~tmp'.made
      BY <1>1, <1>2
    <2> QED BY <1>1, <2>1, AloneFrame
  <1>3. CASE tmp.made
    <2>1. live' = NoDir
      BY <1>1, <1>3
    <2>2. /\ fetch'.pc = "idle" /\ fetch'.gen = NoGen /\ pack'.pc = "idle" /\ pack'.gen = NoGen
          /\ sweep'.pc # "write" /\ sweep'.seen = NoSide
      BY <1>1, NobodyUnderway
    <2>3. Of(g)'
      BY <2>1, <2>2, NothingStaged DEF Of
    <2> QED BY <2>1, <2>2, <2>3, NothingStaged DEF Alone, WholeInv
  <1> QED BY <1>2, <1>3

LEMMA PlaceAlone ==
  ASSUME Typed, DeliveryInv, Sides, Alone, Clean => WholeInv, NEW g \in Gen, Place(g)
  PROVE  Alone' /\ (Clean' => WholeInv')
  <1>1. /\ UNCHANGED <<fetch, pack, sweep, excuse>> /\ tmp' = NoDir /\ job[g] = "place"
        /\ ~tmp'.made
    BY NothingStaged DEF Place, Step
  <1>2. CASE ~tmp.made
    <2>1. live' = live
      BY <1>2, PlaceTyped
    <2> QED BY <1>1, <2>1, AloneFrame
  <1>3. CASE tmp.made
    <2>1. ~live.made
      BY <1>1, <1>3 DEF Alone
    <2>2. /\ live = NoDir
          /\ fetch'.pc = "idle" /\ fetch'.gen = NoGen /\ pack'.pc = "idle" /\ pack'.gen = NoGen
          /\ sweep'.pc # "write" /\ sweep'.seen = NoSide
      BY <1>1, <2>1, NobodyUnderway
    <2>3. tmp.files \in [Piece -> 0 .. MaxGen] /\ g # NoGen
      BY Sizes DEF Typed, Dir
    <2>4. /\ live'.made /\ live'.remote = tmp.remote /\ live'.pending = tmp.pending
          /\ \A p \in Piece : live'.files[p] = tmp.files[p]
      BY <1>3, <2>2, NothingStaged, PlaceTyped
    <2>5. Own(g) /\ (Clean => Collected(g)) /\ mode[g] \in {"full", "manifests", "host", "defer"}
      BY <1>1 DEF DeliveryInv, Staging, Active, ByMode, Typed
    <2>6. Of(g)'
      BY <2>2, <2>4, <2>5, NothingStaged DEF Of, Own
    <2>7. /\ live'.remote # NoSide => live'.pending = NoSide
          /\ live'.remote.gone # "fetch"
          /\ live'.pending # NoSide => \A p \in Piece : live'.files[p] = NoGen
      BY <2>4, <2>5, NothingStaged DEF Own
    <2>8. Alone'
      BY <1>1, <2>2, <2>4, <2>6, <2>7 DEF Alone
    <2>9. Clean' => WholeInv'
      <3>1. SUFFICES ASSUME Clean' PROVE WholeInv'
        OBVIOUS
      <3>2. Collected(g)
        BY <1>1, <2>5, <3>1 DEF Clean
      <3>3. live'.remote = NoSide /\ live'.pending = NoSide => Whole(live')
        <4>1. SUFFICES ASSUME live'.remote = NoSide, live'.pending = NoSide PROVE Whole(live')
          OBVIOUS
        <4>2. \A p \in Piece : tmp.files[p] = g
          BY <1>1, <2>4, <2>5, <3>2, <4>1 DEF Collected
        <4> QED BY <2>4, <4>2 DEF Whole
      <3>4. live'.remote # NoSide => live'.remote.want = MaxMedia /\ live'.files[0] # NoGen
        BY <2>3, <2>4, <3>2, Sizes DEF Collected
      <3> QED BY <2>2, <3>3, <3>4 DEF WholeInv
    <2> QED BY <2>8, <2>9
  <1> QED BY <1>2, <1>3

(* No other step of a job touches the directory.                           *)
LEMMA JobsAlone ==
  ASSUME Typed, DeliveryInv, Sides, Alone, Clean => WholeInv, "overlap" \notin excuse', [Next]_vars,
         NEW g \in Gen, Execution(g) \/ Poll(g) \/ Expire(g)
  PROVE  Alone' /\ (Clean' => WholeInv')
  <1>1. CASE Execution(g) \/ Expire(g)
    <2>1. /\ UNCHANGED <<live, fetch, pack, sweep, tmp>>
          /\ \A h \in Gen : job'[h] = "place" => job[h] = "place"
      <3>1. CASE Submit(g)
        BY <3>1 DEF Submit, Typed
      <3>2. CASE ~Submit(g)
        BY <1>1, <3>2 DEF Execution, Encode, PackageInBatch, ExecutionFails, Expire, poll
      <3> QED BY <3>1, <3>2
    <2> QED BY <2>1, Grows, AloneFrame
  <1>2. CASE Poll(g) /\ ~Archive(g) /\ ~Place(g)
    <2>1. UNCHANGED <<live, fetch, pack, sweep>>
      BY <1>2 DEF Poll, PollFails, PollSucceeds, DeferPackaging, PackageOnHost, ListOutputs, GetOutput,
                  LeaveInS3
    <2>2. Active(g) /\ job[g] # "place"
      BY <1>2 DEF Poll, PollFails, PollSucceeds, DeferPackaging, PackageOnHost, ListOutputs, GetOutput,
                  LeaveInS3, Step, Active
    <2>3. job' = job \/ \E to \in Places \ {"place"} : job' = [job EXCEPT ![g] = to]
      <3>1. CASE PollSucceeds(g)
        <4>1. \E to \in {"pending", "package", "list"} : job' = [job EXCEPT ![g] = to]
          BY <3>1 DEF PollSucceeds, Step
        <4> QED BY <4>1 DEF Places
      <3>2. CASE ListOutputs(g)
        <4>1. \E to \in {"archive", "get"} : job' = [job EXCEPT ![g] = to]
          BY <3>2 DEF ListOutputs, Step
        <4> QED BY <4>1 DEF Places
      <3>3. CASE PollFails(g) \/ PackageOnHost(g) \/ GetOutput(g)
        BY <3>3 DEF PollFails, PackageOnHost, GetOutput, FailJob, Places
      <3>4. CASE DeferPackaging(g) \/ LeaveInS3(g)
        BY <3>4 DEF DeferPackaging, LeaveInS3, Step, Places
      <3> QED BY <1>2, <3>1, <3>2, <3>3, <3>4 DEF Poll
    <2>4. \A h \in Gen : job'[h] # "place"
      <3>1. \A h \in Gen \ {g} : job[h] # "place"
        BY <2>2 DEF DeliveryInv, OneJob, Active
      <3> QED BY <2>2, <2>3, <3>1 DEF Typed
    <2> QED BY <2>1, <2>4, Grows, AloneFrame
  <1> QED BY <1>1, <1>2, ArchiveAlone, PlaceAlone

(* As many media files as there are, and the manifests, are everything.    *)
LEMMA NothingMissing ==
  ASSUME Typed, Alone, live.files[0] # NoGen, Cardinality(Local(live)) >= MaxMedia
  PROVE  Whole(live)
  <1>1. Local(live) \subseteq Media
    BY DEF Local
  <1>2. Local(live) = Media
    <2>1. IsFiniteSet(Local(live)) /\ Cardinality(Local(live)) <= MaxMedia
      BY <1>1, AllMedia, FS_Subset
    <2>2. Cardinality(Local(live)) = Cardinality(Media)
      BY <2>1, AllMedia, Sizes, FS_CardinalityType
    <2> QED BY <1>1, <2>2, AllMedia, FS_Subset
  <1>3. PICK g \in Gen : Of(g)
    BY DEF Alone
  <1>4. \A p \in Piece : live.files[p] # NoGen
    BY <1>2, Sizes DEF Local
  <1> QED BY <1>3, <1>4 DEF Of, Whole

(* A fetch removes its sidecar when everything is there, and marks it when *)
(* it cannot be.                                                           *)
LEMMA FetchAlone ==
  ASSUME Typed, DeliveryInv, Sides, Alone, Clean => WholeInv, "overlap" \notin excuse', Fetch
  PROVE  Alone' /\ (Clean' => WholeInv')
  <1>0. /\ UNCHANGED <<job, tmp>> /\ excuse \subseteq excuse' /\ UNCHANGED <<pack, sweep>>
        /\ live \in Dir /\ live.remote \in Side /\ NoSide \in Side
        /\ fetch \in Process({"idle", "start", "list", "get"})
        /\ fetch.gen \in 0 .. MaxGen /\ fetch.want \in Nat
    <2>1. UNCHANGED <<pack, sweep>>
      BY DEF Fetch, FetchOutput, FetchReads, FetchLists, FetchGets, FetchEnds
    <2> QED BY <2>1, OthersStageNothing, SpokenOf, Nulls DEF poll, Typed, Process
  <1>1. Clean' => Clean /\ WholeInv
    BY <1>0 DEF Clean
  <1>2. PICK g \in Gen : Of(g)
    BY DEF Alone
  <1>3. fetch.pc # "idle" => live.remote # NoSide /\ live.pending = NoSide /\ live.made /\ pack.pc = "idle"
    BY NothingStaged DEF Alone
  <1>4. CASE UNCHANGED live /\ fetch' = Idle
    <2>1. Of(g)'
      BY <1>0, <1>2, <1>4, IdleIs DEF Of
    <2>2. Alone'
      BY <1>0, <1>4, <2>1, IdleIs DEF Alone, Local
    <2>3. Clean' => WholeInv'
      BY <1>0, <1>1, <1>4, IdleIs DEF WholeInv, Whole
    <2> QED BY <2>2, <2>3
  <1>5. CASE FetchOutput
    <2>1. UNCHANGED live /\ fetch'.pc = "start" /\ fetch'.gen = NoGen /\ live.remote # NoSide
      BY <1>5, IdleIs DEF FetchOutput, Idle
    <2>2. Of(g)'
      BY <1>0, <1>2, <2>1 DEF Of
    <2>3. Alone'
      BY <1>0, <2>1, <2>2 DEF Alone, Local
    <2>4. Clean' => WholeInv'
      BY <1>0, <1>1, <2>1 DEF WholeInv, Whole
    <2> QED BY <2>3, <2>4
  <1>6. CASE FetchReads /\ fetch' # Idle
    <2>1. /\ UNCHANGED live /\ live.remote # NoSide /\ live.remote.gone = "no" /\ fetch.pc = "start"
          /\ fetch' = [Idle EXCEPT !.pc = "list", !.gen = live.remote.gen, !.want = live.remote.want]
      BY <1>6 DEF FetchReads
    <2>2. fetch'.pc = "list" /\ fetch'.gen = live.remote.gen /\ fetch'.want = live.remote.want
      BY <2>1 DEF Idle
    <2>3. Of(g)'
      BY <1>0, <1>2, <2>1, <2>2 DEF Of
    <2>4. Alone'
      BY <1>0, <1>3, <2>1, <2>2, <2>3 DEF Alone, Local
    <2>5. Clean' => WholeInv'
      BY <1>0, <1>1, <2>1, <2>2 DEF WholeInv, Whole
    <2> QED BY <2>4, <2>5
  <1>7. CASE FetchLists /\ staged[fetch.gen] = {}
    <2> DEFINE side == [gen |-> fetch.gen, want |-> fetch.want, gone |-> "no"]
               new == IF Complete(fetch.want) THEN NoSide ELSE Gone(side, "fetch")
    <2>1. fetch.pc = "list" /\ fetch' = Idle /\ live' = [live EXCEPT !.remote = new]
      BY <1>3, <1>7 DEF FetchLists
    <2>2. side \in Side
      BY <1>0 DEF Side
    <2>3. /\ Gone(side, "fetch") \in Side /\ Gone(side, "fetch").gen = fetch.gen
          /\ Gone(side, "fetch").want = fetch.want /\ Gone(side, "fetch").gone = "fetch"
      BY <2>2, SideGone
    <2>4. /\ new \in Side
          /\ new = NoSide \/ new.gen = fetch.gen
          /\ Complete(fetch.want) => new = NoSide
          /\ ~Complete(fetch.want) => new.gen = fetch.gen /\ new.want = fetch.want /\ new.gone = "fetch"
      BY <1>0, <2>3
    <2> HIDE DEF new, side
    <2>5. live'.made = live.made /\ live'.files = live.files /\ live'.remote = new /\ live'.pending = live.pending
      BY <1>0, <2>1, <2>4, DirSide
    <2>6. Local(live') = Local(live)
      BY <2>5, SameLocal
    <2>7. fetch.want > 0
      BY <2>1 DEF Sides, FetchSide
    <2>8. IsFiniteSet(Local(live)) /\ Cardinality(Local(live)) \in Nat
      <3>1. Local(live) \subseteq Media
        BY DEF Local
      <3> QED BY <3>1, AllMedia, FS_Subset, FS_CardinalityType
    <2>9. Of(g)'
      BY <1>0, <1>2, <2>1, <2>4, <2>5, NothingStaged, IdleIs DEF Of
    <2>10. new.gone = "fetch" => Cardinality(Local(live)) < new.want
      BY <1>0, <2>4, <2>7, <2>8, NothingStaged DEF Complete
    <2>11. Alone'
      BY <1>0, <1>3, <2>1, <2>5, <2>6, <2>9, <2>10, IdleIs DEF Alone
    <2>12. Clean' => WholeInv'
      <3>1. SUFFICES ASSUME Clean' PROVE WholeInv'
        OBVIOUS
      <3>2. fetch.want = MaxMedia /\ live.files[0] # NoGen /\ sweep'.pc = sweep.pc /\ sweep'.seen = sweep.seen
        BY <1>0, <1>1, <1>3, <2>1, <3>1 DEF WholeInv
      <3>3. Complete(fetch.want) => Whole(live')
        <4>1. Complete(fetch.want) => Whole(live)
          BY <3>2, NothingMissing DEF Complete
        <4> QED BY <2>5, <4>1 DEF Whole
      <3>4. ~Complete(fetch.want) => new # NoSide /\ new.want = MaxMedia
        BY <2>4, <3>2, NothingStaged
      <3> QED BY <1>0, <1>1, <1>3, <2>1, <2>4, <2>5, <3>1, <3>2, <3>3, <3>4, IdleIs DEF WholeInv
    <2> QED BY <2>11, <2>12
  <1>8. CASE FetchLists /\ staged[fetch.gen] # {}
    <2> DEFINE listed == staged[fetch.gen]
               rest == {p \in listed : live.files[p] # fetch.gen}
    <2>1. /\ fetch.pc = "list" /\ UNCHANGED live /\ Short(listed, Piece) \subseteq excuse'
          /\ fetch' = [fetch EXCEPT !.pc = "get", !.todo = rest]
      BY <1>8 DEF FetchLists
    <2>2. "swept" \notin excuse' => \A p \in Piece \ rest : live.files[p] = fetch.gen
      <3>1. "swept" \notin excuse' => listed = Piece
        BY <1>8, <2>1 DEF Short
      <3> QED BY <3>1
    <2> HIDE DEF listed, rest
    <2>3. /\ fetch'.pc = "get" /\ fetch'.gen = fetch.gen /\ fetch'.want = fetch.want /\ fetch'.todo = rest
      BY <1>0, <2>1 DEF Process
    <2>4. Of(g)'
      BY <1>0, <1>2, <2>1, <2>3 DEF Of
    <2>5. Alone'
      BY <1>0, <1>3, <2>1, <2>3, <2>4 DEF Alone, Local
    <2>6. Clean' => WholeInv'
      BY <1>0, <1>1, <1>3, <2>1, <2>2, <2>3 DEF WholeInv, Clean
    <2> QED BY <2>5, <2>6
  <1>9. CASE FetchGets
    <2>1. PICK p \in First(fetch.todo) :
            /\ fetch' = [fetch EXCEPT !.todo = @ \ {p}, !.ok = @ /\ p \in staged[fetch.gen]]
            /\ live' = IF p \in staged[fetch.gen]
                       THEN [live EXCEPT !.made = TRUE, !.files[p] = fetch.gen]
                       ELSE live
      BY <1>9 DEF FetchGets
    <2>2. fetch.pc = "get" /\ p \in Piece /\ p \in fetch.todo
      BY <1>0, <1>9 DEF FetchGets, First, Process
    <2> DEFINE ok == fetch.ok /\ p \in staged[fetch.gen]
    <2>3. /\ fetch'.pc = "get" /\ fetch'.gen = fetch.gen /\ fetch'.want = fetch.want
          /\ fetch'.todo = fetch.todo \ {p} /\ fetch'.ok = ok
      <3>1. fetch' = [fetch EXCEPT !.todo = @ \ {p}, !.ok = ok] /\ ok \in BOOLEAN
        BY <1>0, <2>1 DEF Process
      <3> HIDE DEF ok
      <3> QED BY <1>0, <2>2, <3>1 DEF Process
    <2>4. /\ live'.made = live.made /\ live'.remote = live.remote /\ live'.pending = live.pending
          /\ \A q \in Piece : live'.files[q] = live.files[q] \/ live'.files[q] = fetch.gen
          /\ ok => live'.files[p] = fetch.gen
          /\ \A q \in Piece \ {p} : live'.files[q] = live.files[q]
      <3>1. CASE p \in staged[fetch.gen]
        <4>1. live' = [live EXCEPT !.made = TRUE, !.files[p] = fetch.gen]
          BY <2>1, <3>1
        <4> QED BY <1>0, <1>3, <2>2, <4>1 DEF Dir
      <3>2. CASE p \notin staged[fetch.gen]
        BY <2>1, <3>2
      <3> QED BY <3>1, <3>2
    <2>5. fetch.gen # NoGen /\ fetch.gen \in {NoGen, g}
      BY <1>2, <2>2 DEF Sides, FetchSide, Of
    <2>6. Of(g)'
      BY <1>0, <1>2, <2>3, <2>4, <2>5 DEF Of
    <2>7. live.remote.gone # "fetch" /\ sweep' = sweep
      BY <1>0, <2>2 DEF Alone
    <2>8. Alone'
      BY <1>0, <1>3, <2>2, <2>3, <2>4, <2>6, <2>7 DEF Alone
    <2>9. Clean' => WholeInv'
      <3>1. SUFFICES ASSUME Clean' PROVE WholeInv'
        OBVIOUS
      <3>2. live'.files[0] # NoGen
        BY <1>1, <1>3, <2>2, <2>4, <2>5, <3>1, Sizes DEF WholeInv
      <3>3. ok => \A q \in Piece \ (fetch.todo \ {p}) : live'.files[q] = fetch.gen
        BY <1>1, <2>2, <2>4, <3>1 DEF WholeInv
      <3> HIDE DEF ok
      <3> QED BY <1>0, <1>1, <1>3, <2>2, <2>3, <2>4, <2>7, <3>1, <3>2, <3>3 DEF WholeInv
    <2> QED BY <2>8, <2>9
  <1>10. CASE FetchEnds /\ fetch.ok
    <2>1. /\ fetch.pc = "get" /\ fetch.todo = {} /\ fetch' = Idle /\ live' = [live EXCEPT !.remote = NoSide]
      BY <1>10 DEF FetchEnds, Fetched
    <2>2. live'.made = live.made /\ live'.files = live.files /\ live'.remote = NoSide /\ live'.pending = live.pending
      BY <1>0, <2>1, DirSide
    <2>3. Of(g)'
      BY <1>0, <1>2, <2>1, <2>2, NothingStaged, IdleIs DEF Of
    <2>4. Alone'
      BY <1>0, <1>3, <2>1, <2>2, <2>3, NothingStaged, IdleIs DEF Alone
    <2>5. Clean' => WholeInv'
      <3>1. SUFFICES ASSUME Clean' PROVE WholeInv'
        OBVIOUS
      <3>2. \A p \in Piece : live.files[p] = fetch.gen
        BY <1>1, <1>10, <2>1, <3>1 DEF WholeInv
      <3>3. fetch.gen \in Gen
        BY <2>1, SpokenOf DEF Sides, FetchSide
      <3>4. Whole(live')
        BY <2>2, <3>2, <3>3 DEF Whole
      <3>5. fetch'.pc = "idle" /\ pack'.pc = "idle" /\ sweep'.pc = sweep.pc /\ sweep'.seen = sweep.seen
        BY <1>0, <1>3, <2>1, IdleIs
      <3> QED BY <1>1, <2>2, <3>1, <3>4, <3>5 DEF WholeInv
    <2> QED BY <2>4, <2>5
  <1>11. CASE FetchEnds /\ ~fetch.ok
    BY <1>4, <1>11 DEF FetchEnds, Fetched
  <1>12. CASE FetchReads /\ fetch' = Idle
    BY <1>4, <1>12 DEF FetchReads
  <1> QED BY <1>5, <1>6, <1>7, <1>8, <1>9, <1>10, <1>11, <1>12 DEF Fetch

(* Packaging on demand, likewise.                                          *)
LEMMA PackageAlone ==
  ASSUME Typed, DeliveryInv, Sides, Alone, Clean => WholeInv, "overlap" \notin excuse', Package
  PROVE  Alone' /\ (Clean' => WholeInv')
  <1>0. /\ UNCHANGED <<job, tmp>> /\ excuse \subseteq excuse' /\ UNCHANGED <<fetch, sweep>>
        /\ live \in Dir /\ live.pending \in Side /\ NoSide \in Side
        /\ pack \in Process({"idle", "start", "gone", "build", "move"})
        /\ pack.gen \in 0 .. MaxGen
    <2>1. UNCHANGED <<fetch, sweep>>
      BY DEF Package, PackageOutput, PackageReads, MarkPendingGone, PackageBuilds, PackageMoves, PackageEnds
    <2> QED BY <2>1, OthersStageNothing, SpokenOf, Nulls DEF poll, Typed, Process
  <1>1. Clean' => Clean /\ WholeInv
    BY <1>0 DEF Clean
  <1>2. PICK g \in Gen : Of(g)
    BY DEF Alone
  <1>3. /\ pack.pc # "idle" \/ live.pending # NoSide =>
             live.pending # NoSide /\ live.remote = NoSide /\ live.made /\ fetch.pc = "idle" /\ sweep.pc # "write"
        /\ pack.pc \in {"gone", "build", "move"} => pack.gen # NoGen /\ pack.gen = g
    BY <1>2, NothingStaged DEF Alone, Of, Sides, PackSide
  <1>4. CASE UNCHANGED live /\ pack' = Idle /\ pack.pc # "move"
    <2>1. Of(g)'
      BY <1>0, <1>2, <1>4, IdleIs DEF Of
    <2>2. Alone'
      BY <1>0, <1>4, <2>1, IdleIs DEF Alone, Local
    <2>3. Clean' => WholeInv'
      BY <1>0, <1>1, <1>4, IdleIs DEF WholeInv, Whole
    <2> QED BY <2>2, <2>3
  <1>5. CASE PackageOutput
    <2>1. UNCHANGED live /\ pack'.pc = "start" /\ pack'.gen = NoGen /\ live.pending # NoSide /\ pack.pc = "idle"
      BY <1>5, IdleIs DEF PackageOutput, Idle
    <2>2. Of(g)'
      BY <1>0, <1>2, <2>1 DEF Of
    <2>3. Alone'
      BY <1>0, <2>1, <2>2 DEF Alone, Local
    <2>4. Clean' => WholeInv'
      BY <1>0, <1>1, <2>1 DEF WholeInv, Whole
    <2> QED BY <2>3, <2>4
  <1>6. CASE PackageReads /\ pack' # Idle
    <2> DEFINE to == IF chunks[live.pending.gen] = {} THEN "gone" ELSE "build"
    <2>1. /\ UNCHANGED live /\ live.pending # NoSide /\ live.pending.gone = "no" /\ pack.pc = "start"
          /\ pack' = [Idle EXCEPT !.pc = to, !.gen = live.pending.gen]
      BY <1>6 DEF PackageReads
    <2>2. to \in {"gone", "build"}
      OBVIOUS
    <2> HIDE DEF to
    <2>3. pack'.pc \in {"gone", "build"} /\ pack'.gen = live.pending.gen
      BY <2>1, <2>2 DEF Idle
    <2>4. Of(g)'
      BY <1>0, <1>2, <2>1, <2>3 DEF Of
    <2>5. Alone'
      BY <1>0, <1>3, <2>1, <2>3, <2>4 DEF Alone, Local
    <2>6. Clean' => WholeInv'
      BY <1>0, <1>1, <2>1, <2>3 DEF WholeInv, Whole
    <2> QED BY <2>5, <2>6
  <1>7. CASE MarkPendingGone
    <2>1. pack.pc = "gone" /\ pack' = Idle
      BY <1>7 DEF MarkPendingGone
    <2>2. live' = [live EXCEPT !.pending = Gone(live.pending, "package")]
      BY <1>3, <1>7, <2>1 DEF MarkPendingGone, Alone
    <2>3. /\ Gone(live.pending, "package") \in Side /\ Gone(live.pending, "package") # NoSide
          /\ Gone(live.pending, "package").gen = live.pending.gen
      BY <1>0, SideGone
    <2> DEFINE new == Gone(live.pending, "package")
    <2> HIDE DEF new
    <2>4. /\ live'.made = live.made /\ live'.files = live.files /\ live'.remote = live.remote
          /\ live'.pending = new
      BY <1>0, <2>2, <2>3, DirSide DEF new
    <2>5. new # NoSide /\ new.gen = live.pending.gen
      BY <2>3 DEF new
    <2>6. Of(g)'
      BY <1>0, <1>2, <2>1, <2>4, <2>5, IdleIs DEF Of
    <2>7. Alone'
      BY <1>0, <1>3, <2>1, <2>4, <2>5, <2>6, NothingStaged, IdleIs DEF Alone
    <2>8. Clean' => WholeInv'
      BY <1>0, <1>1, <1>3, <2>1, <2>4, <2>5, IdleIs DEF WholeInv
    <2> QED BY <2>7, <2>8
  <1>8. CASE PackageBuilds /\ Packable(chunks[pack.gen])
    <2> DEFINE rest == {0} \cup chunks[pack.gen]
    <2>1. /\ pack.pc = "build" /\ UNCHANGED live /\ Short(chunks[pack.gen], Media) \subseteq excuse'
          /\ pack' = [pack EXCEPT !.pc = "move", !.todo = rest]
      BY <1>8 DEF PackageBuilds
    <2>2. "swept" \notin excuse' => Piece \ rest = {}
      <3>1. "swept" \notin excuse' => chunks[pack.gen] = Media
        BY <1>8, <2>1 DEF Short, Packable
      <3> QED BY <3>1, Sizes
    <2> HIDE DEF rest
    <2>3. pack'.pc = "move" /\ pack'.gen = pack.gen /\ pack'.todo = rest
      BY <1>0, <2>1 DEF Process
    <2>4. Of(g)'
      BY <1>0, <1>2, <2>1, <2>3 DEF Of
    <2>5. Alone'
      BY <1>0, <1>3, <2>1, <2>3, <2>4 DEF Alone, Local
    <2>6. Clean' => WholeInv'
      BY <1>0, <1>1, <1>3, <2>1, <2>2, <2>3 DEF WholeInv, Clean
    <2> QED BY <2>5, <2>6
  <1>9. CASE PackageMoves
    <2>1. pack.pc = "move"
      BY <1>9 DEF PackageMoves
    <2>2. PICK p \in First(pack.todo) :
            live' = [live EXCEPT !.files[p] = pack.gen] /\ pack' = [pack EXCEPT !.todo = @ \ {p}]
      BY <1>3, <1>9, <2>1 DEF PackageMoves
    <2>3. p \in Piece /\ p \in pack.todo
      BY <1>0 DEF First, Process
    <2>4. pack'.pc = "move" /\ pack'.gen = pack.gen /\ pack'.todo = pack.todo \ {p}
      BY <1>0, <2>1, <2>2 DEF Process
    <2>5. /\ live'.made = live.made /\ live'.remote = live.remote /\ live'.pending = live.pending
          /\ live'.files[p] = pack.gen /\ \A q \in Piece \ {p} : live'.files[q] = live.files[q]
      BY <1>0, <2>2, <2>3 DEF Dir
    <2>6. Of(g)'
      BY <1>0, <1>2, <1>3, <2>1, <2>4, <2>5 DEF Of
    <2>7. Alone'
      BY <1>0, <1>3, <2>1, <2>4, <2>5, <2>6, NothingStaged DEF Alone
    <2>8. Clean' => WholeInv'
      <3>1. SUFFICES ASSUME Clean' PROVE WholeInv'
        OBVIOUS
      <3>2. \A q \in Piece \ (pack.todo \ {p}) : live'.files[q] = pack.gen
        BY <1>1, <2>1, <2>5, <3>1 DEF WholeInv
      <3> QED BY <1>0, <1>3, <2>1, <2>4, <2>5, <3>2 DEF WholeInv
    <2> QED BY <2>7, <2>8
  <1>10. CASE PackageEnds
    <2>1. /\ pack.pc = "move" /\ pack.todo = {} /\ pack' = Idle /\ live' = [live EXCEPT !.pending = NoSide]
      BY <1>10 DEF PackageEnds
    <2>2. live'.made = live.made /\ live'.files = live.files /\ live'.pending = NoSide /\ live'.remote = live.remote
      BY <1>0, <2>1, DirSide
    <2>3. Of(g)'
      BY <1>0, <1>2, <2>1, <2>2, NothingStaged, IdleIs DEF Of
    <2>4. Alone'
      BY <1>0, <1>3, <2>1, <2>2, <2>3, NothingStaged, IdleIs DEF Alone
    <2>5. Clean' => WholeInv'
      <3>1. SUFFICES ASSUME Clean' PROVE WholeInv'
        OBVIOUS
      <3>2. \A p \in Piece : live.files[p] = g
        BY <1>1, <1>3, <2>1, <3>1 DEF WholeInv
      <3>3. Whole(live')
        BY <2>2, <3>2 DEF Whole
      <3> QED BY <1>0, <1>3, <2>1, <2>2, <3>3, IdleIs DEF WholeInv
    <2> QED BY <2>4, <2>5
  <1>11. CASE PackageReads /\ pack' = Idle
    BY <1>4, <1>11 DEF PackageReads
  <1>12. CASE PackageBuilds /\ ~Packable(chunks[pack.gen])
    BY <1>4, <1>12 DEF PackageBuilds
  <1> QED BY <1>5, <1>6, <1>7, <1>8, <1>9, <1>10, <1>11, <1>12 DEF Package

(* A sweep marks the sidecar that it has read.                             *)
LEMMA SweepAlone ==
  ASSUME Typed, DeliveryInv, Sides, Alone, Clean => WholeInv, "overlap" \notin excuse', Sweep
  PROVE  Alone' /\ (Clean' => WholeInv')
  <1>0. /\ UNCHANGED <<job, tmp>> /\ excuse \subseteq excuse' /\ UNCHANGED <<fetch, pack>>
        /\ live \in Dir /\ live.remote \in Side /\ sweep.seen \in Side
        /\ sweep \in [pc : {"idle", "delete", "mark", "write"}, scope : SUBSET Gen, todo : SUBSET Object,
                      any : BOOLEAN, ok : BOOLEAN, seen : Side]
    <2>1. UNCHANGED <<fetch, pack>>
      BY DEF Sweep, SweepStarts, SweepDeletes, SweepReports, MarkReads, MarkWrites
    <2> QED BY <2>1, OthersStageNothing, SpokenOf DEF poll, Typed
  <1>1. Clean' => Clean /\ WholeInv
    BY <1>0 DEF Clean
  <1>2. PICK g \in Gen : Of(g)
    BY DEF Alone
  <1>3. CASE SweepStarts \/ SweepDeletes \/ SweepReports \/ (MarkReads /\ sweep' = NoSweep)
    <2>1. SweepSide
      BY DEF Sides
    <2>2. live' = live /\ sweep'.pc # "write" /\ sweep'.seen = NoSide
      <3>1. CASE SweepStarts
        BY <3>1 DEF SweepStarts, NoSweep
      <3>2. CASE SweepDeletes
        BY <1>0, <2>1, <3>2 DEF SweepDeletes, SweepSide
      <3>3. CASE SweepReports
        BY <1>0, <2>1, <3>3, NoSweepIs DEF SweepReports, SweepSide
      <3>4. CASE MarkReads /\ sweep' = NoSweep
        BY <3>4, NoSweepIs DEF MarkReads
      <3> QED BY <1>3, <3>1, <3>2, <3>3, <3>4
    <2> QED BY <1>0, <2>2, AloneFrame
  <1>4. CASE MarkReads /\ sweep' # NoSweep
    <2>1. /\ sweep' = [sweep EXCEPT !.pc = "write", !.seen = live.remote] /\ UNCHANGED live
          /\ live.remote.gen \in sweep.scope
      BY <1>4 DEF MarkReads
    <2>2. sweep'.pc = "write" /\ sweep'.seen = live.remote
      BY <1>0, <2>1
    <2>3. live.remote # NoSide
      BY <1>0, <2>1, Sizes, NothingStaged
    <2>4. Of(g)'
      BY <1>0, <1>2, <2>1, <2>2 DEF Of
    <2>5. live.made /\ live.pending = NoSide
      BY <2>3, NothingStaged DEF Alone
    <2>6. Alone'
      BY <1>0, <2>1, <2>2, <2>3, <2>4, <2>5 DEF Alone, Local
    <2>7. Clean' => WholeInv'
      BY <1>0, <1>1, <2>1, <2>2, <2>3 DEF WholeInv, Whole
    <2> QED BY <2>6, <2>7
  <1>5. CASE MarkWrites
    <2>1. sweep.pc = "write" /\ sweep' = NoSweep
      BY <1>5 DEF MarkWrites
    <2>2. live.made /\ live.pending = NoSide
      BY <2>1 DEF Alone
    <2> DEFINE new == Gone(sweep.seen, "clear")
    <2>3. live' = [live EXCEPT !.remote = new]
      BY <1>5, <2>2 DEF MarkWrites
    <2>4. /\ new \in Side /\ new # NoSide /\ new.gen = sweep.seen.gen /\ new.want = sweep.seen.want
          /\ new.gone = "clear"
      BY <1>0, SideGone
    <2> HIDE DEF new
    <2>5. live'.made /\ live'.files = live.files /\ live'.remote = new /\ live'.pending = NoSide
      BY <1>0, <2>2, <2>3, <2>4, DirSide
    <2>6. Of(g)'
      BY <1>0, <1>2, <2>1, <2>4, <2>5, NothingStaged, NoSweepIs DEF Of
    <2>7. pack.pc = "idle"
      BY <2>2 DEF Alone
    <2>8. Alone'
      BY <1>0, <2>1, <2>2, <2>4, <2>5, <2>6, <2>7, NoSweepIs DEF Alone
    <2>9. Clean' => WholeInv'
      BY <1>0, <1>1, <2>1, <2>4, <2>5, <2>7, NoSweepIs DEF WholeInv
    <2> QED BY <2>8, <2>9
  <1> QED BY <1>3, <1>4, <1>5 DEF Sweep

(* A restart ends the processes, wherever they are.                        *)
LEMMA RestartAlone ==
  ASSUME Typed, Sides, Alone, Clean => WholeInv, Restart
  PROVE  Alone' /\ (Clean' => WholeInv')
  <1>1. /\ UNCHANGED <<live, tmp>> /\ fetch' = Idle /\ pack' = Idle /\ sweep' = NoSweep
        /\ excuse \subseteq excuse' /\ (pack.pc = "move" => "killed" \in excuse')
    BY DEF Restart
  <1>2. job' = [h \in Gen |-> IF Over(h) \/ job[h] = "new" THEN job[h] ELSE "poll"]
    BY DEF Restart
  <1>3. \A h \in Gen : job'[h] # "place"
    BY <1>2 DEF Over
  <1>4. PICK g \in Gen : Of(g)
    BY DEF Alone
  <1>5. Of(g)'
    BY <1>1, <1>4, IdleIs, NoSweepIs, NothingStaged DEF Of
  <1>6. Alone'
    BY <1>1, <1>3, <1>5, IdleIs, NoSweepIs DEF Alone, Local
  <1>7. Clean' => WholeInv'
    BY <1>1, IdleIs, NoSweepIs DEF Clean, WholeInv, Whole
  <1> QED BY <1>6, <1>7

LEMMA NextAlone ==
  ASSUME Typed, DeliveryInv, Sides, Alone, Clean => WholeInv, "overlap" \notin excuse', [Next]_vars
  PROVE  Alone' /\ (Clean' => WholeInv')
  <1>1. CASE UNCHANGED vars
    <2>1. UNCHANGED <<live, fetch, pack, sweep, job, tmp, excuse>>
      BY <1>1 DEF vars
    <2> QED BY <2>1, AloneFrame
  <1> QED BY <1>1, JobsAlone, FetchAlone, PackageAlone, SweepAlone, RestartAlone DEF Next

-----------------------------------------------------------------------------
(* The invariant, and what it implies.                                     *)
LEMMA InitInv == Init => IInv
  BY InitTyped, InitDelivery, InitSides, InitSweep, InitAlone DEF IInv

LEMMA NextInv == IInv /\ [Next]_vars => IInv'
  <1> SUFFICES ASSUME IInv, [Next]_vars PROVE IInv'
    OBVIOUS
  <1>1. /\ Typed /\ DeliveryInv /\ Sides /\ SweepInv /\ GoneInv
        /\ ("overlap" \notin excuse => Alone) /\ (Clean => WholeInv)
    BY DEF IInv
  <1>2. Typed' /\ DeliveryInv' /\ Sides' /\ SweepInv'
    BY <1>1, NextTyped, NextDelivery, NextSides, NextSweep
  <1>3. GoneInv'
    BY <1>1, NextGone
  <1>4. "overlap" \notin excuse' => Alone' /\ (Clean' => WholeInv')
    BY <1>1, Grows, NextAlone
  <1>5. "overlap" \in excuse' => ~Clean'
    BY DEF Clean
  <1> QED BY <1>2, <1>3, <1>4, <1>5 DEF IInv

LEMMA Invariance == Spec => []IInv
  BY InitInv, NextInv, PTL DEF Spec

(* "Its presence IS the remote state" (encode.go, cli_batch.py): whatever  *)
(* number of encodes, media files, clicks, sweeps, restarts and failed     *)
(* writes there is, an output with no sidecar holds every file of one      *)
(* encode, unless one of the three things CompleteIsWhole names happened.  *)
THEOREM NoSidecarMeansWhole == Spec => []CompleteIsWhole
  <1>1. IInv => CompleteIsWhole
    <2>1. SUFFICES ASSUME IInv, Clean, live.made, live.remote = NoSide, live.pending = NoSide
                   PROVE  Whole(live)
      BY DEF CompleteIsWhole, Clean
    <2> QED BY <2>1 DEF IInv, WholeInv
  <1> QED BY <1>1, Invariance, PTL

(* An output is given up only when nothing of it is staged any more and    *)
(* the disk holds less than its sidecar asks for.                          *)
THEOREM GivenUpOnlyWhenGone == Spec => []GoneIsTrue
  <1>1. IInv => GoneIsTrue
    <2>1. SUFFICES ASSUME IInv, Settled, "overlap" \notin excuse, "refilled" \notin excuse
                   PROVE  /\ live.remote.gone # "no" => staged[live.remote.gen] = {}
                          /\ live.remote.gone = "fetch" => Cardinality(Local(live)) < live.remote.want
                          /\ live.pending.gone # "no" =>
                               /\ chunks[live.pending.gen] = {}
                               /\ Whole(live) => "killed" \in excuse
      BY DEF GoneIsTrue
    <2>2. Alone /\ GoneInv
      BY <2>1 DEF IInv
    <2>3. live.pending.gone # "no" /\ "killed" \notin excuse => ~Whole(live)
      <3>1. SUFFICES ASSUME live.pending # NoSide, "killed" \notin excuse PROVE ~Whole(live)
        BY NothingStaged
      <3>2. \A p \in Piece : live.files[p] = NoGen
        BY <2>1, <2>2, <3>1 DEF Alone, Settled
      <3> QED BY <3>2, Sizes DEF Whole
    <2> QED BY <2>1, <2>2, <2>3 DEF Alone, GoneInv
  <1> QED BY <1>1, Invariance, PTL
===============================================================================
