------------------------------- MODULE Pipeline -------------------------------
(***************************************************************************)
(* Encoding one clip from its source to packaged directories, by the local *)
(* pipeline (cli_local: a work directory that survives a failure, resumed  *)
(* or not) and by the farm (cli_local_dist plans, its worker runs tasks).  *)
(*                                                                         *)
(* Runs follow each other on one name.  A run is its options: what it      *)
(* plans, announces and is left by an earlier run follows from them.       *)
(*                                                                         *)
(*   store   files of the work directory ("local") and of the farm's       *)
(*           staging ("farm"): what they hold, and whether marked done     *)
(*   rows, driven   the rows announced to the page, and those driven       *)
(*   out     packaged directories, one per codec                           *)
(*   made    the recipes of the runs whose files the work directory holds  *)
(***************************************************************************)
EXTENDS ChunkPlan, Ladder, Manifests, Functions

CONSTANTS Clips,          \* the sources that have had this name
          Ladders,        \* ladders by name
          Options,        \* what a run may be asked
          FixedSegment,   \* _SEGMENT_DURATION_S, the farm's segment
          Passes,         \* passes of each codec
          Rank,           \* the job's rank on the farm
          MaxRuns, MaxFaults   \* bounds of the model

(***************************************************************************)
(* A clip has frames in some of its slots; a row of a ladder has a height; *)
(* a segment is not empty, nor is a chunk that is asked for; and the farm  *)
(* copies the video as it is, so that it never pads.                       *)
(***************************************************************************)
ASSUME ClipAssumption ==
  \A c \in DOMAIN Clips : /\ Clips[c].slots \in SUBSET Nat /\ IsFiniteSet(Clips[c].slots)
                          /\ Clips[c].duration \in Nat \ {0}

LadderRow == [width : Nat, height : Nat \ {0}, bitrate : Nat]

ASSUME LadderAssumption ==
  \A l \in DOMAIN Ladders : \A c \in DOMAIN Ladders[l] : Ladders[l][c] \in Seq(LadderRow)

OptionFields == {"mode", "clip", "limit", "chunk", "seg", "pad", "force", "codecs", "ladder",
                 "minRes", "maxRes", "override", "sized", "budget", "fmp4", "ts"}

ASSUME OptionAssumption ==
  \A o \in Options :
    /\ DOMAIN o = OptionFields
    /\ o.mode \in {"full", "resume", "dist"} /\ (o.mode = "dist" => ~o.pad)
    /\ o.clip \in DOMAIN Clips /\ o.ladder \in DOMAIN Ladders
    /\ o.limit \in Nat /\ o.chunk \in Nat /\ o.seg \in Nat \ {0}
    /\ \A v \in DOMAIN o.sized : o.sized[v] \in Nat \ {0}
    /\ {o.pad, o.force, o.fmp4, o.ts} \subseteq BOOLEAN

ASSUME SegmentAssumption == {FixedSegment, Gop} \subseteq Nat \ {0} /\ Partial \in Nat

VARIABLES pc, opt, run, store, todo, error, reads, rows, driven, out, made, excuse, faults

vars == <<pc, opt, run, store, todo, error, reads, rows, driven, out, made, excuse, faults>>
-----------------------------------------------------------------------------
\* What the options of a run come to.

OnFarm(o) == o.mode = "dist"
Info(o) == Clips[o.clip]
Where == IF OnFarm(opt) THEN "farm" ELSE "local"

RungsOf(o, codec) ==
  SelectRungs(Ladders[o.ladder], codec, o.minRes, o.maxRes, Info(o).width, o.override)

Codecs(o) == {c \in Range(CodecList(o.codecs)) : RungsOf(o, c) # <<>>}

LabelsOf(o, codec) == [i \in DOMAIN RungsOf(o, codec) |-> RungsOf(o, codec)[i].label]

Variants(o) == UNION {{<<c, l>> : l \in Range(LabelsOf(o, c))} : c \in Codecs(o)}

LimitOf(o) == IF OnFarm(o) THEN EffectiveLimit(o.limit, Info(o).duration, FixedSegment)
              ELSE o.limit

\* The duration a run plans for, known before there is a mezzanine.
Planned(o) == Clamped(LimitOf(o), Info(o).duration)

PadBoundary(o) == Lcm(Lcm(o.seg, Max({1, Partial})), Gop)

\* The contract at the head of chunking.py: a GOP divides a segment and a segment
\* the grid; a fragment divides a segment as well.
Aligned(o) == ChunkGrid(IF OnFarm(o) THEN FixedSegment ELSE o.seg) % PadBoundary(o) = 0

ASSUME AlignmentContract == \A o \in Options : o.pad => Aligned(o)

Padding(o, duration) == IF o.pad THEN PadTo(duration, PadBoundary(o)) ELSE 0

\* The farm's tiling of a variant: its own chunk duration, or the default one.
FarmChunk(o, variant) ==
  IF variant \in DOMAIN o.sized THEN o.sized[variant]
  ELSE ResolveChunkDuration(o.chunk, Planned(o), FixedSegment)

FarmTiling(o, variant) == Tiling(Planned(o), FarmChunk(o, variant), FixedSegment)

\* The local pipeline's tiling of a duration; one chunk is no chunk at all.
LocalTiling(o, duration) ==
  IF o.chunk = 0 THEN <<>>
  ELSE LET t == Tiling(duration, o.chunk, o.seg) IN IF Len(t) > 1 THEN t ELSE <<>>

PlanAccepted(o) ==
  /\ Codecs(o) # {}
  /\ IF OnFarm(o) THEN \A v \in Variants(o) : Accepted(Planned(o), FarmChunk(o, v), FixedSegment)
     ELSE o.chunk > 0 => Accepted(Planned(o), o.chunk, o.seg)

\* A row: kind, codec, label, and the chunk, 0 for the whole.
Row(kind, codec) == <<kind, codec, Audio, 0>>
VariantRows(v, n) == {<<"encode", v[1], v[2], i>> : i \in 1..n}
WholeRow(v) == <<"encode", v[1], v[2], 0>>

PackageRows(o, codec) ==
  {Row("package", codec)}
    \union (IF OnFarm(o) \/ o.fmp4 THEN {Row("fragments", codec), Row("hls", codec)} ELSE {})
    \union (IF ~OnFarm(o) /\ o.ts THEN {Row("hls-ts", codec)} ELSE {})

\* Announces the chunks before a runt has joined its neighbour (a mutant).
UncoalescedRows(o, v) ==
  IF OnFarm(o) THEN VariantRows(v, Len(PlanChunks(Planned(o), FarmChunk(o, v), FixedSegment)))
  ELSE IF LocalTiling(o, Planned(o)) = <<>> THEN {WholeRow(v)}
  ELSE VariantRows(v, Len(PlanChunks(Planned(o), o.chunk, o.seg)))

EncodeRows(o, v) ==
  LET local == LocalTiling(o, Planned(o))
  IN  IF OnFarm(o) THEN VariantRows(v, Len(FarmTiling(o, v)))
      ELSE IF local = <<>> THEN {WholeRow(v)} ELSE VariantRows(v, Len(local))

Announced(o) ==
  {Row("mezzanine", "")}
    \union (IF Info(o).audio THEN {Row("audio", "")} ELSE {})
    \union (UNION {EncodeRows(o, v) : v \in Variants(o)})
    \union (UNION {PackageRows(o, c) : c \in Codecs(o)})
-----------------------------------------------------------------------------
\* The files of a store.

Name(codec, label, chunk) == <<codec, label, chunk>>
MezzFile == Name("mezzanine", Audio, 0)
AudioFile == Name("audio", Audio, 0)

Done(content) == [content |-> content, done |-> TRUE]
Torn == [content |-> <<>>, done |-> FALSE]

IsComplete(files, name) == name \in DOMAIN files /\ files[name].done

\* What a new run of the local pipeline leaves of the old files.
SweepPartials(files) == Restrict(files, {f \in DOMAIN files : IsComplete(files, f)})
SweepReusable(files) == Restrict(files, DOMAIN files \intersect {MezzFile})

Swept(o, files) ==
  IF o.force THEN SweepReusable(SweepPartials(files)) ELSE SweepPartials(files)

Mezz == store[Where][MezzFile].content

\* Files under these names, over what is there.
Put(files, names, file) == Over([n \in names |-> file], files)

Store(name, file) == store' = [store EXCEPT ![Where] = Put(@, {name}, file)]

\* What the files of the work directory depend on.
Recipe(o) == [clip |-> o.clip, limit |-> o.limit, chunk |-> o.chunk, seg |-> o.seg, pad |-> o.pad]

\* Complete variants of a directory, by codec.
Discovered(files) ==
  {<<f[1], f[2]>> : f \in {g \in DOMAIN files : IsComplete(files, g) /\ g[3] = 0}}
    \ {<<"mezzanine", Audio>>, <<"audio", Audio>>}

DiscoveredCodecs == {v[1] : v \in Discovered(store["local"])}

\* Which codecs a resume packages: those asked for, all of which must be there,
\* or, asked for nothing, what is there.
ResolveCodecSelection(o) ==
  IF o.codecs # "" THEN Range(CodecList(o.codecs))
  ELSE IF {"hevc", "h264"} \subseteq DiscoveredCodecs THEN DiscoveredCodecs
  ELSE LET order == CodecList("all")
       IN  {order[Min({i \in DOMAIN order : order[i] \in DiscoveredCodecs})]}

\* The variants this run packages.
Packaged(codec) ==
  IF opt.mode = "resume"
    THEN LET labels == {v[2] : v \in {w \in Discovered(store["local"]) :
                                        /\ w[1] = codec
                                        /\ w[2][1] >= opt.minRes /\ w[2][1] <= opt.maxRes}}
         IN  Ordered(labels, {p \in labels \X labels :
                                \/ p[1][1] > p[2][1]
                                \/ p[1][1] = p[2][1] /\ p[1][2] < p[2][2]})
    ELSE LabelsOf(opt, codec)

ToPackage == IF opt.mode = "resume" THEN ResolveCodecSelection(opt) ELSE Codecs(opt)
-----------------------------------------------------------------------------
\* The units of work of a run.

\* Local: a variant that is not complete, whole or by chunks, without the chunks
\* that are.
Duration == Mezz.duration + Padding(opt, Mezz.duration)

LocalUnits ==
  LET files == store["local"]
      tiles == DOMAIN LocalTiling(opt, Duration)
      chunks == IF tiles = {} THEN {0} ELSE tiles
      Wanted(v) == {i \in chunks : ~IsComplete(files, Name(v[1], v[2], i))}
  IN  UNION {{[codec |-> v[1], labels |-> <<v[2]>>, chunk |-> i, key |-> 0] : i \in Wanted(v)} :
              v \in {w \in Variants(opt) : ~IsComplete(files, Name(w[1], w[2], 0))}}

FarmTasks(o) ==
  UNION {Tasks(c, RungsOf(o, c), o.budget,
               [l \in Range(LabelsOf(o, c)) |-> FarmTiling(o, <<c, l>>)]) :
          c \in Codecs(o)}

\* The farm takes the task of the smallest priority key first.
FarmUnits(o) ==
  LET tasks == FarmTasks(o)
  IN  {[codec |-> t.codec, labels |-> [i \in DOMAIN t.members |-> t.members[i].label],
        chunk |-> t.chunk, key |-> PriorityKey(t, tasks, Passes, Rank)] : t \in tasks}

Dispatched(u) == \A w \in todo : u.key <= w.key

\* A band is cut on the grid of its first member.
TileOf(u) ==
  LET tiles == IF OnFarm(opt) THEN FarmTiling(opt, <<u.codec, u.labels[1]>>)
               ELSE LocalTiling(opt, Duration)
  IN  IF u.chunk = 0 THEN [start |-> 0, end |-> Duration] ELSE tiles[u.chunk]

\* A farm worker checks that its mezzanine covers the plan.
PlanFits == OnFarm(opt) => IF LimitOf(opt) > 0 THEN Mezz.duration >= Planned(opt)
                           ELSE Mezz.duration = Planned(opt)

\* The files a unit writes, one for each of its rungs.
Outputs(u) == {Name(u.codec, u.labels[i], u.chunk) : i \in DOMAIN u.labels}

RowsOf(u) == {<<"encode", u.codec, u.labels[i], u.chunk>> : i \in DOMAIN u.labels}

\* The members of the unit are cut alike.
OneGrid(u) == \A i \in DOMAIN u.labels :
                Len(FarmTiling(opt, <<u.codec, u.labels[i]>>))
                  = Len(FarmTiling(opt, <<u.codec, u.labels[1]>>))

\* How many chunks make up a variant: the local plan's, or what the farm holds.
ChunksToJoin(v) ==
  IF ~OnFarm(opt) THEN Len(LocalTiling(opt, Duration))
  ELSE Max({0} \union {f[3] : f \in {g \in DOMAIN store["farm"] : g[1] = v[1] /\ g[2] = v[2]}})
-----------------------------------------------------------------------------
Init ==
  /\ pc = "idle" /\ opt \in Options /\ run = 0
  /\ store = [s \in {"local", "farm"} |-> << >>]
  /\ todo = {} /\ error = FALSE /\ reads = TRUE
  /\ rows = {} /\ driven = {} /\ out = << >>
  /\ made = {} /\ excuse = {} /\ faults = 0

\* A run made a file of a clip with a missing frame without its table of time stamps.
Holed == excuse \intersect {"hole"}

Stopped == pc \in {"idle", "done", "failed"}

Begin(o) ==
  /\ Stopped /\ run < MaxRuns
  /\ run' = run + 1
  /\ todo' = {} /\ error' = FALSE /\ driven' = {}

\* No rung fits the source, or the plan is refused: nothing has been touched.
Refuse(o) ==
  /\ Begin(o) /\ ~PlanAccepted(o)
  /\ o.mode = "resume" => Discovered(store["local"]) = {}
  /\ opt' = o /\ pc' = "failed" /\ rows' = {} /\ excuse' = Holed
  /\ UNCHANGED <<store, reads, out, made, faults>>

\* A full run: announce, then clear the work directory of what is torn.  It reuses
\* the rest, whatever options it was made with.
StartFull(o) ==
  /\ Begin(o) /\ PlanAccepted(o)
  /\ \/ o.mode = "full"
     \/ o.mode = "resume" /\ Discovered(store["local"]) = {}
  /\ opt' = [o EXCEPT !.mode = "full"]
  /\ rows' = Announced(o) /\ reads' \in BOOLEAN
  /\ LET files == Swept(o, store["local"])
         kept  == IF files = << >> THEN {}
                  ELSE IF o.force THEN {[Recipe(o) EXCEPT !.clip = m.clip, !.limit = m.limit] : m \in made}
                  ELSE made
     IN  /\ store' = [store EXCEPT !["local"] = files]
         /\ made' = kept \union {Recipe(o)}
         /\ excuse' = (IF files = << >> THEN {} ELSE {"reuse"} \union Holed)
                      \union (IF kept \subseteq {Recipe(o)} THEN {} ELSE {"mixed"})
  /\ pc' = "mezzanine"
  /\ UNCHANGED <<out, faults>>

\* A farm run plans, announces and starts on an empty prefix.
StartFarm(o) ==
  /\ Begin(o) /\ OnFarm(o) /\ PlanAccepted(o)
  /\ opt' = o /\ rows' = Announced(o) /\ reads' = TRUE
  /\ store' = [store EXCEPT !["farm"] = << >>]
  /\ excuse' = Holed /\ pc' = "mezzanine"
  /\ UNCHANGED <<out, made, faults>>

\* A resume packages the complete variants of the directory it is given.
StartResume(o) ==
  /\ Begin(o) /\ o.mode = "resume" /\ Discovered(store["local"]) # {}
  /\ opt' = o /\ rows' = {}
  /\ excuse' = (IF Cardinality(made) > 1 THEN {"mixed"} ELSE {}) \union Holed
  /\ pc' = IF ResolveCodecSelection(o) \subseteq DiscoveredCodecs THEN "package" ELSE "failed"
  /\ todo' = IF ResolveCodecSelection(o) \subseteq DiscoveredCodecs THEN ResolveCodecSelection(o) ELSE {}
  /\ UNCHANGED <<store, reads, out, made, faults>>

\* The mezzanine, unless a complete one is there; then the units are laid out.
MakeMezzanine ==
  /\ pc = "mezzanine"
  /\ IF IsComplete(store[Where], MezzFile) THEN UNCHANGED store
     ELSE Store(MezzFile, Done(Mezzanine(Info(opt), LimitOf(opt))))
  /\ driven' = driven \union {Row("mezzanine", "")}
  /\ pc' = "plan"
  /\ UNCHANGED <<opt, run, todo, error, reads, rows, out, made, excuse, faults>>

\* The variants already whole show as skipped.
LayOut ==
  /\ pc = "plan"
  /\ todo' = IF OnFarm(opt) THEN FarmUnits(opt) ELSE LocalUnits
  /\ driven' = driven \union
       {WholeRow(v) : v \in {w \in Variants(opt) : ~OnFarm(opt)
                               /\ IsComplete(store["local"], Name(w[1], w[2], 0))}}
  /\ excuse' = excuse
       \union (IF Padding(opt, Mezz.duration) > 0 THEN {"padded"} ELSE {})
       \union (IF ~OnFarm(opt) /\ Mezz.duration # Planned(opt) THEN {"grown"} ELSE {})
       \union (IF OnFarm(opt) /\ \E u \in FarmUnits(opt) : ~OneGrid(u) THEN {"bands"} ELSE {})
  /\ pc' = "encode"
  /\ UNCHANGED <<opt, run, store, error, reads, rows, out, made, faults>>

\* No frame is missing, from the first to the end of the file.
Gapless(mezz) == mezz.slots = 0..(CeilDiv(mezz.duration, Period) - 1)

\* One unit: every member of it gets its file.  A farm's task reads the table of
\* time stamps for itself, a local run once for all of its units.
EncodeVariant(u, table) ==
  /\ pc = "encode" /\ u \in todo /\ Dispatched(u) /\ PlanFits
  /\ OnFarm(opt) \/ table = reads
  /\ LET content == EncodedChunk(Mezz, TileOf(u), Duration,
                                 Padding(opt, Mezz.duration), table)
     IN  store' = [store EXCEPT ![Where] = Put(@, Outputs(u), Done(content))]
  /\ todo' = todo \ {u}
  /\ driven' = driven \union RowsOf(u)
  /\ excuse' = excuse \union
       (IF ~table /\ ~Gapless(Mezz) THEN {"hole"} ELSE {})
  /\ UNCHANGED <<pc, opt, run, error, reads, rows, out, made, faults>>

\* A unit fails; the others are still run to their end.
EncodeFails(u) ==
  /\ pc = "encode" /\ u \in todo /\ Dispatched(u) /\ faults < MaxFaults
  /\ Store(Name(u.codec, u.labels[1], u.chunk), Torn)
  /\ todo' = todo \ {u} /\ error' = TRUE /\ faults' = faults + 1
  /\ UNCHANGED <<pc, opt, run, reads, rows, driven, out, made, excuse>>

\* Every unit is over: the first error, if any, is raised now.
EncodeAllEnds ==
  /\ pc = "encode" /\ todo = {}
  /\ IF error THEN pc' = "failed" /\ UNCHANGED todo
     ELSE pc' = "concat" /\ todo' = {v \in Variants(opt) : ~IsComplete(store[Where], Name(v[1], v[2], 0))}
  /\ UNCHANGED <<opt, run, store, error, reads, rows, driven, out, made, excuse, faults>>

\* Join the chunks of one variant, all of which must be complete.
ConcatChunks(v) ==
  /\ pc = "concat" /\ v \in todo
  /\ LET n == ChunksToJoin(v)
         parts == [i \in 1..n |-> Name(v[1], v[2], i)]
     IN  IF n > 0 /\ \A i \in 1..n : IsComplete(store[Where], parts[i])
           THEN /\ Store(Name(v[1], v[2], 0),
                         Done(FlattenSeq([i \in 1..n |-> store[Where][parts[i]].content])))
                /\ todo' = todo \ {v} /\ UNCHANGED pc
           ELSE pc' = "failed" /\ todo' = {} /\ UNCHANGED store
  /\ UNCHANGED <<opt, run, error, reads, rows, driven, out, made, excuse, faults>>

\* The audio goes with its mezzanine, padded as the video is.
AudioOf(mezz, pad) == <<mezz.clip, mezz.duration + pad>>

\* The audio, unless a complete file is there.
MakeAudio ==
  /\ pc = "concat" /\ todo = {}
  /\ IF Info(opt).audio
       THEN /\ driven' = driven \union {Row("audio", "")}
            /\ IF IsComplete(store[Where], AudioFile) THEN UNCHANGED store
               ELSE Store(AudioFile, Done(AudioOf(Mezz, Padding(opt, Mezz.duration))))
       ELSE UNCHANGED <<driven, store>>
  /\ pc' = "package" /\ todo' = ToPackage
  /\ UNCHANGED <<opt, run, error, reads, rows, out, made, excuse, faults>>

\* The representations of a codec, the audio last, and how long each of them is.
Representations(codec) ==
  LET hasAudio == IF opt.mode = "full" THEN Info(opt).audio ELSE IsComplete(store[Where], AudioFile)
  IN  Packaged(codec) \o (IF hasAudio THEN <<Audio>> ELSE <<>>)

LengthOf(codec, l) ==
  IF l = Audio THEN store[Where][AudioFile].content[2]
  ELSE Len(store[Where][Name(codec, l, 0)].content) * Period

\* What the directory of a codec holds; a farm packages into an empty one.
Held(codec) ==
  IF codec \in DOMAIN out /\ ~OnFarm(opt) THEN out[codec]
  ELSE [files |-> << >>, mpd |-> <<>>, hls |-> << >>, ts |-> << >>, media |-> << >>]

OldFiles(codec, l) == IF l \in DOMAIN Held(codec).files THEN Held(codec).files[l] ELSE <<>>

NewFiles(codec, l) ==
  LET durs == Cut(LengthOf(codec, l), opt.seg)
  IN  [k \in DOMAIN durs |-> SegmentFile(durs[k], run)]

\* The segments of every label go over what the directory holds; the manifest
\* lists the files, by fragments if these are wanted, and the playlists come from it.
Directory(codec) ==
  LET all    == Representations(codec)
      labels == Range(all)
      old    == Held(codec)
      now    == Over([l \in labels |-> Overwritten(OldFiles(codec, l), NewFiles(codec, l))], old.files)
      list   == ConvertSegmentlist(all, [l \in labels |-> Cut(LengthOf(codec, l), opt.seg)], now)
      parts  == OnFarm(opt) \/ opt.fmp4
      mpd    == IF parts THEN WriteFragmentedMpd(list, now) ELSE list
  IN  [files |-> now, mpd |-> mpd,
       hls   |-> IF parts THEN HlsFromDash(mpd, now, old.hls) ELSE old.hls,
       ts    |-> IF ~OnFarm(opt) /\ opt.ts
                   THEN GenerateTsHls(labels, [l \in labels |-> LengthOf(codec, l)], opt.seg)
                   ELSE old.ts,
       media |-> [l \in Range(Packaged(codec)) |-> store[Where][Name(codec, l, 0)].content]]

\* Package one codec, if it has any variant.
Package(codec) ==
  /\ pc = "package" /\ codec \in todo
  /\ IF Packaged(codec) = <<>> THEN UNCHANGED <<out, driven, excuse>>
     ELSE /\ out' = Over([c \in {codec} |-> Directory(codec)], out)
          /\ driven' = driven \union PackageRows(opt, codec)
          /\ excuse' = excuse \union
               (IF \E l \in Range(Representations(codec)) :
                     Len(OldFiles(codec, l)) > Len(NewFiles(codec, l)) THEN {"stale"} ELSE {})
  /\ todo' = todo \ {codec}
  /\ UNCHANGED <<pc, opt, run, store, error, reads, rows, made, faults>>

\* A full run that got here deletes its work directory; a resume keeps what it was given.
Finish ==
  /\ pc = "package" /\ todo = {}
  /\ pc' = "done"
  /\ IF opt.mode = "full" THEN store' = [store EXCEPT !["local"] = << >>] /\ made' = {}
     ELSE UNCHANGED <<store, made>>
  /\ UNCHANGED <<opt, run, todo, error, reads, rows, driven, out, excuse, faults>>

\* The run is killed: what it was writing is left torn.
Kill ==
  /\ ~Stopped /\ faults < MaxFaults
  /\ pc' = "failed" /\ faults' = faults + 1 /\ todo' = {}
  /\ \/ UNCHANGED store
     \/ /\ pc = "encode"
        /\ \E u \in todo : Store(Name(u.codec, u.labels[1], u.chunk), Torn)
     \/ /\ pc = "concat"
        /\ \E v \in todo : Store(Name(v[1], v[2], 0), Torn)
  /\ UNCHANGED <<opt, run, error, reads, rows, driven, out, made, excuse>>

Ended == Stopped /\ run = MaxRuns /\ UNCHANGED vars

Next ==
  \/ \E o \in Options : Refuse(o) \/ StartFull(o) \/ StartFarm(o) \/ StartResume(o)
  \/ MakeMezzanine \/ LayOut
  \/ \E u \in todo : (\E t \in BOOLEAN : EncodeVariant(u, t)) \/ EncodeFails(u)
  \/ EncodeAllEnds
  \/ \E v \in todo : ConcatChunks(v)
  \/ MakeAudio
  \/ \E c \in todo : Package(c)
  \/ Finish \/ Kill \/ Ended

Spec == Init /\ [][Next]_vars
-----------------------------------------------------------------------------
\* The codecs this run has packaged.
Fresh == {c \in DOMAIN out : \E l \in DOMAIN out[c].files :
                              \E k \in DOMAIN out[c].files[l] : out[c].files[l][k].run = run}

\* What every variant of this run owes: for a resume, by the one recipe its files have.
Owed ==
  LET o == IF opt.mode = "resume" THEN CHOOSE m \in made : TRUE ELSE opt
      m == Mezzanine(Info(o), IF opt.mode = "resume" THEN o.limit ELSE LimitOf(o))
  IN  WholeVariant(m, Padding(o, m.duration))

(***************************************************************************)
(* Whatever the chunks, the limit, the padding and the grid, and whatever  *)
(* an earlier run left, a variant that is delivered shows every frame of   *)
(* the planned clip once and in order, except for two causes: files of a   *)
(* run with other options are reused (run_full's work directory is keyed   *)
(* by the file's name alone), or the clip misses a frame, at its end too,  *)
(* and its table of time stamps could not be read (frames_before counts as *)
(* if none was missing).                                                   *)
(***************************************************************************)
FramesOnce ==
  pc = "done" /\ excuse \intersect {"mixed", "hole"} = {} =>
    \A c \in Fresh : \A l \in Range(Packaged(c)) : out[c].media[l] = Owed

(***************************************************************************)
(* The rows a run announced (_emit_plan) are the rows it drove, except for *)
(* four causes: pieces of an earlier run are reused, the padding or the    *)
(* last frame of a limited mezzanine makes the encode cut otherwise than   *)
(* the announcement did, and a band of the farm runs on the grid of its    *)
(* first member while the others announced their own.                      *)
(***************************************************************************)
RowsFilled ==
  pc = "done" /\ opt.mode # "resume"
    /\ excuse \intersect {"reuse", "padded", "grown", "bands"} = {} => rows = driven

\* What a manifest and its playlists say of one representation is what was packaged.
RepresentationAgrees(dir, rep) ==
  LET l == rep.label
      n == Cardinality({k \in DOMAIN dir.files[l] : dir.files[l][k].run = run})
      Length == IF l = Audio THEN Total(rep.durs) ELSE Len(dir.media[l]) * Period
      Ranged(k) == {i \in DOMAIN rep.urls : rep.urls[i] = k}
  IN  /\ Range(rep.urls) = 1..n
      /\ Total(rep.durs) = Length
      /\ rep.ranges # <<>> =>
           \A k \in 1..n : \A b \in DOMAIN dir.files[l][k].boxes :
             dir.files[l][k].boxes[b].type = "mdat" =>
               LET at == Total([j \in 1..(b - 1) |-> dir.files[l][k].boxes[j].size])
               IN  Cardinality({i \in Ranged(k) : /\ rep.ranges[i].offset <= at
                                                  /\ at < rep.ranges[i].offset + rep.ranges[i].length}) = 1

PlaylistAgrees(dir, rep) ==
  LET segs == dir.hls[ResolutionName(rep.label)]
  IN  /\ ResolutionName(rep.label) = rep.label
      /\ [k \in DOMAIN segs |-> segs[k].url] = [k \in 1..Cardinality(Range(rep.urls)) |-> k]
      /\ Total([k \in DOMAIN segs |-> segs[k].duration]) = Total(rep.durs)
      /\ \A k \in DOMAIN segs : segs[k].parts # <<>> /\ segs[k].parts[1].independent

(***************************************************************************)
(* After a run, the DASH manifest lists each segment file this run wrote   *)
(* and no other, its durations add up to the media, its byte ranges take   *)
(* in each piece of media once, and the playlist the master names for a    *)
(* representation is in the directory of its segments and says the same:   *)
(* except where an earlier, longer package of the same name left segments, *)
(* and, for the playlists, where two rungs have one height, in the ladder  *)
(* or in a directory that rungs of two ladders are resumed from (the       *)
(* playlist's directory is named by the height, the segments' by the       *)
(* label).                                                                 *)
(***************************************************************************)
ManifestsAgree ==
  pc = "done" /\ "stale" \notin excuse =>
    \A c \in Fresh : \A i \in DOMAIN out[c].mpd :
      LET rep == out[c].mpd[i]
      IN  /\ ~OnFarm(opt) /\ opt.ts => Total(out[c].ts[rep.label]) = Total(rep.durs)
          /\ RepresentationAgrees(out[c], rep)
          /\ OnFarm(opt) \/ opt.fmp4 =>
               \/ rep.label[2] # 0
               \/ \E j \in DOMAIN out[c].mpd \ {i} :
                    ResolutionName(out[c].mpd[j].label) = ResolutionName(rep.label)
               \/ PlaylistAgrees(out[c], rep)
=============================================================================
