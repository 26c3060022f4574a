------------------------------ MODULE ChunkPlan ------------------------------
(***************************************************************************)
(* How the time line of a clip is cut: the grid, the chunks of a variant,  *)
(* the padding to a segment boundary, and which frames one chunk's encode  *)
(* produces.  Time is in ticks; the frame in slot s is shown at s * Period.*)
(* A frame is <<clip, slot>>; a padding frame is Black.                    *)
(***************************************************************************)
EXTENDS Listing, FiniteSetsExt, SequencesExt

CONSTANTS Period,     \* ticks from one frame to the next
          GridUnit,   \* CHUNK_GRID_S
          MinTail,    \* _MIN_TAIL_CHUNK_S
          Threshold   \* PADDING_THRESHOLD_S

ASSUME TicksAssumption == {Period, GridUnit, MinTail} \subseteq Nat \ {0} /\ Threshold \in Nat

Black == "black"

CeilDiv(a, b) == (a + b - 1) \div b

Lcm(a, b) == Min({k \in 1..(a * b) : k % a = 0 /\ k % b = 0})

\* The unit chunks are cut on: whole segments of the ladder and whole units of
\* GridUnit, so that ladders of different segments are cut alike.
ChunkGrid(seg) == Lcm(seg, GridUnit)

ChunkCount(content, chunk) == Max({1, CeilDiv(content, chunk)})

\* What plan_chunks refuses by an exception.
Accepted(content, chunk, seg) == content > 0 /\ chunk > 0 /\ seg > 0 /\ chunk % seg = 0

\* Near-equal chunks on the grid; the last one ends with the content.
PlanChunks(content, chunk, seg) ==
  LET units == CeilDiv(content, ChunkGrid(seg))
      n     == Min({ChunkCount(content, chunk), units})
      Cut(i) == (i * (units \div n) + Min({i, units % n})) * ChunkGrid(seg)
  IN  [i \in 1..n |-> [start |-> Cut(i - 1), end |-> IF i = n THEN content ELSE Cut(i)]]

\* A runt at the end joins the chunk before it.
Coalesced(chunks) ==
  LET n == Len(chunks)
  IN  IF n < 2 \/ chunks[n].end - chunks[n].start >= MinTail THEN chunks
      ELSE Append(SubSeq(chunks, 1, n - 2),
                  [start |-> chunks[n - 1].start, end |-> chunks[n].end])

Tiling(content, chunk, seg) == Coalesced(PlanChunks(content, chunk, seg))

\* No chunk duration means one chunk of whole segments.
ResolveChunkDuration(requested, content, seg) ==
  IF requested > 0 THEN requested ELSE Max({1, CeilDiv(content, seg)}) * seg

\* The limit on a segment boundary, to the nearest, at least one segment; 0 is none.
EffectiveLimit(limit, duration, seg) ==
  LET snapped == Max({1, (2 * limit + seg) \div (2 * seg)}) * seg
  IN  IF limit = 0 \/ snapped >= duration THEN 0 ELSE snapped

Clamped(limit, duration) == IF limit = 0 THEN duration ELSE Min({limit, duration})

\* What has to be added for a stream to end on a boundary.
PadTo(duration, boundary) ==
  LET over == duration % boundary
  IN  IF over <= Threshold THEN 0 ELSE boundary - over

\* The mezzanine: the packets of the source before the limit, copied whole, so
\* that it may last longer than the limit by part of a frame.
Mezzanine(clip, limit) ==
  LET kept == {s \in clip.slots : limit = 0 \/ s * Period < limit}
  IN  [clip |-> clip.name, slots |-> kept,
       duration |-> IF limit = 0 \/ limit >= clip.duration THEN clip.duration
                    ELSE Max({limit} \union {(s + 1) * Period : s \in kept})]

\* Counts the frame shown at t as well (a mutant).
GreedyFramesBefore(t, mezz, table) ==
  IF table THEN Cardinality({s \in mezz.slots : s * Period <= t}) ELSE CeilDiv(t + 1, Period)

\* Frames before t, counted in the file's table of time stamps; where the table
\* could not be read, computed as if no frame were missing.
FramesBefore(t, mezz, table) ==
  IF table THEN Cardinality({s \in mezz.slots : s * Period < t}) ELSE CeilDiv(t, Period)

\* What decoding the mezzanine from a seek point shows.
Decoded(mezz, from) ==
  LET shown == Ascending({s \in mezz.slots : s * Period >= from})
  IN  [i \in DOMAIN shown |-> <<mezz.clip, shown[i]>>]

\* The filter graph adds the padding to whatever was decoded.
Filtered(mezz, from, pad) == Decoded(mezz, from) \o [i \in 1..CeilDiv(pad, Period) |-> Black]

\* One chunk: an interior one stops at its share of frames, the last runs to the end.
EncodedChunk(mezz, chunk, total, pad, table) ==
  LET shown == Filtered(mezz, chunk.start, pad)
      share == FramesBefore(chunk.end, mezz, table) - FramesBefore(chunk.start, mezz, table)
  IN  IF chunk.end < total THEN SubSeq(shown, 1, Min({share, Len(shown)})) ELSE shown

\* What a delivered variant owes: every frame of the mezzanine once, in order.
WholeVariant(mezz, pad) == Filtered(mezz, 0, pad)
=============================================================================
