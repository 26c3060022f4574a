-------------------------------- MODULE Ladder --------------------------------
(***************************************************************************)
(* The rungs a job encodes and how a farm groups and orders them.  A ladder*)
(* is, for each codec, a sequence of rows of width, height and bitrate.    *)
(* A label is <<height, 0>>, or <<height, i>> when the ladder has several  *)
(* rungs of that height ("1080p", "1080p_1").                              *)
(***************************************************************************)
EXTENDS Listing, FiniteSetsExt, SequencesExt, Functions

CONSTANTS GroupMaxHeight,   \* _GROUP_MAX_HEIGHT
          CodecCost,        \* codec_cost: relative cost of a pixel
          Bands, Levels     \* PRIORITY_BANDS, PRIORITY_LEVELS

\* "both", "all" or one codec, in the order the code packages them.
CodecList(selection) ==
  CASE selection \in {"", "both"} -> <<"hevc", "h264">>
    [] selection = "all"  -> <<"hevc", "h264", "av1">>
    [] OTHER              -> <<selection>>

\* Every rung of a codec under its label, before any filter: a job that drops
\* rungs must not rename the ones it keeps.
BuildRungs(ladder, codec) ==
  LET rows == IF codec \in DOMAIN ladder THEN ladder[codec] ELSE <<>>
      Like(i) == {j \in DOMAIN rows : rows[j].height = rows[i].height}
  IN  [i \in DOMAIN rows |->
         [label |-> <<rows[i].height,
                      IF Cardinality(Like(i)) = 1 THEN 0
                      ELSE Cardinality({j \in Like(i) : j <= i})>>,
          width |-> rows[i].width, height |-> rows[i].height, bitrate |-> rows[i].bitrate]]

\* The rungs the source and the resolution limits leave, overrides applied.
SelectRungs(ladder, codec, minRes, maxRes, sourceWidth, override) ==
  LET all     == BuildRungs(ladder, codec)
      Kept(r) == r.width <= sourceWidth /\ r.height >= minRes /\ r.height <= maxRes
      Paid(r) == IF r.height \in DOMAIN override
                   THEN [r EXCEPT !.bitrate = override[r.height]] ELSE r
      kept    == Ascending({i \in DOMAIN all : Kept(all[i])})
  IN  [k \in DOMAIN kept |-> Paid(all[kept[k]])]

Pixels(r) == r.width * r.height

\* Pairs of a set of rungs (by number), the lighter or the heavier first, equals
\* in the ladder's order.
Lighter(rungs, S) ==
  {p \in S \X S : LET a == Pixels(rungs[p[1]]) b == Pixels(rungs[p[2]])
                 IN  a < b \/ (a = b /\ p[1] < p[2])}
Heavier(rungs, S) ==
  {p \in S \X S : LET a == Pixels(rungs[p[1]]) b == Pixels(rungs[p[2]])
                 IN  a > b \/ (a = b /\ p[1] < p[2])}

\* Which rungs share one decode: filled smallest first up to a budget of pixels,
\* listed heaviest first.  A band of one is no band.
PlanGroups(rungs, budget) ==
  LET low == {i \in DOMAIN rungs : rungs[i].height <= GroupMaxHeight}
      eligible == Ordered(low, Lighter(rungs, low))
      n == Len(eligible)
      Px(k) == Pixels(rungs[eligible[k]])
      used[k \in 0..n] ==
        IF k = 0 THEN 0 ELSE Px(k) + (IF used[k - 1] + Px(k) > budget THEN 0 ELSE used[k - 1])
      starts == {k \in 1..n : k = 1 \/ used[k - 1] + Px(k) > budget}
      Band(s) == {eligible[k] : k \in {j \in s..n : \A t \in starts : t > s => j < t}}
      Listed(band) == LET order == Ordered(band, Heavier(rungs, band))
                      IN  [k \in DOMAIN order |-> rungs[order[k]]]
  IN  IF budget <= 0 THEN {}
      ELSE {Listed(Band(s)) : s \in {t \in starts : Cardinality(Band(t)) > 1}}

\* The tasks of one codec: a rung outside the bands alone, a band together, each
\* on every chunk of its first member's grid.
Tasks(codec, rungs, budget, chunks) ==
  LET bands   == PlanGroups(rungs, budget)
      grouped == UNION {Range(b) : b \in bands}
      groups  == bands \union {<<r>> : r \in Range(rungs) \ grouped}
  IN  UNION {{[codec |-> codec, members |-> g, chunk |-> i] :
                i \in 1..Len(chunks[g[1].label])} : g \in groups}

\* A task costs what its members cost; two passes cost 1.8 times one (all in tenths).
Weight(task, passes) ==
  FoldLeft(LAMBDA sum, r : sum + r.height * r.height * CodecCost[task.codec]
                                 * (IF passes[task.codec] = 2 THEN 18 ELSE 10),
           0, task.members)

\* Costlier tasks get the smaller key, in bands, inside the band of their job.
PriorityKey(task, tasks, passes, rank) ==
  LET weights == {Weight(t, passes) : t \in tasks}
      idx     == Cardinality({w \in weights : w > Weight(task, passes)})
      band    == Min({Bands, 1 + (idx * Bands) \div Max({1, Cardinality(weights)})})
  IN  Min({Levels, rank * Bands + band})
=============================================================================
