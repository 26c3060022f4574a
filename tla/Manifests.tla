------------------------------ MODULE Manifests ------------------------------
(***************************************************************************)
(* A packaged directory and its manifests.  The packager cuts a variant    *)
(* into numbered segment files and writes a DASH manifest; the code lists  *)
(* the files in it, expands the list to fragments, and derives the HLS     *)
(* playlists from it.                                                      *)
(*                                                                         *)
(* files[label] is the sequence of segment files of one representation, a  *)
(* file the run that wrote it and its boxes.  A representation of the      *)
(* manifest has durations, the file each belongs to, and byte ranges.      *)
(***************************************************************************)
EXTENDS ChunkPlan

CONSTANTS Partial,         \* ticks of a fragment, 0 for no fragments
          Gop,             \* ticks from one key frame to the next
          DefaultSegment   \* what a playlist says of a segment of unknown duration

Audio == <<0, 0>>   \* the label of the audio representation

\* Durations of the segments of a stream.
Cut(duration, seg) ==
  LET n == CeilDiv(duration, seg)
  IN  [i \in 1..n |-> IF i = n THEN duration - (n - 1) * seg ELSE seg]

\* One segment file as the packager writes it: a header, then for each fragment
\* its index and its data; a fragment that starts off a key frame says so.
SegmentFile(duration, run) ==
  LET n == IF Partial = 0 THEN 1 ELSE CeilDiv(duration, Partial)
      Moof(k) == [type |-> "moof", size |-> 1, default |-> "nonsync",
                  first |-> IF (k * Partial) % Gop = 0 THEN "sync" ELSE "absent"]
  IN  [run |-> run,
       boxes |-> [b \in 1..(2 * n + 1) |->
                    IF b = 1 THEN [type |-> "styp", size |-> 1]
                    ELSE IF b % 2 = 0 THEN Moof(b \div 2 - 1)
                    ELSE [type |-> "mdat", size |-> 2]]]

\* Is the fragment's first sample a key frame?  Its own flags, else the default's.
Independent(moof, audio) ==
  \/ audio
  \/ (IF moof.first # "absent" THEN moof.first ELSE moof.default) = "sync"

\* The fragments of a file: each index with the data that follows it.
ParseSegment(file, audio) ==
  LET Boxes == file.boxes
      moofs == Ascending({i \in DOMAIN Boxes : Boxes[i].type = "moof"})
      Fragment(i) ==
        [offset |-> Total([j \in 1..(i - 1) |-> Boxes[j].size]),
         length |-> Boxes[i].size + (IF i < Len(Boxes) /\ Boxes[i + 1].type = "mdat"
                                       THEN Boxes[i + 1].size ELSE 0),
         independent |-> Independent(Boxes[i], audio)]
  IN  [k \in DOMAIN moofs |-> Fragment(moofs[k])]

\* A new segment takes the place of the old one of its number; nothing clears
\* the directory, so the rest of a longer list stays.
Overwritten(old, new) == new \o SubSeq(old, Len(new) + 1, Len(old))

\* The manifest lists whatever segment files the directory holds.
ConvertSegmentlist(labels, durations, files) ==
  [i \in DOMAIN labels |->
     [label |-> labels[i], durs |-> durations[labels[i]],
      urls |-> [k \in DOMAIN files[labels[i]] |-> k], ranges |-> <<>>]]

\* Forgets the remainder (a mutant).
CarelessFragmentDurations(duration, n) == [k \in 1..n |-> duration \div n]

\* The share of each of n fragments of a segment.
FragmentDurations(duration, n) ==
  [k \in 1..n |-> LET share == duration \div n + (IF k <= duration % n THEN 1 ELSE 0)
                  IN  IF share < 1 THEN 1 ELSE share]

\* One representation by fragments; left as it is when its durations and its
\* files are not equally many.
Expanded(rep, files) ==
  LET Parts(i) == ParseSegment(files[rep.label][rep.urls[i]], rep.label = Audio)
  IN  IF Len(rep.durs) # Len(rep.urls) THEN rep
      ELSE [rep EXCEPT
              !.durs = FlattenSeq([i \in DOMAIN rep.urls |->
                         FragmentDurations(rep.durs[i], Len(Parts(i)))]),
              !.urls = FlattenSeq([i \in DOMAIN rep.urls |->
                         [k \in DOMAIN Parts(i) |-> rep.urls[i]]]),
              !.ranges = FlattenSeq([i \in DOMAIN rep.urls |->
                         [k \in DOMAIN Parts(i) |->
                            [offset |-> Parts(i)[k].offset, length |-> Parts(i)[k].length]]])]

\* A manifest that already has byte ranges is not expanded again.
WriteFragmentedMpd(mpd, files) ==
  IF \E i \in DOMAIN mpd : mpd[i].ranges # <<>> THEN mpd
  ELSE [i \in DOMAIN mpd |-> Expanded(mpd[i], files)]

\* Whole segments again: the entries of one file are one segment.
ExtractSegments(rep) ==
  LET files == Ascending(Range(rep.urls))
      Sum(f) == Total([i \in DOMAIN rep.urls |->
                         IF rep.urls[i] = f /\ i \in DOMAIN rep.durs THEN rep.durs[i] ELSE 0])
  IN  [k \in DOMAIN files |->
         [url |-> files[k],
          duration |-> IF Sum(files[k]) = 0 THEN DefaultSegment ELSE Sum(files[k])]]

\* The directory a playlist is written to is named by the height, not the label.
ResolutionName(label) == <<label[1], 0>>

\* A playlist names files of its own directory, with the parts of each.
VariantPlaylist(rep, files) ==
  LET segs == ExtractSegments(rep)
  IN  [k \in DOMAIN segs |->
         [url |-> segs[k].url, duration |-> segs[k].duration,
          parts |-> ParseSegment(files[rep.label][segs[k].url], rep.label = Audio)]]

\* Of two representations of one height the later writes the playlist.
Writer(mpd, dir) ==
  mpd[Max({i \in DOMAIN mpd : ResolutionName(mpd[i].label) = dir})]

\* The playlists by directory, beside those that are there.
HlsFromDash(mpd, files, old) ==
  Over([d \in {ResolutionName(mpd[i].label) : i \in DOMAIN mpd} |->
          VariantPlaylist(Writer(mpd, d), files)], old)

\* The TS package has the segments of each variant whose file is there.
GenerateTsHls(labels, lengths, seg) ==
  [l \in {x \in labels : x \in DOMAIN lengths} |-> Cut(lengths[l], seg)]
=============================================================================
