--------------------------- MODULE StageRowsProofs ---------------------------
(***************************************************************************)
(* The three safety properties of the stage rows of a chunk, for every     *)
(* number of machines, of markers and of messages in the queue: no source  *)
(* that lags takes a colour back, a worker's stage markers are announced   *)
(* in the order it emitted them, and a record that reached the queue is    *)
(* printed or lost with a drain, a poller or the queue.                    *)
(*                                                                         *)
(* The guard of the poller compares the first marker of a message with the *)
(* highest such number it has seen of the publisher. That is sound only    *)
(* because of how batches come about, by two threads that swap one buffer: *)
(* any two batches of a worker lie apart, one wholly before the other, and *)
(* before what is still in the buffer (Sorted). A batch that passes the    *)
(* guard therefore begins after all that was announced before (Fresh); of  *)
(* one that was overtaken and fails it only the records are announced.     *)
(***************************************************************************)
EXTENDS StageRows, SequenceTheorems, WellFoundedInduction, TLAPS

USE DEF pollerVars

Before == {p \in Nat \X Nat : p[1] < p[2]}

(* The well-founded order of the naturals, as the provers can use it.      *)
LEMMA Least ==
  ASSUME NEW T, T \subseteq Nat, T # {}
  PROVE  \E n \in T : \A m \in T : n <= m
  <1>1. IsWellFoundedOn(Before, Nat)
    BY NatLessThanWellFounded, Zenon DEF OpToRel, Before
  <1>2. \E n \in T : \A m \in T : ~(<<m, n>> \in Before)
    BY <1>1, WFMin, Zenon
  <1>3. PICK n \in T : \A m \in T : ~(<<m, n>> \in Before)
    BY <1>2
  <1>4. ASSUME NEW m \in T PROVE n <= m
    <2>1. m \in Nat /\ n \in Nat /\ <<m, n>> \notin Before
      BY <1>3
    <2>2. ~(m < n)
      BY <2>1 DEF Before
    <2> QED BY <2>1, <2>2
  <1> QED BY <1>4

(* The last stage marker of a message that is kept is one of them.         *)
LEMMA MaxIsThere ==
  ASSUME NEW n \in Nat, NEW S \in SUBSET (1 .. n), S # {}
  PROVE  Max(S) \in S
  <1> DEFINE T == {n - i : i \in S}
  <1>1. T \subseteq Nat /\ T # {}
    <2>1. \A i \in S : n - i \in Nat
      OBVIOUS
    <2> QED BY <2>1
  <1>2. PICK t \in T : \A u \in T : t <= u
    <2> HIDE DEF T
    <2> QED BY <1>1, Least
  <1>3. PICK i \in S : t = n - i
    BY <1>2
  <1>4. \A j \in S : i >= j
    BY <1>2, <1>3
  <1> QED BY <1>4 DEF Max

-----------------------------------------------------------------------------
(* The batches of one worker.                                              *)
Marker == 1 .. 6

Ascending(s) == \A i, j \in DOMAIN s : i < j => s[i] < s[j]
UpTo(s, n) == \A i \in DOMAIN s : s[i] <= n
Above(s, t) == \A i \in DOMAIN s, j \in DOMAIN t : s[i] < t[j]
Apart(s, t) == Above(s, t) \/ Above(t, s)
Top(log) == IF log = <<>> THEN 0 ELSE Last(log)
Fresh(s, sn, ap) == s # <<>> /\ Head(s) > sn => Head(s) > ap

(* S the batches in the queue and the poller's hands, h the one that the timer holds, b what is   *)
(* in the buffer, log all the worker has said; sn and ap what the poller   *)
(* has seen and announced.                                                 *)
Sorted(S, h, b, log, sn, ap) ==
  /\ S \subseteq Seq(Marker) \ {<<>>} /\ {h, b, log} \subseteq Seq(Marker)
  /\ sn \in 0 .. 6 /\ ap \in 0 .. 6
  /\ Ascending(log) /\ ap <= Top(log)
  /\ \A c \in S \cup {h, b} : Ascending(c) /\ UpTo(c, Top(log)) /\ Fresh(c, sn, ap)
  /\ \A c \in S \cup {h} : Above(c, b)
  /\ \A c, d \in S \cup {h} : c = d \/ Apart(c, d)

(* What a worker says next goes behind all its batches.                    *)
LEMMA SortedSay ==
  ASSUME NEW S, NEW h, NEW b, NEW log, NEW sn, NEW ap, Sorted(S, h, b, log, sn, ap),
         NEW m \in Follows(log)
  PROVE  Sorted(S, h, Append(b, m), Append(log, m), sn, ap)
  <1>1. m \in Marker /\ Top(log) \in 0 .. 6 /\ m > Top(log)
    BY DEF Follows, Sorted, Top, Marker, Start, Half, Done, Failed, Timing, Last
  <1>0. b \in Seq(Marker) /\ log \in Seq(Marker) /\ Ascending(log)
    BY DEF Sorted
  <1>2. Append(b, m) \in Seq(Marker) /\ Append(log, m) \in Seq(Marker) /\ Top(Append(log, m)) = m
    <2>1. Append(log, m) # <<>> /\ Append(log, m)[Len(Append(log, m))] = m
      BY <1>0, <1>1
    <2> QED BY <1>0, <1>1, <2>1 DEF Top, Last
  <1>3. UpTo(log, Top(log))
    <2>1. SUFFICES ASSUME NEW i \in DOMAIN log PROVE log[i] <= Top(log)
      BY DEF UpTo
    <2>2. log # <<>> /\ Len(log) \in DOMAIN log /\ i \in 1 .. Len(log)
      BY <1>0
    <2>3. i = Len(log) \/ i < Len(log)
      BY <1>0, <2>2
    <2>4. log[i] \in 1 .. 6 /\ log[Len(log)] \in 1 .. 6
      BY <1>0, <2>2 DEF Marker
    <2>5. log[i] <= log[Len(log)]
      BY <1>0, <2>2, <2>3, <2>4 DEF Ascending
    <2> QED BY <2>2, <2>5 DEF Top, Last
  <1>4. Ascending(Append(log, m))
    BY <1>0, <1>1, <1>3 DEF Ascending, UpTo, Marker
  <1>5. Ascending(Append(b, m)) /\ UpTo(Append(b, m), m) /\ Fresh(Append(b, m), sn, ap)
    <2>1. b \in Seq(Marker) /\ Ascending(b) /\ UpTo(b, Top(log)) /\ Fresh(b, sn, ap) /\ ap <= Top(log)
          /\ ap \in 0 .. 6
      BY DEF Sorted
    <2>2. Ascending(Append(b, m))
      BY <1>1, <2>1 DEF Ascending, UpTo, Marker
    <2>3. UpTo(Append(b, m), m)
      BY <1>1, <2>1 DEF UpTo, Marker
    <2>4. CASE b = <<>>
      BY <1>1, <2>1, <2>2, <2>3, <2>4 DEF Fresh, Marker
    <2>5. CASE b # <<>>
      <3>1. Head(Append(b, m)) = Head(b)
        BY <1>1, <2>1, <2>5
      <3> QED BY <2>1, <2>2, <2>3, <2>5, <3>1 DEF Fresh
    <2> QED BY <2>4, <2>5
  <1>6. \A c \in S \cup {h} : UpTo(c, m)
    <2>1. TAKE c \in S \cup {h}
    <2>2. c \in Seq(Marker) /\ UpTo(c, Top(log))
      BY DEF Sorted
    <2> QED BY <1>1, <2>2 DEF UpTo, Marker
  <1>7. \A c \in S \cup {h} : Above(c, Append(b, m))
    <2>1. TAKE c \in S \cup {h}
    <2>2. c \in Seq(Marker) /\ b \in Seq(Marker) /\ UpTo(c, Top(log)) /\ Above(c, b)
      BY DEF Sorted
    <2> QED BY <1>1, <2>2 DEF Above, UpTo, Marker
  <1>8. ap <= m
    BY <1>1 DEF Sorted, Marker
  <1> QED BY <1>2, <1>4, <1>5, <1>6, <1>7, <1>8 DEF Sorted

(* Batches may get lost: on their way, in the buffer, in the timer's hand.  *)
LEMMA SortedFewer ==
  ASSUME NEW S, NEW h, NEW b, NEW log, NEW sn, NEW ap, Sorted(S, h, b, log, sn, ap),
         NEW R \in SUBSET S
  PROVE  Sorted(R, h, b, log, sn, ap) /\ Sorted(R, h, <<>>, log, sn, ap)
         /\ Sorted(R, <<>>, <<>>, log, sn, ap)
  <1>1. <<>> \in Seq(Marker) /\ DOMAIN <<>> = {}
    OBVIOUS
  <1>2. \A c : Above(c, <<>>) /\ Above(<<>>, c)
    BY <1>1 DEF Above
  <1>3. Ascending(<<>>) /\ \A n : UpTo(<<>>, n) /\ \A k, l : Fresh(<<>>, k, l)
    BY <1>1 DEF Ascending, UpTo, Fresh
  <1> QED BY <1>1, <1>2, <1>3 DEF Sorted, Apart

(* The timer takes the buffer when its hand is empty ...                    *)
LEMMA SortedTake ==
  ASSUME NEW S, NEW b, NEW log, NEW sn, NEW ap, Sorted(S, <<>>, b, log, sn, ap)
  PROVE  Sorted(S, b, <<>>, log, sn, ap)
  <1>1. <<>> \in Seq(Marker) /\ DOMAIN <<>> = {}
    OBVIOUS
  <1>2. \A c : Above(c, <<>>)
    BY <1>1 DEF Above
  <1>3. Ascending(<<>>) /\ \A n : UpTo(<<>>, n) /\ \A k, l : Fresh(<<>>, k, l)
    BY <1>1 DEF Ascending, UpTo, Fresh
  <1> QED BY <1>1, <1>2, <1>3 DEF Sorted, Apart

(* ... and the emitting thread sends it past what the timer still holds ... *)
LEMMA SortedFlush ==
  ASSUME NEW S, NEW h, NEW b, NEW log, NEW sn, NEW ap, Sorted(S, h, b, log, sn, ap), b # <<>>
  PROVE  Sorted(S \cup {b}, h, <<>>, log, sn, ap)
  <1>1. <<>> \in Seq(Marker) /\ DOMAIN <<>> = {}
    OBVIOUS
  <1>2. \A c : Above(c, <<>>)
    BY <1>1 DEF Above
  <1>3. Ascending(<<>>) /\ \A n : UpTo(<<>>, n) /\ \A k, l : Fresh(<<>>, k, l)
    BY <1>1 DEF Ascending, UpTo, Fresh
  <1> QED BY <1>1, <1>2, <1>3 DEF Sorted, Apart

(* ... which follows whenever the timer gets to it.                         *)
LEMMA SortedSend ==
  ASSUME NEW S, NEW h, NEW b, NEW log, NEW sn, NEW ap, Sorted(S, h, b, log, sn, ap), h # <<>>
  PROVE  Sorted(S \cup {h}, <<>>, b, log, sn, ap)
  <1>1. <<>> \in Seq(Marker) /\ DOMAIN <<>> = {}
    OBVIOUS
  <1>2. \A c : Above(c, <<>>) /\ Above(<<>>, c)
    BY <1>1 DEF Above
  <1>3. Ascending(<<>>) /\ \A n : UpTo(<<>>, n) /\ \A k, l : Fresh(<<>>, k, l)
    BY <1>1 DEF Ascending, UpTo, Fresh
  <1> QED BY <1>1, <1>2, <1>3 DEF Sorted, Apart

(* The poller takes a message whose first marker is above what it has seen: *)
(* what is still to come of the publisher is either above it or is taken   *)
(* for a repetition.                                                       *)
LEMMA SortedReceive ==
  ASSUME NEW S, NEW h, NEW b, NEW log, NEW sn, NEW ap, Sorted(S, h, b, log, sn, ap),
         NEW c \in S, Head(c) > sn, NEW at,
         at = ap \/ \E i \in DOMAIN c : at = c[i]
  PROVE  Sorted(S, h, b, log, Head(c), at) /\ at >= ap
  <1>1. c \in Seq(Marker) /\ c # <<>> /\ Ascending(c) /\ UpTo(c, Top(log)) /\ Fresh(c, sn, ap)
        /\ sn \in 0 .. 6 /\ ap \in 0 .. 6 /\ ap <= Top(log)
    BY DEF Sorted
  <1>2. 1 \in DOMAIN c /\ Head(c) = c[1] /\ Head(c) \in Marker /\ Head(c) > ap
    BY <1>1 DEF Fresh
  <1>3. \A i \in DOMAIN c : c[i] \in Marker /\ c[i] >= Head(c) /\ c[i] <= Top(log)
    BY <1>1, <1>2 DEF Ascending, UpTo, Marker
  <1>4. at \in 0 .. 6 /\ at >= ap /\ at <= Top(log)
    BY <1>1, <1>2, <1>3 DEF Marker
  <1>5. ASSUME NEW d \in S \cup {h, b}, d # <<>>, Head(d) > Head(c) PROVE Head(d) > at
    <2>1. d \in Seq(Marker) /\ 1 \in DOMAIN d /\ Head(d) = d[1] /\ Head(d) \in Marker
          /\ Fresh(d, sn, ap)
      BY <1>5 DEF Sorted
    <2>2. Head(d) > ap
      BY <1>1, <1>2, <1>5, <2>1 DEF Fresh, Marker
    <2>3. Above(c, d)
      <3>1. d # c
        BY <1>2, <1>5 DEF Marker
      <3>2. Apart(c, d) \/ Above(c, d)
        BY <3>1 DEF Sorted
      <3>3. ~Above(d, c)
        BY <1>2, <1>5, <2>1 DEF Above, Marker
      <3> QED BY <3>2, <3>3 DEF Apart
    <2> QED BY <2>1, <2>2, <2>3 DEF Above
  <1>6. \A d \in S \cup {h, b} : Fresh(d, Head(c), at)
    BY <1>5 DEF Fresh
  <1>7. Head(c) \in 0 .. 6
    BY <1>2 DEF Marker
  <1> QED BY <1>4, <1>6, <1>7 DEF Sorted

(* A poller that has seen nothing takes everything for new.                *)
LEMMA SortedForget ==
  ASSUME NEW S, NEW h, NEW b, NEW log, NEW sn, NEW ap, Sorted(S, h, b, log, sn, ap)
  PROVE  Sorted(S, h, b, log, 0, 0)
  <1>1. Top(log) >= 0
    BY DEF Sorted, Top, Last, Marker
  <1>2. \A c : Fresh(c, 0, 0)
    BY DEF Fresh
  <1> QED BY <1>1, <1>2 DEF Sorted

-----------------------------------------------------------------------------
(* The row.                                                                *)
Status == {"pending", "queued", "starting", "running", "reclaimed", "failed", "done"}
Rows == [st : Status \cup {"unset"}, pct : 0 .. 2]

(* A row that has reported a lost attempt may lose its colour.             *)
Lost(r) == r.st \in {"reclaimed", "failed"}

(* _STAGE_RANK, entry by entry.                                            *)
LEMMA RankOfStatus ==
  /\ Rank["pending"] = 0 /\ Rank["queued"] = 1 /\ Rank["starting"] = 2 /\ Rank["running"] = 3
  /\ Rank["reclaimed"] = 3 /\ Rank["failed"] = 4 /\ Rank["done"] = 5
  BY DEF Rank

(* One announcement: it takes colour from no row but one that is lost, or  *)
(* by losing it.                                                           *)
LEMMA AnnouncedRow ==
  ASSUME NEW r \in Rows, NEW st \in Status, NEW pct \in -1 .. 2
  PROVE  /\ Announced(r, st, pct) \in Rows
         /\ Announced(r, st, pct).st \in {r.st, st}
         /\ ~Lost(r) => \/ Announced(r, st, pct).st = "failed" /\ st = "failed"
                        \/ Width(Announced(r, st, pct)) >= Width(r)
  <1>1. r.st \in Status \cup {"unset"} /\ r.pct \in 0 .. 2 /\ r = [st |-> r.st, pct |-> r.pct]
    BY DEF Rows
  <1>2. CASE Stale(r, st)
    <2>1. Announced(r, st, pct) = r
      BY <1>2 DEF Announced
    <2>2. Width(r) \in 0 .. 2
      BY <1>1 DEF Width
    <2> QED BY <2>1, <2>2
  <1>3. CASE ~Stale(r, st)
    <2> DEFINE new == Announced(r, st, pct)
    <2>1. new = [st |-> st, pct |-> Carried(r, st, pct)]
      BY <1>3 DEF Announced
    <2>2. Carried(r, st, pct) \in 0 .. 2
      BY <1>1 DEF Carried, Unknown
    <2>3. st = r.st /\ st # "done" => Carried(r, st, pct) >= r.pct
      BY <1>1 DEF Carried, Unknown
    <2>4. new \in Rows /\ new.st = st /\ new.pct = Carried(r, st, pct)
      BY <2>1, <2>2 DEF Rows
    <2> HIDE DEF new
    <2>5. ASSUME ~Lost(r), st # "failed" PROVE Width(new) >= Width(r)
      <3>1. CASE st \in {"done", "reclaimed"}
        BY <3>1, <1>1, <2>4 DEF Width
      <3>2. CASE st = "running"
        <4>1. r.st # "done"
          BY <1>3, <3>2 DEF Stale
        <4>2. CASE r.st = "running"
          BY <4>2, <3>2, <1>1, <2>2, <2>3, <2>4 DEF Width
        <4>3. CASE r.st # "running"
          BY <4>1, <4>3, <3>2, <1>1, <2>2, <2>4, <2>5 DEF Width, Lost, Status
        <4> QED BY <4>2, <4>3
      <3>3. CASE st \in {"pending", "queued", "starting"}
        <4>1. r.st \in {"unset", "pending", "queued", "starting"}
          BY <1>1, <1>3, <2>5, <3>3, RankOfStatus DEF Stale, Lost, Status, Interrupts
        <4> QED BY <4>1, <3>3, <2>4 DEF Width
      <3> QED BY <3>1, <3>2, <3>3, <2>5 DEF Status
    <2> QED BY <2>4, <2>5 DEF new
  <1> QED BY <1>2, <1>3

(* One marker of a worker: it loses colour only by being its failure.      *)
LEMMA MarkedRow ==
  ASSUME NEW r \in Rows, NEW m \in Marker
  PROVE  /\ Marked(r, m) \in Rows
         /\ ~Lost(r) => \/ Marked(r, m).st = "failed" /\ m = Failed
                        \/ Width(Marked(r, m)) >= Width(r) /\ ~Lost(Marked(r, m))
  <1>1. Width(r) \in 0 .. 2
    BY DEF Rows, Width
  <1>2. CASE IsRecord(m)
    BY <1>1, <1>2 DEF Marked
  <1>3. CASE ~IsRecord(m)
    <2> DEFINE st == WorkerStage(m)[1]
               pct == WorkerStage(m)[2]
    <2>1. st \in {"done", "running"} \/ (st = "failed" /\ m = Failed)
      BY DEF WorkerStage
    <2>2. pct \in -1 .. 2 /\ st \in Status
      BY <1>3 DEF WorkerStage, Marker, IsRecord, Start, Half, Done, Failed, Timing, Speed, Status
    <2>3. Marked(r, m) = Announced(r, st, pct)
      BY <1>3 DEF Marked
    <2> HIDE DEF st, pct
    <2>4. /\ Marked(r, m) \in Rows /\ Marked(r, m).st \in {r.st, st}
          /\ ~Lost(r) => \/ Marked(r, m).st = "failed" /\ st = "failed"
                         \/ Width(Marked(r, m)) >= Width(r)
      <3>1. /\ Announced(r, st, pct) \in Rows
            /\ Announced(r, st, pct).st \in {r.st, st}
            /\ ~Lost(r) => \/ Announced(r, st, pct).st = "failed" /\ st = "failed"
                           \/ Width(Announced(r, st, pct)) >= Width(r)
        BY <2>2, AnnouncedRow
      <3> QED BY <3>1, <2>3, Zenon
    <2>5. CASE Marked(r, m).st = "failed"
      BY <2>1, <2>4, <2>5 DEF Lost
    <2>6. CASE Marked(r, m).st # "failed"
      BY <2>1, <2>4, <2>6 DEF Lost
    <2> QED BY <2>5, <2>6
  <1> QED BY <1>2, <1>3

(* The rows after each prefix of some markers: the recursion has a value.  *)
RowsAfter(r, markers, kept, g) ==
  g = [n \in 0 .. Len(markers) |->
         IF n = 0 THEN r
         ELSE IF n \in kept THEN Marked(g[n - 1], markers[n]) ELSE g[n - 1]]

(* The recursion of EmitMarkers has a value for every list of markers.     *)
LEMMA RowsAfterExist ==
  ASSUME NEW r, NEW markers \in Seq(Marker), NEW kept
  PROVE  \E g : RowsAfter(r, markers, kept, g)
  <1> DEFINE N == Len(markers)
             Value(g, k) ==
               g = [n \in 0 .. k |->
                      IF n = 0 THEN r
                      ELSE IF n \in kept THEN Marked(g[n - 1], markers[n]) ELSE g[n - 1]]
             T == {k \in 0 .. N : ~\E g : Value(g, k)}
  <1>1. N \in Nat
    OBVIOUS
  <1>2. SUFFICES ASSUME T # {} PROVE FALSE
    <2>1. N \in 0 .. N
      BY <1>1
    <2>2. \E g : Value(g, N)
      BY <1>2, <2>1
    <2> QED BY <2>2 DEF RowsAfter
  <1>3. PICK k \in T : \A l \in T : k <= l
    <2>1. T \subseteq Nat
      OBVIOUS
    <2> HIDE DEF T
    <2> QED BY <1>2, <2>1, Least
  <1>4. k \in 0 .. N /\ ~\E g : Value(g, k)
    BY <1>3
  <1>5. k # 0
    <2> SUFFICES ASSUME k = 0 PROVE FALSE
      OBVIOUS
    <2>1. Value([n \in 0 .. 0 |-> r], 0)
      OBVIOUS
    <2> QED BY <2>1, <1>4
  <1>6. k - 1 \in 0 .. N /\ ~(k <= k - 1)
    BY <1>4, <1>5
  <1>7. PICK f : Value(f, k - 1)
    BY <1>3, <1>6
  <1> DEFINE Next1(n) ==
               IF n = 0 THEN r
               ELSE IF n \in kept THEN Marked(f[n - 1], markers[n]) ELSE f[n - 1]
             g == [n \in 0 .. k |-> Next1(n)]
  <1>8. \A n \in 0 .. k - 1 : f[n] = Next1(n)
    BY <1>7
  <1>9. \A n \in 0 .. k - 1 : g[n] = f[n]
    BY <1>4, <1>8
  <1>10. ASSUME NEW n \in 0 .. k, n # 0 PROVE g[n - 1] = f[n - 1]
    <2>1. n - 1 \in 0 .. k - 1
      BY <1>4, <1>10
    <2> QED BY <2>1, <1>9
  <1>11. Value(g, k)
    BY <1>10
  <1> QED BY <1>4, <1>11

(* Markers of one worker, in the order it said them, take no colour either.*)
LEMMA EmitMarkersRow ==
  ASSUME NEW markers \in Seq(Marker), Ascending(markers), NEW kept,
         row \in Rows, EmitMarkers(markers, kept)
  PROVE  /\ row' \in Rows
         /\ ~Lost(row) => row'.st = "failed" \/ Width(row') >= Width(row)
  <1> DEFINE N == Len(markers)
  <1>1. PICK g : row' = g[N] /\ RowsAfter(row, markers, kept, g)
    <2> DEFINE after == CHOOSE g : RowsAfter(row, markers, kept, g)
    <2>1. RowsAfter(row, markers, kept, after)
      BY RowsAfterExist
    <2>2. row' = after[N]
      BY DEF EmitMarkers, RowsAfter
    <2> QED BY <2>1, <2>2
  <1>2. g[0] = row /\ \A n \in 1 .. N : g[n] = IF n \in kept THEN Marked(g[n - 1], markers[n]) ELSE g[n - 1]
    BY <1>1 DEF RowsAfter
  <1> DEFINE P(k) ==
               /\ g[k] \in Rows
               /\ ~Lost(row) => \/ ~Lost(g[k]) /\ Width(g[k]) >= Width(row)
                                \/ k > 0 /\ markers[k] = Failed /\ g[k].st = "failed"
             T == {k \in 0 .. N : ~P(k)}
  <1>3. T = {}
    <2>1. SUFFICES ASSUME T # {} PROVE FALSE
      OBVIOUS
    <2>2. PICK k \in T : \A l \in T : k <= l
      <3>1. T \subseteq Nat
        OBVIOUS
      <3> HIDE DEF T
      <3> QED BY <2>1, <3>1, Least
    <2>3. k \in 0 .. N /\ ~P(k)
      BY <2>2
    <2>4. P(0)
      <3>1. Width(row) \in 0 .. 2
        BY DEF Rows, Width
      <3> QED BY <3>1, <1>2
    <2>5. k # 0
      BY <2>3, <2>4
    <2>6. k - 1 \in 0 .. N /\ ~(k <= k - 1) /\ k \in 1 .. N
      BY <2>3, <2>5
    <2>7. P(k - 1)
      BY <2>2, <2>6
    <2>8. markers[k] \in Marker /\ ~(k - 1 > 0 /\ markers[k - 1] = Failed)
      BY <2>6 DEF Ascending, Marker, Failed
    <2> DEFINE old == g[k - 1]
               m == markers[k]
    <2>9. old \in Rows /\ (~Lost(row) => ~Lost(old) /\ Width(old) >= Width(row))
      BY <2>7, <2>8
    <2>10. g[k] = IF k \in kept THEN Marked(old, m) ELSE old
      BY <1>2, <2>6
    <2> HIDE DEF old, m
    <2>11. m \in Marker /\ (m = Failed => markers[k] = Failed) /\ k > 0
      BY <2>6, <2>8 DEF m
    <2>12. CASE k \in kept
      <3>1. g[k] = Marked(old, m)
        BY <2>10, <2>12
      <3>2. g[k] \in Rows
        BY <3>1, <2>9, <2>11, MarkedRow
      <3>3. Width(g[k]) \in 0 .. 2 /\ Width(old) \in 0 .. 2 /\ Width(row) \in 0 .. 2
        BY <3>2, <2>9 DEF Rows, Width
      <3>4. P(k)
        BY <3>1, <3>2, <3>3, <2>9, <2>11, MarkedRow
      <3> QED BY <3>4, <2>3
    <2>13. CASE k \notin kept
      <3>1. g[k] = old
        BY <2>10, <2>13
      <3> QED BY <3>1, <2>9, <2>3
    <2> QED BY <2>12, <2>13
  <1>4. N \in 0 .. N
    OBVIOUS
  <1>5. P(N)
    BY <1>3, <1>4
  <1> QED BY <1>1, <1>5

-----------------------------------------------------------------------------
(* The inductive invariant.                                                *)
Message == [pub : Worker, body : Seq(Marker) \ {<<>>}]

(* The batches of a worker in a queue, and those not yet announced.        *)
Batches(q, w) == {q[i].body : i \in {k \in DOMAIN q : q[k].pub = w}}
Waiting(q, c, w) == Batches(q, w) \cup Batches(c, w)

TelemetryTyped ==
  /\ said \in [Worker -> Seq(Marker)] /\ buf \in [Worker -> Seq(Marker)]
  /\ held \in [Worker -> Seq(Marker)] /\ queue \in Seq(Message) /\ collected \in Seq(Message)
  /\ seen \in [Worker -> 0 .. 6] /\ applied \in [Worker -> 0 .. 6]
  /\ sent \subseteq Worker \X {Timing, Speed}

InOrder ==
  \A w \in Worker : Sorted(Waiting(queue, collected, w), held[w], buf[w], said[w], seen[w], applied[w])

JobStatus == {"RUNNABLE", "STARTING", "RUNNING", "SUCCEEDED", "FAILED"}
Jobs == [st : JobStatus, tries : Nat, on : Worker \cup {NoHost}]

RowsTyped ==
  /\ job \in Jobs \cup {NoJob} /\ census \in Jobs \cup {NoJob}
  /\ job.st \in {"STARTING", "RUNNING"} => job.on \in Worker
  /\ events \subseteq [st : JobStatus, on : Worker \cup {NoHost}]
  /\ row \in Rows /\ tailed \in [Worker -> Nat] /\ restarts \in Nat

IInv == TelemetryTyped /\ InOrder /\ RowsTyped

(* Nothing is in order.                                                    *)
LEMMA EmptySorted == Sorted({}, <<>>, <<>>, <<>>, 0, 0)
  <1>1. <<>> \in Seq(Marker) /\ DOMAIN <<>> = {}
    OBVIOUS
  <1> QED BY <1>1 DEF Sorted, Ascending, UpTo, Above, Apart, Fresh, Top

(* The invariant holds at the start.                                       *)
LEMMA InitIInv == Init => IInv
  <1> SUFFICES ASSUME Init PROVE IInv
    OBVIOUS
  <1>1. TelemetryTyped
    BY DEF Init, TelemetryInit, TelemetryTyped
  <1>2. InOrder
    <2>1. \A w : Waiting(<<>>, <<>>, w) = {}
      BY DEF Batches, Waiting
    <2> QED BY <2>1, EmptySorted DEF Init, TelemetryInit, InOrder
  <1>3. RowsTyped
    BY DEF Init, RowsTyped, NoJob, NoRow, Rows
  <1> QED BY <1>1, <1>2, <1>3 DEF IInv

(* A message that is sent adds its batch to those of its publisher ...      *)
LEMMA BatchesAppend ==
  ASSUME NEW q \in Seq(Message), NEW w \in Worker, NEW b \in Seq(Marker) \ {<<>>}
  PROVE  /\ Append(q, [pub |-> w, body |-> b]) \in Seq(Message)
         /\ Batches(Append(q, [pub |-> w, body |-> b]), w) = Batches(q, w) \cup {b}
         /\ \A v : v # w => Batches(Append(q, [pub |-> w, body |-> b]), v) = Batches(q, v)
  <1> DEFINE m == [pub |-> w, body |-> b]
             p == Append(q, m)
  <1>1. m \in Message /\ m.pub = w /\ m.body = b
    BY DEF Message
  <1> HIDE DEF m
  <1>2. p \in Seq(Message) /\ DOMAIN p = DOMAIN q \cup {Len(q) + 1} /\ p[Len(q) + 1] = m
        /\ \A i \in DOMAIN q : p[i] = q[i]
    BY <1>1
  <1>3. Batches(p, w) = Batches(q, w) \cup {b}
    BY <1>1, <1>2 DEF Batches
  <1>4. \A v : v # w => Batches(p, v) = Batches(q, v)
    BY <1>1, <1>2 DEF Batches
  <1> QED BY <1>2, <1>3, <1>4 DEF m

(* ... a message that is deleted leaves the others ...                      *)
LEMMA Removed ==
  ASSUME NEW q \in Seq(Message), NEW i \in DOMAIN q
  PROVE  /\ RemoveAt(q, i) \in Seq(Message) /\ Len(RemoveAt(q, i)) = Len(q) - 1
         /\ \A k \in 1 .. Len(q) - 1 : RemoveAt(q, i)[k] = IF k < i THEN q[k] ELSE q[k + 1]
  <1> DEFINE a == SubSeq(q, 1, i - 1)
             b == SubSeq(q, i + 1, Len(q))
  <1>1. i \in 1 .. Len(q) /\ Len(q) \in Nat
    OBVIOUS
  <1>2. /\ a \in Seq(Message) /\ Len(a) = i - 1 /\ \A k \in 1 .. i - 1 : a[k] = q[k]
        /\ b \in Seq(Message) /\ Len(b) = Len(q) - i /\ \A k \in 1 .. Len(q) - i : b[k] = q[i + k]
    BY <1>1
  <1>3. RemoveAt(q, i) = a \o b
    BY DEF RemoveAt
  <1> HIDE DEF a, b
  <1>4. Len(a) + Len(b) = Len(q) - 1 /\ Len(a) \in Nat /\ Len(b) \in Nat
    BY <1>1, <1>2
  <1>5. /\ a \o b \in Seq(Message) /\ Len(a \o b) = Len(a) + Len(b)
        /\ \A k \in 1 .. Len(a) + Len(b) :
             (a \o b)[k] = IF k <= Len(a) THEN a[k] ELSE b[k - Len(a)]
    BY <1>2, ConcatProperties
  <1> DEFINE p == a \o b
  <1> HIDE DEF p
  <1>6. p \in Seq(Message) /\ Len(p) = Len(q) - 1
    BY <1>4, <1>5 DEF p
  <1>7. ASSUME NEW k \in 1 .. Len(q) - 1
        PROVE  p[k] = IF k < i THEN q[k] ELSE q[k + 1]
    <2>1. p[k] = IF k <= Len(a) THEN a[k] ELSE b[k - Len(a)]
      BY <1>4, <1>5 DEF p
    <2>2. CASE k < i
      BY <1>1, <1>2, <2>1, <2>2
    <2>3. CASE ~(k < i)
      <3>1. k - Len(a) \in 1 .. Len(q) - i /\ ~(k <= Len(a)) /\ i + (k - Len(a)) = k + 1
        BY <1>1, <1>2, <2>3
      <3> QED BY <1>2, <2>1, <2>3, <3>1
    <2> QED BY <2>2, <2>3
  <1> QED BY <1>3, <1>6, <1>7 DEF p

LEMMA BatchesRemoved ==
  ASSUME NEW q \in Seq(Message), NEW i \in DOMAIN q
  PROVE  RemoveAt(q, i) \in Seq(Message) /\ \A v : Batches(RemoveAt(q, i), v) \subseteq Batches(q, v)
  <1> DEFINE p == RemoveAt(q, i)
  <1>1. /\ p \in Seq(Message) /\ Len(p) = Len(q) - 1 /\ Len(q) \in Nat
        /\ \A k \in 1 .. Len(q) - 1 : p[k] = IF k < i THEN q[k] ELSE q[k + 1]
    BY Removed
  <1> HIDE DEF p
  <1>2. \A k \in DOMAIN p : \E l \in DOMAIN q : p[k] = q[l]
    <2>1. TAKE k \in DOMAIN p
    <2>2. k \in 1 .. Len(q) - 1 /\ k \in DOMAIN q /\ k + 1 \in DOMAIN q
      BY <1>1
    <2> QED BY <1>1, <2>2
  <1>3. \A v : Batches(p, v) \subseteq Batches(q, v)
    BY <1>2 DEF Batches
  <1> QED BY <1>1, <1>3 DEF p

(* ... and one that is announced neither.                                  *)
LEMMA BatchesTail ==
  ASSUME NEW q \in Seq(Message), q # <<>>
  PROVE  Tail(q) \in Seq(Message) /\ \A v : Batches(Tail(q), v) \subseteq Batches(q, v)
  <1>1. Tail(q) \in Seq(Message) /\ \A i \in DOMAIN Tail(q) : i + 1 \in DOMAIN q /\ Tail(q)[i] = q[i + 1]
    OBVIOUS
  <1> QED BY <1>1 DEF Batches

(* Batches only got fewer.                                                 *)
LEMMA FewerKeeps ==
  ASSUME TelemetryTyped, InOrder, UNCHANGED <<said, buf, held, sent>>,
         queue' \in Seq(Message), collected' \in Seq(Message),
         \A v \in Worker : Waiting(queue', collected', v) \subseteq Waiting(queue, collected, v),
         \/ UNCHANGED <<seen, applied>>
         \/ seen' = [w \in Worker |-> 0] /\ applied' = [w \in Worker |-> 0]
  PROVE  TelemetryTyped' /\ InOrder'
  <1>1. TelemetryTyped'
    BY DEF TelemetryTyped
  <1>2. ASSUME NEW v \in Worker
        PROVE  Sorted(Waiting(queue', collected', v), held[v], buf[v], said[v], seen'[v], applied'[v])
    <2> DEFINE S == Waiting(queue, collected, v)
    <2>1. Sorted(S, held[v], buf[v], said[v], seen[v], applied[v])
      BY DEF InOrder
    <2>2. Sorted(S, held[v], buf[v], said[v], 0, 0)
      BY <2>1, SortedForget
    <2> HIDE DEF S
    <2>3. Sorted(S, held[v], buf[v], said[v], seen'[v], applied'[v])
      BY <2>1, <2>2
    <2>4. Waiting(queue', collected', v) \subseteq S
      BY DEF S
    <2> QED BY <2>3, <2>4, SortedFewer
  <1>3. InOrder'
    BY <1>2 DEF InOrder
  <1> QED BY <1>1, <1>3

(* One worker's step, and none of another worker's.                        *)
LEMMA OneWorker ==
  ASSUME TelemetryTyped, InOrder, NEW w \in Worker,
         \A v \in Worker \ {w} : /\ Waiting(queue', collected', v) \subseteq Waiting(queue, collected, v)
                                 /\ held'[v] = held[v] /\ buf'[v] = buf[v] /\ said'[v] = said[v]
                                 /\ seen'[v] = seen[v] /\ applied'[v] = applied[v],
         Sorted(Waiting(queue', collected', w), held'[w], buf'[w], said'[w], seen'[w], applied'[w])
  PROVE  InOrder'
  BY SortedFewer DEF InOrder

(* A publisher's steps: an emission, the timer's take, and the two sends.   *)
LEMMA PublishKeeps ==
  ASSUME TelemetryTyped, InOrder, NEW w \in Worker, Publish(w)
  PROVE  TelemetryTyped' /\ InOrder'
  <1> DEFINE S == Waiting(queue, collected, w)
  <1>0. Sorted(S, held[w], buf[w], said[w], seen[w], applied[w])
    BY DEF InOrder
  <1>1. CASE Say(w)
    <2>1. PICK m \in Follows(said[w]) :
            /\ said' = [said EXCEPT ![w] = Append(@, m)]
            /\ buf' = [buf EXCEPT ![w] = Append(@, m)]
      BY <1>1 DEF Say
    <2>2. UNCHANGED <<held, queue, collected, seen, applied, sent>>
      BY <1>1 DEF Say
    <2>3. Sorted(S, held[w], Append(buf[w], m), Append(said[w], m), seen[w], applied[w])
      BY <1>0, SortedSay
    <2>4. Append(buf[w], m) \in Seq(Marker) /\ Append(said[w], m) \in Seq(Marker)
      BY <2>3 DEF Sorted
    <2>5. TelemetryTyped'
      BY <2>1, <2>2, <2>4 DEF TelemetryTyped
    <2> QED BY <2>1, <2>2, <2>3, <2>5, OneWorker DEF TelemetryTyped
  <1>2. CASE TimerTakes(w)
    <2>1. /\ held[w] = <<>> /\ held' = [held EXCEPT ![w] = buf[w]] /\ buf' = [buf EXCEPT ![w] = <<>>]
          /\ UNCHANGED <<said, queue, collected, seen, applied, sent>>
      BY <1>2 DEF TimerTakes
    <2>2. Sorted(S, buf[w], <<>>, said[w], seen[w], applied[w])
      BY <1>0, <2>1, SortedTake
    <2>3. TelemetryTyped'
      BY <2>1 DEF TelemetryTyped
    <2> QED BY <2>1, <2>2, <2>3, OneWorker DEF TelemetryTyped
  <1>3. ASSUME NEW b \in Seq(Marker) \ {<<>>}, Send(w, b),
               UNCHANGED <<said, collected, seen, applied>>,
               \/ b = buf[w] /\ buf' = [buf EXCEPT ![w] = <<>>] /\ held' = held
               \/ b = held[w] /\ held' = [held EXCEPT ![w] = <<>>] /\ buf' = buf
        PROVE  TelemetryTyped' /\ InOrder'
    <2>1. /\ buf' \in [Worker -> Seq(Marker)] /\ held' \in [Worker -> Seq(Marker)]
          /\ \A v \in Worker \ {w} : held'[v] = held[v] /\ buf'[v] = buf[v]
      <3>0. <<>> \in Seq(Marker) /\ {buf, held} \subseteq [Worker -> Seq(Marker)]
        BY DEF TelemetryTyped
      <3>1. CASE buf' = [buf EXCEPT ![w] = <<>>] /\ held' = held
        BY <3>0, <3>1
      <3>2. CASE held' = [held EXCEPT ![w] = <<>>] /\ buf' = buf
        BY <3>0, <3>2
      <3> QED BY <1>3, <3>1, <3>2
    <2>2. CASE queue' = queue /\ sent' = sent
      <3>1. TelemetryTyped'
        BY <1>3, <2>1, <2>2 DEF TelemetryTyped
      <3>2. Sorted(S, held'[w], buf'[w], said[w], seen[w], applied[w])
        <4>1. CASE b = buf[w] /\ buf' = [buf EXCEPT ![w] = <<>>] /\ held' = held
          BY <4>1, <1>0, SortedFewer DEF TelemetryTyped
        <4>2. CASE b = held[w] /\ held' = [held EXCEPT ![w] = <<>>] /\ buf' = buf
          <5>1. Sorted(S \cup {b}, <<>>, buf[w], said[w], seen[w], applied[w])
            BY <4>2, <1>0, <1>3, SortedSend
          <5>2. Sorted(S, <<>>, buf[w], said[w], seen[w], applied[w])
            BY <5>1, SortedFewer
          <5> QED BY <5>2, <4>2 DEF TelemetryTyped
        <4> QED BY <4>1, <4>2, <1>3
      <3> QED BY <1>3, <2>1, <2>2, <3>1, <3>2, OneWorker
    <2>3. CASE /\ queue' = Append(queue, [pub |-> w, body |-> b])
               /\ sent' = sent \cup {<<w, b[i]>> : i \in Records(b)}
      <3>1. /\ queue' \in Seq(Message) /\ Waiting(queue', collected', w) = S \cup {b}
            /\ \A v \in Worker \ {w} :
                 Waiting(queue', collected', v) = Waiting(queue, collected, v)
        <4>1. /\ queue' \in Seq(Message) /\ Batches(queue', w) = Batches(queue, w) \cup {b}
              /\ \A v \in Worker \ {w} : Batches(queue', v) = Batches(queue, v)
          BY <2>3, BatchesAppend DEF TelemetryTyped
        <4> QED BY <1>3, <4>1 DEF Waiting
      <3>2. sent' \subseteq Worker \X {Timing, Speed}
        BY <2>3 DEF TelemetryTyped, Records, IsRecord
      <3>3. TelemetryTyped'
        BY <1>3, <2>1, <3>1, <3>2 DEF TelemetryTyped
      <3>4. Sorted(S \cup {b}, held'[w], buf'[w], said[w], seen[w], applied[w])
        <4>1. CASE b = buf[w] /\ buf' = [buf EXCEPT ![w] = <<>>] /\ held' = held
          BY <4>1, <1>0, <1>3, SortedFlush DEF TelemetryTyped
        <4>2. CASE b = held[w] /\ held' = [held EXCEPT ![w] = <<>>] /\ buf' = buf
          BY <4>2, <1>0, <1>3, SortedSend DEF TelemetryTyped
        <4> QED BY <4>1, <4>2, <1>3
      <3> QED BY <1>3, <2>1, <3>1, <3>3, <3>4, OneWorker
    <2> QED BY <1>3, <2>2, <2>3 DEF Send
  <1>4. CASE Flush(w)
    <2>1. buf' = [buf EXCEPT ![w] = <<>>] /\ UNCHANGED <<said, held, collected, seen, applied>>
      BY <1>4 DEF Flush
    <2>2. CASE buf[w] = <<>>
      <3>1. UNCHANGED <<queue, sent>> /\ buf' = buf
        BY <1>4, <2>1, <2>2 DEF Flush, TelemetryTyped
      <3> QED BY <2>1, <3>1 DEF TelemetryTyped, InOrder
    <2>3. CASE buf[w] # <<>>
      <3>1. Send(w, buf[w]) /\ buf[w] \in Seq(Marker) \ {<<>>}
        BY <1>4, <2>3 DEF Flush, TelemetryTyped
      <3> QED BY <2>1, <3>1, <1>3
    <2> QED BY <2>2, <2>3
  <1>5. CASE TimerSends(w)
    <2>1. /\ held' = [held EXCEPT ![w] = <<>>] /\ UNCHANGED <<said, buf, collected, seen, applied>>
          /\ Send(w, held[w]) /\ held[w] \in Seq(Marker) \ {<<>>}
      BY <1>5 DEF TimerSends, TelemetryTyped
    <2> QED BY <2>1, <1>3
  <1> QED BY <1>1, <1>2, <1>4, <1>5 DEF Publish

(* The end of a process throws batches away.                               *)
LEMMA EndsKeeps ==
  ASSUME TelemetryTyped, InOrder, NEW w \in Worker, Ends(w)
  PROVE  TelemetryTyped' /\ InOrder'
  <1>1. /\ buf' = [buf EXCEPT ![w] = <<>>] /\ held' = [held EXCEPT ![w] = <<>>]
        /\ UNCHANGED <<said, queue, collected, seen, applied, sent>> /\ <<>> \in Seq(Marker)
    BY DEF Ends
  <1>2. TelemetryTyped'
    BY <1>1 DEF TelemetryTyped
  <1>3. /\ buf'[w] = <<>> /\ held'[w] = <<>>
        /\ \A v \in Worker \ {w} : held'[v] = held[v] /\ buf'[v] = buf[v]
    BY <1>1 DEF TelemetryTyped
  <1>4. Sorted(Waiting(queue, collected, w), <<>>, <<>>, said[w], seen[w], applied[w])
    BY SortedFewer DEF InOrder
  <1> QED BY <1>1, <1>2, <1>3, <1>4, OneWorker

(* A message that is received is one of its publisher's that waited.        *)
LEMMA ReceiveKeeps ==
  ASSUME TelemetryTyped, InOrder, Receive
  PROVE  /\ TelemetryTyped' /\ InOrder'
         /\ UNCHANGED <<seen, applied, sent, printed, dropped>>
         /\ RecordsOf(queue) \cup RecordsOf(collected)
              \subseteq RecordsOf(queue') \cup RecordsOf(collected')
  <1>1. PICK i \in DOMAIN queue :
          collected' = Append(collected, queue[i]) /\ queue' \in {queue, RemoveAt(queue, i)}
    BY DEF Receive
  <1>2. UNCHANGED <<said, buf, held, seen, applied, sent, printed, dropped>>
    BY DEF Receive
  <1>3. queue \in Seq(Message) /\ collected \in Seq(Message) /\ queue[i] \in Message
    BY DEF TelemetryTyped
  <1> DEFINE m == queue[i]
  <1>4. /\ collected' \in Seq(Message) /\ Len(collected) + 1 \in DOMAIN collected'
        /\ collected'[Len(collected) + 1] = m
        /\ DOMAIN collected' = DOMAIN collected \cup {Len(collected) + 1}
        /\ \A k \in DOMAIN collected : k \in DOMAIN collected' /\ collected'[k] = collected[k]
    BY <1>1, <1>3
  <1>5. queue' \in Seq(Message) /\ \A v : Batches(queue', v) \subseteq Batches(queue, v)
    BY <1>1, <1>3, BatchesRemoved
  <1>6. ASSUME NEW v PROVE Waiting(queue', collected', v) \subseteq Waiting(queue, collected, v)
    <2>1. Batches(collected', v) \subseteq Batches(collected, v) \cup Batches(queue, v)
      BY <1>4 DEF Batches
    <2> QED BY <1>5, <2>1 DEF Waiting
  <1>7. TelemetryTyped' /\ InOrder'
    BY <1>2, <1>4, <1>5, <1>6, FewerKeeps
  <1>8. ASSUME NEW k \in DOMAIN queue, k # i
        PROVE  \E l \in DOMAIN queue' : queue'[l] = queue[k]
    <2>1. CASE queue' = queue
      BY <2>1
    <2>2. CASE queue' = RemoveAt(queue, i)
      <3>1. i \in 1 .. Len(queue) /\ k \in 1 .. Len(queue) /\ Len(queue) \in Nat
        BY <1>3
      <3>2. /\ DOMAIN queue' = 1 .. Len(queue) - 1
            /\ \A l \in 1 .. Len(queue) - 1 :
                 queue'[l] = IF l < i THEN queue[l] ELSE queue[l + 1]
        <4> DEFINE p == RemoveAt(queue, i)
        <4>1. /\ p \in Seq(Message) /\ Len(p) = Len(queue) - 1
              /\ \A l \in 1 .. Len(queue) - 1 :
                   p[l] = IF l < i THEN queue[l] ELSE queue[l + 1]
          BY <1>3, Removed
        <4> HIDE DEF p
        <4>2. DOMAIN p = 1 .. Len(queue) - 1
          BY <3>1, <4>1
        <4> QED BY <2>2, <4>1, <4>2 DEF p
      <3>3. CASE k < i
        <4>1. k \in DOMAIN queue' /\ queue'[k] = queue[k]
          BY <3>1, <3>2, <3>3
        <4> QED BY <4>1
      <3>4. CASE k > i
        <4>1. k - 1 \in DOMAIN queue' /\ queue'[k - 1] = queue[k]
          BY <3>1, <3>2, <3>4
        <4> QED BY <4>1
      <3> QED BY <1>8, <3>1, <3>3, <3>4
    <2> QED BY <1>1, <2>1, <2>2
  <1>9. RecordsOf(queue) \subseteq RecordsOf(queue') \cup RecordsOf(collected')
    BY <1>4, <1>8 DEF RecordsOf
  <1>10. RecordsOf(collected) \subseteq RecordsOf(collected')
    BY <1>4 DEF RecordsOf
  <1> QED BY <1>2, <1>7, <1>9, <1>10

(* A message that came back changes nothing of what was seen and announced *)
(* of its publisher; a new one moves both forward.                         *)
LEMMA AnnounceKeeps ==
  ASSUME TelemetryTyped, InOrder, NEW message, Announce(message)
  PROVE  TelemetryTyped' /\ InOrder' /\ \A v \in Worker : applied'[v] >= applied[v]
  <1> DEFINE w == message.pub
             body == message.body
             stages == Kept(message) \cap Stages(body)
  <1>1. /\ collected # <<>> /\ message = Head(collected) /\ collected' = Tail(collected)
        /\ seen' = IF Replay(message) THEN seen ELSE [seen EXCEPT ![w] = Head(body)]
        /\ applied' = IF stages = {} THEN applied ELSE [applied EXCEPT ![w] = body[Max(stages)]]
        /\ UNCHANGED <<said, buf, held, queue, sent>>
    BY DEF Announce
  <1>2. message \in Message /\ w \in Worker /\ body \in Seq(Marker) /\ body # <<>>
    <2>1. collected \in Seq(Message) /\ collected # <<>>
      BY <1>1 DEF TelemetryTyped
    <2>2. Head(collected) \in Message
      BY <2>1
    <2> QED BY <1>1, <2>2 DEF Message
  <1>3. body \in Waiting(queue, collected, w)
    <2>1. 1 \in DOMAIN collected /\ collected[1] = message
      BY <1>1 DEF TelemetryTyped
    <2> QED BY <2>1 DEF Batches, Waiting
  <1>4. /\ queue' \in Seq(Message) /\ collected' \in Seq(Message)
        /\ \A v : Waiting(queue', collected', v) \subseteq Waiting(queue, collected, v)
    BY <1>1, BatchesTail DEF TelemetryTyped, Waiting
  <1>5. Sorted(Waiting(queue, collected, w), held[w], buf[w], said[w], seen[w], applied[w])
    BY <1>2 DEF InOrder
  <1>6. \A v \in Worker : applied[v] >= applied[v] /\ applied[v] \in 0 .. 6
    BY DEF TelemetryTyped
  <1>7. CASE Replay(message)
    <2>1. stages = {}
      BY <1>7 DEF Kept, Stages, Records
    <2>2. seen' = seen /\ applied' = applied
      BY <1>1, <1>7, <2>1
    <2>3. TelemetryTyped' /\ InOrder'
      BY <1>1, <1>4, <2>2, FewerKeeps
    <2> QED BY <1>6, <2>2, <2>3
  <1>8. CASE ~Replay(message)
    <2> DEFINE at == applied'[w]
    <2>1. Head(body) \in Marker /\ Head(body) > seen[w]
      <3>1. Head(body) \in Marker /\ seen[w] \in 0 .. 6
        BY <1>2 DEF TelemetryTyped
      <3>2. ~(Head(body) <= seen[w])
        BY <1>8 DEF Replay
      <3> HIDE DEF body, w
      <3> QED BY <3>1, <3>2 DEF Marker
    <2>2. stages \subseteq 1 .. Len(body) /\ DOMAIN body = 1 .. Len(body) /\ Len(body) \in Nat
      BY <1>2 DEF Stages
    <2>3. seen' = [seen EXCEPT ![w] = Head(body)]
      BY <1>1, <1>8
    <2>4. /\ at = applied[w] \/ \E i \in DOMAIN body : at = body[i]
          /\ applied' \in [Worker -> 0 .. 6]
          /\ \A v \in Worker \ {w} : applied'[v] = applied[v]
      <3>1. CASE stages = {}
        BY <1>1, <3>1 DEF TelemetryTyped
      <3>2. CASE stages # {}
        <4>1. Max(stages) \in DOMAIN body
          <5> HIDE DEF stages
          <5> QED BY <2>2, <3>2, MaxIsThere
        <4>2. body[Max(stages)] \in Marker
          <5> HIDE DEF stages, body
          <5> QED BY <1>2, <4>1
        <4>3. applied' = [applied EXCEPT ![w] = body[Max(stages)]]
          BY <1>1, <3>2
        <4> HIDE DEF stages, body
        <4> QED BY <1>2, <4>1, <4>2, <4>3 DEF TelemetryTyped, Marker
      <3> QED BY <3>1, <3>2
    <2>5. /\ seen' \in [Worker -> 0 .. 6] /\ seen'[w] = Head(body)
          /\ \A v \in Worker \ {w} : seen'[v] = seen[v]
      BY <1>2, <2>1, <2>3 DEF TelemetryTyped, Marker
    <2>6. TelemetryTyped'
      BY <1>1, <1>4, <2>4, <2>5 DEF TelemetryTyped
    <2> HIDE DEF at
    <2>7. Sorted(Waiting(queue, collected, w), held[w], buf[w], said[w], Head(body), at) /\ at >= applied[w]
      BY <1>3, <1>5, <2>1, <2>4, SortedReceive
    <2>8. Sorted(Waiting(queue', collected', w), held[w], buf[w], said[w], Head(body), at)
      BY <1>4, <2>7, SortedFewer
    <2>9. InOrder'
      <3>1. Sorted(Waiting(queue', collected', w), held'[w], buf'[w], said'[w], seen'[w], applied'[w])
        BY <1>1, <2>5, <2>8 DEF at
      <3>2. \A v \in Worker \ {w} : /\ Waiting(queue', collected', v) \subseteq Waiting(queue, collected, v)
                                    /\ held'[v] = held[v] /\ buf'[v] = buf[v] /\ said'[v] = said[v]
                                    /\ seen'[v] = seen[v] /\ applied'[v] = applied[v]
        BY <1>1, <1>4, <2>4, <2>5
      <3> HIDE DEF w
      <3> QED BY <1>2, <3>1, <3>2, OneWorker
    <2> QED BY <1>6, <2>4, <2>6, <2>7, <2>9 DEF at
  <1> QED BY <1>7, <1>8

(* A drain that gives up, or a poller that begins anew, has fewer batches  *)
(* in hand; and a new one, which knows nothing, is deceived by nothing.    *)
LEMMA LosesKeeps ==
  ASSUME TelemetryTyped, InOrder, DrainFails \/ Forget
  PROVE  TelemetryTyped' /\ InOrder'
  <1>1. /\ collected' = <<>> /\ UNCHANGED <<said, buf, held, queue, sent>>
        /\ \/ UNCHANGED <<seen, applied>>
           \/ seen' = [w \in Worker |-> 0] /\ applied' = [w \in Worker |-> 0]
    BY DEF DrainFails, Forget, LosesCollected
  <1>2. /\ queue' \in Seq(Message) /\ collected' \in Seq(Message)
        /\ \A v : Waiting(queue', collected', v) \subseteq Waiting(queue, collected, v)
    BY <1>1 DEF TelemetryTyped, Waiting, Batches
  <1> QED BY <1>1, <1>2, FewerKeeps

(* So has one whose queue is deleted.                                      *)
LEMMA DeleteQueueKeeps ==
  ASSUME TelemetryTyped, InOrder, DeleteQueue
  PROVE  TelemetryTyped' /\ InOrder'
  <1>1. queue' = <<>> /\ UNCHANGED <<said, buf, held, collected, seen, applied, sent>>
    BY DEF DeleteQueue
  <1>2. /\ queue' \in Seq(Message) /\ collected' \in Seq(Message)
        /\ \A v : Waiting(queue', collected', v) \subseteq Waiting(queue, collected, v)
    BY <1>1 DEF TelemetryTyped, Waiting, Batches
  <1> QED BY <1>1, <1>2, FewerKeeps

(* What the queue and its reader keep is kept where nothing of it changes. *)
LEMMA QuietKeeps ==
  ASSUME TelemetryTyped, InOrder, UNCHANGED <<said, buf, held, queue, collected, seen, applied, sent>>
  PROVE  TelemetryTyped' /\ InOrder'
  BY DEF TelemetryTyped, InOrder

-----------------------------------------------------------------------------
(* The steps.                                                              *)

(* The job and its events are of the right kind after a transition to one. *)
LEMMA TransitionTyped ==
  ASSUME RowsTyped, NEW j \in Jobs, j.st \in {"STARTING", "RUNNING"} => j.on \in Worker,
         Transition(j)
  PROVE  RowsTyped'
  <1>1. j.st \in JobStatus /\ j.on \in Worker \cup {NoHost}
    BY DEF Jobs
  <1>2. job' = j /\ UNCHANGED <<row, census, tailed, restarts>>
        /\ events' \subseteq events \cup {[st |-> j.st, on |-> j.on]}
    BY DEF Transition
  <1> QED BY <1>1, <1>2 DEF RowsTyped

(* Every step of Batch keeps the invariant and leaves the row, what was    *)
(* seen and announced, and the records alone.                              *)
LEMMA BatchKeeps ==
  ASSUME IInv, Batch
  PROVE  IInv' /\ UNCHANGED <<queue, collected, dropped, seen, applied, sent, printed, row, restarts>>
  <1>0. TelemetryTyped /\ InOrder /\ RowsTyped
    BY DEF IInv
  <1>1. job.st # "none" => job \in Jobs /\ job.st \in JobStatus /\ job.tries \in Nat
                           /\ job.on \in Worker \cup {NoHost}
    BY <1>0 DEF RowsTyped, NoJob, Jobs
  <1>2. CASE SubmitJob
    <2> DEFINE j == [NoJob EXCEPT !.st = "RUNNABLE"]
    <2>1. j \in Jobs /\ j.st = "RUNNABLE"
      BY DEF Jobs, NoJob, JobStatus
    <2>2. Transition(j) /\ UNCHANGED telemetryVars
      BY <1>2 DEF SubmitJob
    <2> HIDE DEF j
    <2>3. RowsTyped'
      BY <1>0, <2>1, <2>2, TransitionTyped
    <2> QED BY <1>0, <2>2, <2>3, QuietKeeps DEF telemetryVars, Transition, IInv
  <1>3. CASE Place
    <2>1. PICK w \in Worker : Transition([job EXCEPT !.st = "STARTING", !.on = w])
      BY <1>3 DEF Place
    <2> DEFINE j == [job EXCEPT !.st = "STARTING", !.on = w]
    <2>2. j \in Jobs /\ j.on \in Worker
      BY <1>1, <1>3 DEF Place, Is, Jobs, JobStatus
    <2>3. Transition(j) /\ UNCHANGED telemetryVars
      BY <1>3, <2>1 DEF Place
    <2> HIDE DEF j
    <2>4. RowsTyped'
      BY <1>0, <2>2, <2>3, TransitionTyped
    <2> QED BY <1>0, <2>3, <2>4, QuietKeeps DEF telemetryVars, Transition, IInv
  <1>4. CASE Run
    <2> DEFINE j == [job EXCEPT !.st = "RUNNING"]
    <2>1. j \in Jobs /\ j.on \in Worker
      BY <1>0, <1>1, <1>4 DEF Run, Is, Jobs, JobStatus, RowsTyped
    <2>2. Transition(j) /\ UNCHANGED <<said, buf, due, held, queue, sent, pollerVars>>
      BY <1>4 DEF Run
    <2> HIDE DEF j
    <2>3. RowsTyped'
      BY <1>0, <2>1, <2>2, TransitionTyped
    <2> QED BY <1>0, <2>2, <2>3, QuietKeeps DEF Transition, IInv
  <1>5. CASE AttemptEnds
    <2>1. job.on \in Worker /\ Ends(job.on)
      BY <1>0, <1>5 DEF AttemptEnds, Is, RowsTyped
    <2>2. PICK j \in {[st |-> "RUNNABLE", tries |-> job.tries + 1, on |-> NoHost],
                      [job EXCEPT !.st = "FAILED"]} : Transition(j)
      BY <1>5 DEF AttemptEnds
    <2>3. j \in Jobs /\ j.st \in {"RUNNABLE", "FAILED"}
      BY <1>1, <1>5, <2>2 DEF AttemptEnds, Is, Jobs, JobStatus
    <2>4. RowsTyped'
      BY <1>0, <2>2, <2>3, TransitionTyped
    <2> QED BY <1>0, <2>1, <2>2, <2>4, EndsKeeps DEF Ends, Transition, IInv
  <1>6. CASE JobSucceeds
    <2> DEFINE j == [job EXCEPT !.st = "SUCCEEDED"]
    <2>1. job.on \in Worker /\ Ends(job.on) /\ Transition(j)
      BY <1>0, <1>6 DEF JobSucceeds, Is, RowsTyped
    <2>2. j \in Jobs /\ j.st = "SUCCEEDED"
      BY <1>1, <1>6 DEF JobSucceeds, Is, Jobs, JobStatus
    <2> HIDE DEF j
    <2>3. RowsTyped'
      BY <1>0, <2>1, <2>2, TransitionTyped
    <2> QED BY <1>0, <2>1, <2>3, EndsKeeps DEF Ends, Transition, IInv
  <1> QED BY <1>2, <1>3, <1>4, <1>5, <1>6 DEF Batch

(* No colour is lost without a cause, and no announcement is taken back.   *)
KeepsColour == ~Lost(row) => row'.st = "failed" \/ Width(row') >= Width(row)
Onward == restarts' = restarts => KeepsColour /\ \A v \in Worker : applied'[v] >= applied[v]

(* A step that leaves the row loses no colour.                              *)
LEMMA SameRow ==
  ASSUME IInv, row' = row
  PROVE  row' \in Rows /\ KeepsColour
  <1>1. row \in Rows
    BY DEF IInv, RowsTyped
  <1>2. Width(row) \in 0 .. 2
    BY <1>1 DEF Rows, Width
  <1> QED BY <1>1, <1>2 DEF KeepsColour

(* One that announces no marker goes back behind none.                     *)
LEMMA SameApplied ==
  ASSUME IInv, applied' = applied
  PROVE  \A v \in Worker : applied'[v] >= applied[v]
  <1>1. \A v \in Worker : applied[v] \in 0 .. 6
    BY DEF IInv, TelemetryTyped
  <1> QED BY <1>1

(* One announcement by any source.                                         *)
LEMMA EmitStageRow ==
  ASSUME IInv, NEW st \in Status, NEW pct \in -1 .. 2, EmitStage(st, pct)
  PROVE  row' \in Rows /\ KeepsColour
  <1>1. row \in Rows
    BY DEF IInv, RowsTyped
  <1>2. row' = Announced(row, st, pct)
    BY DEF EmitStage
  <1>3. /\ Announced(row, st, pct) \in Rows
        /\ ~Lost(row) => \/ Announced(row, st, pct).st = "failed" /\ st = "failed"
                         \/ Width(Announced(row, st, pct)) >= Width(row)
    BY <1>1, AnnouncedRow
  <1> QED BY <1>2, <1>3, Zenon DEF KeepsColour

(* What Batch says of a job is a stage of the row.                         *)
LEMMA StageOfTyped ==
  ASSUME NEW s \in JobStatus
  PROVE  StageOf[s] \in Status
  BY DEF StageOf, JobStatus, Status

(* What a drain receives, and what it throws away.                         *)
LEMMA DrainHandsKeep ==
  ASSUME IInv, DrainReceives \/ DrainStops
  PROVE  IInv' /\ Onward
  <1>0. TelemetryTyped /\ InOrder /\ RowsTyped
    BY DEF IInv
  <1>1. UNCHANGED <<job, events, row, census, tailed, restarts>> /\ (Receive \/ DrainFails)
    BY DEF DrainReceives, DrainStops, rowVars
  <1>2. TelemetryTyped' /\ InOrder' /\ applied' = applied
    BY <1>0, <1>1, ReceiveKeeps, LosesKeeps DEF DrainFails
  <1>3. RowsTyped'
    BY <1>0, <1>1 DEF RowsTyped
  <1> QED BY <1>1, <1>2, <1>3, SameRow, SameApplied DEF IInv, Onward

(* A message's markers, through the guard.                                 *)
LEMMA DrainAnnouncesKeeps ==
  ASSUME IInv, DrainAnnounces
  PROVE  IInv' /\ Onward
  <1>0. TelemetryTyped /\ InOrder /\ RowsTyped
    BY DEF IInv
  <1>1. PICK message \in Range(collected) :
          Announce(message) /\ EmitMarkers(message.body, Kept(message))
    BY DEF DrainAnnounces
  <1> DEFINE body == message.body
             kept == Kept(message)
  <1>2. TelemetryTyped' /\ InOrder' /\ \A v \in Worker : applied'[v] >= applied[v]
    BY <1>0, <1>1, AnnounceKeeps
  <1>3. PICK i \in DOMAIN collected : message = collected[i]
    BY DEF Range
  <1>4. message \in Message /\ body \in Seq(Marker) /\ message.pub \in Worker
    <2>1. message \in Message
      BY <1>0, <1>3 DEF TelemetryTyped
    <2> QED BY <2>1 DEF Message
  <1>5. Ascending(body)
    <2>1. body \in Waiting(queue, collected, message.pub)
      BY <1>3 DEF Batches, Waiting
    <2> QED BY <1>0, <1>4, <2>1 DEF InOrder, Sorted
  <1>6. row \in Rows /\ EmitMarkers(body, kept)
    BY <1>0, <1>1 DEF RowsTyped
  <1> HIDE DEF body, kept
  <1>7. row' \in Rows /\ KeepsColour
    BY <1>4, <1>5, <1>6, EmitMarkersRow DEF KeepsColour
  <1>8. RowsTyped'
    BY <1>0, <1>7 DEF DrainAnnounces, RowsTyped
  <1> QED BY <1>2, <1>7, <1>8 DEF IInv, Onward

(* A running container's new lines, which are a stretch of its log.        *)
LEMMA TailLogKeeps ==
  ASSUME IInv, TailLog
  PROVE  IInv' /\ Onward
  <1>0. TelemetryTyped /\ InOrder /\ RowsTyped
    BY DEF IInv
  <1> DEFINE w == job.on
             log == said[w]
             new == SubSeq(log, tailed[w] + 1, Len(log))
  <1>1. /\ EmitMarkers(new, DOMAIN new) /\ PrintRecords(w, new)
        /\ tailed' = [tailed EXCEPT ![w] = Len(log)]
        /\ UNCHANGED <<job, events, census, restarts>>
    BY DEF TailLog
  <1>2. w \in Worker
    BY <1>0 DEF TailLog, Is, RowsTyped
  <1>3. log \in Seq(Marker) /\ Ascending(log) /\ tailed[w] \in Nat
    BY <1>0, <1>2 DEF TelemetryTyped, InOrder, Sorted, RowsTyped
  <1> HIDE DEF log, w
  <1>4. new \in Seq(Marker) /\ Ascending(new)
    <2>1. new \in Seq(Marker)
      BY <1>3
    <2>2. \A k \in DOMAIN new : new[k] = log[tailed[w] + k] /\ tailed[w] + k \in DOMAIN log /\ k \in Nat
      BY <1>3
    <2> HIDE DEF new
    <2> QED BY <1>3, <2>1, <2>2 DEF Ascending
  <1>5. row \in Rows
    BY <1>0 DEF RowsTyped
  <1>6. row' \in Rows /\ KeepsColour
    <2> HIDE DEF new
    <2> QED BY <1>1, <1>4, <1>5, EmitMarkersRow DEF KeepsColour
  <1>7. UNCHANGED <<said, buf, held, queue, collected, seen, applied, sent>>
    BY <1>1 DEF PrintRecords
  <1>8. TelemetryTyped' /\ InOrder'
    BY <1>0, <1>7, QuietKeeps
  <1>9. RowsTyped'
    <2>1. Len(log) \in Nat
      BY <1>3
    <2>2. tailed' \in [Worker -> Nat]
      BY <1>0, <1>1, <2>1 DEF RowsTyped
    <2> QED BY <1>0, <1>1, <1>6, <2>2 DEF RowsTyped
  <1> QED BY <1>6, <1>7, <1>8, <1>9, SameApplied DEF IInv, Onward

(* Those of the poller's steps that read what Batch says.                  *)
LEMMA BatchViewKeeps ==
  ASSUME IInv, DrainState \/ CensusScan \/ CensusStep \/ ReportReclaim \/ BackfillHost
  PROVE  IInv' /\ Onward /\ UNCHANGED <<telemetryVars, restarts>>
  <1>0. TelemetryTyped /\ InOrder /\ RowsTyped
    BY DEF IInv
  <1>1. UNCHANGED <<telemetryVars, restarts, tailed, job>>
    BY DEF DrainState, CensusScan, CensusStep, ReportReclaim, BackfillHost
  <1>2. TelemetryTyped' /\ InOrder'
    BY <1>0, <1>1, QuietKeeps DEF telemetryVars
  <1>3. SUFFICES row' \in Rows /\ KeepsColour /\ RowsTyped'
    BY <1>1, <1>2, SameApplied DEF IInv, Onward, telemetryVars
  <1>4. CASE DrainState
    <2>1. PICK e \in events :
            /\ events' = events \ {e} \/ UNCHANGED events
            /\ EmitStage(StageOf[e.st], IF e.st = "SUCCEEDED" THEN 2 ELSE Unknown)
      BY <1>4 DEF DrainState
    <2>2. e.st \in JobStatus
      BY <1>0 DEF RowsTyped
    <2> DEFINE pct == IF e.st = "SUCCEEDED" THEN 2 ELSE Unknown
    <2>3. pct \in -1 .. 2
      BY DEF Unknown
    <2> HIDE DEF pct
    <2>4. EmitStage(StageOf[e.st], pct)
      BY <2>1 DEF pct
    <2>5. row' \in Rows /\ KeepsColour
      BY <2>2, <2>3, <2>4, StageOfTyped, EmitStageRow
    <2> QED BY <1>0, <1>1, <1>4, <2>1, <2>5 DEF RowsTyped, DrainState
  <1>5. CASE CensusStep
    <2>1. CASE row' = row
      BY <1>0, <1>1, <1>5, <2>1, SameRow DEF CensusStep, RowsTyped
    <2>2. CASE row' # row
      <3> DEFINE st == StageOf[census.st]
                 pct == IF st = "done" THEN 2 ELSE Unknown
      <3>1. EmitStage(st, pct) /\ census # NoJob
        BY <1>5, <2>2 DEF CensusStep
      <3>2. st \in Status
        BY <1>0, <3>1, StageOfTyped DEF RowsTyped, Jobs
      <3>3. pct \in -1 .. 2
        BY DEF Unknown
      <3> HIDE DEF st, pct
      <3>4. row' \in Rows /\ KeepsColour
        BY <3>1, <3>2, <3>3, EmitStageRow
      <3> QED BY <1>0, <1>1, <1>5, <3>4 DEF CensusStep, RowsTyped
    <2> QED BY <2>1, <2>2
  <1>6. CASE ReportReclaim
    <2>1. row' \in Rows /\ KeepsColour
      <3>1. "reclaimed" \in Status /\ 0 \in -1 .. 2 /\ EmitStage("reclaimed", 0)
        BY <1>6 DEF Status, ReportReclaim
      <3> QED BY <3>1, EmitStageRow
    <2> QED BY <1>0, <1>1, <1>6, <2>1 DEF ReportReclaim, RowsTyped
  <1>7. CASE CensusScan
    BY <1>0, <1>1, <1>7, SameRow DEF CensusScan, RowsTyped
  <1>8. CASE BackfillHost
    BY <1>0, <1>1, <1>8, SameRow DEF BackfillHost, RowsTyped
  <1> QED BY <1>4, <1>5, <1>6, <1>7, <1>8

(* The end of the poll.                                                    *)
LEMMA FinishKeeps ==
  ASSUME IInv, Finish
  PROVE  IInv' /\ Onward
  <1>0. TelemetryTyped /\ InOrder /\ RowsTyped
    BY DEF IInv
  <1>1. DeleteQueue /\ UNCHANGED <<job, events, row, census, tailed, restarts>>
    BY DEF Finish
  <1>2. TelemetryTyped' /\ InOrder' /\ applied' = applied
    BY <1>0, <1>1, DeleteQueueKeeps DEF DeleteQueue
  <1>3. RowsTyped'
    BY <1>0, <1>1 DEF RowsTyped
  <1> QED BY <1>1, <1>2, <1>3, SameRow, SameApplied DEF IInv, Onward

(* A new poller begins with an empty row, and is counted.                  *)
LEMMA ReattachKeeps ==
  ASSUME IInv, Reattach
  PROVE  IInv' /\ restarts' > restarts
  <1>0. TelemetryTyped /\ InOrder /\ RowsTyped
    BY DEF IInv
  <1>1. Forget
    BY DEF Reattach
  <1>2. TelemetryTyped' /\ InOrder'
    BY <1>0, <1>1, LosesKeeps
  <1>3. /\ restarts' = restarts + 1 /\ row' = NoRow /\ census' = NoJob
        /\ tailed' = [w \in Worker |-> 0] /\ UNCHANGED <<job, events>>
    BY DEF Reattach
  <1>4. NoRow \in Rows
    BY DEF NoRow, Rows
  <1>5. RowsTyped'
    BY <1>0, <1>3, <1>4 DEF RowsTyped
  <1>6. restarts' > restarts
    BY <1>0, <1>3 DEF RowsTyped
  <1> QED BY <1>2, <1>5, <1>6 DEF IInv

(* Every step keeps the invariant, and colour and order.                   *)
LEMMA NextIInv ==
  ASSUME IInv, [Next]_vars
  PROVE  IInv' /\ Onward
  <1>0. TelemetryTyped /\ InOrder /\ RowsTyped
    BY DEF IInv
  <1>1. CASE Batch
    BY <1>1, BatchKeeps, SameRow, SameApplied DEF Onward
  <1>2. CASE \E w \in Worker : Publish(w)
    <2>1. PICK w \in Worker : Publish(w)
      BY <1>2
    <2>2. UNCHANGED rowVars /\ UNCHANGED applied
      BY <2>1 DEF Publish, Say, TimerTakes, Flush, TimerSends
    <2>3. RowsTyped'
      BY <1>0, <2>2 DEF rowVars, RowsTyped
    <2> QED BY <1>0, <2>1, <2>2, <2>3, PublishKeeps, SameRow, SameApplied DEF IInv, Onward, rowVars
  <1>3. CASE DrainReceives \/ DrainStops \/ DrainAnnounces
    BY <1>3, DrainHandsKeep, DrainAnnouncesKeeps
  <1>4. CASE TailLog
    BY <1>4, TailLogKeeps
  <1>5. CASE DrainState \/ CensusScan \/ CensusStep \/ ReportReclaim \/ BackfillHost \/ Finish
    BY <1>5, BatchViewKeeps, FinishKeeps
  <1>6. CASE Reattach
    <2>1. restarts \in Nat /\ restarts' \in Nat /\ restarts' > restarts /\ IInv'
      BY <1>0, <1>6, ReattachKeeps DEF IInv, RowsTyped
    <2> QED BY <2>1 DEF Onward
  <1>7. CASE UNCHANGED vars
    <2>1. TelemetryTyped' /\ InOrder'
      BY <1>0, <1>7, QuietKeeps DEF vars, telemetryVars
    <2>2. RowsTyped'
      BY <1>0, <1>7 DEF vars, rowVars, RowsTyped
    <2>3. row' = row /\ applied' = applied
      BY <1>7 DEF vars, rowVars, telemetryVars
    <2> QED BY <2>1, <2>2, <2>3, SameRow, SameApplied DEF IInv, Onward
  <1> QED BY <1>1, <1>2, <1>3, <1>4, <1>5, <1>6, <1>7 DEF Next, Poll

(* The lifecycle of a chunk's row and of its queue: the markers of a       *)
(* worker lie in the buffer, in the timer's hand and in the queue in such  *)
(* batches that none is split over another, and none that is new to the    *)
(* poller begins before what it has announced.                             *)
THEOREM BatchesLieApart == Spec => []IInv
  <1>1. Init => IInv
    BY InitIInv
  <1>2. IInv /\ [Next]_vars => IInv'
    BY NextIInv
  <1> QED BY <1>1, <1>2, PTL DEF Spec

(* No source that lags takes back a colour: what a step of the run checks  *)
(* for two machines holds for any number of them and of markers.           *)
THEOREM ColourIsKept == Spec => LosesColourForCause
  <1>1. ASSUME IInv, [Next]_vars
        PROVE  [Width(row') < Width(row) /\ restarts' = restarts
                  => row'.st = "failed" \/ row.st \in {"reclaimed", "failed"}]_vars
    <2>1. Onward
      BY <1>1, NextIInv
    <2>2. Width(row) \in 0 .. 2 /\ Width(row') \in 0 .. 2
      <3>1. row \in Rows /\ row' \in Rows
        BY <1>1, NextIInv DEF IInv, RowsTyped
      <3> QED BY <3>1 DEF Rows, Width
    <2> QED BY <2>1, <2>2 DEF Onward, KeepsColour, Lost
  <1> QED BY <1>1, BatchesLieApart, PTL DEF Spec, LosesColourForCause

(* A publisher's stage markers are announced in the order it emitted them. *)
THEOREM AnnouncedInOrder == Spec => InEmissionOrder
  <1>1. ASSUME IInv, [Next]_vars
        PROVE  [restarts' = restarts => \A w \in Worker : applied'[w] >= applied[w]]_vars
    BY <1>1, NextIInv DEF Onward
  <1> QED BY <1>1, BatchesLieApart, PTL DEF Spec, InEmissionOrder

-----------------------------------------------------------------------------
(* Records.                                                                *)

(* What is at hand of the records: waiting, or lost for a cause.           *)
AtHand(q, c, d) == RecordsOf(q) \cup RecordsOf(c) \cup d

(* A batch that is sent adds its records to those of the queue.            *)
LEMMA RecordsAppend ==
  ASSUME NEW q \in Seq(Message), NEW w \in Worker, NEW b \in Seq(Marker)
  PROVE  RecordsOf(q) \cup {<<w, b[k]>> : k \in Records(b)}
           \subseteq RecordsOf(Append(q, [pub |-> w, body |-> b]))
  <1> DEFINE m == [pub |-> w, body |-> b]
             p == Append(q, m)
  <1>1. m.pub = w /\ m.body = b
    OBVIOUS
  <1> HIDE DEF m
  <1>2. /\ Len(q) + 1 \in DOMAIN p /\ p[Len(q) + 1] = m
        /\ \A i \in DOMAIN q : i \in DOMAIN p /\ p[i] = q[i]
    OBVIOUS
  <1> HIDE DEF p
  <1>3. RecordsOf(q) \subseteq RecordsOf(p)
    BY <1>2 DEF RecordsOf
  <1>4. {<<w, b[k]>> : k \in Records(b)} \subseteq RecordsOf(p)
    BY <1>1, <1>2 DEF RecordsOf
  <1> QED BY <1>3, <1>4 DEF p, m

(* A message that is announced has all its records printed.                *)
LEMMA RecordsAnnounced ==
  ASSUME IInv, NEW message, Announce(message)
  PROVE  RecordsOf(collected) \subseteq RecordsOf(collected') \cup printed'
  <1> DEFINE body == message.body
  <1>1. /\ collected # <<>> /\ message = Head(collected) /\ collected' = Tail(collected)
        /\ printed' = printed \cup {<<message.pub, body[k]>> : k \in Kept(message) \cap Records(body)}
    BY DEF Announce
  <1>2. Records(body) \subseteq Kept(message)
    BY DEF Records, Kept
  <1>3. collected \in Seq(Message) /\ message = collected[1]
    BY <1>1 DEF IInv, TelemetryTyped
  <1>4. \A i \in DOMAIN collected : i # 1 => i - 1 \in DOMAIN collected' /\ collected'[i - 1] = collected[i]
    BY <1>1, <1>3
  <1>5. SUFFICES ASSUME NEW i \in DOMAIN collected, NEW k \in Records(collected[i].body)
                 PROVE  <<collected[i].pub, collected[i].body[k]>> \in RecordsOf(collected') \cup printed'
    BY DEF RecordsOf
  <1>6. CASE i = 1
    BY <1>1, <1>2, <1>3, <1>6
  <1>7. CASE i # 1
    BY <1>4, <1>7 DEF RecordsOf
  <1> QED BY <1>6, <1>7

(* A record that is sent is at hand; one that is not any more is printed.  *)
LEMMA RecordsStep ==
  ASSUME IInv, RecordsKept, [Next]_vars
  PROVE  RecordsKept'
  <1>0. TelemetryTyped /\ InOrder /\ RowsTyped
    BY DEF IInv
  <1>1. sent \subseteq printed \cup AtHand(queue, collected, dropped)
    BY DEF RecordsKept, AtHand
  <1>2. SUFFICES sent' \subseteq printed' \cup AtHand(queue', collected', dropped')
    BY DEF RecordsKept, AtHand
  <1> USE DEF AtHand
  <1>3. CASE sent' = sent /\ printed \subseteq printed' /\ UNCHANGED <<queue, collected, dropped>>
    BY <1>1, <1>3
  <1>4. CASE \E w \in Worker : Publish(w)
    <2>1. PICK w \in Worker : Publish(w)
      BY <1>4
    <2>2. UNCHANGED <<printed, collected, dropped>>
      BY <2>1 DEF Publish, Say, TimerTakes, Flush, TimerSends
    <2>3. CASE queue' = queue /\ sent' = sent
      BY <1>3, <2>2, <2>3
    <2>4. ASSUME NEW b \in Seq(Marker), queue' = Append(queue, [pub |-> w, body |-> b]),
                 sent' = sent \cup {<<w, b[i]>> : i \in Records(b)}
          PROVE  sent' \subseteq printed' \cup AtHand(queue', collected', dropped')
      <3>1. RecordsOf(queue) \cup {<<w, b[i]>> : i \in Records(b)} \subseteq RecordsOf(queue')
        BY <1>0, <2>4, RecordsAppend DEF TelemetryTyped
      <3> QED BY <1>1, <2>2, <2>4, <3>1
    <2>5. CASE Flush(w)
      <3>1. buf[w] \in Seq(Marker)
        BY <1>0 DEF TelemetryTyped
      <3> QED BY <2>3, <2>4, <2>5, <3>1 DEF Flush, Send
    <2>6. CASE TimerSends(w)
      <3>1. held[w] \in Seq(Marker)
        BY <1>0 DEF TelemetryTyped
      <3> QED BY <2>3, <2>4, <2>6, <3>1 DEF TimerSends, Send
    <2>7. CASE Say(w) \/ TimerTakes(w)
      BY <2>3, <2>7 DEF Say, TimerTakes
    <2> QED BY <2>1, <2>5, <2>6, <2>7 DEF Publish
  <1>5. CASE DrainReceives
    BY <1>0, <1>1, <1>5, ReceiveKeeps DEF DrainReceives
  <1>6. CASE DrainAnnounces
    <2>1. PICK message : Announce(message)
      BY <1>6 DEF DrainAnnounces
    <2>2. UNCHANGED <<queue, sent, dropped>> /\ printed \subseteq printed'
      BY <2>1 DEF Announce
    <2> QED BY <1>1, <2>1, <2>2, RecordsAnnounced
  <1>7. CASE DrainStops \/ Reattach
    <2>1. LosesCollected /\ UNCHANGED <<queue, sent, printed>>
      BY <1>7 DEF DrainStops, DrainFails, Reattach, Forget
    <2> QED BY <1>1, <2>1 DEF LosesCollected
  <1>8. CASE Finish
    BY <1>1, <1>8 DEF Finish, DeleteQueue
  <1>9. CASE TailLog
    BY <1>3, <1>9 DEF TailLog, PrintRecords
  <1>10. CASE Batch
    BY <1>3, <1>10, BatchKeeps
  <1>11. CASE DrainState \/ CensusScan \/ CensusStep \/ ReportReclaim \/ BackfillHost
    BY <1>3, <1>11, BatchViewKeeps DEF telemetryVars
  <1>12. CASE UNCHANGED vars
    BY <1>3, <1>12 DEF vars, telemetryVars, rowVars
  <1> QED BY <1>4, <1>5, <1>6, <1>7, <1>8, <1>9, <1>10, <1>11, <1>12 DEF Next, Poll

(* A record that reached the queue reaches the control plane, unless a     *)
(* drain or the poller dies over it or the queue is deleted under it: no   *)
(* cause but these, however often drains fail and pollers are replaced.    *)
THEOREM RecordsArrive == Spec => []RecordsKept
  <1>1. Init => RecordsKept
    BY DEF Init, TelemetryInit, RecordsKept
  <1>2. IInv /\ RecordsKept /\ [Next]_vars => RecordsKept'
    BY RecordsStep
  <1> QED BY <1>1, <1>2, BatchesLieApart, PTL DEF Spec
=============================================================================
