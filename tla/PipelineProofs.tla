---------------------------- MODULE PipelineProofs ----------------------------
(***************************************************************************)
(* A clip on its way to its packaged directories, whatever the clips, the  *)
(* ladders, the grid, the options, the faults and the number of runs: the  *)
(* frames of the source are in the output once and in order, the rows that *)
(* were announced are driven, and the manifests say what was packaged.     *)
(*                                                                         *)
(* First the plan (ChunkPlan): a tiling covers its clip, and chunks that   *)
(* are encoded apart and joined are the whole clip.  Then the sequences a  *)
(* set is listed as (Listing), the options of a run and the rungs of its   *)
(* ladder (Ladder), the types, the rows, the files of a working directory, *)
(* the tasks of a farm, and the invariant FrameInv that FramesOnce needs.  *)
(* Last the sums of sequences, the boxes of a segment file and the lists a *)
(* manifest is expanded to and collapsed from (Manifests).                 *)
(***************************************************************************)
EXTENDS Pipeline, SequenceTheorems, FiniteSetTheorems, TLAPS

-----------------------------------------------------------------------------
Before == {p \in Nat \X Nat : p[1] < p[2]}

(* The well-founded order of the naturals, as the provers can use it.      *)
LEMMA Least ==
  ASSUME NEW T, T \subseteq Nat, T # {}
  PROVE  \E n \in T : \A m \in T : n <= m
  <1>1. IsWellFoundedOn(Before, Nat)
    BY NatLessThanWellFounded, Zenon DEF OpToRel, Before
  <1>2. \E n \in T : \A m \in T : ~(<<m, n>> \in Before)
    BY <1>1, WFMin, Zenon
  <1>3. PICK n \in T : \A m \in T : ~(<<m, n>> \in Before)
    BY <1>2
  <1>4. ASSUME NEW m \in T PROVE n <= m
    <2>1. m \in Nat /\ n \in Nat /\ <<m, n>> \notin Before
      BY <1>3
    <2>2. ~(m < n)
      BY <2>1 DEF Before
    <2> QED BY <2>1, <2>2
  <1> QED BY <1>4


-----------------------------------------------------------------------------
(* The plan the farm works on.  First, arithmetic.                         *)

(* The quotient and the remainder.                                         *)
LEMMA Division ==
  ASSUME NEW a \in Nat, NEW b \in Nat \ {0}
  PROVE  /\ a \div b \in Nat /\ a % b \in 0 .. b - 1
         /\ a = b * (a \div b) + (a % b)
  OBVIOUS

(* Products of unequal factors are a factor apart.                         *)
LEMMA Products ==
  ASSUME NEW x \in Nat, NEW y \in Nat, NEW g \in Nat \ {0}, x < y
  PROVE  x * g \in Nat /\ y * g \in Nat /\ x * g + g <= y * g
  <1>1. PICK d \in Nat : y = x + 1 + d
    <2>1. y - x - 1 \in Nat /\ y = x + 1 + (y - x - 1)
      OBVIOUS
    <2> QED BY <2>1
  <1>2. d * g \in Nat /\ x * g \in Nat
    OBVIOUS
  <1>3. y * g = x * g + g + d * g
    BY <1>1
  <1> QED BY <1>2, <1>3

(* A multiple leaves no remainder.                                         *)
LEMMA Multiple ==
  ASSUME NEW k \in Nat, NEW b \in Nat \ {0}
  PROVE  k * b \in Nat /\ (k * b) % b = 0 /\ (k * b) \div b = k
  <1>1. k * b \in Nat
    OBVIOUS
  <1> DEFINE q == (k * b) \div b
             r == (k * b) % b
  <1>2. q \in Nat /\ r \in 0 .. b - 1 /\ k * b = b * q + r
    BY <1>1, Division
  <1> HIDE DEF q, r
  <1>3. CASE k = q
    BY <1>2, <1>3 DEF q, r
  <1>4. CASE q < k
    <2>1. q * b + b <= k * b
      BY <1>2, <1>4, Products
    <2> QED BY <1>2, <2>1
  <1>5. CASE k < q
    <2>1. k * b + b <= q * b
      BY <1>2, <1>5, Products
    <2> QED BY <1>2, <2>1
  <1> QED BY <1>2, <1>3, <1>4, <1>5

(* Rounding up.                                                            *)
LEMMA Rounding ==
  ASSUME NEW a \in Nat \ {0}, NEW b \in Nat \ {0}
  PROVE  /\ CeilDiv(a, b) \in Nat \ {0}
         /\ a <= CeilDiv(a, b) * b /\ (CeilDiv(a, b) - 1) * b < a
  <1>1. a + b - 1 \in Nat
    OBVIOUS
  <1> DEFINE q == (a + b - 1) \div b
             r == (a + b - 1) % b
  <1>2. q \in Nat /\ r \in 0 .. b - 1 /\ a + b - 1 = b * q + r
    BY <1>1, Division
  <1>3. CeilDiv(a, b) = q
    BY DEF CeilDiv
  <1> HIDE DEF q, r
  <1>4. q # 0
    BY <1>2
  <1>5. (q - 1) * b = q * b - b /\ q * b = b * q
    BY <1>2
  <1> QED BY <1>2, <1>3, <1>4, <1>5

LEMMA MinOfTwo ==
  ASSUME NEW a \in Int, NEW b \in Int
  PROVE  Min({a, b}) = IF a <= b THEN a ELSE b
  BY DEF Min

LEMMA MaxOfTwo ==
  ASSUME NEW a \in Int, NEW b \in Int
  PROVE  Max({a, b}) = IF a <= b THEN b ELSE a
  BY DEF Max

LEMMA MinIsIn ==
  ASSUME NEW T, T \subseteq Nat, T # {}
  PROVE  Min(T) \in T /\ \A m \in T : Min(T) <= m
  BY Least DEF Min

(* Rounded up, a quotient is how many multiples come before the number.    *)
LEMMA RoundingUp ==
  ASSUME NEW a \in Nat, NEW b \in Nat \ {0}
  PROVE  /\ CeilDiv(a, b) \in Nat /\ (a = 0 => CeilDiv(a, b) = 0)
         /\ \A s \in Nat : s * b < a <=> s < CeilDiv(a, b)
  <1>1. CASE a = 0
    <2>1. (a + b - 1) \div b \in Nat /\ (a + b - 1) % b \in 0 .. b - 1
          /\ a + b - 1 = b * ((a + b - 1) \div b) + ((a + b - 1) % b)
      <3>1. a + b - 1 \in Nat
        OBVIOUS
      <3> QED BY <3>1, Division
    <2>2. CeilDiv(a, b) = 0
      <3> DEFINE q == (a + b - 1) \div b
      <3>1. q \in Nat /\ b * q <= b - 1
        BY <1>1, <2>1
      <3> HIDE DEF q
      <3>2. CASE 0 < q
        <4>1. 0 * b + b <= q * b /\ q * b = b * q
          BY <3>1, <3>2, Products
        <4> QED BY <3>1, <4>1
      <3>3. q = 0
        BY <3>1, <3>2
      <3> QED BY <3>3 DEF q, CeilDiv
    <2>3. \A s \in Nat : s * b \in Nat
      OBVIOUS
    <2> QED BY <1>1, <2>2, <2>3
  <1>2. CASE a # 0
    <2> DEFINE c == CeilDiv(a, b)
    <2>1. c \in Nat \ {0} /\ a <= c * b /\ (c - 1) * b < a
      BY <1>2, Rounding
    <2> HIDE DEF c
    <2>2. ASSUME NEW s \in Nat PROVE s * b < a <=> s < c
      <3>1. s * b \in Nat /\ c * b \in Nat /\ (c - 1) * b = c * b - b
        BY <2>1
      <3>2. CASE s < c
        <4>1. s * b + b <= c * b
          BY <2>1, <3>2, Products
        <4> QED BY <2>1, <3>1, <3>2, <4>1
      <3>3. CASE s = c
        BY <2>1, <3>1, <3>3
      <3>4. CASE c < s
        <4>1. c * b + b <= s * b
          BY <2>1, <3>4, Products
        <4> QED BY <2>1, <3>1, <3>4, <4>1
      <3> QED BY <2>1, <3>2, <3>3, <3>4
    <2> QED BY <1>2, <2>1, <2>2 DEF c
  <1> QED BY <1>1, <1>2

(* The least common multiple is one of both.                               *)
LEMMA LcmIsMultiple ==
  ASSUME NEW a \in Nat \ {0}, NEW b \in Nat \ {0}
  PROVE  /\ Lcm(a, b) \in Nat \ {0}
         /\ Lcm(a, b) % a = 0 /\ Lcm(a, b) % b = 0
  <1> DEFINE T == {k \in 1 .. (a * b) : k % a = 0 /\ k % b = 0}
  <1>1. a * b \in Nat \ {0} /\ a * b = b * a
    OBVIOUS
  <1>2. (a * b) % b = 0 /\ (b * a) % a = 0
    BY Multiple
  <1>3. a * b \in T /\ T \subseteq Nat
    BY <1>1, <1>2
  <1>4. Min(T) \in T
    <2> HIDE DEF T
    <2> QED BY <1>3, MinIsIn
  <1>5. Lcm(a, b) = Min(T)
    BY DEF Lcm
  <1> QED BY <1>1, <1>4, <1>5

-----------------------------------------------------------------------------
(* The chunks lie end to end from 0 to the content, and none is empty.     *)
EndToEnd(chunks, content) ==
  /\ Len(chunks) > 0
  /\ chunks[1].start = 0 /\ chunks[Len(chunks)].end = content
  /\ \A i \in 1 .. Len(chunks) :
       /\ chunks[i].start \in Nat /\ chunks[i].end \in Nat
       /\ chunks[i].start < chunks[i].end
       /\ i < Len(chunks) => chunks[i].end = chunks[i + 1].start

(* They are cut between units of the grid only.                            *)
OnGrid(chunks, grid) ==
  \A i \in 1 .. Len(chunks) : chunks[i].start % grid = 0

(* A chunk of the plan.                                                    *)
Tile == [start : Nat, end : Nat]

LEMMA GridIsPositive ==
  ASSUME NEW seg \in Nat \ {0}
  PROVE  ChunkGrid(seg) \in Nat \ {0} /\ ChunkGrid(seg) % seg = 0 /\ ChunkGrid(seg) % GridUnit = 0
  BY TicksAssumption, LcmIsMultiple DEF ChunkGrid

(* Units shared out: the i-th of n pieces ends at i * q + i or r of them.  *)
LEMMA Shares ==
  ASSUME NEW q \in Nat \ {0}, NEW r \in Nat, NEW i \in Nat
  PROVE  /\ i * q + Min({i, r}) \in Nat
         /\ ((i + 1) * q + Min({i + 1, r})) - (i * q + Min({i, r})) \in {q, q + 1}
  <1>1. Min({i, r}) = IF i <= r THEN i ELSE r
    BY MinOfTwo
  <1>2. Min({i + 1, r}) = IF i + 1 <= r THEN i + 1 ELSE r
    BY MinOfTwo
  <1>3. i * q \in Nat /\ (i + 1) * q = i * q + q
    OBVIOUS
  <1> QED BY <1>1, <1>2, <1>3

(* A plan is so many chunks of the grid, the last one cut at the content.  *)
LEMMA PlanEndToEnd ==
  ASSUME NEW content \in Nat \ {0}, NEW chunk \in Nat \ {0}, NEW seg \in Nat \ {0}
  PROVE  LET planned == PlanChunks(content, chunk, seg)
         IN  /\ planned \in Seq(Tile)
             /\ EndToEnd(planned, content) /\ OnGrid(planned, ChunkGrid(seg))
             /\ Len(planned) <= ChunkCount(content, chunk)
  <1> DEFINE grid  == ChunkGrid(seg)
             units == CeilDiv(content, grid)
             n     == Min({ChunkCount(content, chunk), units})
             q     == units \div n
             r     == units % n
             Upto(i) == i * q + Min({i, r})
             At(i) == Upto(i) * grid
             planned == PlanChunks(content, chunk, seg)
  <1>1. grid \in Nat \ {0}
    BY GridIsPositive
  <1>2. units \in Nat \ {0} /\ content <= units * grid /\ (units - 1) * grid < content
    <2> HIDE DEF grid
    <2> QED BY <1>1, Rounding
  <1>3. ChunkCount(content, chunk) \in Nat \ {0}
    <2>1. CeilDiv(content, chunk) \in Nat \ {0}
      BY Rounding
    <2> QED BY <2>1, MaxOfTwo DEF ChunkCount
  <1>4. n \in Nat \ {0} /\ n <= units /\ n <= ChunkCount(content, chunk)
    <2> HIDE DEF units
    <2> QED BY <1>2, <1>3, MinOfTwo
  <1> HIDE DEF grid, units, n
  <1>5. q \in Nat /\ r \in 0 .. n - 1 /\ units = n * q + r
    BY <1>2, <1>4, Division
  <1> HIDE DEF q, r
  <1>6. q # 0
    BY <1>4, <1>5
  <1>7. ASSUME NEW i \in Nat
        PROVE  Upto(i) \in Nat /\ Upto(i + 1) - Upto(i) \in {q, q + 1} /\ Upto(i + 1) \in Nat
    <2>1. q \in Nat \ {0} /\ r \in Nat /\ i + 1 \in Nat
      BY <1>5, <1>6
    <2>2. Upto(i) \in Nat /\ Upto(i + 1) \in Nat
      BY <2>1, Shares
    <2>3. Upto(i + 1) - Upto(i) \in {q, q + 1}
      BY <2>1, Shares
    <2> QED BY <2>2, <2>3
  <1>8. Upto(0) = 0 /\ Upto(n) = units
    <2>1. Min({0, r}) = 0 /\ Min({n, r}) = r
      BY <1>4, <1>5, MinOfTwo
    <2> QED BY <2>1, <1>4, <1>5
  <1> HIDE DEF Upto
  <1>9. ASSUME NEW i \in Nat
        PROVE  At(i) \in Nat /\ At(i) % grid = 0 /\ At(i + 1) \in Nat /\ At(i) < At(i + 1)
    <2>1. Upto(i) < Upto(i + 1) /\ Upto(i) \in Nat /\ Upto(i + 1) \in Nat
      BY <1>5, <1>6, <1>7
    <2>2. At(i) \in Nat /\ At(i) % grid = 0
      BY <1>1, <2>1, Multiple
    <2> QED BY <1>1, <2>1, <2>2, Products
  <1>10. At(n - 1) < content /\ At(0) = 0
    <2>1. n - 1 \in Nat /\ Upto(n - 1) \in Nat /\ Upto(n - 1) <= units - 1
      BY <1>4, <1>5, <1>6, <1>7, <1>8
    <2>2. Upto(n - 1) * grid <= (units - 1) * grid
      <3>1. CASE Upto(n - 1) = units - 1
        <4>1. units - 1 \in Nat
          BY <1>2
        <4>2. (units - 1) * grid \in Nat
          BY <1>1, <4>1
        <4> QED BY <3>1, <4>2
      <3>2. CASE Upto(n - 1) < units - 1
        <4>1. units - 1 \in Nat
          BY <1>2
        <4>2. Upto(n - 1) * grid + grid <= (units - 1) * grid /\ Upto(n - 1) * grid \in Nat /\ (units - 1) * grid \in Nat
          BY <1>1, <2>1, <3>2, <4>1, Products
        <4> QED BY <1>1, <4>2
      <3> QED BY <2>1, <1>2, <3>1, <3>2
    <2>3. Upto(n - 1) * grid \in Nat /\ (units - 1) * grid \in Nat
      BY <1>1, <1>2, <2>1
    <2> QED BY <1>1, <1>2, <1>8, <2>2, <2>3
  <1> HIDE DEF At
  <1>11. planned = [i \in 1 .. n |-> [start |-> At(i - 1), end |-> IF i = n THEN content ELSE At(i)]]
    BY DEF PlanChunks, At, Upto, q, r, n, units, grid
  <1>12. ASSUME NEW i \in 1 .. n
         PROVE  /\ i - 1 \in Nat /\ i \in Nat
                /\ At(i - 1) \in Nat /\ At(i) \in Nat /\ At(i - 1) < At(i)
                /\ At(i - 1) % grid = 0
    <2>1. i - 1 \in Nat /\ (i - 1) + 1 = i
      BY <1>4
    <2> QED BY <2>1, <1>9
  <1>13. planned \in Seq(Tile) /\ Len(planned) = n
    <2>1. \A i \in 1 .. n : [start |-> At(i - 1), end |-> IF i = n THEN content ELSE At(i)] \in Tile
      BY <1>12 DEF Tile
    <2> QED BY <1>4, <1>11, <2>1
  <1>14. EndToEnd(planned, content)
    BY <1>4, <1>10, <1>11, <1>12, <1>13 DEF EndToEnd
  <1>15. OnGrid(planned, grid)
    <2>1. ASSUME NEW i \in 1 .. n PROVE planned[i].start = At(i - 1)
      BY <1>11
    <2> QED BY <2>1, <1>12, <1>13 DEF OnGrid
  <1> QED BY <1>4, <1>13, <1>14, <1>15 DEF grid

(* Joining a runt with its neighbour leaves it so.                         *)
LEMMA CoalescedEndToEnd ==
  ASSUME NEW chunks \in Seq(Tile), NEW content, NEW grid,
         EndToEnd(chunks, content), OnGrid(chunks, grid)
  PROVE  /\ Coalesced(chunks) \in Seq(Tile)
         /\ EndToEnd(Coalesced(chunks), content) /\ OnGrid(Coalesced(chunks), grid)
         /\ Len(Coalesced(chunks)) <= Len(chunks)
  <1> DEFINE n == Len(chunks)
             last == [start |-> chunks[n - 1].start, end |-> chunks[n].end]
             joined == Append(SubSeq(chunks, 1, n - 2), last)
  <1>1. n \in Nat \ {0} /\ \A i \in 1 .. n : chunks[i] \in Tile
    BY DEF EndToEnd
  <1>2. CASE Coalesced(chunks) = chunks
    BY <1>1, <1>2
  <1>3. CASE n >= 2 /\ Coalesced(chunks) = joined
    <2>1. n - 2 \in Nat /\ n - 1 \in 1 .. n /\ n \in 1 .. n
      BY <1>1, <1>3
    <2>2. SubSeq(chunks, 1, n - 2) \in Seq(Tile) /\ Len(SubSeq(chunks, 1, n - 2)) = n - 2
          /\ \A i \in 1 .. n - 2 : SubSeq(chunks, 1, n - 2)[i] = chunks[i]
      <3> DEFINE k == n - 2
      <3>1. k \in Nat /\ k <= n /\ \A i \in 1 .. k : i \in 1 .. n /\ chunks[i] \in Tile
        BY <1>1, <2>1
      <3>2. SubSeq(chunks, 1, k) = [i \in 1 .. k |-> chunks[i]]
        <4> HIDE DEF k
        <4> QED BY <3>1
      <3> HIDE DEF k
      <3>3. SubSeq(chunks, 1, k) \in Seq(Tile) /\ Len(SubSeq(chunks, 1, k)) = k
        BY <3>1, <3>2
      <3> QED BY <3>2, <3>3 DEF k
    <2>3. last \in Tile
      BY <1>1, <2>1 DEF Tile
    <2> HIDE DEF last
    <2>4. /\ joined \in Seq(Tile) /\ Len(joined) = n - 1 /\ joined[n - 1] = last
          /\ \A i \in 1 .. n - 2 : joined[i] = chunks[i]
      BY <2>1, <2>2, <2>3
    <2>5. last.start = chunks[n - 1].start /\ last.end = chunks[n].end
      BY DEF last
    <2>6. last.start < last.end /\ last.start \in Nat /\ last.end \in Nat
      <3>1. /\ chunks[n - 1].start < chunks[n - 1].end /\ chunks[n - 1].end = chunks[n].start
            /\ chunks[n].start < chunks[n].end /\ chunks[n - 1].start \in Nat
            /\ chunks[n].start \in Nat /\ chunks[n].end \in Nat
        BY <2>1 DEF EndToEnd
      <3> QED BY <3>1, <2>5
    <2> HIDE DEF joined
    <2>7. ASSUME NEW i \in 1 .. n - 1
          PROVE  /\ joined[i].start = chunks[i].start /\ joined[i].start \in Nat
                 /\ joined[i].end \in Nat /\ joined[i].start < joined[i].end
                 /\ i < n - 1 => joined[i].end = chunks[i].end
      <3>1. CASE i = n - 1
        BY <2>4, <2>5, <2>6, <3>1
      <3>2. CASE i \in 1 .. n - 2
        <4>1. joined[i] = chunks[i] /\ i \in 1 .. n
          BY <2>1, <2>4, <3>2
        <4> QED BY <4>1 DEF EndToEnd
      <3> QED BY <1>1, <3>1, <3>2
    <2>8. ASSUME NEW i \in 1 .. n - 1, i < n - 1 PROVE joined[i].end = joined[i + 1].start
      <3>1. i + 1 \in 1 .. n - 1 /\ i \in 1 .. n /\ i < n
        BY <1>1, <2>8
      <3>2. chunks[i].end = chunks[i + 1].start
        BY <3>1 DEF EndToEnd
      <3> QED BY <2>7, <2>8, <3>1, <3>2
    <2>9. EndToEnd(joined, content)
      <3>1. joined[1].start = 0
        BY <2>1, <2>7 DEF EndToEnd
      <3>2. joined[n - 1].end = content
        BY <2>4, <2>5 DEF EndToEnd
      <3> QED BY <2>1, <2>4, <2>7, <2>8, <3>1, <3>2 DEF EndToEnd
    <2>10. OnGrid(joined, grid)
      <3>1. \A i \in 1 .. n - 1 : i \in 1 .. n
        BY <1>1
      <3> QED BY <2>4, <2>7, <3>1 DEF OnGrid
    <2> QED BY <1>3, <2>4, <2>9, <2>10
  <1> QED BY <1>1, <1>2, <1>3 DEF Coalesced

(* Of chunks that lie end to end, a later one starts where an earlier one   *)
(* has ended: the first not to would follow one that does.                 *)
LEMMA StartsInOrder ==
  ASSUME NEW chunks \in Seq(Tile), NEW content, EndToEnd(chunks, content),
         NEW i \in 1 .. Len(chunks), NEW j \in 1 .. Len(chunks), i < j
  PROVE  chunks[i].end <= chunks[j].start
  <1> DEFINE n == Len(chunks)
             T == {k \in i + 1 .. n : ~(chunks[i].end <= chunks[k].start)}
  <1>1. SUFFICES ASSUME T # {} PROVE FALSE
    BY <1>1
  <1>2. n \in Nat /\ i \in Nat /\ T \subseteq Nat
    OBVIOUS
  <1>3. PICK k \in T : \A m \in T : k <= m
    <2> HIDE DEF T
    <2> QED BY <1>1, <1>2, Least
  <1>4. k \in i + 1 .. n /\ k - 1 \in 1 .. n /\ k - 1 < n
    BY <1>2, <1>3
  <1>5. /\ chunks[k - 1].end = chunks[(k - 1) + 1].start /\ (k - 1) + 1 = k
        /\ chunks[k - 1].start < chunks[k - 1].end
        /\ chunks[k - 1].start \in Nat /\ chunks[k - 1].end \in Nat
        /\ chunks[i].end \in Nat
    BY <1>4 DEF EndToEnd
  <1>6. k - 1 # i
    BY <1>3, <1>5
  <1>7. k - 1 \notin T /\ k - 1 \in i + 1 .. n
    BY <1>2, <1>3, <1>4, <1>6
  <1>8. chunks[i].end <= chunks[k - 1].start
    BY <1>7
  <1>9. ~(chunks[i].end <= chunks[k].start)
    BY <1>3
  <1> QED BY <1>5, <1>8, <1>9

(* They take in every moment once: the first to end after it has begun.    *)
LEMMA InOneChunk ==
  ASSUME NEW chunks \in Seq(Tile), NEW content, EndToEnd(chunks, content),
         NEW t \in Nat, t < content
  PROVE  \E i \in 1 .. Len(chunks) :
           /\ chunks[i].start <= t /\ t < chunks[i].end
           /\ \A j \in 1 .. Len(chunks) :
                chunks[j].start <= t /\ t < chunks[j].end => j = i
  <1> DEFINE n == Len(chunks)
             T == {k \in 1 .. n : t < chunks[k].end}
  <1>1. n \in T /\ T \subseteq Nat
    <2>1. n \in 1 .. n
      BY DEF EndToEnd
    <2> QED BY <2>1 DEF EndToEnd
  <1>2. PICK i \in T : \A m \in T : i <= m
    <2> HIDE DEF T
    <2> QED BY <1>1, Least
  <1>3. i \in 1 .. n /\ t < chunks[i].end
    BY <1>2
  <1>4. chunks[i].start <= t
    <2>1. CASE i = 1
      BY <2>1 DEF EndToEnd
    <2>2. CASE i # 1
      <3>1. i - 1 \in 1 .. n /\ i - 1 < n /\ (i - 1) + 1 = i /\ ~(i <= i - 1)
        BY <1>3, <2>2
      <3>2. i - 1 \notin T
        BY <1>2, <3>1
      <3>3. chunks[i - 1].end = chunks[i].start /\ chunks[i - 1].end \in Nat
        BY <3>1 DEF EndToEnd
      <3> QED BY <3>1, <3>2, <3>3
    <2> QED BY <2>1, <2>2
  <1>5. ASSUME NEW j \in 1 .. n, chunks[j].start <= t, t < chunks[j].end PROVE j = i
    <2>1. /\ chunks[i].start \in Nat /\ chunks[i].end \in Nat
          /\ chunks[j].start \in Nat /\ chunks[j].end \in Nat
      BY <1>3 DEF EndToEnd
    <2>2. CASE i < j
      BY <1>3, <1>5, <2>1, <2>2, StartsInOrder
    <2>3. CASE j < i
      BY <1>3, <1>4, <1>5, <2>1, <2>3, StartsInOrder
    <2> QED BY <1>3, <2>2, <2>3
  <1> QED BY <1>3, <1>4, <1>5

(***************************************************************************)
(* However a clip is cut (plan_chunks, coalesce_short_tail), its chunks    *)
(* lie end to end from its start to its end, none is empty, a chunk starts *)
(* on a boundary of the grid, and there are no more of them than were      *)
(* asked for: so every moment of the clip is in one chunk and in one only. *)
(***************************************************************************)
THEOREM TilingCovers ==
  ASSUME NEW content \in Nat \ {0}, NEW chunk \in Nat \ {0}, NEW seg \in Nat \ {0}
  PROVE  LET tiles == Tiling(content, chunk, seg)
         IN  /\ EndToEnd(tiles, content) /\ OnGrid(tiles, ChunkGrid(seg))
             /\ Len(tiles) <= ChunkCount(content, chunk)
             /\ \A t \in 0 .. content - 1 :
                  \E i \in 1 .. Len(tiles) :
                    /\ tiles[i].start <= t /\ t < tiles[i].end
                    /\ \A j \in 1 .. Len(tiles) :
                         tiles[j].start <= t /\ t < tiles[j].end => j = i
  <1> DEFINE planned == PlanChunks(content, chunk, seg)
             tiles == Tiling(content, chunk, seg)
  <1>1. /\ planned \in Seq(Tile) /\ EndToEnd(planned, content) /\ OnGrid(planned, ChunkGrid(seg))
        /\ Len(planned) <= ChunkCount(content, chunk)
    BY PlanEndToEnd
  <1>2. tiles = Coalesced(planned)
    BY DEF Tiling
  <1> HIDE DEF planned, tiles
  <1>3. /\ tiles \in Seq(Tile) /\ EndToEnd(tiles, content) /\ OnGrid(tiles, ChunkGrid(seg))
        /\ Len(tiles) <= Len(planned)
    BY <1>1, <1>2, CoalescedEndToEnd
  <1>4. Len(tiles) <= ChunkCount(content, chunk)
    <2>1. CeilDiv(content, chunk) \in Nat \ {0}
      BY Rounding
    <2>2. ChunkCount(content, chunk) \in Nat
      BY <2>1, MaxOfTwo DEF ChunkCount
    <2>3. Len(planned) \in Nat /\ Len(tiles) \in Nat
      BY <1>1, <1>3
    <2> QED BY <1>1, <1>3, <2>2, <2>3
  <1>5. ASSUME NEW t \in 0 .. content - 1
        PROVE  \E i \in 1 .. Len(tiles) :
                 /\ tiles[i].start <= t /\ t < tiles[i].end
                 /\ \A j \in 1 .. Len(tiles) :
                      tiles[j].start <= t /\ t < tiles[j].end => j = i
    <2>1. t \in Nat /\ t < content
      OBVIOUS
    <2> QED BY <1>3, <2>1, InOneChunk
  <1> QED BY <1>3, <1>4, <1>5 DEF tiles

-----------------------------------------------------------------------------
(* Sets of numbers as lists, and what a chunk shows of a clip.             *)

(* The sequence lists the set in order.                                    *)
Lists(a, S) ==
  /\ a \in [1 .. Cardinality(S) -> S]
  /\ \A i, j \in 1 .. Cardinality(S) : i < j => a[i] < a[j]
  /\ \A x \in S : \E i \in 1 .. Cardinality(S) : a[i] = x

(* How many are smaller tells the members of a set of numbers apart.       *)
Below(S, x) == {y \in S : y < x}

LEMMA FewerBelow ==
  ASSUME NEW S \in SUBSET Nat, IsFiniteSet(S), NEW x \in S, NEW z \in S, x < z
  PROVE  /\ Cardinality(Below(S, x)) \in Nat /\ Cardinality(Below(S, z)) \in Nat
         /\ Cardinality(Below(S, x)) < Cardinality(Below(S, z))
  <1>1. Below(S, z) \in SUBSET S /\ Below(S, x) \in SUBSET Below(S, z)
    <2>1. ASSUME NEW y \in S, y < x PROVE y < z
      <3>1. x \in Nat /\ y \in Nat /\ z \in Nat
        OBVIOUS
      <3> QED BY <2>1, <3>1
    <2> QED BY <2>1 DEF Below
  <1>2. IsFiniteSet(Below(S, z))
    BY <1>1, FS_Subset
  <1>3. IsFiniteSet(Below(S, x)) /\ Cardinality(Below(S, x)) <= Cardinality(Below(S, z))
        /\ (Cardinality(Below(S, z)) = Cardinality(Below(S, x)) => Below(S, z) = Below(S, x))
    BY <1>1, <1>2, FS_Subset
  <1>4. x \in Below(S, z) /\ x \notin Below(S, x)
    BY DEF Below
  <1> QED BY <1>2, <1>3, <1>4, FS_CardinalityType

(* That is how Ascending lists them.                                       *)
LEMMA AscendingLists ==
  ASSUME NEW S \in SUBSET Nat, IsFiniteSet(S)
  PROVE  Lists(Ascending(S), S)
  <1> DEFINE n == Cardinality(S)
             Place(x) == Cardinality(Below(S, x)) + 1
             f == [x \in S |-> Place(x)]
  <1>1. n \in Nat
    BY FS_CardinalityType
  <1>2. ASSUME NEW x \in S PROVE Place(x) \in 1 .. n
    <2>1. Below(S, x) \in SUBSET S /\ x \in S \ Below(S, x)
      BY DEF Below
    <2>2. IsFiniteSet(Below(S, x)) /\ Cardinality(Below(S, x)) <= n
          /\ (Cardinality(S) = Cardinality(Below(S, x)) => S = Below(S, x))
      BY <2>1, FS_Subset
    <2>3. Cardinality(Below(S, x)) \in Nat
      BY <2>2, FS_CardinalityType
    <2> QED BY <1>1, <2>1, <2>2, <2>3
  <1>3. ASSUME NEW x \in S, NEW z \in S, x < z PROVE Place(x) < Place(z)
    BY <1>3, FewerBelow
  <1> HIDE DEF Place
  <1>4. ASSUME NEW x \in S, NEW z \in S, Place(x) = Place(z) PROVE x = z
    <2>1. x \in Nat /\ z \in Nat /\ Place(x) \in Nat /\ Place(z) \in Nat
      BY <1>2
    <2> QED BY <1>3, <1>4, <2>1
  <1>5. f \in Injection(S, 1 .. n)
    BY <1>2, <1>4 DEF Injection, IsInjective
  <1>6. IsFiniteSet(1 .. n) /\ Cardinality(1 .. n) = n
    BY <1>1, FS_Interval
  <1>7. f \in Surjection(S, 1 .. n)
    BY <1>5, <1>6, FS_Injection
  <1>8. ASSUME NEW i \in 1 .. n PROVE \E x \in S : Place(x) = i
    BY <1>7 DEF Surjection
  <1> DEFINE a == Ascending(S)
  <1>9. a = [i \in 1 .. n |-> CHOOSE x \in S : Cardinality(Below(S, x)) = i - 1]
    BY DEF Ascending, Below
  <1>10. ASSUME NEW i \in 1 .. n PROVE a[i] \in S /\ Place(a[i]) = i
    <2>1. PICK x \in S : Place(x) = i
      BY <1>8
    <2>2. Cardinality(Below(S, x)) = i - 1
      <3>1. Below(S, x) \in SUBSET S
        BY DEF Below
      <3>2. Cardinality(Below(S, x)) \in Nat
        BY <3>1, FS_Subset, FS_CardinalityType
      <3> QED BY <2>1, <3>2 DEF Place
    <2>3. a[i] \in S /\ Cardinality(Below(S, a[i])) = i - 1
      BY <1>9, <2>2
    <2> QED BY <2>3 DEF Place
  <1> HIDE DEF a
  <1>11. a \in [1 .. n -> S]
    BY <1>9, <1>10
  <1>12. ASSUME NEW i \in 1 .. n, NEW j \in 1 .. n, i < j PROVE a[i] < a[j]
    <2>1. a[i] \in S /\ a[j] \in S /\ a[i] \in Nat /\ a[j] \in Nat
      BY <1>10
    <2>2. Place(a[i]) = i /\ Place(a[j]) = j
      BY <1>10
    <2>3. a[j] < a[i] => Place(a[j]) < Place(a[i])
      BY <1>3, <2>1
    <2> QED BY <1>12, <2>1, <2>2, <2>3
  <1>13. ASSUME NEW x \in S PROVE \E i \in 1 .. n : a[i] = x
    <2>1. Place(x) \in 1 .. n
      BY <1>2
    <2>2. a[Place(x)] \in S /\ Place(a[Place(x)]) = Place(x)
      BY <1>10, <2>1
    <2> QED BY <1>4, <2>1, <2>2
  <1> QED BY <1>11, <1>12, <1>13 DEF Lists, a

(* A downward closed part of the set is a prefix of its list.              *)
LEMMA PartIsPrefix ==
  ASSUME NEW S \in SUBSET Nat, IsFiniteSet(S), NEW a, Lists(a, S),
         NEW D \in SUBSET S, \A x \in D : \A y \in S : y < x => y \in D
  PROVE  /\ IsFiniteSet(D) /\ Cardinality(D) \in 0 .. Cardinality(S)
         /\ \A i \in 1 .. Cardinality(S) : a[i] \in D <=> i <= Cardinality(D)
  <1> DEFINE n == Cardinality(S)
             T == {i \in 1 .. n + 1 : i = n + 1 \/ a[i] \notin D}
  <1>1. n \in Nat
    BY FS_CardinalityType
  <1>2. PICK m \in T : \A k \in T : m <= k
    <2>1. n + 1 \in T /\ T \subseteq Nat
      BY <1>1
    <2> HIDE DEF T
    <2> QED BY <2>1, Least
  <1>3. m \in 1 .. n + 1 /\ m - 1 \in 0 .. n
    BY <1>1, <1>2
  <1>4. ASSUME NEW i \in 1 .. n PROVE a[i] \in D <=> i <= m - 1
    <2>1. CASE i < m
      BY <1>1, <1>2, <1>3, <2>1
    <2>2. CASE i = m
      BY <1>1, <1>2, <1>3, <2>2
    <2>3. CASE m < i
      <3>1. m \in 1 .. n /\ a[m] \notin D
        BY <1>1, <1>2, <1>3, <2>3
      <3>2. a[m] < a[i] /\ a[m] \in S
        BY <2>3, <3>1 DEF Lists
      <3>3. a[i] \notin D
        BY <3>1, <3>2
      <3> QED BY <1>3, <2>3, <3>3
    <2> QED BY <1>3, <2>1, <2>2, <2>3
  <1> DEFINE f == [i \in 1 .. m - 1 |-> a[i]]
  <1>5. ASSUME NEW i \in 1 .. m - 1 PROVE i \in 1 .. n /\ a[i] \in D
    <2>1. i \in 1 .. n /\ i <= m - 1
      BY <1>1, <1>3
    <2> QED BY <1>4, <2>1
  <1>6. ASSUME NEW i \in 1 .. m - 1, NEW j \in 1 .. m - 1, a[i] = a[j] PROVE i = j
    <2>1. i \in 1 .. n /\ j \in 1 .. n /\ a[i] \in Nat /\ a[j] \in Nat
      BY <1>5 DEF Lists
    <2>2. (i < j => a[i] < a[j]) /\ (j < i => a[j] < a[i])
      BY <2>1 DEF Lists
    <2> QED BY <1>6, <2>1, <2>2
  <1>7. ASSUME NEW x \in D PROVE \E i \in 1 .. m - 1 : a[i] = x
    <2>1. PICK i \in 1 .. n : a[i] = x
      BY DEF Lists
    <2>2. i <= m - 1
      BY <1>4, <2>1
    <2> QED BY <1>3, <2>1, <2>2
  <1>8. f \in Bijection(1 .. m - 1, D)
    <2>1. f \in [1 .. m - 1 -> D]
      BY <1>5
    <2>2. \A i, j \in 1 .. m - 1 : f[i] = f[j] => i = j
      BY <1>6
    <2>3. \A x \in D : \E i \in 1 .. m - 1 : f[i] = x
      BY <1>7
    <2> QED BY <2>1, <2>2, <2>3 DEF Bijection, Injection, Surjection, IsInjective
  <1>9. IsFiniteSet(1 .. m - 1) /\ Cardinality(1 .. m - 1) = m - 1
    BY <1>1, <1>3, FS_Interval
  <1>10. IsFiniteSet(D) /\ Cardinality(D) = m - 1
    BY <1>8, <1>9, FS_Bijection DEF ExistsBijection
  <1> QED BY <1>3, <1>4, <1>10

(* There is one such list of a set.                                        *)
LEMMA OneList ==
  ASSUME NEW S \in SUBSET Nat, IsFiniteSet(S), NEW a, Lists(a, S), NEW b, Lists(b, S)
  PROVE  a = b
  <1> DEFINE n == Cardinality(S)
  <1>1. n \in Nat
    BY FS_CardinalityType
  <1>2. ASSUME NEW c, Lists(c, S), NEW i \in 1 .. n
        PROVE  c[i] \in S /\ Cardinality(Below(S, c[i])) = i - 1
    <2> DEFINE D == Below(S, c[i])
    <2>1. c[i] \in S /\ S \subseteq Nat
      BY <1>2 DEF Lists
    <2>2. D \in SUBSET S /\ \A x \in D : \A y \in S : y < x => y \in D
      <3>1. ASSUME NEW x \in S, x < c[i], NEW y \in S, y < x PROVE y < c[i]
        <4>1. x \in Nat /\ y \in Nat /\ c[i] \in Nat
          BY <2>1
        <4> QED BY <3>1, <4>1
      <3> QED BY <3>1 DEF Below
    <2>3. ASSUME NEW j \in 1 .. n PROVE c[j] \in D <=> j < i
      <3>1. c[j] \in S /\ (j < i => c[j] < c[i]) /\ (i < j => c[i] < c[j])
        BY <1>2 DEF Lists
      <3>2. c[i] \in Nat /\ c[j] \in Nat
        BY <2>1, <3>1
      <3>3. c[j] < c[i] <=> j < i
        <4>1. i \in Nat /\ j \in Nat
          OBVIOUS
        <4> QED BY <3>1, <3>2, <4>1
      <3> QED BY <3>1, <3>3 DEF Below
    <2> HIDE DEF D
    <2>4. Cardinality(D) \in 0 .. n /\ \A j \in 1 .. n : c[j] \in D <=> j <= Cardinality(D)
      BY <1>2, <2>2, PartIsPrefix
    <2>5. \A j \in 1 .. n : j < i <=> j <= Cardinality(D)
      BY <2>3, <2>4
    <2>6. ~(i <= Cardinality(D)) /\ (i > 1 => i - 1 <= Cardinality(D))
      <3>1. i > 1 => i - 1 \in 1 .. n
        BY <1>1
      <3> QED BY <1>1, <2>5, <3>1
    <2>7. Cardinality(D) = i - 1
      BY <1>1, <2>4, <2>6
    <2> QED BY <2>1, <2>7 DEF D
  <1>3. ASSUME NEW i \in 1 .. n PROVE a[i] = b[i]
    <2>1. a[i] \in S /\ b[i] \in S /\ a[i] \in Nat /\ b[i] \in Nat
      BY <1>2
    <2>2. Cardinality(Below(S, a[i])) = i - 1 /\ Cardinality(Below(S, b[i])) = i - 1
      BY <1>2
    <2>3. ~(a[i] < b[i]) /\ ~(b[i] < a[i])
      BY <1>1, <2>1, <2>2, FewerBelow
    <2> QED BY <2>1, <2>3
  <1>4. a \in [1 .. n -> S] /\ b \in [1 .. n -> S]
    BY DEF Lists
  <1>5. a = [i \in 1 .. n |-> a[i]] /\ b = [i \in 1 .. n |-> b[i]]
    BY <1>4
  <1>6. [i \in 1 .. n |-> a[i]] = [i \in 1 .. n |-> b[i]]
    BY <1>3
  <1> QED BY <1>5, <1>6

(* The list of the rest is the rest of the list.                           *)
LEMMA ListOfRest ==
  ASSUME NEW S \in SUBSET Nat, IsFiniteSet(S),
         NEW D \in SUBSET S, \A x \in D : \A y \in S : y < x => y \in D
  PROVE  /\ Cardinality(D) \in 0 .. Cardinality(S)
         /\ Ascending(S \ D) = [i \in 1 .. Cardinality(S) - Cardinality(D) |->
                                  Ascending(S)[Cardinality(D) + i]]
  <1> DEFINE n == Cardinality(S)
             d == Cardinality(D)
             a == Ascending(S)
             b == [i \in 1 .. n - d |-> a[d + i]]
  <1>1. Lists(a, S) /\ n \in Nat
    BY AscendingLists, FS_CardinalityType
  <1> HIDE DEF a
  <1>2. IsFiniteSet(D) /\ d \in 0 .. n /\ \A i \in 1 .. n : a[i] \in D <=> i <= d
    BY <1>1, PartIsPrefix
  <1>3. S \ D \in SUBSET Nat /\ IsFiniteSet(S \ D) /\ Cardinality(S \ D) = n - d
    <2>1. S \ D \in SUBSET S
      OBVIOUS
    <2>2. IsFiniteSet(S \ D)
      BY <2>1, FS_Subset
    <2>3. (S \ D) \cup D = S /\ (S \ D) \cap D = {}
      OBVIOUS
    <2>4. n = Cardinality(S \ D) + d - Cardinality({})
      BY <1>2, <2>2, <2>3, FS_Union
    <2>5. Cardinality(S \ D) \in Nat
      BY <2>2, FS_CardinalityType
    <2> QED BY <1>1, <1>2, <2>2, <2>4, <2>5, FS_EmptySet
  <1> HIDE DEF n, d
  <1>4. ASSUME NEW i \in 1 .. n - d PROVE d + i \in 1 .. n /\ a[d + i] \in S \ D
    <2>1. d + i \in 1 .. n /\ ~(d + i <= d)
      BY <1>1, <1>2
    <2> QED BY <1>1, <1>2, <2>1 DEF Lists, n
  <1>5. b \in [1 .. n - d -> S \ D]
    BY <1>4
  <1>6. ASSUME NEW i \in 1 .. n - d, NEW j \in 1 .. n - d, i < j PROVE b[i] < b[j]
    <2>1. d + i \in 1 .. n /\ d + j \in 1 .. n /\ d + i < d + j
      BY <1>2, <1>4, <1>6
    <2>2. a[d + i] < a[d + j]
      BY <1>1, <2>1 DEF Lists, n
    <2> QED BY <2>2
  <1>7. ASSUME NEW x \in S \ D PROVE \E i \in 1 .. n - d : b[i] = x
    <2>1. PICK k \in 1 .. n : a[k] = x
      BY <1>1 DEF Lists, n
    <2>2. ~(k <= d)
      BY <1>2, <2>1
    <2>3. k - d \in 1 .. n - d /\ d + (k - d) = k
      BY <1>1, <1>2, <2>2
    <2>4. b[k - d] = x
      BY <2>1, <2>3
    <2> QED BY <2>3, <2>4
  <1> HIDE DEF b
  <1>8. Lists(b, S \ D)
    BY <1>3, <1>5, <1>6, <1>7 DEF Lists
  <1>9. Ascending(S \ D) = b
    BY <1>3, <1>8, AscendingLists, OneList
  <1> QED BY <1>2, <1>9 DEF n, d, a, b

(* What there is to see of a mezzanine and its padding, in order.          *)
Shown(mezz, pad) ==
  [i \in 1 .. Cardinality(mezz.slots) + CeilDiv(pad, Period) |->
     IF i <= Cardinality(mezz.slots) THEN <<mezz.clip, Ascending(mezz.slots)[i]>> ELSE Black]

Frames(mezz) == ({mezz.clip} \X Nat) \cup {Black}

(* The frames before a moment.                                             *)
Early(mezz, t) == {s \in mezz.slots : s * Period < t}

LEMMA ShownType ==
  ASSUME NEW mezz, mezz.slots \in SUBSET Nat, IsFiniteSet(mezz.slots), NEW pad \in Nat
  PROVE  /\ Cardinality(mezz.slots) \in Nat /\ CeilDiv(pad, Period) \in Nat
         /\ Shown(mezz, pad) \in Seq(Frames(mezz))
         /\ Len(Shown(mezz, pad)) = Cardinality(mezz.slots) + CeilDiv(pad, Period)
  <1> DEFINE n == Cardinality(mezz.slots)
             p == CeilDiv(pad, Period)
             a == Ascending(mezz.slots)
  <1>1. n \in Nat /\ p \in Nat
    BY FS_CardinalityType, RoundingUp, TicksAssumption
  <1>2. \A i \in 1 .. n : a[i] \in Nat
    <2>1. Lists(a, mezz.slots)
      BY AscendingLists
    <2>2. \A i \in 1 .. n : a[i] \in mezz.slots
      BY <2>1 DEF Lists
    <2> QED BY <2>2
  <1> HIDE DEF n, p, a
  <1>3. \A i \in 1 .. n + p : (IF i <= n THEN <<mezz.clip, a[i]>> ELSE Black) \in Frames(mezz)
    BY <1>1, <1>2 DEF Frames
  <1>4. Shown(mezz, pad) = [i \in 1 .. n + p |-> IF i <= n THEN <<mezz.clip, a[i]>> ELSE Black]
    BY DEF Shown, n, p, a
  <1> DEFINE m == n + p
             E == Frames(mezz)
             all == Shown(mezz, pad)
  <1>5. m \in Nat
    BY <1>1
  <1>6. all = [i \in 1 .. m |-> all[i]] /\ \A i \in 1 .. m : all[i] \in E
    BY <1>3, <1>4
  <1> HIDE DEF m, E, all
  <1>7. all \in Seq(E) /\ Len(all) = m
    BY <1>5, <1>6
  <1> QED BY <1>1, <1>7 DEF n, p, m, E, all

(* From a seek point on one sees the rest.                                 *)
LEMMA FilteredIsRest ==
  ASSUME NEW mezz, mezz.slots \in SUBSET Nat, IsFiniteSet(mezz.slots), NEW pad \in Nat, NEW t \in Nat
  PROVE  /\ Cardinality(Early(mezz, t)) \in 0 .. Cardinality(mezz.slots)
         /\ Filtered(mezz, t, pad)
              = SubSeq(Shown(mezz, pad), Cardinality(Early(mezz, t)) + 1, Len(Shown(mezz, pad)))
  <1> DEFINE n == Cardinality(mezz.slots)
             p == CeilDiv(pad, Period)
             a == Ascending(mezz.slots)
             k == Cardinality(Early(mezz, t))
             all == Shown(mezz, pad)
             E == Frames(mezz)
  <1>1. n \in Nat /\ p \in Nat /\ all \in Seq(E) /\ Len(all) = n + p
    BY ShownType
  <1>2. Early(mezz, t) \in SUBSET mezz.slots
        /\ \A x \in Early(mezz, t) : \A y \in mezz.slots : y < x => y \in Early(mezz, t)
    <2>1. ASSUME NEW x \in mezz.slots, x * Period < t, NEW y \in mezz.slots, y < x
          PROVE  y * Period < t
      <3>1. x \in Nat /\ y \in Nat /\ Period \in Nat \ {0}
        BY TicksAssumption
      <3>2. y * Period + Period <= x * Period /\ y * Period \in Nat /\ x * Period \in Nat
        BY <2>1, <3>1, Products
      <3> QED BY <2>1, <3>1, <3>2
    <2> QED BY <2>1 DEF Early
  <1>3. k \in 0 .. n /\ Ascending(mezz.slots \ Early(mezz, t)) = [i \in 1 .. n - k |-> a[k + i]]
    BY <1>2, ListOfRest
  <1>4. {s \in mezz.slots : s * Period >= t} = mezz.slots \ Early(mezz, t)
    <2>1. ASSUME NEW s \in mezz.slots PROVE s * Period >= t <=> ~(s * Period < t)
      <3>1. s \in Nat /\ Period \in Nat
        BY TicksAssumption
      <3>2. s * Period \in Nat
        BY <3>1
      <3> QED BY <3>2
    <2> QED BY <2>1 DEF Early
  <1> HIDE DEF k
  <1>5. Decoded(mezz, t) = [i \in 1 .. n - k |-> <<mezz.clip, a[k + i]>>]
    <2> DEFINE shown == Ascending({s \in mezz.slots : s * Period >= t})
    <2>1. shown = [i \in 1 .. n - k |-> a[k + i]]
      BY <1>3, <1>4
    <2>2. Decoded(mezz, t) = [i \in DOMAIN shown |-> <<mezz.clip, shown[i]>>]
      BY DEF Decoded
    <2> HIDE DEF shown, a, n
    <2> QED BY <2>1, <2>2
  <1>6. \A i \in 1 .. n + p : all[i] = IF i <= n THEN <<mezz.clip, a[i]>> ELSE Black
    BY DEF Shown
  <1> DEFINE dec == Decoded(mezz, t)
             blacks == [i \in 1 .. p |-> Black]
             rest == SubSeq(all, k + 1, n + p)
  <1>7. \A i \in 1 .. n + p : all[i] \in E
    BY <1>1
  <1> HIDE DEF n, p, all, E, a
  <1>8. dec \in Seq(E) /\ Len(dec) = n - k /\ \A i \in 1 .. n - k : dec[i] = all[k + i]
    <2>1. ASSUME NEW i \in 1 .. n - k PROVE k + i \in 1 .. n + p /\ k + i <= n
      BY <1>1, <1>3
    <2>2. ASSUME NEW i \in 1 .. n - k PROVE <<mezz.clip, a[k + i]>> = all[k + i] /\ all[k + i] \in E
      BY <1>6, <1>7, <2>1
    <2>3. n - k \in Nat
      BY <1>1, <1>3
    <2> DEFINE m == n - k
    <2>4. dec = [i \in 1 .. m |-> dec[i]] /\ \A i \in 1 .. m : dec[i] = all[k + i] /\ dec[i] \in E
      BY <1>5, <2>2
    <2> HIDE DEF m, dec
    <2>5. dec \in Seq(E) /\ Len(dec) = m
      BY <2>3, <2>4 DEF m
    <2> QED BY <2>4, <2>5 DEF m
  <1>9. blacks \in Seq(E) /\ Len(blacks) = p /\ \A i \in 1 .. p : blacks[i] = Black
    <2>1. Black \in E
      BY DEF E, Frames
    <2> QED BY <1>1, <2>1
  <1> HIDE DEF dec, blacks
  <1>10. /\ dec \o blacks \in Seq(E) /\ Len(dec \o blacks) = (n - k) + p
         /\ \A i \in 1 .. (n - k) + p : (dec \o blacks)[i] = IF i <= n - k THEN dec[i] ELSE blacks[i - (n - k)]
    <2>1. /\ dec \o blacks \in Seq(E) /\ Len(dec \o blacks) = Len(dec) + Len(blacks)
          /\ \A i \in 1 .. Len(dec) + Len(blacks) :
               (dec \o blacks)[i] = IF i <= Len(dec) THEN dec[i] ELSE blacks[i - Len(dec)]
      BY <1>8, <1>9, ConcatProperties
    <2> QED BY <1>8, <1>9, <2>1
  <1>11. /\ rest \in Seq(E) /\ Len(rest) = (n - k) + p
         /\ \A i \in 1 .. (n - k) + p : rest[i] = all[k + i]
    <2>1. k + 1 \in Int /\ n + p \in Int /\ \A i \in k + 1 .. n + p : all[i] \in E
      BY <1>1, <1>3, <1>7
    <2>2. /\ rest \in Seq(E) /\ Len(rest) = IF k + 1 <= n + p THEN (n + p) - (k + 1) + 1 ELSE 0
          /\ \A i \in 1 .. (n + p) - (k + 1) + 1 : rest[i] = all[(k + 1) + i - 1]
      BY <2>1, SubSeqProperties
    <2> HIDE DEF rest
    <2>3. (n + p) - (k + 1) + 1 = (n - k) + p /\ (~(k + 1 <= n + p) => (n - k) + p = 0)
      BY <1>1, <1>3
    <2>4. \A i \in 1 .. (n - k) + p : (k + 1) + i - 1 = k + i
      BY <1>1, <1>3
    <2> QED BY <2>2, <2>3, <2>4
  <1> HIDE DEF rest
  <1>12. dec \o blacks = rest
    <2>1. ASSUME NEW i \in 1 .. (n - k) + p PROVE (dec \o blacks)[i] = rest[i]
      <3>1. CASE i <= n - k
        BY <1>3, <1>1, <1>8, <1>10, <1>11, <3>1
      <3>2. CASE ~(i <= n - k)
        <4>1. i - (n - k) \in 1 .. p /\ k + i \in 1 .. n + p /\ ~(k + i <= n)
          BY <1>1, <1>3, <3>2
        <4> QED BY <1>6, <1>9, <1>10, <1>11, <3>2, <4>1
      <3> QED BY <3>1, <3>2
    <2> QED BY <1>10, <1>11, <2>1, SeqEqual
  <1>13. Filtered(mezz, t, pad) = dec \o blacks
    BY DEF Filtered, dec, blacks, p
  <1> QED BY <1>1, <1>3, <1>12, <1>13 DEF rest, n, k, all

(* Where the table cannot be read, no frame is missing, and no chunk but   *)
(* the last ends in the padding.                                           *)
Countable(mezz, pad, end, table) ==
  table \/ /\ mezz.slots = 0 .. Cardinality(mezz.slots) - 1
           /\ pad = 0 \/ CeilDiv(end, Period) <= Cardinality(mezz.slots)

Share(mezz, start, end, table) ==
  FramesBefore(end, mezz, table) - FramesBefore(start, mezz, table)

(* A chunk's share of frames, as far as there are frames.                  *)
LEMMA ShareIsExact ==
  ASSUME NEW mezz, mezz.slots \in SUBSET Nat, IsFiniteSet(mezz.slots), NEW pad \in Nat,
         NEW start \in Nat, NEW end \in Nat, start < end,
         NEW table \in BOOLEAN, Countable(mezz, pad, end, table)
  PROVE  /\ Cardinality(Early(mezz, start)) \in 0 .. Cardinality(Early(mezz, end))
         /\ Cardinality(Early(mezz, end)) \in 0 .. Cardinality(mezz.slots)
         /\ Share(mezz, start, end, table) \in Int
         /\ LET left == Len(Shown(mezz, pad)) - Cardinality(Early(mezz, start))
            IN  (IF Share(mezz, start, end, table) <= left THEN Share(mezz, start, end, table)
                 ELSE left) = Cardinality(Early(mezz, end)) - Cardinality(Early(mezz, start))
  <1> DEFINE n == Cardinality(mezz.slots)
             p == CeilDiv(pad, Period)
             from == Cardinality(Early(mezz, start))
             upto == Cardinality(Early(mezz, end))
             share == Share(mezz, start, end, table)
             left == Len(Shown(mezz, pad)) - from
  <1>1. n \in Nat /\ p \in Nat /\ Len(Shown(mezz, pad)) = n + p
    BY ShownType
  <1>2. from \in 0 .. n /\ upto \in 0 .. n
    BY FilteredIsRest
  <1>3. Early(mezz, start) \in SUBSET Early(mezz, end)
    <2>1. ASSUME NEW s \in mezz.slots, s * Period < start PROVE s * Period < end
      <3>1. s \in Nat /\ Period \in Nat
        BY TicksAssumption
      <3>2. s * Period \in Nat
        BY <3>1
      <3> QED BY <2>1, <3>2
    <2> QED BY <2>1 DEF Early
  <1>4. from <= upto
    <2>1. Early(mezz, end) \in SUBSET mezz.slots
      BY DEF Early
    <2>2. IsFiniteSet(Early(mezz, end))
      BY <2>1, FS_Subset
    <2> QED BY <1>3, <2>2, FS_Subset
  <1>5. CASE table
    <2>1. FramesBefore(end, mezz, table) = upto /\ FramesBefore(start, mezz, table) = from
      BY <1>5 DEF FramesBefore, Early
    <2> HIDE DEF from, upto
    <2>2. share = upto - from /\ left = (n + p) - from
      BY <1>1, <2>1 DEF Share
    <2> HIDE DEF share, left, n, p
    <2>3. share <= left /\ share \in Int
      BY <1>1, <1>2, <2>2
    <2> QED BY <1>2, <1>4, <2>2, <2>3 DEF share, left, n, from, upto
  <1>6. CASE ~table
    <2> DEFINE c(t) == CeilDiv(t, Period)
               Least2(a, b) == IF a <= b THEN a ELSE b
    <2>1. mezz.slots = 0 .. n - 1 /\ (pad = 0 \/ c(end) <= n)
      BY <1>6 DEF Countable
    <2>2. ASSUME NEW t \in Nat
          PROVE  c(t) \in Nat /\ Cardinality(Early(mezz, t)) = Least2(c(t), n)
      <3>1. c(t) \in Nat /\ \A s \in Nat : s * Period < t <=> s < c(t)
        BY TicksAssumption, RoundingUp
      <3> DEFINE m == Least2(c(t), n)
      <3> HIDE DEF c, n
      <3>2. m \in Nat
        BY <1>1, <3>1
      <3>3. Early(mezz, t) = {s \in 0 .. n - 1 : s < c(t)}
        <4>1. \A s \in 0 .. n - 1 : s \in Nat
          BY <1>1
        <4> QED BY <2>1, <3>1, <4>1 DEF Early
      <3>4. {s \in 0 .. n - 1 : s < c(t)} = 0 .. m - 1
        BY <1>1, <3>1
      <3>5. Cardinality(0 .. m - 1) = m
        <4> HIDE DEF m
        <4>1. 0 \in Int /\ m - 1 \in Int
          BY <3>2
        <4> QED BY <3>2, <4>1, FS_Interval
      <3> QED BY <3>1, <3>3, <3>4, <3>5
    <2>3. /\ c(end) \in Nat /\ upto = Least2(c(end), n)
          /\ c(start) \in Nat /\ from = Least2(c(start), n)
      BY <2>2
    <2>4. c(start) <= c(end)
      <3>1. \A s \in Nat : s * Period < start <=> s < c(start)
        BY TicksAssumption, RoundingUp
      <3>2. \A s \in Nat : s * Period < end <=> s < c(end)
        BY TicksAssumption, RoundingUp
      <3> HIDE DEF c
      <3>3. CASE c(end) < c(start)
        <4>1. c(end) \in Nat /\ c(end) * Period \in Nat
          BY <2>3, TicksAssumption
        <4>2. c(end) * Period < start /\ ~(c(end) * Period < end)
          BY <2>3, <3>1, <3>2, <3>3
        <4> QED BY <4>1, <4>2
      <3> QED BY <2>3, <3>3
    <2>5. pad = 0 => p = 0
      BY TicksAssumption, RoundingUp
    <2>6. share = c(end) - c(start)
      BY <1>6 DEF FramesBefore, Share
    <2>7. left = (n + p) - from
      BY <1>1
    <2> HIDE DEF c, n, p, from, upto, share, left
    <2>8. share \in Int
      BY <2>3, <2>6
    <2>9. CASE c(end) <= n
      <3>1. upto = c(end) /\ from = c(start) /\ share <= left
        BY <1>1, <2>3, <2>4, <2>6, <2>7, <2>9
      <3> QED BY <1>2, <1>4, <2>6, <2>8, <3>1 DEF n, from, upto, share, left
    <2>10. CASE ~(c(end) <= n)
      <3>1. upto = n /\ p = 0
        BY <2>1, <2>3, <2>5, <2>10
      <3>2. left = n - from
        BY <1>1, <1>2, <2>7, <3>1
      <3>3. CASE c(start) <= n
        <4>1. from = c(start) /\ left < share
          BY <1>1, <2>3, <2>6, <2>10, <3>2, <3>3
        <4>2. ~(share <= left)
          BY <1>1, <1>2, <2>8, <3>2, <4>1
        <4> QED BY <1>2, <1>4, <2>8, <3>1, <3>2, <4>2 DEF n, from, upto, share, left
      <3>4. CASE ~(c(start) <= n)
        <4>1. from = n /\ left = 0 /\ share >= 0
          BY <1>1, <2>3, <2>4, <2>6, <3>2, <3>4
        <4> QED BY <1>1, <1>2, <1>4, <2>8, <3>1, <4>1 DEF n, from, upto, share, left
      <3> QED BY <3>3, <3>4
    <2> QED BY <2>9, <2>10
  <1> QED BY <1>5, <1>6

(* One chunk shows the frames from its start to its end, the last one also *)
(* what follows.                                                           *)
LEMMA ChunkIsPart ==
  ASSUME NEW mezz, mezz.slots \in SUBSET Nat, IsFiniteSet(mezz.slots), NEW pad \in Nat,
         NEW total \in Nat, NEW chunk \in Tile, chunk.start < chunk.end,
         NEW table \in BOOLEAN,
         chunk.end < total => Countable(mezz, pad, chunk.end, table)
  PROVE  EncodedChunk(mezz, chunk, total, pad, table)
           = SubSeq(Shown(mezz, pad), Cardinality(Early(mezz, chunk.start)) + 1,
                    IF chunk.end < total THEN Cardinality(Early(mezz, chunk.end))
                    ELSE Len(Shown(mezz, pad)))
  <1> DEFINE all == Shown(mezz, pad)
             from == Cardinality(Early(mezz, chunk.start))
             upto == Cardinality(Early(mezz, chunk.end))
             rest == SubSeq(all, from + 1, Len(all))
             share == Share(mezz, chunk.start, chunk.end, table)
             left == Len(all) - from
             E == Frames(mezz)
  <1>1. chunk.start \in Nat /\ chunk.end \in Nat
    BY DEF Tile
  <1>2. from \in 0 .. Cardinality(mezz.slots) /\ Filtered(mezz, chunk.start, pad) = rest
    BY <1>1, FilteredIsRest
  <1>3. all \in Seq(E) /\ Len(all) \in Nat /\ Cardinality(mezz.slots) \in Nat
        /\ Cardinality(mezz.slots) <= Len(all)
    <2>1. /\ all \in Seq(E) /\ Len(all) = Cardinality(mezz.slots) + CeilDiv(pad, Period)
          /\ Cardinality(mezz.slots) \in Nat /\ CeilDiv(pad, Period) \in Nat
      BY ShownType
    <2> QED BY <2>1
  <1>4. EncodedChunk(mezz, chunk, total, pad, table)
          = IF chunk.end < total THEN SubSeq(rest, 1, Min({share, Len(rest)})) ELSE rest
    BY <1>2 DEF EncodedChunk, Share
  <1>5. CASE ~(chunk.end < total)
    BY <1>4, <1>5
  <1>6. CASE chunk.end < total
    <2>1. /\ from \in 0 .. upto /\ upto \in 0 .. Cardinality(mezz.slots)
          /\ share \in Int /\ (IF share <= left THEN share ELSE left) = upto - from
      <3>1. Countable(mezz, pad, chunk.end, table)
        BY <1>6
      <3>2. from \in 0 .. upto
        BY <1>1, <3>1, ShareIsExact
      <3>3. upto \in 0 .. Cardinality(mezz.slots) 
        BY <1>1, <3>1, ShareIsExact
      <3>4. share \in Int
        BY <1>1, <3>1, ShareIsExact
      <3>5. (IF share <= left THEN share ELSE left) = upto - from
        BY <1>1, <3>1, ShareIsExact
      <3> QED BY <3>2, <3>3, <3>4, <3>5
    <2> HIDE DEF all, from, upto, share, E
    <2>2. from + 1 \in Int /\ \A i \in from + 1 .. Len(all) : all[i] \in E
      BY <1>2, <1>3
    <2>3. /\ rest \in Seq(E) /\ Len(rest) = IF from + 1 <= Len(all) THEN Len(all) - (from + 1) + 1 ELSE 0
          /\ \A i \in 1 .. Len(all) - (from + 1) + 1 : rest[i] = all[(from + 1) + i - 1]
      BY <1>3, <2>2, SubSeqProperties
    <2> HIDE DEF rest
    <2>4. Len(rest) = left /\ left \in Nat
      BY <1>2, <1>3, <2>1, <2>3
    <2>5. Min({share, Len(rest)}) = upto - from
      <3>1. Min({share, Len(rest)}) = IF share <= Len(rest) THEN share ELSE Len(rest)
        BY <2>1, <2>4, MinOfTwo
      <3> QED BY <2>1, <2>4, <3>1
    <2> DEFINE m == upto - from
    <2>6. m \in 0 .. left /\ from + m = upto /\ upto <= Len(all)
      BY <1>2, <1>3, <2>1
    <2> HIDE DEF m, left
    <2>7. /\ SubSeq(rest, 1, m) \in Seq(E) /\ Len(SubSeq(rest, 1, m)) = m
          /\ \A i \in 1 .. m : SubSeq(rest, 1, m)[i] = rest[i]
      <3>1. 1 \in Int /\ m \in Int /\ \A i \in 1 .. m : rest[i] \in E
        BY <2>3, <2>4, <2>6
      <3>2. /\ SubSeq(rest, 1, m) \in Seq(E)
            /\ Len(SubSeq(rest, 1, m)) = IF 1 <= m THEN m - 1 + 1 ELSE 0
            /\ \A i \in 1 .. m - 1 + 1 : SubSeq(rest, 1, m)[i] = rest[1 + i - 1]
        BY <3>1, SubSeqProperties
      <3>3. m - 1 + 1 = m /\ \A i \in 1 .. m : 1 + i - 1 = i
        BY <2>4, <2>6
      <3> QED BY <2>4, <2>6, <3>2, <3>3
    <2>8. /\ SubSeq(all, from + 1, upto) \in Seq(E) /\ Len(SubSeq(all, from + 1, upto)) = m
          /\ \A i \in 1 .. m : SubSeq(all, from + 1, upto)[i] = all[from + i]
      <3>1. from + 1 \in Int /\ upto \in Int /\ \A i \in from + 1 .. upto : all[i] \in E
        BY <1>2, <1>3, <2>1, <2>2, <2>6
      <3>2. /\ SubSeq(all, from + 1, upto) \in Seq(E)
            /\ Len(SubSeq(all, from + 1, upto)) = IF from + 1 <= upto THEN upto - (from + 1) + 1 ELSE 0
            /\ \A i \in 1 .. upto - (from + 1) + 1 : SubSeq(all, from + 1, upto)[i] = all[(from + 1) + i - 1]
        BY <3>1, SubSeqProperties
      <3>3. upto - (from + 1) + 1 = m /\ (~(from + 1 <= upto) => m = 0)
        BY <1>2, <1>3, <2>1, <2>4, <2>6
      <3>4. \A i \in 1 .. m : (from + 1) + i - 1 = from + i
        BY <1>2, <1>3, <2>4, <2>6
      <3> QED BY <3>2, <3>3, <3>4
    <2>9. ASSUME NEW i \in 1 .. m PROVE rest[i] = all[from + i]
      <3>1. i \in 1 .. Len(all) - (from + 1) + 1 /\ (from + 1) + i - 1 = from + i
        BY <1>2, <1>3, <2>1, <2>4, <2>6 DEF left
      <3> QED BY <2>3, <3>1
    <2>10. SubSeq(rest, 1, m) = SubSeq(all, from + 1, upto)
      <3>1. \A i \in 1 .. m : SubSeq(rest, 1, m)[i] = SubSeq(all, from + 1, upto)[i]
        BY <2>7, <2>8, <2>9
      <3> QED BY <2>7, <2>8, <3>1, SeqEqual
    <2> QED BY <1>4, <1>6, <2>5, <2>10 DEF m, all, from, upto
  <1> QED BY <1>5, <1>6

(* Parts cut one behind the other, joined, are the whole.                  *)
Cuts(cut, n, all) ==
  /\ cut \in [0 .. n -> 0 .. Len(all)] /\ cut[0] = 0 /\ cut[n] = Len(all)
  /\ \A i \in 1 .. n : cut[i - 1] <= cut[i]

Parts(cut, n, all) == [i \in 1 .. n |-> SubSeq(all, cut[i - 1] + 1, cut[i])]

LEMMA PartsJoined ==
  ASSUME NEW E, NEW all \in Seq(E), NEW n \in Nat \ {0}, NEW cut, Cuts(cut, n, all)
  PROVE  FlattenSeq(Parts(cut, n, all)) = all
  <1> DEFINE parts == Parts(cut, n, all)
  <1>0. /\ cut \in [0 .. n -> 0 .. Len(all)] /\ cut[0] = 0 /\ cut[n] = Len(all)
        /\ \A i \in 1 .. n : cut[i - 1] <= cut[i]
        /\ parts = [i \in 1 .. n |-> SubSeq(all, cut[i - 1] + 1, cut[i])]
    BY DEF Cuts, Parts
  <1> HIDE DEF parts
  <1> DEFINE Joins(g) == g = [i \in 1 .. n |-> IF i = 1 THEN parts[i] ELSE g[i - 1] \o parts[i]]
             w == [i \in 1 .. n |-> SubSeq(all, 1, cut[i])]
             h == CHOOSE g : Joins(g)
  <1>1. ASSUME NEW i \in 1 .. n PROVE i \in 0 .. n /\ i - 1 \in 0 .. n /\ cut[i] \in 0 .. Len(all)
                                      /\ cut[i - 1] \in 0 .. Len(all) /\ Len(all) \in Nat
    BY <1>0
  <1>2. ASSUME NEW i \in 1 .. n, i # 1
        PROVE  SubSeq(all, 1, cut[i - 1]) \o parts[i] = SubSeq(all, 1, cut[i])
    <2> DEFINE k == cut[i - 1]
               l == cut[i]
    <2>1. k \in 0 .. Len(all) /\ l \in k .. Len(all) /\ Len(all) \in Nat
      <3>1. k <= l
        BY <1>0
      <3>2. k \in 0 .. Len(all) /\ l \in 0 .. Len(all) /\ Len(all) \in Nat
        BY <1>1
      <3> HIDE DEF k, l
      <3> QED BY <3>1, <3>2
    <2>2. parts[i] = SubSeq(all, k + 1, l)
      BY <1>0
    <2> HIDE DEF k, l
    <2>3. 1 \in 1 .. Len(all) + 1 /\ k \in 1 - 1 .. Len(all)
      BY <2>1
    <2>4. SubSeq(all, 1, k) \o SubSeq(all, k + 1, l) = SubSeq(all, 1, l)
      BY <2>1, <2>3, ConcatAdjacentSubSeq
    <2> QED BY <2>2, <2>4 DEF k, l
  <1>3. parts[1] = SubSeq(all, 1, cut[1])
    <2>1. 1 \in 1 .. n /\ 1 - 1 = 0 /\ cut[0] + 1 = 1
      BY <1>0
    <2>2. parts[1] = SubSeq(all, cut[1 - 1] + 1, cut[1])
      BY <1>0, <2>1
    <2> QED BY <2>1, <2>2
  <1>4. Joins(w)
    <2>1. ASSUME NEW i \in 1 .. n
          PROVE  w[i] = IF i = 1 THEN parts[i] ELSE w[i - 1] \o parts[i]
      <3>1. CASE i = 1
        BY <1>3, <3>1
      <3>2. CASE i # 1
        <4>1. i - 1 \in 1 .. n
          BY <3>2
        <4>2. w[i - 1] = SubSeq(all, 1, cut[i - 1])
          BY <4>1
        <4> QED BY <1>2, <3>2, <4>2
      <3> QED BY <3>1, <3>2
    <2>2. w = [i \in 1 .. n |-> w[i]]
      OBVIOUS
    <2> HIDE DEF w
    <2>3. [i \in 1 .. n |-> w[i]] = [i \in 1 .. n |-> IF i = 1 THEN parts[i] ELSE w[i - 1] \o parts[i]]
      BY <2>1
    <2> QED BY <2>2, <2>3
  <1>5. Joins(h)
    <2> HIDE DEF Joins
    <2> QED BY <1>4
  <1>6. \A i \in 1 .. n : h[i] = IF i = 1 THEN parts[i] ELSE h[i - 1] \o parts[i]
    <2> HIDE DEF h
    <2> QED BY <1>5
  <1> HIDE DEF h, Joins
  <1> DEFINE T == {i \in 1 .. n : h[i] # SubSeq(all, 1, cut[i])}
  <1>7. T = {}
    <2>1. SUFFICES ASSUME T # {} PROVE FALSE
      OBVIOUS
    <2>2. PICK i \in T : \A m \in T : i <= m
      <3>1. T \subseteq Nat
        OBVIOUS
      <3> HIDE DEF T
      <3> QED BY <2>1, <3>1, Least
    <2>3. i \in 1 .. n /\ h[i] # SubSeq(all, 1, cut[i])
      BY <2>2
    <2>4. i # 1
      BY <1>3, <1>6, <2>3
    <2>5. i - 1 \in 1 .. n /\ ~(i <= i - 1)
      BY <2>3, <2>4
    <2>6. h[i - 1] = SubSeq(all, 1, cut[i - 1])
      BY <2>2, <2>5
    <2>7. h[i] = h[i - 1] \o parts[i]
      BY <1>6, <2>3, <2>4
    <2> QED BY <1>2, <2>3, <2>4, <2>6, <2>7
  <1>8. h[n] = all
    <2>1. n \in 1 .. n
      OBVIOUS
    <2>2. h[n] = SubSeq(all, 1, Len(all))
      BY <1>0, <1>7, <2>1
    <2> QED BY <2>2, SubSeqFull
  <1>9. Len(parts) = n
    BY <1>0
  <1>10. FlattenSeq(parts) = h[n]
    BY <1>9 DEF FlattenSeq, h, Joins
  <1> QED BY <1>8, <1>10 DEF parts

(* What joining the chunks of a tiling gives, each encoded apart.          *)
JoinedChunks(mezz, tiles, total, pad, table) ==
  FlattenSeq([i \in 1 .. Len(tiles) |-> EncodedChunk(mezz, tiles[i], total, pad, table)])

(* The encode runs to the end of the tiling; or past it, where all the     *)
(* frames and no padding come before that end.                             *)
Attained(mezz, content, total, pad) ==
  \/ total = content
  \/ content < total /\ pad = 0 /\ \A s \in mezz.slots : s * Period < content

AllCountable(mezz, tiles, total, pad, table) ==
  \A i \in 1 .. Len(tiles) :
    tiles[i].end < total => Countable(mezz, pad, tiles[i].end, table)

(* Chunks that lie end to end, encoded apart and joined, show everything.  *)
LEMMA ChunksJoined ==
  ASSUME NEW mezz, mezz.slots \in SUBSET Nat, IsFiniteSet(mezz.slots), NEW pad \in Nat,
         NEW content \in Nat, NEW total \in Nat, Attained(mezz, content, total, pad),
         NEW tiles \in Seq(Tile), EndToEnd(tiles, content),
         NEW table \in BOOLEAN, AllCountable(mezz, tiles, total, pad, table)
  PROVE  JoinedChunks(mezz, tiles, total, pad, table) = WholeVariant(mezz, pad)
  <1> DEFINE n == Len(tiles)
             all == Shown(mezz, pad)
             E == Frames(mezz)
             Upto(t) == Cardinality(Early(mezz, t))
             cut == [i \in 0 .. n |-> IF i = 0 THEN 0
                                      ELSE IF i < n THEN Upto(tiles[i].end) ELSE Len(all)]
             parts == [i \in 1 .. n |-> EncodedChunk(mezz, tiles[i], total, pad, table)]
  <1>1. n \in Nat \ {0}
    BY DEF EndToEnd
  <1>2. all \in Seq(E) /\ Len(all) \in Nat /\ Cardinality(mezz.slots) \in 0 .. Len(all)
    <2>1. /\ all \in Seq(E) /\ Len(all) = Cardinality(mezz.slots) + CeilDiv(pad, Period)
          /\ Cardinality(mezz.slots) \in Nat /\ CeilDiv(pad, Period) \in Nat
      BY ShownType
    <2> QED BY <2>1
  <1>3. ASSUME NEW t \in Nat PROVE Upto(t) \in 0 .. Cardinality(mezz.slots)
    BY FilteredIsRest
  <1>4. Early(mezz, 0) = {} /\ Upto(0) = 0
    <2>1. \A s \in mezz.slots : ~(s * Period < 0)
      <3>1. ASSUME NEW s \in mezz.slots PROVE ~(s * Period < 0)
        <4>1. s \in Nat /\ Period \in Nat
          BY TicksAssumption
        <4>2. s * Period \in Nat
          BY <4>1
        <4> QED BY <4>2
      <3> QED BY <3>1
    <2>2. Early(mezz, 0) = {}
      BY <2>1 DEF Early
    <2> QED BY <2>2, FS_EmptySet
  <1>5. WholeVariant(mezz, pad) = all
    <2>1. 0 \in Nat
      OBVIOUS
    <2>2. Filtered(mezz, 0, pad) = SubSeq(all, Upto(0) + 1, Len(all))
      BY <2>1, FilteredIsRest
    <2>3. SubSeq(all, 1, Len(all)) = all
      BY <1>2, SubSeqFull
    <2>4. WholeVariant(mezz, pad) = Filtered(mezz, 0, pad)
      BY DEF WholeVariant
    <2> HIDE DEF all, Upto
    <2>5. Upto(0) + 1 = 1
      BY <1>4
    <2> QED BY <2>2, <2>3, <2>4, <2>5
  <1>6. ASSUME NEW i \in 1 .. n
        PROVE  /\ tiles[i].start \in Nat /\ tiles[i].end \in Nat /\ tiles[i].start < tiles[i].end
               /\ tiles[i] \in Tile
               /\ i < n => tiles[i].end < content
    <2>1. tiles[i].start \in Nat /\ tiles[i].end \in Nat /\ tiles[i].start < tiles[i].end
      BY DEF EndToEnd
    <2>2. ASSUME i < n PROVE tiles[i].end < content
      <3>1. n \in 1 .. n
        BY <1>1
      <3>2. tiles[n].start < tiles[n].end /\ tiles[n].end = content /\ tiles[n].start \in Nat
        BY <3>1 DEF EndToEnd
      <3>3. tiles[i].end <= tiles[n].start
        BY <2>2, <3>1, StartsInOrder
      <3> QED BY <2>1, <3>2, <3>3
    <2> QED BY <2>1, <2>2
  <1>7. ASSUME NEW i \in 1 .. n
        PROVE  /\ Upto(tiles[i].start) = cut[i - 1]
               /\ (IF tiles[i].end < total THEN Upto(tiles[i].end) ELSE Len(all)) = cut[i]
    <2>1. i \in 0 .. n /\ i - 1 \in 0 .. n /\ i # 0 /\ i - 1 < n
      BY <1>1
    <2>2. Upto(tiles[i].start) = cut[i - 1]
      <3>1. CASE i = 1
        <4>1. tiles[1].start = 0 /\ cut[0] = 0
          BY <1>1 DEF EndToEnd
        <4> HIDE DEF Upto, cut
        <4> QED BY <1>4, <3>1, <4>1
      <3>2. CASE i # 1
        <4>1. i - 1 \in 1 .. n /\ i - 1 < n /\ (i - 1) + 1 = i
          BY <1>1, <3>2
        <4>2. tiles[i - 1].end = tiles[i].start
          BY <4>1 DEF EndToEnd
        <4>3. cut[i - 1] = Upto(tiles[i - 1].end)
          BY <2>1, <4>1
        <4> HIDE DEF cut, Upto
        <4> QED BY <4>2, <4>3
      <3> QED BY <3>1, <3>2
    <2>3. CASE i < n
      <3>1. tiles[i].end < total
        BY <1>6, <2>3 DEF Attained
      <3>2. cut[i] = Upto(tiles[i].end)
        BY <2>1, <2>3
      <3> QED BY <2>2, <3>1, <3>2
    <2>4. CASE i = n
      <3>1. tiles[i].end = content /\ cut[i] = Len(all)
        BY <1>1, <2>1, <2>4 DEF EndToEnd
      <3>2. CASE total = content
        BY <2>2, <3>1, <3>2
      <3>3. CASE content < total /\ pad = 0 /\ \A s \in mezz.slots : s * Period < content
        <4>1. Early(mezz, content) = mezz.slots
          BY <3>3 DEF Early
        <4>2. Len(all) = Cardinality(mezz.slots)
          <5>1. CeilDiv(pad, Period) = 0
            BY <3>3, TicksAssumption, RoundingUp
          <5>2. /\ Len(all) = Cardinality(mezz.slots) + CeilDiv(pad, Period)
                /\ Cardinality(mezz.slots) \in Nat
            BY ShownType
          <5> QED BY <5>1, <5>2
        <4> QED BY <2>2, <3>1, <3>3, <4>1, <4>2
      <3> QED BY <3>2, <3>3 DEF Attained
    <2> QED BY <2>1, <2>3, <2>4
  <1>8. ASSUME NEW i \in 1 .. n PROVE parts[i] = SubSeq(all, cut[i - 1] + 1, cut[i])
    <2> DEFINE c == tiles[i]
    <2>1. c \in Tile /\ c.start < c.end /\ (c.end < total => Countable(mezz, pad, c.end, table))
      BY <1>6 DEF AllCountable
    <2>2. EncodedChunk(mezz, c, total, pad, table)
            = SubSeq(all, Upto(c.start) + 1, IF c.end < total THEN Upto(c.end) ELSE Len(all))
      <3> HIDE DEF c
      <3> QED BY <2>1, ChunkIsPart
    <2> HIDE DEF all, Upto, cut
    <2> QED BY <1>7, <2>2
  <1>9. cut \in [0 .. n -> 0 .. Len(all)] /\ cut[0] = 0 /\ cut[n] = Len(all)
    <2>1. ASSUME NEW i \in 0 .. n PROVE cut[i] \in 0 .. Len(all)
      <3>1. CASE i = 0
        BY <1>2, <3>1
      <3>2. CASE i = n
        BY <1>1, <1>2, <3>2
      <3>3. CASE i # 0 /\ i # n
        <4>1. i \in 1 .. n /\ i < n
          BY <1>1, <3>3
        <4>2. cut[i] = Upto(tiles[i].end) /\ tiles[i].end \in Nat
          BY <1>6, <4>1
        <4> HIDE DEF cut
        <4>3. Upto(tiles[i].end) \in 0 .. Cardinality(mezz.slots)
          BY <1>3, <4>2
        <4> HIDE DEF Upto, all
        <4> QED BY <1>2, <4>2, <4>3
      <3> QED BY <3>1, <3>2, <3>3
    <2>2. 0 \in 0 .. n /\ n \in 0 .. n /\ n # 0
      BY <1>1
    <2>3. cut[0] = 0 /\ cut[n] = Len(all)
      BY <2>2
    <2>4. cut = [i \in 0 .. n |-> cut[i]]
      OBVIOUS
    <2> HIDE DEF cut
    <2> QED BY <2>1, <2>3, <2>4
  <1>10. ASSUME NEW i \in 1 .. n PROVE cut[i - 1] <= cut[i]
    <2> DEFINE s == tiles[i].start
               e == tiles[i].end
    <2>1. cut[i - 1] = Upto(s) /\ cut[i] = IF e < total THEN Upto(e) ELSE Len(all)
      BY <1>7
    <2>2. s \in Nat /\ e \in Nat /\ s < e
      BY <1>6
    <2> HIDE DEF cut, s, e, Upto
    <2>3. Upto(s) \in 0 .. Len(all) /\ Upto(e) \in 0 .. Len(all)
      <3>1. Upto(s) \in 0 .. Cardinality(mezz.slots) /\ Upto(e) \in 0 .. Cardinality(mezz.slots)
        BY <1>3, <2>2
      <3> HIDE DEF all
      <3> QED BY <1>2, <3>1
    <2>4. Upto(s) <= Upto(e)
      <3>1. Early(mezz, e) \in SUBSET mezz.slots
        BY DEF Early
      <3>2. IsFiniteSet(Early(mezz, e))
        BY <3>1, FS_Subset
      <3>3. Early(mezz, s) \in SUBSET Early(mezz, e)
        <4>1. ASSUME NEW x \in mezz.slots, x * Period < s PROVE x * Period < e
          <5>1. x \in Nat /\ Period \in Nat
            BY TicksAssumption
          <5>2. x * Period \in Nat
            BY <5>1
          <5> QED BY <2>2, <4>1, <5>2
        <4> QED BY <4>1 DEF Early
      <3> QED BY <3>2, <3>3, FS_Subset DEF Upto
    <2> QED BY <1>2, <2>1, <2>3, <2>4
  <1>11. parts = Parts(cut, n, all)
    <2>1. parts = [i \in 1 .. n |-> parts[i]]
      OBVIOUS
    <2> HIDE DEF parts, cut, all
    <2> QED BY <1>8, <2>1 DEF Parts
  <1> HIDE DEF parts, cut, all, n, E
  <1>12. Cuts(cut, n, all)
    BY <1>9, <1>10 DEF Cuts
  <1>13. FlattenSeq(Parts(cut, n, all)) = all
    BY <1>1, <1>2, <1>12, PartsJoined
  <1> QED BY <1>5, <1>11, <1>13 DEF parts, n, JoinedChunks

(* The alignment contract keeps the padding in the last chunk.             *)
LEMMA PaddingIsLast ==
  ASSUME NEW duration \in Nat, NEW boundary \in Nat \ {0}, NEW grid \in Nat \ {0},
         grid % boundary = 0, PadTo(duration, boundary) > 0,
         NEW t \in Nat, t % grid = 0, t < duration + PadTo(duration, boundary)
  PROVE  t <= duration
  <1> DEFINE q == duration \div boundary
             over == duration % boundary
             y == grid \div boundary
             z == t \div grid
             x == y * z
  <1>1. q \in Nat /\ over \in 0 .. boundary - 1 /\ duration = boundary * q + over
    BY Division
  <1>2. y \in Nat /\ grid = boundary * y
    <2>1. y \in Nat /\ grid = boundary * y + (grid % boundary)
      BY Division
    <2>2. boundary * y \in Nat
      BY <2>1
    <2> QED BY <2>1, <2>2
  <1>3. z \in Nat /\ t = grid * z
    <2>1. z \in Nat /\ t = grid * z + (t % grid)
      BY Division
    <2>2. grid * z \in Nat
      BY <2>1
    <2> QED BY <2>1, <2>2
  <1>4. duration + PadTo(duration, boundary) = boundary * q + boundary
    <2>1. PadTo(duration, boundary) = boundary - over
      BY DEF PadTo
    <2> HIDE DEF q, over
    <2>2. boundary * q \in Nat
      BY <1>1
    <2> QED BY <1>1, <2>1, <2>2
  <1> HIDE DEF q, over, y, z
  <1>5. x \in Nat /\ t = x * boundary
    <2>1. y * z \in Nat /\ (boundary * y) * z = (y * z) * boundary
      BY <1>2, <1>3
    <2> QED BY <1>2, <1>3, <2>1
  <1> HIDE DEF x
  <1>6. CASE q < x
    <2>1. q * boundary + boundary <= x * boundary /\ q * boundary = boundary * q
      BY <1>1, <1>5, <1>6, Products
    <2> QED BY <1>1, <1>4, <1>5, <2>1
  <1>7. CASE q = x
    <2>1. q * boundary = boundary * q
      BY <1>1
    <2> QED BY <1>1, <1>5, <1>7, <2>1
  <1>8. CASE x < q
    <2>1. x * boundary + boundary <= q * boundary /\ q * boundary = boundary * q
      BY <1>1, <1>5, <1>8, Products
    <2>2. boundary * q \in Nat /\ x * boundary \in Nat
      BY <1>1, <1>5
    <2> QED BY <1>1, <1>5, <2>1, <2>2
  <1> QED BY <1>1, <1>5, <1>6, <1>7, <1>8

(***************************************************************************)
(* A variant that is cut (plan_chunks, coalesce_short_tail), encoded by    *)
(* chunks (_encode_one) and joined (concat) shows what one encode would:   *)
(* every frame of the mezzanine once and in order, then the padding.  It   *)
(* holds wherever the clip is cut and whatever frames it misses, if the    *)
(* shares are counted in the table of time stamps; computed, if it misses  *)
(* none.  The tiling is of all that is encoded, or, without padding, of a  *)
(* limit that all the frames come before; and the padding is to a boundary *)
(* that the grid respects, which is the contract at the head of chunking.py*)
(***************************************************************************)
THEOREM JoinedIsWhole ==
  ASSUME NEW content \in Nat \ {0}, NEW chunk \in Nat \ {0}, NEW seg \in Nat \ {0},
         NEW mezz, mezz.slots \in SUBSET Nat, IsFiniteSet(mezz.slots), mezz.duration \in Nat,
         NEW boundary \in Nat \ {0},
         NEW pad \in {0, PadTo(mezz.duration, boundary)}, NEW total \in Nat,
         Attained(mezz, content, total, pad),
         pad # 0 => total = mezz.duration + pad /\ ChunkGrid(seg) % boundary = 0,
         NEW table \in BOOLEAN,
         table \/ /\ mezz.slots = 0 .. Cardinality(mezz.slots) - 1
                  /\ mezz.duration <= Cardinality(mezz.slots) * Period
  PROVE  JoinedChunks(mezz, Tiling(content, chunk, seg), total, pad, table) = WholeVariant(mezz, pad)
  <1> DEFINE tiles == Tiling(content, chunk, seg)
             n == Cardinality(mezz.slots)
             grid == ChunkGrid(seg)
  <1>1. tiles \in Seq(Tile) /\ EndToEnd(tiles, content) /\ OnGrid(tiles, grid)
    BY PlanEndToEnd, CoalescedEndToEnd DEF Tiling
  <1>2. grid \in Nat \ {0} /\ n \in Nat
    BY GridIsPositive, FS_CardinalityType
  <1>3. pad \in Nat
    <2>1. mezz.duration % boundary \in 0 .. boundary - 1
      BY Division
    <2> QED BY <2>1, TicksAssumption DEF PadTo
  <1> HIDE DEF tiles, grid
  <1>4. ASSUME NEW i \in 1 .. Len(tiles), tiles[i].end < total
        PROVE  Countable(mezz, pad, tiles[i].end, table)
    <2> DEFINE e == tiles[i].end
    <2>1. CASE table
      BY <2>1 DEF Countable
    <2>2. CASE pad = 0 /\ ~table
      BY <2>2 DEF Countable
    <2>3. CASE pad # 0 /\ ~table
      <3>1. total = content /\ content = mezz.duration + pad /\ pad = PadTo(mezz.duration, boundary)
        BY <2>3 DEF Attained
      <3>2. i + 1 \in 1 .. Len(tiles) /\ tiles[i + 1].start = e /\ e \in Nat
        <4>1. i # Len(tiles)
          BY <1>1, <1>4, <3>1 DEF EndToEnd
        <4>2. i < Len(tiles) /\ i + 1 \in 1 .. Len(tiles)
          BY <1>1, <4>1
        <4> QED BY <1>1, <4>2 DEF EndToEnd
      <3>3. e % grid = 0
        BY <1>1, <3>2 DEF OnGrid
      <3>4. PadTo(mezz.duration, boundary) > 0 /\ e < mezz.duration + PadTo(mezz.duration, boundary)
        BY <1>3, <1>4, <2>3, <3>1
      <3>5. grid % boundary = 0
        BY <2>3 DEF grid
      <3> HIDE DEF e
      <3>6. e <= mezz.duration
        BY <1>2, <3>2, <3>3, <3>4, <3>5, PaddingIsLast
      <3>7. mezz.slots = 0 .. n - 1 /\ mezz.duration <= n * Period
        BY <2>3
      <3> HIDE DEF n
      <3>8. CeilDiv(e, Period) \in Nat /\ (n * Period < e <=> n < CeilDiv(e, Period))
        BY <1>2, <3>2, TicksAssumption, RoundingUp
      <3>9. n * Period \in Nat
        BY <1>2, TicksAssumption
      <3>10. CeilDiv(e, Period) <= n
        BY <1>2, <3>2, <3>6, <3>7, <3>8, <3>9
      <3> QED BY <3>7, <3>10 DEF Countable, n, e
    <2> QED BY <2>1, <2>2, <2>3
  <1>5. AllCountable(mezz, tiles, total, pad, table)
    BY <1>4 DEF AllCountable
  <1>6. content \in Nat
    OBVIOUS
  <1>7. JoinedChunks(mezz, tiles, total, pad, table) = WholeVariant(mezz, pad)
    BY <1>1, <1>3, <1>5, <1>6, ChunksJoined
  <1> QED BY <1>7 DEF tiles

(* A set and a strict order of it.                                         *)
Ranks(before, S) ==
  /\ \A x \in S : <<x, x>> \notin before
  /\ \A x, y, z \in S : <<x, y>> \in before /\ <<y, z>> \in before => <<x, z>> \in before
  /\ \A x, y \in S : x = y \/ <<x, y>> \in before \/ <<y, x>> \in before

(* Each member of a set once.                                              *)
OnceEach(a, S) ==
  /\ a \in [1 .. Cardinality(S) -> S]
  /\ \A i, j \in 1 .. Cardinality(S) : a[i] = a[j] => i = j
  /\ \A x \in S : \E i \in 1 .. Cardinality(S) : a[i] = x

Ahead(S, before, x) == {y \in S : <<y, x>> \in before}

(* That is how Ordered lists a set, as long as it is one order.            *)
LEMMA OrderedLists ==
  ASSUME NEW S, IsFiniteSet(S), NEW before, Ranks(before, S)
  PROVE  OnceEach(Ordered(S, before), S) /\ Cardinality(S) \in Nat
  <1> DEFINE n == Cardinality(S)
             Place(x) == Cardinality(Ahead(S, before, x)) + 1
             f == [x \in S |-> Place(x)]
             a == Ordered(S, before)
  <1>1. n \in Nat
    BY FS_CardinalityType
  <1>2. ASSUME NEW x \in S
        PROVE  /\ IsFiniteSet(Ahead(S, before, x)) /\ Cardinality(Ahead(S, before, x)) \in Nat
               /\ Place(x) \in 1 .. n
    <2>1. Ahead(S, before, x) \in SUBSET S /\ x \in S \ Ahead(S, before, x)
      BY DEF Ahead, Ranks
    <2>2. IsFiniteSet(Ahead(S, before, x)) /\ Cardinality(Ahead(S, before, x)) <= n
          /\ (Cardinality(S) = Cardinality(Ahead(S, before, x)) => S = Ahead(S, before, x))
      BY <2>1, FS_Subset
    <2>3. Cardinality(Ahead(S, before, x)) \in Nat
      BY <2>2, FS_CardinalityType
    <2> QED BY <1>1, <2>1, <2>2, <2>3
  <1>3. ASSUME NEW x \in S, NEW z \in S, <<x, z>> \in before PROVE Place(x) < Place(z)
    <2>1. Ahead(S, before, x) \in SUBSET Ahead(S, before, z)
          /\ x \in Ahead(S, before, z) /\ x \notin Ahead(S, before, x)
      BY <1>3 DEF Ahead, Ranks
    <2>2. Cardinality(Ahead(S, before, x)) <= Cardinality(Ahead(S, before, z))
          /\ (Cardinality(Ahead(S, before, z)) = Cardinality(Ahead(S, before, x))
                => Ahead(S, before, z) = Ahead(S, before, x))
      BY <1>2, <2>1, FS_Subset
    <2>3. Cardinality(Ahead(S, before, x)) \in Nat /\ Cardinality(Ahead(S, before, z)) \in Nat
      BY <1>2
    <2>4. Cardinality(Ahead(S, before, x)) < Cardinality(Ahead(S, before, z))
      BY <2>1, <2>2, <2>3
    <2> QED BY <2>3, <2>4
  <1>4. a = [i \in 1 .. n |-> CHOOSE x \in S : Cardinality(Ahead(S, before, x)) = i - 1]
    BY DEF Ordered, Ahead
  <1> HIDE DEF a
  <1>6. ASSUME NEW x \in S, NEW z \in S, Place(x) = Place(z) PROVE x = z
    <2>1. Place(x) \in Nat /\ Place(z) \in Nat
      BY <1>2
    <2>2. ~(Place(x) < Place(z)) /\ ~(Place(z) < Place(x))
      BY <1>6, <2>1
    <2>3. <<x, z>> \notin before /\ <<z, x>> \notin before
      BY <1>3, <2>2
    <2> QED BY <2>3 DEF Ranks
  <1>7. ASSUME NEW x \in S PROVE Cardinality(Ahead(S, before, x)) = Place(x) - 1
    BY <1>2
  <1>8. ASSUME NEW x \in S PROVE Place(x) \in 1 .. n
    BY <1>2
  <1> HIDE DEF Place
  <1>9. f \in Injection(S, 1 .. n)
    BY <1>8, <1>6 DEF Injection, IsInjective
  <1>10. IsFiniteSet(1 .. n) /\ Cardinality(1 .. n) = n
    BY <1>1, FS_Interval
  <1>11. f \in Surjection(S, 1 .. n)
    BY <1>9, <1>10, FS_Injection
  <1>12. ASSUME NEW i \in 1 .. n PROVE \E x \in S : Place(x) = i
    BY <1>11 DEF Surjection
  <1>13. ASSUME NEW i \in 1 .. n PROVE a[i] \in S /\ Place(a[i]) = i
    <2>1. PICK x \in S : Place(x) = i
      BY <1>12
    <2>2. Cardinality(Ahead(S, before, x)) = i - 1
      BY <1>7, <2>1
    <2>3. a[i] \in S /\ Cardinality(Ahead(S, before, a[i])) = i - 1
      BY <1>4, <2>2
    <2>4. Place(a[i]) - 1 = i - 1 /\ Place(a[i]) \in Nat
      BY <1>7, <1>8, <2>3
    <2> QED BY <2>3, <2>4
  <1>14. a \in [1 .. n -> S]
    BY <1>4, <1>13
  <1>15. ASSUME NEW i \in 1 .. n, NEW j \in 1 .. n, a[i] = a[j] PROVE i = j
    BY <1>13, <1>15
  <1>16. ASSUME NEW x \in S PROVE \E i \in 1 .. n : a[i] = x
    <2>1. Place(x) \in 1 .. n
      BY <1>8
    <2>2. a[Place(x)] \in S /\ Place(a[Place(x)]) = Place(x)
      BY <1>13, <2>1
    <2> QED BY <1>6, <2>1, <2>2
  <1> QED BY <1>1, <1>14, <1>15, <1>16 DEF OnceEach, a

(***************************************************************************)
(* The rungs of a codec.                                                   *)
(***************************************************************************)
Label == (Nat \ {0}) \X Nat

(* The labels of a ladder differ, also where heights are alike.            *)
LEMMA LabelsDiffer ==
  ASSUME NEW ladder, NEW codec, \A c \in DOMAIN ladder : ladder[c] \in Seq(LadderRow)
  PROVE  LET all == BuildRungs(ladder, codec)
         IN  /\ DOMAIN all \in SUBSET Nat /\ IsFiniteSet(DOMAIN all)
             /\ \A i \in DOMAIN all : /\ all[i].label \in Label /\ all[i].height \in Nat /\ all[i].width \in Nat
                                      /\ DOMAIN all[i] = {"label", "width", "height", "bitrate"}
             /\ \A i, j \in DOMAIN all : all[i].label = all[j].label => i = j
  <1> DEFINE all == BuildRungs(ladder, codec)
             listed == IF codec \in DOMAIN ladder THEN ladder[codec] ELSE <<>>
             Like(i) == {j \in DOMAIN listed : listed[j].height = listed[i].height}
             Count(i) == Cardinality({j \in Like(i) : j <= i})
             No(i) == IF Cardinality(Like(i)) = 1 THEN 0 ELSE Count(i)
  <1>1. listed \in Seq(LadderRow)
    <2>1. <<>> \in Seq(LadderRow)
      OBVIOUS
    <2> QED BY <2>1
  <1>2. all = [i \in DOMAIN listed |->
                 [label |-> <<listed[i].height, No(i)>>,
                  width |-> listed[i].width, height |-> listed[i].height, bitrate |-> listed[i].bitrate]]
    BY DEF BuildRungs
  <1> HIDE DEF all, listed
  <1>3. DOMAIN listed = 1 .. Len(listed) /\ Len(listed) \in Nat /\ \A i \in DOMAIN listed : listed[i] \in LadderRow
    BY <1>1
  <1>4. IsFiniteSet(DOMAIN listed) /\ DOMAIN listed \in SUBSET Nat
    BY <1>3, FS_Interval
  <1>5. ASSUME NEW i \in DOMAIN listed
        PROVE  /\ IsFiniteSet(Like(i)) /\ i \in Like(i)
               /\ IsFiniteSet({j \in Like(i) : j <= i})
               /\ Cardinality(Like(i)) \in Nat /\ Count(i) \in Nat /\ No(i) \in Nat
    <2>1. Like(i) \in SUBSET DOMAIN listed /\ {j \in Like(i) : j <= i} \in SUBSET DOMAIN listed
      OBVIOUS
    <2>2. IsFiniteSet(Like(i)) /\ IsFiniteSet({j \in Like(i) : j <= i})
      BY <1>4, <2>1, FS_Subset
    <2>3. Cardinality(Like(i)) \in Nat /\ Count(i) \in Nat
      BY <2>2, FS_CardinalityType
    <2> QED BY <2>2, <2>3
  <1>6. ASSUME NEW i \in DOMAIN listed, NEW j \in DOMAIN listed, i < j,
               listed[i].height = listed[j].height
        PROVE  No(i) # No(j)
    <2>1. Like(i) = Like(j) /\ i \in Like(i) /\ j \in Like(i)
      BY <1>6
    <2>2. Cardinality(Like(i)) # 1
      <3>1. ASSUME Cardinality(Like(i)) = 1 PROVE FALSE
        <4>1. \E x : Like(i) = {x}
          BY <1>5, <3>1, FS_Singleton
        <4> HIDE DEF Like
        <4>2. i = j
          BY <2>1, <4>1
        <4> QED BY <1>3, <1>6, <4>2
      <3> QED BY <3>1
    <2> DEFINE A == {x \in Like(i) : x <= i}
               B == {x \in Like(j) : x <= j}
    <2>3. A \in SUBSET B /\ j \in B /\ j \notin A
      <3>1. i \in Nat /\ j \in Nat /\ \A x \in Like(i) : x \in Nat
        BY <1>4
      <3> HIDE DEF Like
      <3>2. \A x \in Like(i) : x <= i => x <= j
        BY <1>6, <3>1
      <3> QED BY <2>1, <1>6, <3>1, <3>2
    <2>4. IsFiniteSet(B) /\ Cardinality(A) = Count(i) /\ Cardinality(B) = Count(j)
      BY <1>5
    <2> HIDE DEF A, B, Count, Like
    <2>5. Cardinality(B) = Cardinality(A) => B = A
      BY <2>3, <2>4, FS_Subset
    <2>6. Count(i) # Count(j)
      BY <2>3, <2>4, <2>5
    <2> QED BY <2>1, <2>2, <2>6
  <1> HIDE DEF No
  <1>7. \A i \in DOMAIN listed : listed[i].height \in Nat \ {0} /\ listed[i].width \in Nat
    BY <1>3 DEF LadderRow
  <1>8. \A i \in DOMAIN all : /\ all[i].label \in Label /\ all[i].height \in Nat /\ all[i].width \in Nat
                              /\ DOMAIN all[i] = {"label", "width", "height", "bitrate"}
    BY <1>2, <1>5, <1>7 DEF Label
  <1>9. ASSUME NEW i \in DOMAIN all, NEW j \in DOMAIN all, all[i].label = all[j].label
        PROVE  i = j
    <2>1. i \in DOMAIN listed /\ j \in DOMAIN listed /\ i \in Nat /\ j \in Nat
      BY <1>2, <1>4
    <2>2. listed[i].height = listed[j].height /\ No(i) = No(j)
      BY <1>2, <1>9, <2>1
    <2>3. ~(i < j) /\ ~(j < i)
      BY <1>6, <2>1, <2>2
    <2> QED BY <2>1, <2>3
  <1>10. DOMAIN all = DOMAIN listed
    BY <1>2
  <1> QED BY <1>4, <1>8, <1>9, <1>10 DEF all

(* Rungs told apart by their labels.                                       *)
Apart(rungs) ==
  /\ \E m \in Nat : DOMAIN rungs = 1 .. m
  /\ \A i \in DOMAIN rungs :
       rungs[i].label \in Label /\ rungs[i].height \in Nat /\ rungs[i].width \in Nat
  /\ \A i, j \in DOMAIN rungs : rungs[i].label = rungs[j].label => i = j

LEMMA SelectedApart ==
  ASSUME NEW ladder, \A c \in DOMAIN ladder : ladder[c] \in Seq(LadderRow),
         NEW codec, NEW minRes, NEW maxRes, NEW width, NEW override
  PROVE  Apart(SelectRungs(ladder, codec, minRes, maxRes, width, override))
  <1> DEFINE all == BuildRungs(ladder, codec)
             Kept(r) == r.width <= width /\ r.height >= minRes /\ r.height <= maxRes
             Paid(r) == IF r.height \in DOMAIN override
                          THEN [r EXCEPT !.bitrate = override[r.height]] ELSE r
             S == {i \in DOMAIN all : Kept(all[i])}
             kept == Ascending(S)
             rungs == SelectRungs(ladder, codec, minRes, maxRes, width, override)
  <1>1. /\ DOMAIN all \in SUBSET Nat /\ IsFiniteSet(DOMAIN all)
        /\ \A i \in DOMAIN all : /\ all[i].label \in Label /\ all[i].height \in Nat /\ all[i].width \in Nat
                                 /\ DOMAIN all[i] = {"label", "width", "height", "bitrate"}
        /\ \A i, j \in DOMAIN all : all[i].label = all[j].label => i = j
    BY LabelsDiffer
  <1>2. rungs = [k \in DOMAIN kept |-> Paid(all[kept[k]])]
    BY DEF SelectRungs
  <1> HIDE DEF all, rungs
  <1>3. S \in SUBSET Nat /\ IsFiniteSet(S) /\ S \in SUBSET DOMAIN all
    BY <1>1, FS_Subset
  <1>4. Lists(kept, S) /\ Cardinality(S) \in Nat
    BY <1>3, AscendingLists, FS_CardinalityType
  <1> HIDE DEF kept, S, Kept
  <1>5. DOMAIN kept = 1 .. Cardinality(S) /\ \A k \in DOMAIN kept : kept[k] \in S /\ kept[k] \in Nat
    BY <1>3, <1>4 DEF Lists
  <1>6. ASSUME NEW i \in DOMAIN kept, NEW j \in DOMAIN kept, kept[i] = kept[j] PROVE i = j
    <2>1. i \in 1 .. Cardinality(S) /\ j \in 1 .. Cardinality(S) /\ i \in Nat /\ j \in Nat
      BY <1>4, <1>5
    <2>2. i < j => kept[i] < kept[j]
      BY <1>4, <2>1 DEF Lists
    <2>3. j < i => kept[j] < kept[i]
      BY <1>4, <2>1 DEF Lists
    <2>4. kept[i] \in Nat
      BY <1>5
    <2> QED BY <1>6, <2>1, <2>2, <2>3, <2>4
  <1>7. ASSUME NEW x \in DOMAIN all
        PROVE  /\ Paid(all[x]).label = all[x].label /\ Paid(all[x]).height = all[x].height
               /\ Paid(all[x]).width = all[x].width
    BY <1>1
  <1> HIDE DEF Paid
  <1>8. DOMAIN rungs = DOMAIN kept
        /\ \A k \in DOMAIN rungs : rungs[k].label = all[kept[k]].label /\ rungs[k].height = all[kept[k]].height
                                   /\ rungs[k].width = all[kept[k]].width /\ kept[k] \in DOMAIN all
    BY <1>2, <1>3, <1>5, <1>7
  <1> QED
    <2>1. \E m \in Nat : DOMAIN rungs = 1 .. m
      BY <1>4, <1>5, <1>8
    <2>2. \A i \in DOMAIN rungs :
            rungs[i].label \in Label /\ rungs[i].height \in Nat /\ rungs[i].width \in Nat
      BY <1>1, <1>8
    <2>3. \A i, j \in DOMAIN rungs : rungs[i].label = rungs[j].label => i = j
      BY <1>1, <1>6, <1>8
    <2> QED BY <2>1, <2>2, <2>3 DEF Apart, rungs

(* By weight, and by number where weights are alike, is one order.         *)
LEMMA WeightRanks ==
  ASSUME NEW rungs, Apart(rungs), NEW S \in SUBSET DOMAIN rungs
  PROVE  Ranks(Lighter(rungs, S), S) /\ Ranks(Heavier(rungs, S), S)
  <1> DEFINE P(i) == Pixels(rungs[i])
  <1>1. \A i \in S : i \in Nat /\ P(i) \in Nat
    <2>1. \A i \in S : i \in Nat /\ rungs[i].height \in Nat /\ rungs[i].width \in Nat
      BY DEF Apart
    <2> QED BY <2>1 DEF Pixels
  <1>2. Lighter(rungs, S) = {p \in S \X S : P(p[1]) < P(p[2]) \/ (P(p[1]) = P(p[2]) /\ p[1] < p[2])}
    BY DEF Lighter
  <1>3. Heavier(rungs, S) = {p \in S \X S : P(p[1]) > P(p[2]) \/ (P(p[1]) = P(p[2]) /\ p[1] < p[2])}
    BY DEF Heavier
  <1> HIDE DEF P
  <1>4. \A x, y \in S : /\ <<x, y>> \in Lighter(rungs, S) <=> P(x) < P(y) \/ (P(x) = P(y) /\ x < y)
                        /\ <<x, y>> \in Heavier(rungs, S) <=> P(x) > P(y) \/ (P(x) = P(y) /\ x < y)
    BY <1>2, <1>3
  <1>5. Ranks(Lighter(rungs, S), S)
    BY <1>1, <1>4 DEF Ranks
  <1>6. Ranks(Heavier(rungs, S), S)
    BY <1>1, <1>4 DEF Ranks
  <1> QED BY <1>5, <1>6

(* A rung of a band is in no other.                                        *)
LEMMA BandsApart ==
  ASSUME NEW rungs, Apart(rungs), NEW budget
  PROVE  /\ \A b \in PlanGroups(rungs, budget) : b \in Seq(Range(rungs)) /\ b # <<>>
         /\ \A b, d \in PlanGroups(rungs, budget) : Range(b) \cap Range(d) # {} => b = d
  <1> DEFINE low == {i \in DOMAIN rungs : rungs[i].height <= GroupMaxHeight}
             eligible == Ordered(low, Lighter(rungs, low))
             n == Len(eligible)
             Px(k) == Pixels(rungs[eligible[k]])
             used == CHOOSE g : g = [k \in 0..n |->
               IF k = 0 THEN 0 ELSE Px(k) + (IF g[k - 1] + Px(k) > budget THEN 0 ELSE g[k - 1])]
             starts == {k \in 1..n : k = 1 \/ used[k - 1] + Px(k) > budget}
             Places(s) == {j \in s..n : \A t \in starts : t > s => j < t}
             Band(s) == {eligible[k] : k \in Places(s)}
             Listed(band) == LET order == Ordered(band, Heavier(rungs, band))
                             IN  [k \in DOMAIN order |-> rungs[order[k]]]
  <1>1. ASSUME NEW b \in PlanGroups(rungs, budget)
        PROVE  \E s \in starts : Cardinality(Band(s)) > 1 /\ b = Listed(Band(s))
    BY DEF PlanGroups
  <1>2. low \in SUBSET DOMAIN rungs /\ IsFiniteSet(low)
    <2>1. IsFiniteSet(DOMAIN rungs)
      BY FS_Interval DEF Apart
    <2> QED BY <2>1, FS_Subset
  <1>3. OnceEach(eligible, low) /\ Cardinality(low) \in Nat
    BY <1>2, WeightRanks, OrderedLists
  <1>4. starts \in SUBSET (1 .. n)
    OBVIOUS
  <1> HIDE DEF low, eligible, starts
  <1>5. n = Cardinality(low) /\ \A k \in 1 .. n : eligible[k] \in low
    <2>1. n = Cardinality(low)
      BY <1>3 DEF OnceEach
    <2> QED BY <1>3, <2>1 DEF OnceEach
  <1> HIDE DEF n
  <1>6. ASSUME NEW s \in starts
        PROVE  Places(s) \in SUBSET (1 .. n) /\ Band(s) \in SUBSET low /\ IsFiniteSet(Band(s))
    <2>1. Places(s) \in SUBSET (1 .. n)
      BY <1>3, <1>4, <1>5
    <2>2. Band(s) \in SUBSET low
      BY <1>5, <2>1
    <2> QED BY <1>2, <2>1, <2>2, FS_Subset
  <1>7. ASSUME NEW s \in starts, NEW t \in starts, Band(s) \cap Band(t) # {}
        PROVE  s = t
    <2>1. PICK k \in Places(s), j \in Places(t) : eligible[k] = eligible[j]
      BY <1>7
    <2>2. k = j
      BY <1>3, <1>5, <1>6, <2>1 DEF OnceEach
    <2>3. s \in Nat /\ t \in Nat /\ k \in Nat /\ s <= k /\ t <= k
      BY <1>3, <1>4, <1>5, <2>1, <2>2
    <2>4. (t > s => k < t) /\ (s > t => k < s)
      BY <2>1, <2>2
    <2> QED BY <2>3, <2>4
  <1> HIDE DEF Band
  <1>8. ASSUME NEW s \in starts, Cardinality(Band(s)) > 1
        PROVE  /\ Listed(Band(s)) \in Seq(Range(rungs)) /\ Listed(Band(s)) # <<>>
               /\ \A x \in DOMAIN Listed(Band(s)) : \E i \in Band(s) : Listed(Band(s))[x] = rungs[i]
    <2> DEFINE band == Band(s)
               order == Ordered(band, Heavier(rungs, band))
               m == Cardinality(band)
    <2>1. band \in SUBSET DOMAIN rungs
      BY <1>2, <1>6
    <2>2. OnceEach(order, band) /\ m \in Nat
      BY <1>6, <2>1, WeightRanks, OrderedLists
    <2>3. Listed(band) = [k \in DOMAIN order |-> rungs[order[k]]]
      OBVIOUS
    <2>4. m > 1
      BY <1>8
    <2> HIDE DEF band, order, Listed, m
    <2>5. order \in [1 .. m -> band]
      BY <2>2 DEF OnceEach, m
    <2>6. \A x \in 1 .. m : order[x] \in band /\ rungs[order[x]] \in Range(rungs)
      BY <2>1, <2>5 DEF Range
    <2>7. DOMAIN Listed(band) = 1 .. m /\ \A x \in 1 .. m : Listed(band)[x] = rungs[order[x]]
      BY <2>3, <2>5
    <2>8. Listed(band) = [x \in 1 .. m |-> rungs[order[x]]]
      BY <2>3, <2>5
    <2>9. Listed(band) \in Seq(Range(rungs))
      BY <2>2, <2>6, <2>8
    <2>10. Listed(band) # <<>>
      <3>1. Len(Listed(band)) = m
        BY <2>2, <2>8
      <3> QED BY <2>4, <3>1
    <2> QED BY <2>6, <2>7, <2>9, <2>10 DEF band
  <1>9. ASSUME NEW b \in PlanGroups(rungs, budget), NEW d \in PlanGroups(rungs, budget),
               Range(b) \cap Range(d) # {}
        PROVE  b = d
    <2>1. PICK s \in starts : Cardinality(Band(s)) > 1 /\ b = Listed(Band(s))
      BY <1>1
    <2>2. PICK t \in starts : Cardinality(Band(t)) > 1 /\ d = Listed(Band(t))
      BY <1>1
    <2>3. PICK x \in DOMAIN b, y \in DOMAIN d : b[x] = d[y]
      BY <1>9 DEF Range
    <2>4. PICK i \in Band(s) : b[x] = rungs[i]
      BY <1>8, <2>1
    <2>5. PICK j \in Band(t) : d[y] = rungs[j]
      BY <1>8, <2>2
    <2>6. i \in DOMAIN rungs /\ j \in DOMAIN rungs
      BY <1>2, <1>6
    <2>7. i = j
      BY <2>3, <2>4, <2>5, <2>6 DEF Apart
    <2>8. s = t
      BY <1>7, <2>7
    <2> QED BY <2>1, <2>2, <2>8
  <1>10. \A b \in PlanGroups(rungs, budget) : b \in Seq(Range(rungs)) /\ b # <<>>
    BY <1>1, <1>8
  <1> QED BY <1>9, <1>10

(* What Tasks puts in one task each.                                       *)
Groups(rungs, budget) ==
  PlanGroups(rungs, budget) \cup
    {<<r>> : r \in Range(rungs) \ UNION {Range(b) : b \in PlanGroups(rungs, budget)}}

(* Each rung is in one group, and in one only.                             *)
LEMMA GroupsPart ==
  ASSUME NEW rungs, Apart(rungs), NEW budget
  PROVE  /\ \A g \in Groups(rungs, budget) : g \in Seq(Range(rungs)) /\ 1 \in DOMAIN g
         /\ \A r \in Range(rungs) : \E g \in Groups(rungs, budget) : r \in Range(g)
         /\ \A g, h \in Groups(rungs, budget) : Range(g) \cap Range(h) # {} => g = h
  <1> DEFINE bands == PlanGroups(rungs, budget)
             grouped == UNION {Range(b) : b \in bands}
             alone == {<<r>> : r \in Range(rungs) \ grouped}
  <1>1. /\ \A b \in bands : b \in Seq(Range(rungs)) /\ b # <<>>
        /\ \A b, d \in bands : Range(b) \cap Range(d) # {} => b = d
    BY BandsApart
  <1>2. Groups(rungs, budget) = bands \cup alone
    BY DEF Groups
  <1> HIDE DEF bands
  <1>3. ASSUME NEW g \in alone
        PROVE  \E r \in Range(rungs) \ grouped : g = <<r>> /\ Range(g) = {r}
    <2>1. PICK r \in Range(rungs) \ grouped : g = <<r>>
      OBVIOUS
    <2>2. Range(<<r>>) = {r}
      BY DEF Range
    <2> QED BY <2>1, <2>2
  <1>4. ASSUME NEW g \in bands \cup alone PROVE g \in Seq(Range(rungs)) /\ 1 \in DOMAIN g
    <2>1. CASE g \in bands
      <3>1. g \in Seq(Range(rungs)) /\ g # <<>>
        BY <1>1, <2>1
      <3>2. Len(g) \in Nat /\ Len(g) # 0 /\ DOMAIN g = 1 .. Len(g)
        BY <3>1
      <3> QED BY <3>1, <3>2
    <2>2. CASE g \in alone
      <3>1. PICK r \in Range(rungs) : g = <<r>>
        BY <1>3, <2>2
      <3> QED BY <3>1
    <2> QED BY <2>1, <2>2
  <1>5. ASSUME NEW r \in Range(rungs) PROVE \E g \in bands \cup alone : r \in Range(g)
    <2>1. CASE r \in grouped
      BY <2>1
    <2>2. CASE r \notin grouped
      <3>1. <<r>> \in alone /\ r \in Range(<<r>>)
        BY <2>2 DEF Range
      <3> QED BY <3>1
    <2> QED BY <2>1, <2>2
  <1>6. ASSUME NEW g \in bands \cup alone, NEW h \in bands \cup alone, Range(g) \cap Range(h) # {}
        PROVE  g = h
    <2>1. CASE g \in bands /\ h \in bands
      BY <1>1, <1>6, <2>1
    <2>2. CASE g \in bands /\ h \in alone
      BY <1>3, <1>6, <2>2
    <2>3. CASE g \in alone /\ h \in bands
      BY <1>3, <1>6, <2>3
    <2>4. CASE g \in alone /\ h \in alone
      BY <1>3, <1>6, <2>4
    <2> QED BY <2>1, <2>2, <2>3, <2>4
  <1> QED BY <1>2, <1>4, <1>5, <1>6

(***************************************************************************)
(* What a run is asked, and what follows from it.                          *)
(***************************************************************************)
Asked == Options \cup {[o EXCEPT !.mode = "full"] : o \in Options}

Valid(o) ==
  /\ DOMAIN o = OptionFields
  /\ o.mode \in {"full", "resume", "dist"} /\ (OnFarm(o) => ~o.pad)
  /\ o.clip \in DOMAIN Clips /\ o.ladder \in DOMAIN Ladders
  /\ o.limit \in Nat /\ o.chunk \in Nat /\ o.seg \in Nat \ {0}
  /\ \A v \in DOMAIN o.sized : o.sized[v] \in Nat \ {0}
  /\ {o.pad, o.force, o.fmp4, o.ts} \subseteq BOOLEAN
  /\ o.pad => ChunkGrid(o.seg) % PadBoundary(o) = 0

LEMMA AskedIsValid ==
  ASSUME NEW o \in Asked
  PROVE  Valid(o)
  <1>1. ASSUME NEW p \in Options PROVE Valid(p)
    <2>1. p.pad => ~OnFarm(p)
      BY OptionAssumption DEF OnFarm
    <2>2. p.pad => ChunkGrid(p.seg) % PadBoundary(p) = 0
      BY <2>1, AlignmentContract DEF Aligned
    <2> QED BY <2>2, OptionAssumption DEF Valid, OnFarm
  <1>2. ASSUME NEW p \in Options, o = [p EXCEPT !.mode = "full"] PROVE Valid(o)
    <2>1. Valid(p)
      BY <1>1
    <2>2. /\ DOMAIN o = OptionFields /\ o.mode = "full" /\ o.clip = p.clip /\ o.ladder = p.ladder
          /\ o.limit = p.limit /\ o.chunk = p.chunk /\ o.seg = p.seg /\ o.sized = p.sized
          /\ o.pad = p.pad /\ o.force = p.force /\ o.fmp4 = p.fmp4 /\ o.ts = p.ts
      BY <1>2, <2>1 DEF Valid, OptionFields
    <2>3. PadBoundary(o) = PadBoundary(p) /\ ~OnFarm(o)
      BY <2>2 DEF PadBoundary, OnFarm
    <2> QED BY <2>1, <2>2, <2>3 DEF Valid
  <1> QED BY <1>1, <1>2 DEF Asked

LEMMA RungsApart ==
  ASSUME NEW o, Valid(o), NEW codec
  PROVE  Apart(RungsOf(o, codec))
  <1>1. \A c \in DOMAIN Ladders[o.ladder] : Ladders[o.ladder][c] \in Seq(LadderRow)
    BY LadderAssumption DEF Valid
  <1> QED BY <1>1, SelectedApart DEF RungsOf

LEMMA VariantType ==
  ASSUME NEW o, Valid(o), NEW v \in Variants(o)
  PROVE  /\ v = <<v[1], v[2]>> /\ v[1] \in Codecs(o) /\ v[2] \in Label /\ v[2] # Audio
         /\ v[2] \in Range(LabelsOf(o, v[1]))
         /\ \E r \in Range(RungsOf(o, v[1])) : v[2] = r.label
  <1>1. PICK c \in Codecs(o) : \E l \in Range(LabelsOf(o, c)) : v = <<c, l>>
    BY DEF Variants
  <1>2. PICK l \in Range(LabelsOf(o, c)) : v = <<c, l>>
    BY <1>1
  <1>3. PICK i \in DOMAIN RungsOf(o, c) : l = RungsOf(o, c)[i].label
    BY <1>2 DEF LabelsOf, Range
  <1>4. RungsOf(o, c)[i].label \in Label
    BY RungsApart DEF Apart
  <1>5. RungsOf(o, c)[i] \in Range(RungsOf(o, c))
    BY DEF Range
  <1>6. l # Audio
    BY <1>3, <1>4 DEF Label, Audio
  <1> QED BY <1>2, <1>3, <1>4, <1>5, <1>6

(* A label of a codec is that of one rung.                                 *)
LEMMA RungOfLabel ==
  ASSUME NEW o, Valid(o), NEW c, NEW r \in Range(RungsOf(o, c)), NEW s \in Range(RungsOf(o, c)),
         r.label = s.label
  PROVE  r = s
  BY RungsApart DEF Apart, Range

LEMMA LabelsOfRungs ==
  ASSUME NEW o, Valid(o), NEW c \in Codecs(o), NEW r \in Range(RungsOf(o, c))
  PROVE  r.label \in Range(LabelsOf(o, c)) /\ <<c, r.label>> \in Variants(o)
  <1>1. r.label \in Range(LabelsOf(o, c))
    BY DEF LabelsOf, Range
  <1> QED BY <1>1 DEF Variants

LEMMA TilingType ==
  ASSUME NEW content \in Nat \ {0}, NEW chunk \in Nat \ {0}, NEW seg \in Nat \ {0}
  PROVE  LET tiles == Tiling(content, chunk, seg)
         IN  /\ tiles \in Seq(Tile) /\ EndToEnd(tiles, content) /\ OnGrid(tiles, ChunkGrid(seg))
             /\ Len(tiles) \in Nat \ {0} /\ DOMAIN tiles = 1 .. Len(tiles)
  <1> DEFINE tiles == Tiling(content, chunk, seg)
  <1>1. tiles \in Seq(Tile) /\ EndToEnd(tiles, content) /\ OnGrid(tiles, ChunkGrid(seg))
    BY PlanEndToEnd, CoalescedEndToEnd DEF Tiling
  <1> HIDE DEF tiles
  <1>2. Len(tiles) \in Nat \ {0} /\ DOMAIN tiles = 1 .. Len(tiles)
    BY <1>1 DEF EndToEnd
  <1> QED BY <1>1, <1>2 DEF tiles

LEMMA ClipType ==
  ASSUME NEW o, Valid(o)
  PROVE  /\ Info(o).slots \in SUBSET Nat /\ IsFiniteSet(Info(o).slots)
         /\ Info(o).duration \in Nat \ {0}
  BY ClipAssumption DEF Info, Valid

(* The limit of a run and the duration it plans for.                       *)
LEMMA PlannedType ==
  ASSUME NEW o, Valid(o)
  PROVE  /\ LimitOf(o) \in Nat /\ Planned(o) \in Nat \ {0}
         /\ OnFarm(o) => IF LimitOf(o) = 0 THEN Planned(o) = Info(o).duration
                         ELSE Planned(o) = LimitOf(o) /\ LimitOf(o) < Info(o).duration
  <1>1. Info(o).duration \in Nat \ {0} /\ o.limit \in Nat
    BY ClipType DEF Valid
  <1> DEFINE seg == FixedSegment
             d == Info(o).duration
             q == (2 * o.limit + seg) \div (2 * seg)
             snapped == Max({1, q}) * seg
  <1>2. seg \in Nat \ {0}
    BY SegmentAssumption
  <1>3. q \in Nat
    <2>1. 2 * o.limit + seg \in Nat /\ 2 * seg \in Nat \ {0}
      BY <1>1, <1>2
    <2> HIDE DEF seg
    <2> QED BY <2>1, Division
  <1> HIDE DEF q
  <1>4. Max({1, q}) \in Nat \ {0}
    BY <1>3, MaxOfTwo
  <1>5. snapped \in Nat \ {0}
    BY <1>2, <1>4
  <1>6. EffectiveLimit(o.limit, d, seg) = IF o.limit = 0 \/ snapped >= d THEN 0 ELSE snapped
    BY DEF EffectiveLimit, q
  <1> HIDE DEF snapped, seg
  <1>7. LimitOf(o) \in Nat
    BY <1>1, <1>5, <1>6 DEF LimitOf, seg
  <1>8. OnFarm(o) => LimitOf(o) = 0 \/ LimitOf(o) < d
    BY <1>1, <1>5, <1>6 DEF LimitOf, seg
  <1>9. Planned(o) = IF LimitOf(o) = 0 THEN d ELSE IF LimitOf(o) <= d THEN LimitOf(o) ELSE d
    BY <1>1, <1>7, MinOfTwo DEF Planned, Clamped
  <1> QED BY <1>1, <1>7, <1>8, <1>9

(* The farm cuts every variant in one chunk at least.                      *)
LEMMA FarmTilingType ==
  ASSUME NEW o, Valid(o), NEW v
  PROVE  /\ FarmChunk(o, v) \in Nat \ {0} /\ Planned(o) \in Nat \ {0}
         /\ FarmTiling(o, v) \in Seq(Tile) /\ EndToEnd(FarmTiling(o, v), Planned(o))
         /\ Len(FarmTiling(o, v)) \in Nat \ {0}
         /\ DOMAIN FarmTiling(o, v) = 1 .. Len(FarmTiling(o, v))
  <1>1. Planned(o) \in Nat \ {0} /\ FixedSegment \in Nat \ {0}
    BY PlannedType, SegmentAssumption
  <1>2. FarmChunk(o, v) \in Nat \ {0}
    <2>1. ResolveChunkDuration(o.chunk, Planned(o), FixedSegment) \in Nat \ {0}
      <3> DEFINE k == CeilDiv(Planned(o), FixedSegment)
      <3>1. k \in Nat
        BY <1>1, Rounding
      <3>2. Max({1, k}) \in Nat \ {0}
        BY <3>1, MaxOfTwo
      <3> HIDE DEF k
      <3>3. Max({1, k}) * FixedSegment \in Nat \ {0}
        BY <1>1, <3>2
      <3>4. o.chunk \in Nat
        BY DEF Valid
      <3> QED BY <3>3, <3>4 DEF ResolveChunkDuration, k
    <2> QED BY <2>1 DEF FarmChunk, Valid
  <1> QED BY <1>1, <1>2, TilingType DEF FarmTiling

(***************************************************************************)
(* The units of a farm run.                                                *)
(***************************************************************************)
LabelsIn(g) == [i \in DOMAIN g |-> g[i].label]

LEMMA FarmUnitsAre ==
  FarmUnits(opt) = {[codec |-> t.codec, labels |-> LabelsIn(t.members), chunk |-> t.chunk,
                key |-> PriorityKey(t, FarmTasks(opt), Passes, Rank)] : t \in FarmTasks(opt)}
  BY DEF FarmUnits, LabelsIn

(* A unit is a group of rungs on a chunk of its first member's grid.       *)
LEMMA FarmUnitType ==
  ASSUME Valid(opt), NEW u \in FarmUnits(opt)
  PROVE  /\ u.codec \in Codecs(opt)
         /\ \E g \in Groups(RungsOf(opt, u.codec), opt.budget) : u.labels = LabelsIn(g)
         /\ u.chunk \in 1 .. Len(FarmTiling(opt, <<u.codec, u.labels[1]>>))
  <1>1. PICK t \in FarmTasks(opt) : /\ u.codec = t.codec /\ u.labels = LabelsIn(t.members)
                               /\ u.chunk = t.chunk
    BY FarmUnitsAre
  <1>2. PICK c \in Codecs(opt) :
          t \in Tasks(c, RungsOf(opt, c), opt.budget,
                      [l \in Range(LabelsOf(opt, c)) |-> FarmTiling(opt, <<c, l>>)])
    BY DEF FarmTasks
  <1> DEFINE rungs == RungsOf(opt, c)
             cut == [l \in Range(LabelsOf(opt, c)) |-> FarmTiling(opt, <<c, l>>)]
  <1>3. PICK g \in Groups(rungs, opt.budget) :
          \E i \in 1 .. Len(cut[g[1].label]) : t = [codec |-> c, members |-> g, chunk |-> i]
    BY <1>2 DEF Tasks, Groups
  <1>4. t.codec = c /\ t.members = g /\ t.chunk \in 1 .. Len(cut[g[1].label])
    BY <1>3
  <1>5. g \in Seq(Range(rungs)) /\ 1 \in DOMAIN g
    BY GroupsPart, RungsApart
  <1>6. g[1] \in Range(rungs)
    BY <1>5
  <1>7. g[1].label \in Range(LabelsOf(opt, c))
    BY <1>6, LabelsOfRungs
  <1>8. cut[g[1].label] = FarmTiling(opt, <<c, g[1].label>>)
    BY <1>7
  <1>9. u.labels[1] = g[1].label
    BY <1>1, <1>4, <1>5 DEF LabelsIn
  <1> QED BY <1>1, <1>3, <1>4, <1>8, <1>9

LEMMA FarmUnitMade ==
  ASSUME Valid(opt), NEW c \in Codecs(opt), NEW g \in Groups(RungsOf(opt, c), opt.budget),
         NEW i \in 1 .. Len(FarmTiling(opt, <<c, g[1].label>>))
  PROVE  \E u \in FarmUnits(opt) : u.codec = c /\ u.labels = LabelsIn(g) /\ u.chunk = i
  <1> DEFINE rungs == RungsOf(opt, c)
             cut == [l \in Range(LabelsOf(opt, c)) |-> FarmTiling(opt, <<c, l>>)]
             t == [codec |-> c, members |-> g, chunk |-> i]
  <1>1. g \in Seq(Range(rungs)) /\ 1 \in DOMAIN g
    BY GroupsPart, RungsApart
  <1>2. g[1].label \in Range(LabelsOf(opt, c))
    BY <1>1, LabelsOfRungs
  <1>3. i \in 1 .. Len(cut[g[1].label])
    BY <1>2
  <1>4. t \in Tasks(c, rungs, opt.budget, cut)
    <2>1. Tasks(c, rungs, opt.budget, cut)
            = UNION {{[codec |-> c, members |-> h, chunk |-> k] : k \in 1 .. Len(cut[h[1].label])} :
                       h \in Groups(rungs, opt.budget)}
      BY DEF Tasks, Groups
    <2>2. t \in {[codec |-> c, members |-> g, chunk |-> k] : k \in 1 .. Len(cut[g[1].label])}
      BY <1>3
    <2> HIDE DEF t, cut, rungs
    <2>3. g \in Groups(rungs, opt.budget)
      BY DEF rungs
    <2> QED BY <2>1, <2>2, <2>3
  <1>5. t \in FarmTasks(opt)
    BY <1>4 DEF FarmTasks
  <1>6. t.codec = c /\ t.members = g /\ t.chunk = i
    OBVIOUS
  <1> HIDE DEF t
  <1> DEFINE u == [codec |-> t.codec, labels |-> LabelsIn(t.members), chunk |-> t.chunk,
                   key |-> PriorityKey(t, FarmTasks(opt), Passes, Rank)]
  <1>7. u \in FarmUnits(opt)
    BY <1>5, FarmUnitsAre
  <1>8. u.codec = c /\ u.labels = LabelsIn(g) /\ u.chunk = i
    BY <1>6
  <1> QED BY <1>7, <1>8

(* The members of a unit are variants of the run.                          *)
LEMMA FarmUnitLabels ==
  ASSUME Valid(opt), NEW u \in FarmUnits(opt)
  PROVE  /\ 1 \in DOMAIN u.labels /\ IsFiniteSet(DOMAIN u.labels)
         /\ \A i \in DOMAIN u.labels : <<u.codec, u.labels[i]>> \in Variants(opt)
  <1>1. PICK g \in Groups(RungsOf(opt, u.codec), opt.budget) : u.labels = LabelsIn(g)
    BY FarmUnitType
  <1>2. g \in Seq(Range(RungsOf(opt, u.codec))) /\ 1 \in DOMAIN g
    BY GroupsPart, RungsApart
  <1>3. DOMAIN u.labels = DOMAIN g /\ DOMAIN g = 1 .. Len(g) /\ Len(g) \in Nat
    BY <1>1, <1>2 DEF LabelsIn
  <1>4. IsFiniteSet(DOMAIN g)
    BY <1>3, FS_Interval
  <1>5. ASSUME NEW i \in DOMAIN g PROVE <<u.codec, u.labels[i]>> \in Variants(opt)
    <2>1. g[i] \in Range(RungsOf(opt, u.codec)) /\ u.labels[i] = g[i].label
      BY <1>1, <1>2 DEF LabelsIn
    <2> QED BY <2>1, FarmUnitType, LabelsOfRungs
  <1> QED BY <1>2, <1>3, <1>4, <1>5

HasLabel(u, l) == \E i \in DOMAIN u.labels : u.labels[i] = l

(* A variant is in the units of one group, and in one unit for each chunk. *)
LEMMA VariantLed ==
  ASSUME Valid(opt), NEW v \in Variants(opt)
  PROVE  \E lead : /\ <<v[1], lead>> \in Variants(opt)
                   /\ \A i \in 1 .. Len(FarmTiling(opt, <<v[1], lead>>)) :
                        \E u \in FarmUnits(opt) : /\ u.codec = v[1] /\ u.chunk = i /\ u.labels[1] = lead
                                             /\ HasLabel(u, v[2])
                   /\ \A u \in FarmUnits(opt) : u.codec = v[1] /\ HasLabel(u, v[2]) => u.labels[1] = lead
  <1> DEFINE c == v[1]
             groups == Groups(RungsOf(opt, c), opt.budget)
  <1>1. PICK r \in Range(RungsOf(opt, c)) : v[2] = r.label
    BY VariantType
  <1>2. c \in Codecs(opt)
    BY VariantType
  <1>3. /\ \A g \in groups : g \in Seq(Range(RungsOf(opt, c))) /\ 1 \in DOMAIN g
        /\ \A s \in Range(RungsOf(opt, c)) : \E g \in groups : s \in Range(g)
        /\ \A g, h \in groups : Range(g) \cap Range(h) # {} => g = h
    BY GroupsPart, RungsApart
  <1>4. PICK g \in groups : r \in Range(g)
    BY <1>3
  <1> DEFINE lead == g[1].label
  <1>5. <<c, lead>> \in Variants(opt)
    <2>1. g[1] \in Range(RungsOf(opt, c))
      BY <1>3
    <2> QED BY <1>2, <2>1, LabelsOfRungs
  <1>6. PICK k \in DOMAIN g : g[k] = r
    BY <1>4 DEF Range
  <1>7. ASSUME NEW i \in 1 .. Len(FarmTiling(opt, <<c, lead>>))
        PROVE  \E u \in FarmUnits(opt) : u.codec = c /\ u.chunk = i /\ u.labels[1] = lead /\ HasLabel(u, v[2])
    <2>1. PICK u \in FarmUnits(opt) : u.codec = c /\ u.labels = LabelsIn(g) /\ u.chunk = i
      BY <1>2, FarmUnitMade
    <2>2. u.labels[1] = lead /\ u.labels[k] = v[2] /\ k \in DOMAIN u.labels
      BY <1>1, <1>3, <1>6, <2>1 DEF LabelsIn
    <2> QED BY <2>1, <2>2 DEF HasLabel
  <1>8. ASSUME NEW u \in FarmUnits(opt), u.codec = c, HasLabel(u, v[2]) PROVE u.labels[1] = lead
    <2>1. PICK h \in groups : u.labels = LabelsIn(h)
      BY <1>8, FarmUnitType
    <2>2. PICK j \in DOMAIN h : h[j].label = v[2]
      BY <1>8, <2>1 DEF HasLabel, LabelsIn
    <2>3. h[j] \in Range(RungsOf(opt, c))
      BY <1>3
    <2>4. h[j] = r
      BY <1>1, <2>2, <2>3, RungOfLabel
    <2>5. r \in Range(h)
      BY <2>4 DEF Range
    <2>6. h = g
      BY <1>3, <1>4, <2>5
    <2> QED BY <1>3, <2>1, <2>6 DEF LabelsIn
  <1> QED BY <1>5, <1>7, <1>8

(* A finite set of numbers has a greatest.                                 *)
LEMMA MaxIsIn ==
  ASSUME NEW T \in SUBSET Nat, IsFiniteSet(T), T # {}
  PROVE  Max(T) \in T /\ \A m \in T : m <= Max(T)
  <1> DEFINE n == Cardinality(T)
             a == Ascending(T)
  <1>1. Lists(a, T) /\ n \in Nat /\ n # 0
    BY AscendingLists, FS_CardinalityType, FS_EmptySet
  <1> HIDE DEF a, n
  <1>2. n \in 1 .. Cardinality(T) /\ n \in Nat
    BY <1>1 DEF n
  <1>3. a[n] \in T /\ a[n] \in Nat
    BY <1>1, <1>2 DEF Lists
  <1>4. ASSUME NEW m \in T PROVE m <= a[n]
    <2>1. PICK i \in 1 .. Cardinality(T) : a[i] = m
      BY <1>1 DEF Lists
    <2>2. i = n \/ i < n
      BY <1>1, <2>1 DEF n
    <2>3. i < n => a[i] < a[n]
      BY <1>1, <1>2, <2>1 DEF Lists
    <2>4. m \in Nat
      OBVIOUS
    <2> QED BY <1>3, <2>1, <2>2, <2>3, <2>4
  <1>5. \E x \in T : \A y \in T : x >= y
    <2>1. \A y \in T : a[n] >= y
      <3>1. \A y \in T : y \in Nat
        OBVIOUS
      <3> QED BY <1>3, <1>4, <3>1
    <2> QED BY <1>3, <2>1
  <1>6. Max(T) \in T /\ \A y \in T : Max(T) >= y
    BY <1>5 DEF Max
  <1> QED BY <1>6

(***************************************************************************)
(* Sequences joined: the length is the sum of the lengths, and each element*)
(* has its place.                                                          *)
(***************************************************************************)
Joint(g, m, parts) ==
  \A i \in 1 .. m : g[i] = IF i = 1 THEN parts[i] ELSE g[i - 1] \o parts[i]

LEMMA JointExists ==
  ASSUME NEW E, NEW n \in Nat \ {0}, NEW parts \in [1 .. n -> Seq(E)]
  PROVE  \E g \in [1 .. n -> Seq(E)] : Joint(g, n, parts)
  <1> DEFINE T == {m \in 1 .. n : ~\E g \in [1 .. m -> Seq(E)] : Joint(g, m, parts)}
  <1>1. SUFFICES ASSUME T # {} PROVE FALSE
    <2>1. n \in 1 .. n
      OBVIOUS
    <2> QED BY <2>1
  <1>2. PICK m \in T : \A k \in T : m <= k
    <2>1. T \subseteq Nat
      OBVIOUS
    <2> HIDE DEF T
    <2> QED BY <1>1, <2>1, Least
  <1>3. m \in 1 .. n /\ ~\E g \in [1 .. m -> Seq(E)] : Joint(g, m, parts)
    BY <1>2
  <1>4. CASE m = 1
    <2> DEFINE g == [i \in 1 .. 1 |-> parts[1]]
    <2>1. parts[1] \in Seq(E)
      BY <1>3, <1>4
    <2>2. g \in [1 .. m -> Seq(E)]
      BY <1>4, <2>1
    <2>3. Joint(g, m, parts)
      BY <1>4 DEF Joint
    <2> QED BY <1>3, <2>2, <2>3
  <1>5. CASE m # 1
    <2>1. m - 1 \in 1 .. n /\ ~(m <= m - 1)
      BY <1>3, <1>5
    <2>2. m - 1 \notin T
      BY <1>2, <2>1
    <2>3. PICK f \in [1 .. m - 1 -> Seq(E)] : Joint(f, m - 1, parts)
      BY <2>1, <2>2
    <2> DEFINE g == [i \in 1 .. m |-> IF i < m THEN f[i] ELSE f[m - 1] \o parts[m]]
    <2>4. parts[m] \in Seq(E) /\ f[m - 1] \in Seq(E)
      BY <1>3, <2>1
    <2>5. f[m - 1] \o parts[m] \in Seq(E)
      BY <2>4, ConcatProperties
    <2>6. ASSUME NEW i \in 1 .. m
          PROVE  g[i] \in Seq(E) /\ g[i] = IF i = 1 THEN parts[i] ELSE g[i - 1] \o parts[i]
      <3>1. CASE i = m
        <4>1. g[i] = f[m - 1] \o parts[m] /\ g[m - 1] = f[m - 1]
          BY <1>3, <2>1, <3>1
        <4> HIDE DEF g
        <4> QED BY <1>5, <2>5, <3>1, <4>1
      <3>2. CASE i # m
        <4>1. i \in 1 .. m - 1 /\ i < m
          BY <1>3, <3>2
        <4>2. g[i] = f[i] /\ f[i] \in Seq(E) /\ f[i] = IF i = 1 THEN parts[i] ELSE f[i - 1] \o parts[i]
          BY <2>3, <4>1 DEF Joint
        <4>3. i # 1 => g[i - 1] = f[i - 1]
          BY <1>3, <4>1
        <4> HIDE DEF g
        <4> QED BY <4>2, <4>3
      <3> QED BY <3>1, <3>2
    <2>7. g \in [1 .. m -> Seq(E)]
      <3>1. g = [i \in 1 .. m |-> g[i]]
        OBVIOUS
      <3> HIDE DEF g
      <3> QED BY <2>6, <3>1
    <2>8. Joint(g, m, parts)
      <3> HIDE DEF g
      <3> QED BY <2>6 DEF Joint
    <2> QED BY <1>3, <2>7, <2>8
  <1> QED BY <1>4, <1>5

LEMMA JointIsOne ==
  ASSUME NEW n \in Nat, NEW parts, NEW f, Joint(f, n, parts), NEW g, Joint(g, n, parts),
         NEW i \in 1 .. n
  PROVE  f[i] = g[i]
  <1> DEFINE T == {j \in 1 .. n : f[j] # g[j]}
  <1>1. SUFFICES ASSUME T # {} PROVE FALSE
    BY <1>1
  <1>2. PICK j \in T : \A k \in T : j <= k
    <2>1. T \subseteq Nat
      OBVIOUS
    <2> HIDE DEF T
    <2> QED BY <1>1, <2>1, Least
  <1>3. j \in 1 .. n /\ f[j] # g[j]
    BY <1>2
  <1>4. j # 1
    BY <1>3 DEF Joint
  <1>5. j - 1 \in 1 .. n /\ ~(j <= j - 1)
    BY <1>3, <1>4
  <1>6. f[j - 1] = g[j - 1]
    BY <1>2, <1>5
  <1>7. f[j] = f[j - 1] \o parts[j] /\ g[j] = g[j - 1] \o parts[j]
    BY <1>3, <1>4 DEF Joint
  <1> QED BY <1>3, <1>6, <1>7

LEMMA FlattenIsJoint ==
  ASSUME NEW E, NEW n \in Nat \ {0}, NEW parts \in [1 .. n -> Seq(E)],
         NEW w \in [1 .. n -> Seq(E)], Joint(w, n, parts)
  PROVE  FlattenSeq(parts) = w[n]
  <1> DEFINE Joins(g) == g = [i \in 1 .. n |-> IF i = 1 THEN parts[i] ELSE g[i - 1] \o parts[i]]
             h == CHOOSE g : Joins(g)
  <1>1. Joins(w)
    <2>1. w = [i \in 1 .. n |-> w[i]]
      OBVIOUS
    <2>2. [i \in 1 .. n |-> w[i]] = [i \in 1 .. n |-> IF i = 1 THEN parts[i] ELSE w[i - 1] \o parts[i]]
      BY DEF Joint
    <2> QED BY <2>1, <2>2
  <1>2. Joins(h)
    <2> HIDE DEF Joins
    <2> QED BY <1>1
  <1>3. \A i \in 1 .. n : h[i] = IF i = 1 THEN parts[i] ELSE h[i - 1] \o parts[i]
    <2> HIDE DEF h
    <2> QED BY <1>2
  <1>4. Len(parts) = n
    OBVIOUS
  <1>5. FlattenSeq(parts) = h[n]
    BY <1>4 DEF FlattenSeq, h, Joins
  <1> HIDE DEF h, Joins
  <1>6. n \in 1 .. n /\ n \in Nat
    OBVIOUS
  <1>7. Joint(h, n, parts)
    BY <1>3 DEF Joint
  <1>8. h[n] = w[n]
    BY <1>6, <1>7, JointIsOne
  <1> QED BY <1>5, <1>8

(* The offsets of the parts in the whole.                                  *)
Offsets(off, parts, whole) ==
  LET n == Len(parts)
  IN  /\ off \in [0 .. n -> Nat] /\ off[0] = 0 /\ off[n] = Len(whole)
      /\ \A i \in 1 .. n :
           /\ off[i] = off[i - 1] + Len(parts[i])
           /\ \A k \in 1 .. Len(parts[i]) : whole[off[i - 1] + k] = parts[i][k]

LEMMA RaisedBy ==
  ASSUME NEW a \in Nat, NEW b \in Nat, NEW c \in Nat, NEW d, a <= b, d = b + c
  PROVE  a <= d
  OBVIOUS

LEMMA Flattened ==
  ASSUME NEW E, NEW n \in Nat, NEW parts \in [1 .. n -> Seq(E)]
  PROVE  /\ FlattenSeq(parts) \in Seq(E) /\ Len(parts) = n
         /\ \E off : Offsets(off, parts, FlattenSeq(parts))
  <1>0. Len(parts) = n
    OBVIOUS
  <1>1. CASE n = 0
    <2>1. FlattenSeq(parts) = parts
      BY <1>0, <1>1 DEF FlattenSeq
    <2>2. parts \in Seq(E)
      <3>1. parts = << >>
        BY <1>1
      <3> QED BY <3>1
    <2> DEFINE off == [i \in 0 .. 0 |-> 0]
    <2>3. Offsets(off, parts, parts)
      BY <1>0, <1>1 DEF Offsets
    <2> QED BY <1>0, <2>1, <2>2, <2>3
  <1>2. CASE n # 0
    <2>1. PICK w \in [1 .. n -> Seq(E)] : Joint(w, n, parts)
      BY <1>2, JointExists
    <2>2. FlattenSeq(parts) = w[n]
      BY <1>2, <2>1, FlattenIsJoint
    <2>3. \A i \in 1 .. n : w[i] \in Seq(E) /\ Len(w[i]) \in Nat /\ parts[i] \in Seq(E) /\ Len(parts[i]) \in Nat
      BY <2>1
    <2> DEFINE off == [i \in 0 .. n |-> IF i = 0 THEN 0 ELSE Len(w[i])]
    <2>4. ASSUME NEW i \in 1 .. n
          PROVE  /\ off[i] = off[i - 1] + Len(parts[i]) /\ off[i] = Len(w[i]) /\ off[i - 1] \in Nat
                 /\ \A k \in 1 .. Len(parts[i]) : w[i][off[i - 1] + k] = parts[i][k]
      <3>1. CASE i = 1
        <4>1. w[i] = parts[i]
          BY <2>1, <3>1 DEF Joint
        <4> QED BY <2>3, <3>1, <4>1
      <3>2. CASE i # 1
        <4>1. i - 1 \in 1 .. n /\ i - 1 # 0 /\ w[i] = w[i - 1] \o parts[i]
          BY <2>1, <3>2 DEF Joint
        <4>2. i - 1 \in 0 .. n /\ i \in 0 .. n /\ i # 0
          BY <4>1
        <4>3. off[i - 1] = Len(w[i - 1])
          BY <4>1, <4>2
        <4>4. off[i] = Len(w[i])
          BY <4>2
        <4> HIDE DEF off
        <4> QED BY <2>3, <4>1, <4>3, <4>4
      <3> QED BY <3>1, <3>2
    <2>5. off \in [0 .. n -> Nat] /\ off[0] = 0 /\ off[n] = Len(w[n])
      BY <2>3, <1>2
    <2> HIDE DEF off
    <2>6. ASSUME NEW i \in 1 .. n, NEW p \in 1 .. off[i]
          PROVE  w[n][p] = w[i][p]
      <3> DEFINE T == {j \in i .. n : ~(off[i] <= off[j] /\ w[j][p] = w[i][p])}
      <3>1. SUFFICES ASSUME T # {} PROVE FALSE
        <4>1. n \in i .. n
          OBVIOUS
        <4> QED BY <3>1, <4>1
      <3>2. PICK j \in T : \A k \in T : j <= k
        <4>1. T \subseteq Nat
          OBVIOUS
        <4> HIDE DEF T
        <4> QED BY <3>1, <4>1, Least
      <3>3. j \in i .. n /\ j \in 1 .. n /\ ~(off[i] <= off[j] /\ w[j][p] = w[i][p])
        BY <3>2
      <3>4. off[i] \in Nat /\ off[j] \in Nat
        BY <2>3, <2>4, <3>3
      <3>5. j # i
        BY <3>3, <3>4
      <3>6. j - 1 \in i .. n /\ j - 1 \in 1 .. n /\ ~(j <= j - 1) /\ j # 1
        BY <3>3, <3>5
      <3>7. off[i] <= off[j - 1] /\ w[j - 1][p] = w[i][p]
        BY <3>2, <3>6
      <3>8. w[j] = w[j - 1] \o parts[j]
        BY <2>1, <3>3, <3>6 DEF Joint
      <3>9. off[j - 1] = Len(w[j - 1]) /\ off[j] = off[j - 1] + Len(parts[j])
        BY <2>4, <3>3, <3>6
      <3>10. w[j - 1] \in Seq(E) /\ parts[j] \in Seq(E)
        BY <3>3, <3>6
      <3>11. p \in 1 .. Len(w[j - 1])
        BY <3>4, <3>7, <3>9, <3>10
      <3>12. w[j][p] = w[j - 1][p]
        <4> DEFINE a == w[j - 1]
                   b == parts[j]
        <4>1. a \in Seq(E) /\ b \in Seq(E) /\ p \in 1 .. Len(a)
          BY <3>10, <3>11
        <4> HIDE DEF a, b
        <4>2. (a \o b)[p] = a[p]
          BY <4>1
        <4> QED BY <3>8, <4>2 DEF a, b
      <3>13. Len(parts[j]) \in Nat /\ off[j - 1] \in Nat
        BY <2>4, <3>3, <3>10
      <3> HIDE DEF T
      <3>14. off[i] <= off[j]
        <4> HIDE DEF T
        <4>1. off[j] = off[j - 1] + Len(parts[j]) /\ off[i] <= off[j - 1]
          BY <3>7, <3>9
        <4> QED BY <3>4, <3>13, <4>1, RaisedBy, Zenon
      <3>15. w[j][p] = w[i][p]
        BY <3>7, <3>12, Zenon
      <3> QED BY <3>3, <3>14, <3>15, Zenon
    <2>7. ASSUME NEW i \in 1 .. n, NEW k \in 1 .. Len(parts[i])
          PROVE  w[n][off[i - 1] + k] = parts[i][k]
      <3>1. off[i - 1] + k \in 1 .. off[i]
        BY <2>3, <2>4
      <3>2. w[n][off[i - 1] + k] = w[i][off[i - 1] + k]
        BY <2>6, <3>1
      <3> QED BY <2>4, <3>2
    <2>8. Offsets(off, parts, w[n])
      BY <1>0, <2>4, <2>5, <2>7 DEF Offsets
    <2>9. w[n] \in Seq(E)
      BY <1>2, <2>3
    <2> QED BY <1>0, <2>2, <2>8, <2>9
  <1> QED BY <1>1, <1>2

(***************************************************************************)
(* The mezzanines and what is encoded of them.                             *)
(***************************************************************************)
Names == {Clips[c].name : c \in DOMAIN Clips}

AnyFrame == (Names \X Nat) \cup {Black}

IsMezzanine(m) ==
  m \in [clip : Names, slots : SUBSET Nat, duration : Nat \ {0}] /\ IsFiniteSet(m.slots)

LEMMA MezzanineType ==
  ASSUME NEW c \in DOMAIN Clips, NEW limit \in Nat
  PROVE  LET m == Mezzanine(Clips[c], limit)
         IN  /\ IsMezzanine(m)
             /\ m.slots = {s \in Clips[c].slots : limit = 0 \/ s * Period < limit}
             /\ limit = 0 => m.duration = Clips[c].duration
             /\ 0 < limit /\ limit < Clips[c].duration => limit <= m.duration
  <1> DEFINE clip == Clips[c]
             kept == {s \in clip.slots : limit = 0 \/ s * Period < limit}
             ends == {limit} \union {(s + 1) * Period : s \in kept}
             d == IF limit = 0 \/ limit >= clip.duration THEN clip.duration ELSE Max(ends)
             m == Mezzanine(clip, limit)
  <1>1. /\ clip.slots \in SUBSET Nat /\ IsFiniteSet(clip.slots) /\ clip.duration \in Nat \ {0}
        /\ clip.name \in Names
    BY ClipAssumption DEF Names
  <1>2. m = [clip |-> clip.name, slots |-> kept, duration |-> d]
    BY DEF Mezzanine
  <1>3. kept \in SUBSET clip.slots
    OBVIOUS
  <1>4. IsFiniteSet(kept) /\ kept \in SUBSET Nat
    BY <1>1, <1>3, FS_Subset
  <1> HIDE DEF kept
  <1>5. Max(ends) \in Nat /\ limit <= Max(ends)
    <2> DEFINE shown == {(s + 1) * Period : s \in kept}
    <2>1. IsFiniteSet(shown)
      <3> DEFINE f == [s \in kept |-> (s + 1) * Period]
      <3>1. shown = {f[s] : s \in kept}
        OBVIOUS
      <3>2. \A s \in kept : f[s] \in shown
        OBVIOUS
      <3>3. f \in [kept -> shown]
        OBVIOUS
      <3> HIDE DEF f, shown
      <3>4. f \in Surjection(kept, shown)
        BY <3>1, <3>3 DEF Surjection
      <3> QED BY <1>4, <3>4, FS_Surjection
    <2>2. IsFiniteSet(ends) /\ limit \in ends
      BY <2>1, FS_AddElement, FS_Union, FS_Singleton
    <2>3. ends \in SUBSET Nat
      <3>1. Period \in Nat
        BY TicksAssumption
      <3>2. \A s \in kept : (s + 1) * Period \in Nat
        BY <1>4, <3>1
      <3> QED BY <3>2
    <2> HIDE DEF ends
    <2> QED BY <2>2, <2>3, MaxIsIn
  <1> HIDE DEF ends
  <1>6. d \in Nat \ {0}
    BY <1>1, <1>5
  <1>7. limit = 0 => d = clip.duration
    OBVIOUS
  <1>8. 0 < limit /\ limit < clip.duration => limit <= d
    BY <1>1, <1>5
  <1> HIDE DEF d
  <1>9. m \in [clip : Names, slots : SUBSET Nat, duration : Nat \ {0}] /\ m.slots = kept /\ m.duration = d
    BY <1>1, <1>2, <1>4, <1>6
  <1> QED BY <1>4, <1>7, <1>8, <1>9 DEF IsMezzanine, kept

LEMMA BoundaryType ==
  ASSUME NEW o, o.seg \in Nat \ {0}
  PROVE  PadBoundary(o) \in Nat \ {0}
  <1>1. Max({1, Partial}) \in Nat \ {0} /\ Gop \in Nat \ {0}
    BY SegmentAssumption, MaxOfTwo
  <1>2. Lcm(o.seg, Max({1, Partial})) \in Nat \ {0}
    BY <1>1, LcmIsMultiple
  <1> QED BY <1>1, <1>2, LcmIsMultiple DEF PadBoundary

LEMMA PaddingType ==
  ASSUME NEW o, o.seg \in Nat \ {0}, NEW d \in Nat
  PROVE  Padding(o, d) \in Nat /\ Padding(o, d) \in {0, PadTo(d, PadBoundary(o))}
  <1>1. PadBoundary(o) \in Nat \ {0}
    BY BoundaryType
  <1>2. d % PadBoundary(o) \in 0 .. PadBoundary(o) - 1
    BY <1>1, Division
  <1>3. PadTo(d, PadBoundary(o)) \in Nat
    BY <1>1, <1>2, TicksAssumption DEF PadTo
  <1> QED BY <1>3 DEF Padding

LEMMA FramesBeforeType ==
  ASSUME NEW m, IsMezzanine(m), NEW t \in Nat, NEW table \in BOOLEAN
  PROVE  FramesBefore(t, m, table) \in Nat
  <1>1. {s \in m.slots : s * Period < t} \in SUBSET m.slots
    OBVIOUS
  <1>2. Cardinality({s \in m.slots : s * Period < t}) \in Nat
    BY <1>1, FS_Subset, FS_CardinalityType DEF IsMezzanine
  <1>3. CeilDiv(t, Period) \in Nat
    BY TicksAssumption, RoundingUp
  <1> QED BY <1>2, <1>3 DEF FramesBefore

LEMMA FilteredType ==
  ASSUME NEW m, IsMezzanine(m), NEW t \in Nat, NEW pad \in Nat
  PROVE  Filtered(m, t, pad) \in Seq(AnyFrame)
  <1> DEFINE shown == Ascending({s \in m.slots : s * Period >= t})
             S == {s \in m.slots : s * Period >= t}
             p == CeilDiv(pad, Period)
  <1>1. S \in SUBSET m.slots /\ m.slots \in SUBSET Nat /\ IsFiniteSet(m.slots) /\ m.clip \in Names
    BY DEF IsMezzanine
  <1>2. S \in SUBSET Nat /\ IsFiniteSet(S)
    BY <1>1, FS_Subset
  <1>3. Lists(shown, S) /\ Cardinality(S) \in Nat
    BY <1>2, AscendingLists, FS_CardinalityType
  <1>4. p \in Nat
    BY TicksAssumption, RoundingUp
  <1> HIDE DEF shown, S, p
  <1>5. DOMAIN shown = 1 .. Cardinality(S) /\ \A i \in DOMAIN shown : shown[i] \in Nat
    BY <1>2, <1>3 DEF Lists
  <1>6. Decoded(m, t) = [i \in DOMAIN shown |-> <<m.clip, shown[i]>>]
    BY DEF Decoded, shown
  <1>7. Decoded(m, t) \in Seq(AnyFrame)
    <2>1. \A i \in DOMAIN shown : <<m.clip, shown[i]>> \in AnyFrame
      BY <1>1, <1>5 DEF AnyFrame
    <2> QED BY <1>3, <1>5, <1>6, <2>1
  <1>8. [i \in 1 .. p |-> Black] \in Seq(AnyFrame)
    <2>1. Black \in AnyFrame
      BY DEF AnyFrame
    <2> QED BY <1>4, <2>1
  <1>9. Filtered(m, t, pad) = Decoded(m, t) \o [i \in 1 .. p |-> Black]
    BY DEF Filtered, p
  <1> QED BY <1>7, <1>8, <1>9, ConcatProperties

LEMMA PrefixType ==
  ASSUME NEW E, NEW s \in Seq(E), NEW k \in Int, k <= Len(s)
  PROVE  SubSeq(s, 1, k) \in Seq(E)
  <1>1. CASE k >= 0
    <2>1. 1 \in 1 .. Len(s) + 1 /\ k \in 1 - 1 .. Len(s)
      BY <1>1
    <2> QED BY <2>1, SubSeqProperties
  <1>2. CASE k < 0
    <2>1. SubSeq(s, 1, k) = << >>
      BY <1>2
    <2> QED BY <2>1
  <1> QED BY <1>1, <1>2

LEMMA EncodedType ==
  ASSUME NEW m, IsMezzanine(m), NEW tile \in Tile, NEW total, NEW pad \in Nat, NEW table \in BOOLEAN
  PROVE  EncodedChunk(m, tile, total, pad, table) \in Seq(AnyFrame)
  <1> DEFINE shown == Filtered(m, tile.start, pad)
             share == FramesBefore(tile.end, m, table) - FramesBefore(tile.start, m, table)
             k == Min({share, Len(shown)})
  <1>1. tile.start \in Nat /\ tile.end \in Nat
    BY DEF Tile
  <1>2. shown \in Seq(AnyFrame) /\ share \in Int
    <2>1. shown \in Seq(AnyFrame)
      BY <1>1, FilteredType
    <2>2. FramesBefore(tile.end, m, table) \in Nat /\ FramesBefore(tile.start, m, table) \in Nat
      BY <1>1, FramesBeforeType
    <2> QED BY <2>1, <2>2
  <1>3. Len(shown) \in Nat
    BY <1>2
  <1>4. k \in Int /\ k <= Len(shown)
    <2> HIDE DEF share, shown
    <2> QED BY <1>2, <1>3, MinOfTwo
  <1>5. EncodedChunk(m, tile, total, pad, table) = IF tile.end < total THEN SubSeq(shown, 1, k) ELSE shown
    BY DEF EncodedChunk
  <1> HIDE DEF shown, k
  <1> QED BY <1>2, <1>4, <1>5, PrefixType

(***************************************************************************)
(* The files of a store.                                                   *)
(***************************************************************************)
AllVariants == UNION {Variants(o) : o \in Asked}

(* A file of a variant, of the whole or of a chunk.                        *)
IsPiece(f) == \E v \in AllVariants : f = Name(v[1], v[2], f[3]) /\ f[3] \in Nat

IsName(f) == f = MezzFile \/ f = AudioFile \/ IsPiece(f)

ContentOK(f, x) ==
  /\ f = MezzFile => IsMezzanine(x)
  /\ f = AudioFile => x[2] \in Nat
  /\ IsPiece(f) => x \in Seq(AnyFrame)

FilesOK(files) ==
  /\ IsFiniteSet(DOMAIN files)
  /\ \A f \in DOMAIN files : IsName(f) /\ (IsComplete(files, f) => ContentOK(f, files[f].content))

LEMMA PieceType ==
  ASSUME NEW f, IsPiece(f)
  PROVE  /\ f = <<f[1], f[2], f[3]>> /\ f[2] \in Label /\ f[3] \in Nat
         /\ f # MezzFile /\ f # AudioFile
  <1>1. PICK v \in AllVariants : f = Name(v[1], v[2], f[3]) /\ f[3] \in Nat
    BY DEF IsPiece
  <1>2. v[2] \in Label /\ v[2] # Audio
    BY AskedIsValid, VariantType DEF AllVariants
  <1>3. f = <<v[1], v[2], f[3]>>
    BY <1>1 DEF Name
  <1>4. f[2] = v[2] /\ f[1] = v[1]
    BY <1>3
  <1>5. f # MezzFile /\ f # AudioFile
    BY <1>2, <1>3 DEF MezzFile, AudioFile, Name
  <1> QED BY <1>1, <1>2, <1>3, <1>4, <1>5

LEMMA SpecialNames ==
  /\ MezzFile # AudioFile /\ ~IsPiece(MezzFile) /\ ~IsPiece(AudioFile)
  /\ MezzFile[2] = Audio /\ AudioFile[2] = Audio /\ MezzFile[1] = "mezzanine" /\ AudioFile[1] = "audio"
  BY PieceType DEF MezzFile, AudioFile, Name

LEMMA NameParts ==
  ASSUME NEW c, NEW l, NEW i
  PROVE  Name(c, l, i)[1] = c /\ Name(c, l, i)[2] = l /\ Name(c, l, i)[3] = i
  BY DEF Name

LEMMA PieceOf ==
  ASSUME NEW o \in Asked, NEW v \in Variants(o), NEW i \in Nat
  PROVE  IsPiece(Name(v[1], v[2], i))
  <1>1. v \in AllVariants
    BY DEF AllVariants
  <1> QED BY <1>1, NameParts DEF IsPiece

(* Some files written over others.                                         *)
LEMMA Wrote ==
  ASSUME NEW files, NEW names, NEW file
  PROVE  LET now == Put(files, names, file)
         IN  /\ DOMAIN now = names \cup DOMAIN files
             /\ \A f \in names : now[f] = file /\ (IsComplete(now, f) <=> file.done)
             /\ \A f : f \notin names => (IsComplete(now, f) <=> IsComplete(files, f))
             /\ \A f \in DOMAIN files : f \notin names => now[f] = files[f]
  <1> DEFINE now == Put(files, names, file)
  <1>1. DOMAIN now = names \cup DOMAIN files
    BY DEF Put, Over
  <1>2. \A f \in names : now[f] = file
    BY DEF Put, Over
  <1>3. \A f \in DOMAIN files : f \notin names => now[f] = files[f]
    BY DEF Put, Over
  <1> HIDE DEF now
  <1> QED BY <1>1, <1>2, <1>3 DEF IsComplete, now

LEMMA WroteOK ==
  ASSUME NEW files, FilesOK(files), NEW names, IsFiniteSet(names), \A f \in names : IsName(f),
         NEW file, ~file.done \/ \A f \in names : ContentOK(f, file.content)
  PROVE  FilesOK(Put(files, names, file))
  <1> DEFINE now == Put(files, names, file)
  <1>1. /\ DOMAIN now = names \cup DOMAIN files
        /\ \A f \in names : now[f] = file /\ (IsComplete(now, f) <=> file.done)
        /\ \A f : f \notin names => (IsComplete(now, f) <=> IsComplete(files, f))
        /\ \A f \in DOMAIN files : f \notin names => now[f] = files[f]
    BY Wrote
  <1> HIDE DEF now
  <1>2. IsFiniteSet(names \cup DOMAIN files)
    BY FS_Union DEF FilesOK
  <1>3. ASSUME NEW f \in DOMAIN now PROVE IsName(f) /\ (IsComplete(now, f) => ContentOK(f, now[f].content))
    <2>1. CASE f \in names
      BY <1>1, <2>1
    <2>2. CASE f \notin names
      BY <1>1, <2>2 DEF FilesOK
    <2> QED BY <2>1, <2>2
  <1> QED BY <1>1, <1>2, <1>3 DEF FilesOK, now

LEMMA KeptOK ==
  ASSUME NEW files, FilesOK(files), NEW S \in SUBSET DOMAIN files
  PROVE  /\ FilesOK(Restrict(files, S)) /\ DOMAIN Restrict(files, S) = S
         /\ \A f \in S : Restrict(files, S)[f] = files[f]
                         /\ (IsComplete(Restrict(files, S), f) <=> IsComplete(files, f))
  <1>1. DOMAIN Restrict(files, S) = S /\ \A f \in S : Restrict(files, S)[f] = files[f]
    BY DEF Restrict
  <1>2. IsFiniteSet(S)
    BY FS_Subset DEF FilesOK
  <1> QED BY <1>1, <1>2 DEF FilesOK, IsComplete

(* What is left of the files of an earlier run.                            *)
LEMMA SweptOK ==
  ASSUME NEW o, NEW files, FilesOK(files)
  PROVE  /\ FilesOK(Swept(o, files)) /\ DOMAIN Swept(o, files) \in SUBSET DOMAIN files
         /\ \A f \in DOMAIN Swept(o, files) : /\ Swept(o, files)[f] = files[f]
                                              /\ IsComplete(files, f) /\ IsComplete(Swept(o, files), f)
                                              /\ o.force => f = MezzFile
  <1> DEFINE whole == SweepPartials(files)
  <1>1. /\ FilesOK(whole) /\ DOMAIN whole = {f \in DOMAIN files : IsComplete(files, f)}
        /\ \A f \in DOMAIN whole : whole[f] = files[f] /\ IsComplete(whole, f) /\ IsComplete(files, f)
    BY KeptOK DEF SweepPartials
  <1> HIDE DEF whole
  <1>2. LET mezz == SweepReusable(whole)
        IN  /\ FilesOK(mezz) /\ DOMAIN mezz = DOMAIN whole \cap {MezzFile}
            /\ \A f \in DOMAIN mezz : mezz[f] = whole[f] /\ (IsComplete(mezz, f) <=> IsComplete(whole, f))
    BY <1>1, KeptOK DEF SweepReusable
  <1>3. Swept(o, files) = IF o.force THEN SweepReusable(whole) ELSE whole
    BY DEF Swept, whole
  <1> QED BY <1>1, <1>2, <1>3

(***************************************************************************)
(* The types, and which phase leaves what.                                 *)
(***************************************************************************)
Phases == {"idle", "mezzanine", "plan", "encode", "concat", "package", "done", "failed"}

Underway == {"plan", "encode", "concat", "package"}

Padded == Padding(opt, Mezz.duration)

(* The units a local run may have.                                         *)
LocalPlan(o, duration) ==
  LET tiles == DOMAIN LocalTiling(o, duration)
  IN  {[codec |-> v[1], labels |-> <<v[2]>>, chunk |-> i, key |-> 0] :
         v \in Variants(o), i \in IF tiles = {} THEN {0} ELSE tiles}

(* The units of the run in progress.                                       *)
Units == IF OnFarm(opt) THEN FarmUnits(opt) ELSE LocalPlan(opt, Duration)

TypeInv ==
  /\ pc \in Phases /\ opt \in Asked /\ run \in Nat /\ error \in BOOLEAN /\ reads \in BOOLEAN
  /\ DOMAIN store = {"local", "farm"} /\ FilesOK(store["local"]) /\ FilesOK(store["farm"])
  /\ opt.mode # "resume" /\ pc \in Underway => IsComplete(store[Where], MezzFile)
  /\ pc \in {"mezzanine", "plan", "encode", "concat"} => opt.mode # "resume"
  /\ pc = "encode" => todo \subseteq Units
  /\ pc = "concat" => todo \subseteq Variants(opt)
  /\ pc = "package" => todo \subseteq ToPackage

LEMMA WhereType ==
  ASSUME TypeInv
  PROVE  /\ Where \in {"local", "farm"} /\ FilesOK(store[Where])
         /\ opt.mode = "resume" => Where = "local"
  BY DEF TypeInv, Where, OnFarm

LEMMA MezzType ==
  ASSUME TypeInv, opt.mode # "resume", pc \in Underway
  PROVE  /\ IsMezzanine(Mezz) /\ Mezz.duration \in Nat \ {0} /\ MezzFile \in DOMAIN store[Where]
         /\ Padded \in Nat /\ Duration = Mezz.duration + Padded /\ Duration \in Nat \ {0}
         /\ Padded \in {0, PadTo(Mezz.duration, PadBoundary(opt))}
  <1>1. FilesOK(store[Where]) /\ IsComplete(store[Where], MezzFile)
    BY WhereType DEF TypeInv
  <1>2. MezzFile \in DOMAIN store[Where] /\ IsMezzanine(Mezz)
    BY <1>1 DEF FilesOK, ContentOK, IsComplete, Mezz
  <1>3. Mezz.duration \in Nat \ {0}
    BY <1>2 DEF IsMezzanine
  <1>4. opt.seg \in Nat \ {0}
    BY AskedIsValid DEF TypeInv, Valid
  <1>5. Padded \in Nat /\ Padded \in {0, PadTo(Mezz.duration, PadBoundary(opt))}
    BY <1>3, <1>4, PaddingType DEF Padded
  <1>6. Duration = Mezz.duration + Padded
    BY DEF Duration, Padded
  <1> QED BY <1>2, <1>3, <1>5, <1>6

LEMMA LocalTilingType ==
  ASSUME NEW o, o.chunk \in Nat, o.seg \in Nat \ {0}, NEW d \in Nat \ {0}
  PROVE  LET t == LocalTiling(o, d)
         IN  \/ t = <<>> /\ DOMAIN t = {}
             \/ /\ o.chunk # 0 /\ t = Tiling(d, o.chunk, o.seg) /\ t \in Seq(Tile) /\ EndToEnd(t, d)
                /\ Len(t) \in Nat \ {0} /\ DOMAIN t = 1 .. Len(t) /\ t # <<>>
  <1>1. CASE o.chunk = 0 \/ LocalTiling(o, d) = <<>>
    BY <1>1 DEF LocalTiling
  <1>2. CASE o.chunk # 0 /\ LocalTiling(o, d) # <<>>
    <2>1. LocalTiling(o, d) = Tiling(d, o.chunk, o.seg)
      BY <1>2 DEF LocalTiling
    <2> DEFINE t == Tiling(d, o.chunk, o.seg)
    <2>2. /\ t \in Seq(Tile) /\ EndToEnd(t, d)
          /\ Len(t) \in Nat \ {0} /\ DOMAIN t = 1 .. Len(t)
      BY <1>2, TilingType
    <2> HIDE DEF t
    <2> QED BY <1>2, <2>1, <2>2 DEF t
  <1> QED BY <1>1, <1>2

(* A unit of the run in progress.                                          *)
LEMMA UnitType ==
  ASSUME TypeInv, pc = "encode", NEW u \in Units
  PROVE  /\ u.chunk \in Nat /\ TileOf(u) \in Tile /\ 1 \in DOMAIN u.labels
         /\ IsFiniteSet(DOMAIN u.labels)
         /\ \A i \in DOMAIN u.labels : <<u.codec, u.labels[i]>> \in Variants(opt)
         /\ \A f \in Outputs(u) : IsPiece(f) /\ f[1] = u.codec /\ f[3] = u.chunk
                                  /\ \E i \in DOMAIN u.labels : f[2] = u.labels[i]
         /\ IsFiniteSet(Outputs(u)) /\ Name(u.codec, u.labels[1], u.chunk) \in Outputs(u)
  <1>1. Valid(opt) /\ opt \in Asked
    BY AskedIsValid DEF TypeInv
  <1>2. Duration \in Nat \ {0}
    BY MezzType DEF TypeInv, Underway
  <1> DEFINE Typed == /\ u.chunk \in Nat /\ TileOf(u) \in Tile /\ 1 \in DOMAIN u.labels
                      /\ IsFiniteSet(DOMAIN u.labels)
                      /\ \A i \in DOMAIN u.labels : <<u.codec, u.labels[i]>> \in Variants(opt)
  <1>3. ASSUME OnFarm(opt) PROVE Typed
    <2>1. u \in FarmUnits(opt)
      BY <1>3 DEF Units
    <2> DEFINE t == FarmTiling(opt, <<u.codec, u.labels[1]>>)
    <2>2. u.chunk \in 1 .. Len(t) /\ t \in Seq(Tile)
      BY <1>1, <2>1, FarmUnitType, FarmTilingType
    <2>3. u.chunk \in Nat /\ u.chunk # 0 /\ t[u.chunk] \in Tile
      BY <2>2
    <2>4. TileOf(u) = t[u.chunk]
      BY <1>3, <2>3 DEF TileOf
    <2> QED BY <1>1, <2>1, <2>3, <2>4, FarmUnitLabels
  <1>4. ASSUME ~OnFarm(opt) PROVE Typed
    <2> DEFINE t == LocalTiling(opt, Duration)
    <2>1. PICK v \in Variants(opt), i \in (IF DOMAIN t = {} THEN {0} ELSE DOMAIN t) :
            u = [codec |-> v[1], labels |-> <<v[2]>>, chunk |-> i, key |-> 0]
      BY <1>4 DEF Units, LocalPlan
    <2>2. u.codec = v[1] /\ u.labels = <<v[2]>> /\ u.chunk = i
      BY <2>1
    <2>3. DOMAIN u.labels = 1 .. 1 /\ u.labels[1] = v[2] /\ IsFiniteSet(1 .. 1)
      <3>1. IsFiniteSet(1 .. 1)
        <4>1. 1 .. 1 = {1}
          OBVIOUS
        <4> QED BY <4>1, FS_Singleton
      <3>2. DOMAIN <<v[2]>> = 1 .. 1
        OBVIOUS
      <3> QED BY <2>2, <3>1, <3>2
    <2>4. <<v[1], v[2]>> \in Variants(opt)
      BY <1>1, VariantType
    <2>5. opt.chunk \in Nat /\ opt.seg \in Nat \ {0}
      BY <1>1 DEF Valid
    <2>6. CASE DOMAIN t = {}
      <3>1. u.chunk = 0
        BY <2>1, <2>2, <2>6
      <3>2. TileOf(u) = [start |-> 0, end |-> Duration]
        BY <3>1 DEF TileOf
      <3> QED BY <1>2, <2>2, <2>3, <2>4, <3>1, <3>2 DEF Tile
    <2>7. CASE DOMAIN t # {}
      <3>1. t \in Seq(Tile) /\ DOMAIN t = 1 .. Len(t) /\ i \in DOMAIN t
        BY <1>2, <2>1, <2>5, <2>7, LocalTilingType
      <3>2. i \in Nat /\ i # 0 /\ t[i] \in Tile
        BY <3>1
      <3>3. TileOf(u) = t[i]
        BY <1>4, <2>2, <3>2 DEF TileOf
      <3> QED BY <2>2, <2>3, <2>4, <3>2, <3>3
    <2> QED BY <2>6, <2>7
  <1>5. /\ u.chunk \in Nat /\ TileOf(u) \in Tile /\ 1 \in DOMAIN u.labels
        /\ IsFiniteSet(DOMAIN u.labels)
        /\ \A i \in DOMAIN u.labels : <<u.codec, u.labels[i]>> \in Variants(opt)
    BY <1>3, <1>4
  <1>6. ASSUME NEW f \in Outputs(u)
        PROVE  IsPiece(f) /\ f[1] = u.codec /\ f[3] = u.chunk /\ \E i \in DOMAIN u.labels : f[2] = u.labels[i]
    <2>1. PICK i \in DOMAIN u.labels : f = Name(u.codec, u.labels[i], u.chunk)
      BY DEF Outputs
    <2> DEFINE v == <<u.codec, u.labels[i]>>
    <2>2. v \in Variants(opt) /\ v[1] = u.codec /\ v[2] = u.labels[i]
      BY <1>5
    <2> HIDE DEF v
    <2>3. IsPiece(Name(v[1], v[2], u.chunk))
      BY <1>1, <1>5, <2>2, PieceOf
    <2> QED BY <2>1, <2>2, <2>3, NameParts
  <1>7. IsFiniteSet(Outputs(u)) /\ Name(u.codec, u.labels[1], u.chunk) \in Outputs(u)
    <2> DEFINE g == [i \in DOMAIN u.labels |-> Name(u.codec, u.labels[i], u.chunk)]
    <2>1. Outputs(u) = {g[i] : i \in DOMAIN u.labels}
      BY DEF Outputs
    <2>2. g \in [DOMAIN u.labels -> Outputs(u)]
      BY <2>1
    <2> HIDE DEF g
    <2>3. g \in Surjection(DOMAIN u.labels, Outputs(u))
      BY <2>1, <2>2 DEF Surjection
    <2>4. IsFiniteSet(Outputs(u))
      BY <1>5, <2>3, FS_Surjection
    <2> QED BY <1>5, <2>4 DEF Outputs
  <1> QED BY <1>5, <1>6, <1>7

(* The mezzanine stays, and with it what is planned on it.                 *)
LEMMA PlanKept ==
  ASSUME opt' = opt, store'[Where][MezzFile] = store[Where][MezzFile]
  PROVE  /\ Where' = Where /\ Mezz' = Mezz /\ Duration' = Duration /\ Padded' = Padded
         /\ Units' = Units
         /\ \A u : TileOf(u)' = TileOf(u)
  <1>1. Where' = Where
    BY DEF Where, OnFarm
  <1>2. Mezz' = Mezz
    BY <1>1 DEF Mezz
  <1>3. Duration' = Duration /\ Padded' = Padded
    BY <1>2 DEF Duration, Padded
  <1>4. Units' = Units
    BY <1>3 DEF Units
  <1>5. ASSUME NEW u PROVE TileOf(u)' = TileOf(u)
    BY <1>3 DEF TileOf
  <1> QED BY <1>1, <1>2, <1>3, <1>4, <1>5

(* A step that writes files in the store of the run.                       *)
LEMMA StoreWritten ==
  ASSUME TypeInv, opt' = opt, NEW names, IsFiniteSet(names), \A f \in names : IsName(f),
         NEW file, ~file.done \/ \A f \in names : ContentOK(f, file.content),
         store' = [store EXCEPT ![Where] = Put(@, names, file)]
  PROVE  /\ DOMAIN store' = {"local", "farm"}
         /\ FilesOK(store'["local"]) /\ FilesOK(store'["farm"])
         /\ Where' = Where /\ store'[Where] = Put(store[Where], names, file)
         /\ \A w \in {"local", "farm"} : w # Where => store'[w] = store[w]
         /\ MezzFile \notin names /\ IsComplete(store[Where], MezzFile) =>
              /\ IsComplete(store'[Where], MezzFile)
              /\ store'[Where][MezzFile] = store[Where][MezzFile]
  <1>1. Where \in {"local", "farm"} /\ FilesOK(store[Where]) /\ DOMAIN store = {"local", "farm"}
    BY WhereType DEF TypeInv
  <1>2. FilesOK(Put(store[Where], names, file))
    BY <1>1, WroteOK
  <1>3. store'[Where] = Put(store[Where], names, file) /\ DOMAIN store' = {"local", "farm"}
        /\ \A w \in {"local", "farm"} : w # Where => store'[w] = store[w]
    BY <1>1
  <1>4. FilesOK(store'["local"]) /\ FilesOK(store'["farm"])
    BY <1>1, <1>2, <1>3 DEF TypeInv
  <1>5. Where' = Where
    BY DEF Where, OnFarm
  <1>6. MezzFile \notin names /\ IsComplete(store[Where], MezzFile) =>
          /\ IsComplete(Put(store[Where], names, file), MezzFile)
          /\ Put(store[Where], names, file)[MezzFile] = store[Where][MezzFile]
    <2> DEFINE files == store[Where]
               now == Put(files, names, file)
    <2>1. /\ \A f : f \notin names => (IsComplete(now, f) <=> IsComplete(files, f))
          /\ \A f \in DOMAIN files : f \notin names => now[f] = files[f]
      <3> HIDE DEF files
      <3> QED BY Wrote
    <2> HIDE DEF files, now
    <2>2. MezzFile \notin names /\ IsComplete(files, MezzFile) =>
            IsComplete(now, MezzFile) /\ now[MezzFile] = files[MezzFile]
      BY <2>1 DEF IsComplete
    <2> QED BY <2>2 DEF files, now
  <1> QED BY <1>3, <1>4, <1>5, <1>6

LEMMA FirstPiece ==
  ASSUME TypeInv, pc = "encode", NEW u \in todo
  PROVE  u \in Units /\ IsPiece(Name(u.codec, u.labels[1], u.chunk))
  <1>1. u \in Units
    BY DEF TypeInv
  <1> QED BY <1>1, UnitType

LEMMA WholePiece ==
  ASSUME TypeInv, NEW v \in Variants(opt)
  PROVE  IsPiece(Name(v[1], v[2], 0))
  BY PieceOf DEF TypeInv

(* A torn file is one all the same.                                        *)
LEMMA TornWritten ==
  ASSUME TypeInv, opt' = opt, NEW f, IsPiece(f), Store(f, Torn)
  PROVE  /\ DOMAIN store' = {"local", "farm"}
         /\ FilesOK(store'["local"]) /\ FilesOK(store'["farm"])
         /\ Where' = Where /\ store'[Where] = Put(store[Where], {f}, Torn)
         /\ \A w \in {"local", "farm"} : w # Where => store'[w] = store[w]
         /\ IsComplete(store[Where], MezzFile) =>
              /\ IsComplete(store'[Where], MezzFile)
              /\ store'[Where][MezzFile] = store[Where][MezzFile]
  <1>1. IsFiniteSet({f}) /\ \A g \in {f} : IsName(g)
    BY FS_Singleton DEF IsName
  <1>2. ~Torn.done /\ MezzFile \notin {f}
    BY PieceType DEF Torn
  <1>3. store' = [store EXCEPT ![Where] = Put(@, {f}, Torn)]
    BY DEF Store
  <1> QED BY <1>1, <1>2, <1>3, StoreWritten

(* A file that is done.                                                    *)
LEMMA DoneWritten ==
  ASSUME TypeInv, opt' = opt, NEW f, IsName(f), NEW x, ContentOK(f, x), Store(f, Done(x))
  PROVE  /\ DOMAIN store' = {"local", "farm"}
         /\ FilesOK(store'["local"]) /\ FilesOK(store'["farm"])
         /\ Where' = Where /\ store'[Where] = Put(store[Where], {f}, Done(x))
         /\ \A w \in {"local", "farm"} : w # Where => store'[w] = store[w]
         /\ f # MezzFile /\ IsComplete(store[Where], MezzFile) =>
              /\ IsComplete(store'[Where], MezzFile)
              /\ store'[Where][MezzFile] = store[Where][MezzFile]
  <1>1. IsFiniteSet({f}) /\ \A g \in {f} : IsName(g) /\ ContentOK(g, Done(x).content)
    BY FS_Singleton DEF Done
  <1> DEFINE file == Done(x)
  <1>2. store' = [store EXCEPT ![Where] = Put(@, {f}, file)]
    BY DEF Store
  <1>3. \A g \in {f} : ContentOK(g, file.content)
    BY <1>1
  <1> HIDE DEF file
  <1>4. /\ DOMAIN store' = {"local", "farm"}
        /\ FilesOK(store'["local"]) /\ FilesOK(store'["farm"])
        /\ Where' = Where /\ store'[Where] = Put(store[Where], {f}, file)
        /\ \A w \in {"local", "farm"} : w # Where => store'[w] = store[w]
        /\ MezzFile \notin {f} /\ IsComplete(store[Where], MezzFile) =>
             /\ IsComplete(store'[Where], MezzFile)
             /\ store'[Where][MezzFile] = store[Where][MezzFile]
    BY <1>1, <1>2, <1>3, StoreWritten
  <1> QED BY <1>4 DEF file

LEMMA InitType == Init => TypeInv
  <1> SUFFICES ASSUME Init PROVE TypeInv
    OBVIOUS
  <1>1. FilesOK(<< >>)
    BY FS_EmptySet DEF FilesOK
  <1>2. store["local"] = << >> /\ store["farm"] = << >> /\ DOMAIN store = {"local", "farm"}
    BY DEF Init
  <1> QED BY <1>1, <1>2 DEF Init, TypeInv, Phases, Underway, Asked

LEMMA BeginType ==
  ASSUME TypeInv, NEW o \in Options,
         Refuse(o) \/ StartFull(o) \/ StartFarm(o) \/ StartResume(o)
  PROVE  TypeInv'
  <1>1. run' \in Nat /\ error' \in BOOLEAN
    <2>1. Begin(o)
      BY DEF Refuse, StartFull, StartFarm, StartResume
    <2>2. run' = run + 1 /\ error' = FALSE
      BY <2>1 DEF Begin
    <2>3. run \in Nat
      BY DEF TypeInv
    <2>4. run' \in Nat
      BY <2>2, <2>3
    <2>5. error' \in BOOLEAN
      BY <2>2, Zenon
    <2> QED BY <2>4, <2>5
  <1>2. CASE Refuse(o)
    <2>1. pc' = "failed" /\ opt' = o /\ store' = store /\ reads' = reads
      BY <1>2 DEF Refuse
    <2> QED BY <1>1, <2>1 DEF TypeInv, Phases, Underway, Asked
  <1>3. CASE StartFull(o)
    <2>1. pc' = "mezzanine" /\ opt' = [o EXCEPT !.mode = "full"] /\ reads' \in BOOLEAN
          /\ store' = [store EXCEPT !["local"] = Swept(o, store["local"])]
      BY <1>3 DEF StartFull
    <2>2. opt' \in Asked /\ opt'.mode = "full"
      BY <2>1, OptionAssumption DEF Asked, OptionFields
    <2>3. FilesOK(Swept(o, store["local"]))
      BY SweptOK DEF TypeInv
    <2>4. DOMAIN store' = {"local", "farm"} /\ FilesOK(store'["local"]) /\ FilesOK(store'["farm"])
      BY <2>1, <2>3 DEF TypeInv
    <2> QED BY <1>1, <2>1, <2>2, <2>4 DEF TypeInv, Phases, Underway
  <1>4. CASE StartFarm(o)
    <2>1. pc' = "mezzanine" /\ opt' = o /\ reads' = TRUE /\ OnFarm(o)
          /\ store' = [store EXCEPT !["farm"] = << >>]
      BY <1>4 DEF StartFarm
    <2>2. FilesOK(<< >>)
      BY FS_EmptySet DEF FilesOK
    <2>3. DOMAIN store' = {"local", "farm"} /\ FilesOK(store'["local"]) /\ FilesOK(store'["farm"])
      BY <2>1, <2>2 DEF TypeInv
    <2> QED BY <1>1, <2>1, <2>3 DEF TypeInv, Phases, Underway, Asked, OnFarm
  <1>5. CASE StartResume(o)
    <2>1. pc' \in {"package", "failed"} /\ opt' = o /\ reads' = reads /\ store' = store /\ o.mode = "resume"
          /\ (pc' = "package" => todo' = ResolveCodecSelection(o))
      BY <1>5 DEF StartResume
    <2>2. ToPackage' = ResolveCodecSelection(o)
      BY <2>1 DEF ToPackage, ResolveCodecSelection, DiscoveredCodecs
    <2> QED BY <1>1, <2>1, <2>2 DEF TypeInv, Phases, Underway, Asked
  <1> QED BY <1>2, <1>3, <1>4, <1>5

LEMMA MezzanineKeepsType ==
  ASSUME TypeInv, MakeMezzanine
  PROVE  /\ TypeInv' /\ opt' = opt /\ Where' = Where
         /\ \A w \in {"local", "farm"} : w # Where => store'[w] = store[w]
         /\ IF IsComplete(store[Where], MezzFile) THEN store' = store
            ELSE store'[Where] = Put(store[Where], {MezzFile}, Done(Mezzanine(Info(opt), LimitOf(opt))))
  <1>1. pc' = "plan" /\ opt' = opt /\ UNCHANGED <<run, error, reads>> /\ pc = "mezzanine"
    BY DEF MakeMezzanine
  <1>2. Where' = Where /\ opt.mode # "resume"
    BY <1>1 DEF Where, OnFarm, TypeInv
  <1>3. CASE IsComplete(store[Where], MezzFile)
    <2>1. store' = store
      BY <1>3 DEF MakeMezzanine
    <2> QED BY <1>1, <1>2, <1>3, <2>1 DEF TypeInv, Phases, Underway
  <1>4. CASE ~IsComplete(store[Where], MezzFile)
    <2> DEFINE m == Mezzanine(Info(opt), LimitOf(opt))
    <2>1. Store(MezzFile, Done(m))
      BY <1>4 DEF MakeMezzanine
    <2>2. IsMezzanine(m)
      <3>1. Valid(opt)
        BY AskedIsValid DEF TypeInv
      <3>2. opt.clip \in DOMAIN Clips /\ LimitOf(opt) \in Nat
        BY <3>1, PlannedType DEF Valid
      <3> QED BY <3>2, MezzanineType DEF Info
    <2> HIDE DEF m
    <2>3. IsName(MezzFile) /\ ContentOK(MezzFile, m)
      BY <2>2, SpecialNames DEF IsName, ContentOK
    <2>4. /\ DOMAIN store' = {"local", "farm"}
          /\ FilesOK(store'["local"]) /\ FilesOK(store'["farm"])
          /\ store'[Where] = Put(store[Where], {MezzFile}, Done(m))
          /\ \A w \in {"local", "farm"} : w # Where => store'[w] = store[w]
      BY <1>1, <2>1, <2>3, DoneWritten
    <2>5. IsComplete(store'[Where], MezzFile)
      <3> DEFINE files == store[Where]
                 now == Put(files, {MezzFile}, Done(m))
      <3>1. IsComplete(now, MezzFile)
        <4> HIDE DEF files
        <4>1. MezzFile \in {MezzFile} /\ Done(m).done
          BY DEF Done
        <4> QED BY <4>1, Wrote
      <3> QED BY <2>4, <3>1
    <2>6. TypeInv'
      BY <1>1, <1>2, <2>4, <2>5 DEF TypeInv, Phases, Underway
    <2> QED BY <1>1, <1>2, <1>4, <2>4, <2>6 DEF m
  <1> QED BY <1>3, <1>4

LEMMA LocalUnitsPlanned ==
  ASSUME NEW u \in LocalUnits
  PROVE  u \in LocalPlan(opt, Duration)
  <1> DEFINE tiles == DOMAIN LocalTiling(opt, Duration)
             chunks == IF tiles = {} THEN {0} ELSE tiles
  <1>1. PICK v \in Variants(opt), i \in chunks :
          u = [codec |-> v[1], labels |-> <<v[2]>>, chunk |-> i, key |-> 0]
    BY DEF LocalUnits
  <1>2. LocalPlan(opt, Duration)
          = {[codec |-> w[1], labels |-> <<w[2]>>, chunk |-> k, key |-> 0] :
               w \in Variants(opt), k \in chunks}
    BY DEF LocalPlan
  <1> HIDE DEF chunks
  <1> QED BY <1>1, <1>2

LEMMA LayOutKeepsType ==
  ASSUME TypeInv, LayOut
  PROVE  TypeInv' /\ Units' = Units /\ todo' \subseteq Units
  <1>1. pc = "plan" /\ pc' = "encode" /\ UNCHANGED <<opt, run, store, error, reads>>
        /\ todo' = IF OnFarm(opt) THEN FarmUnits(opt) ELSE LocalUnits
    BY DEF LayOut
  <1>2. todo' \subseteq Units
    BY <1>1, LocalUnitsPlanned DEF Units
  <1>3. Units' = Units /\ Where' = Where
    BY <1>1, PlanKept
  <1> QED BY <1>1, <1>2, <1>3 DEF TypeInv, Phases, Underway

(* The content of a chunk, and the step that writes it.                    *)
LEMMA EncodeWrites ==
  ASSUME TypeInv, NEW u \in todo, NEW table \in BOOLEAN, EncodeVariant(u, table)
  PROVE  LET content == EncodedChunk(Mezz, TileOf(u), Duration, Padded, table)
         IN  /\ TypeInv' /\ opt' = opt /\ pc = "encode" /\ pc' = "encode" /\ todo' = todo \ {u} /\ u \in Units
             /\ Where' = Where /\ store'[Where] = Put(store[Where], Outputs(u), Done(content))
             /\ \A w \in {"local", "farm"} : w # Where => store'[w] = store[w]
             /\ Mezz' = Mezz /\ Duration' = Duration /\ Padded' = Padded /\ Units' = Units
             /\ store'[Where][MezzFile] = store[Where][MezzFile]
  <1> DEFINE content == EncodedChunk(Mezz, TileOf(u), Duration, Padded, table)
  <1>1. pc = "encode" /\ pc' = "encode" /\ UNCHANGED <<opt, run, error, reads>> /\ todo' = todo \ {u}
        /\ store' = [store EXCEPT ![Where] = Put(@, Outputs(u), Done(content))]
    BY DEF EncodeVariant, Padded
  <1>2. u \in Units /\ opt.mode # "resume"
    BY <1>1 DEF TypeInv
  <1>3. TileOf(u) \in Tile /\ IsFiniteSet(Outputs(u)) /\ \A f \in Outputs(u) : IsPiece(f)
    BY <1>1, <1>2, UnitType
  <1>4. IsMezzanine(Mezz) /\ Padded \in Nat
    BY <1>1, <1>2, MezzType DEF Underway
  <1>5. content \in Seq(AnyFrame)
    BY <1>3, <1>4, EncodedType
  <1> HIDE DEF content
  <1>6. \A f \in Outputs(u) : IsName(f) /\ ContentOK(f, Done(content).content) /\ f # MezzFile
    BY <1>3, <1>5, PieceType DEF IsName, ContentOK, Done
  <1>7. IsComplete(store[Where], MezzFile)
    BY <1>1, <1>2 DEF TypeInv, Underway
  <1>8. /\ DOMAIN store' = {"local", "farm"}
        /\ FilesOK(store'["local"]) /\ FilesOK(store'["farm"])
        /\ Where' = Where /\ store'[Where] = Put(store[Where], Outputs(u), Done(content))
        /\ \A w \in {"local", "farm"} : w # Where => store'[w] = store[w]
        /\ IsComplete(store'[Where], MezzFile)
        /\ store'[Where][MezzFile] = store[Where][MezzFile]
    BY <1>1, <1>3, <1>6, <1>7, StoreWritten
  <1>9. Mezz' = Mezz /\ Duration' = Duration /\ Padded' = Padded /\ Units' = Units
    BY <1>1, <1>8, PlanKept
  <1>10. TypeInv'
    BY <1>1, <1>2, <1>8, <1>9 DEF TypeInv, Phases, Underway
  <1> QED BY <1>1, <1>2, <1>8, <1>9, <1>10 DEF content

LEMMA FailKeepsType ==
  ASSUME TypeInv, NEW u \in todo, EncodeFails(u)
  PROVE  /\ TypeInv' /\ opt' = opt /\ Where' = Where /\ Units' = Units
         /\ store'[Where] = Put(store[Where], {Name(u.codec, u.labels[1], u.chunk)}, Torn)
         /\ \A w \in {"local", "farm"} : w # Where => store'[w] = store[w]
         /\ store'[Where][MezzFile] = store[Where][MezzFile]
         /\ IsPiece(Name(u.codec, u.labels[1], u.chunk)) /\ u \in Units
  <1>1. pc = "encode" /\ pc' = "encode" /\ UNCHANGED <<opt, run, reads>> /\ todo' = todo \ {u} /\ error' = TRUE
        /\ Store(Name(u.codec, u.labels[1], u.chunk), Torn)
    BY DEF EncodeFails
  <1>2. u \in Units /\ IsPiece(Name(u.codec, u.labels[1], u.chunk))
    BY <1>1, FirstPiece
  <1>3. IsComplete(store[Where], MezzFile) /\ opt.mode # "resume"
    BY <1>1 DEF TypeInv, Underway
  <1>4. /\ DOMAIN store' = {"local", "farm"}
        /\ FilesOK(store'["local"]) /\ FilesOK(store'["farm"])
        /\ Where' = Where /\ store'[Where] = Put(store[Where], {Name(u.codec, u.labels[1], u.chunk)}, Torn)
        /\ \A w \in {"local", "farm"} : w # Where => store'[w] = store[w]
        /\ IsComplete(store'[Where], MezzFile) /\ store'[Where][MezzFile] = store[Where][MezzFile]
    BY <1>1, <1>2, <1>3, TornWritten
  <1>5. Units' = Units
    BY <1>1, <1>4, PlanKept
  <1>6. TypeInv'
    BY <1>1, <1>3, <1>4, <1>5 DEF TypeInv, Phases, Underway
  <1> QED BY <1>1, <1>2, <1>4, <1>5, <1>6

LEMMA EndsKeepsType ==
  ASSUME TypeInv, EncodeAllEnds
  PROVE  TypeInv'
  <1>1. pc = "encode" /\ UNCHANGED <<opt, run, store, error, reads>>
        /\ \/ pc' = "failed" /\ todo' = todo
           \/ pc' = "concat" /\ todo' = {v \in Variants(opt) : ~IsComplete(store[Where], Name(v[1], v[2], 0))}
    BY DEF EncodeAllEnds
  <1>2. Where' = Where
    BY <1>1, PlanKept
  <1> QED BY <1>1, <1>2 DEF TypeInv, Phases, Underway

(* How many chunks a variant has.                                          *)
LEMMA JoinType ==
  ASSUME TypeInv, opt.mode # "resume", pc \in Underway, NEW v
  PROVE  ChunksToJoin(v) \in Nat
  <1>1. Valid(opt)
    BY AskedIsValid DEF TypeInv
  <1>2. CASE ~OnFarm(opt)
    <2>1. Duration \in Nat \ {0} /\ opt.chunk \in Nat /\ opt.seg \in Nat \ {0}
      BY <1>1, MezzType DEF Valid
    <2> DEFINE t == LocalTiling(opt, Duration)
    <2>2. t = <<>> \/ Len(t) \in Nat \ {0}
      BY <2>1, LocalTilingType
    <2>3. Len(t) \in Nat
      <3> HIDE DEF t
      <3>1. t = <<>> => Len(t) = 0
        OBVIOUS
      <3> QED BY <2>2, <3>1
    <2>4. ChunksToJoin(v) = Len(t)
      BY <1>2 DEF ChunksToJoin
    <2> QED BY <2>3, <2>4
  <1>3. CASE OnFarm(opt)
    <2> DEFINE ours == {g \in DOMAIN store["farm"] : g[1] = v[1] /\ g[2] = v[2]}
               S == {0} \cup {f[3] : f \in ours}
    <2>1. FilesOK(store["farm"]) /\ IsFiniteSet(ours)
      BY FS_Subset DEF TypeInv, FilesOK
    <2>2. \A f \in ours : f[3] \in Nat
      <3> SUFFICES ASSUME NEW f \in ours PROVE f[3] \in Nat
        OBVIOUS
      <3>1. IsName(f)
        BY <2>1 DEF FilesOK
      <3>2. MezzFile[3] = 0 /\ AudioFile[3] = 0
        BY DEF MezzFile, AudioFile, Name
      <3> QED BY <3>1, <3>2, PieceType DEF IsName
    <2>3. IsFiniteSet({f[3] : f \in ours})
      <3> DEFINE E == {f[3] : f \in ours}
                 h == [f \in ours |-> f[3]]
      <3>1. \A e \in E : \E f \in ours : e = h[f]
        OBVIOUS
      <3>2. h \in [ours -> E]
        OBVIOUS
      <3> HIDE DEF h, E, ours
      <3>3. h \in Surjection(ours, E)
        BY <3>1, <3>2 DEF Surjection
      <3>4. IsFiniteSet(E)
        BY <2>1, <3>3, FS_Surjection
      <3> QED BY <3>4 DEF E, ours
    <2>4. S \in SUBSET Nat /\ S # {}
      BY <2>2
    <2>5. IsFiniteSet(S)
      BY <2>3, FS_Singleton, FS_Union
    <2>6. Max(S) \in Nat
      <3> HIDE DEF S
      <3> QED BY <2>4, <2>5, MaxIsIn
    <2>7. ChunksToJoin(v) = Max(S)
      BY <1>3 DEF ChunksToJoin
    <2> QED BY <2>6, <2>7
  <1> QED BY <1>2, <1>3

(* The step that joins the chunks, when all of them are there.             *)
Joinable(v) ==
  /\ ChunksToJoin(v) > 0
  /\ \A i \in 1 .. ChunksToJoin(v) : IsComplete(store[Where], Name(v[1], v[2], i))

PartsOf(v) == [i \in 1 .. ChunksToJoin(v) |-> store[Where][Name(v[1], v[2], i)].content]

LEMMA JoinSteps ==
  ASSUME NEW v \in todo, ConcatChunks(v)
  PROVE  /\ pc = "concat" /\ UNCHANGED <<opt, run, error, reads, rows, driven, out, made, excuse, faults>>
         /\ \/ Joinable(v) /\ pc' = pc /\ todo' = todo \ {v} /\ Store(Name(v[1], v[2], 0), Done(FlattenSeq(PartsOf(v))))
            \/ pc' = "failed" /\ todo' = {} /\ store' = store
  <1> DEFINE n == ChunksToJoin(v)
             parts == [i \in 1 .. n |-> Name(v[1], v[2], i)]
             all == [i \in 1 .. n |-> store[Where][parts[i]].content]
             good == n > 0 /\ \A i \in 1 .. n : IsComplete(store[Where], parts[i])
  <1>1. /\ pc = "concat" /\ UNCHANGED <<opt, run, error, reads, rows, driven, out, made, excuse, faults>>
        /\ IF good THEN Store(Name(v[1], v[2], 0), Done(FlattenSeq(all))) /\ todo' = todo \ {v} /\ UNCHANGED pc
           ELSE pc' = "failed" /\ todo' = {} /\ UNCHANGED store
    BY DEF ConcatChunks
  <1>2. all = PartsOf(v)
    BY DEF PartsOf
  <1>3. good => Joinable(v)
    BY DEF Joinable
  <1> HIDE DEF good, all
  <1> QED BY <1>1, <1>2, <1>3

LEMMA PartsType ==
  ASSUME TypeInv, opt.mode # "resume", pc \in Underway, NEW v \in Variants(opt), Joinable(v)
  PROVE  /\ ChunksToJoin(v) \in Nat \ {0}
         /\ PartsOf(v) \in [1 .. ChunksToJoin(v) -> Seq(AnyFrame)]
         /\ FlattenSeq(PartsOf(v)) \in Seq(AnyFrame)
  <1> DEFINE n == ChunksToJoin(v)
  <1>1. n \in Nat \ {0}
    <2>1. n \in Nat
      BY JoinType
    <2>2. n > 0
      BY DEF Joinable
    <2> QED BY <2>1, <2>2
  <1>2. ASSUME NEW i \in 1 .. n PROVE store[Where][Name(v[1], v[2], i)].content \in Seq(AnyFrame)
    <2>1. IsPiece(Name(v[1], v[2], i))
      BY <1>1, PieceOf DEF TypeInv
    <2>2. IsComplete(store[Where], Name(v[1], v[2], i))
      BY DEF Joinable
    <2>3. FilesOK(store[Where])
      BY WhereType
    <2> QED BY <2>1, <2>2, <2>3 DEF FilesOK, ContentOK, IsComplete
  <1>3. PartsOf(v) \in [1 .. n -> Seq(AnyFrame)]
    BY <1>2 DEF PartsOf
  <1> QED BY <1>1, <1>3, Flattened

LEMMA ConcatKeepsType ==
  ASSUME TypeInv, NEW v \in todo, ConcatChunks(v)
  PROVE  /\ TypeInv' /\ opt' = opt /\ pc = "concat" /\ Where' = Where /\ v \in Variants(opt)
         /\ Mezz' = Mezz /\ Duration' = Duration /\ Padded' = Padded
         /\ \/ /\ Joinable(v) /\ pc' = pc /\ todo' = todo \ {v}
               /\ store'[Where] = Put(store[Where], {Name(v[1], v[2], 0)}, Done(FlattenSeq(PartsOf(v))))
               /\ \A w \in {"local", "farm"} : w # Where => store'[w] = store[w]
            \/ pc' = "failed" /\ todo' = {} /\ store' = store
  <1> DEFINE f == Name(v[1], v[2], 0)
             x == FlattenSeq(PartsOf(v))
  <1>1. /\ pc = "concat" /\ UNCHANGED <<opt, run, error, reads, rows, driven, out, made, excuse, faults>>
        /\ \/ Joinable(v) /\ pc' = pc /\ todo' = todo \ {v} /\ Store(f, Done(x))
           \/ pc' = "failed" /\ todo' = {} /\ store' = store
    BY JoinSteps
  <1>2. v \in Variants(opt) /\ IsPiece(f) /\ opt.mode # "resume" /\ pc \in Underway
    BY <1>1, WholePiece DEF TypeInv, Underway
  <1>3. f # MezzFile /\ IsName(f)
    BY <1>2, PieceType DEF IsName
  <1>4. CASE pc' = "failed" /\ todo' = {} /\ store' = store
    <2>1. Where' = Where /\ Mezz' = Mezz /\ Duration' = Duration /\ Padded' = Padded
      BY <1>1, <1>4, PlanKept
    <2> QED BY <1>1, <1>2, <1>4, <2>1 DEF TypeInv, Phases, Underway
  <1>5. CASE Joinable(v) /\ pc' = pc /\ todo' = todo \ {v} /\ Store(f, Done(x))
    <2>1. ContentOK(f, x)
      <3>1. x \in Seq(AnyFrame)
        BY <1>2, <1>5, PartsType
      <3> QED BY <1>2, <1>3, <3>1, PieceType DEF ContentOK
    <2>2. IsComplete(store[Where], MezzFile)
      BY <1>2 DEF TypeInv
    <2> HIDE DEF x, f
    <2>3. /\ DOMAIN store' = {"local", "farm"}
          /\ FilesOK(store'["local"]) /\ FilesOK(store'["farm"])
          /\ Where' = Where /\ store'[Where] = Put(store[Where], {f}, Done(x))
          /\ \A w \in {"local", "farm"} : w # Where => store'[w] = store[w]
          /\ IsComplete(store'[Where], MezzFile)
          /\ store'[Where][MezzFile] = store[Where][MezzFile]
      BY <1>1, <1>3, <1>5, <2>1, <2>2, DoneWritten
    <2>4. Mezz' = Mezz /\ Duration' = Duration /\ Padded' = Padded
      BY <1>1, <2>3, PlanKept
    <2>5. TypeInv'
      BY <1>1, <1>2, <1>5, <2>3 DEF TypeInv, Phases, Underway
    <2> QED BY <1>1, <1>2, <1>5, <2>3, <2>4, <2>5 DEF x, f
  <1> QED BY <1>1, <1>4, <1>5

LEMMA AudioKeepsType ==
  ASSUME TypeInv, MakeAudio
  PROVE  /\ TypeInv' /\ opt' = opt /\ Where' = Where /\ pc = "concat" /\ pc' = "package" /\ todo = {}
         /\ todo' = Codecs(opt) /\ opt.mode # "resume" /\ Mezz' = Mezz /\ Padded' = Padded
         /\ \A w \in {"local", "farm"} : w # Where => store'[w] = store[w]
         /\ \/ store' = store
            \/ \E x : store'[Where] = Put(store[Where], {AudioFile}, Done(x))
         /\ Info(opt).audio => IsComplete(store'[Where], AudioFile)
  <1>1. pc = "concat" /\ pc' = "package" /\ UNCHANGED <<opt, run, error, reads>> /\ todo' = ToPackage /\ todo = {}
    BY DEF MakeAudio
  <1>2. opt.mode # "resume" /\ pc \in Underway /\ IsComplete(store[Where], MezzFile)
    BY <1>1 DEF TypeInv, Underway
  <1>3. todo' = Codecs(opt) /\ ToPackage' = ToPackage
    BY <1>1, <1>2 DEF ToPackage
  <1> DEFINE x == AudioOf(Mezz, Padded)
  <1>4. \/ store' = store /\ (Info(opt).audio => IsComplete(store[Where], AudioFile))
        \/ Store(AudioFile, Done(x))
    BY DEF MakeAudio, Padded
  <1>5. CASE store' = store /\ (Info(opt).audio => IsComplete(store[Where], AudioFile))
    <2>1. Where' = Where /\ Mezz' = Mezz /\ Padded' = Padded
      BY <1>1, <1>5, PlanKept
    <2> QED BY <1>1, <1>2, <1>3, <1>5, <2>1 DEF TypeInv, Phases, Underway
  <1>6. CASE Store(AudioFile, Done(x))
    <2>1. x[2] \in Nat
      <3>1. Mezz.duration \in Nat /\ Padded \in Nat
        BY <1>2, MezzType
      <3> QED BY <3>1 DEF AudioOf
    <2> HIDE DEF x
    <2>2. ContentOK(AudioFile, x) /\ IsName(AudioFile) /\ AudioFile # MezzFile
      BY <2>1, SpecialNames DEF ContentOK, IsName
    <2>3. /\ DOMAIN store' = {"local", "farm"}
          /\ FilesOK(store'["local"]) /\ FilesOK(store'["farm"])
          /\ Where' = Where /\ store'[Where] = Put(store[Where], {AudioFile}, Done(x))
          /\ \A w \in {"local", "farm"} : w # Where => store'[w] = store[w]
          /\ IsComplete(store'[Where], MezzFile)
          /\ store'[Where][MezzFile] = store[Where][MezzFile]
      BY <1>1, <1>2, <1>6, <2>2, DoneWritten
    <2>4. Mezz' = Mezz /\ Padded' = Padded
      BY <1>1, <2>3, PlanKept
    <2>5. TypeInv'
      BY <1>1, <1>2, <1>3, <2>3 DEF TypeInv, Phases, Underway
    <2>6. IsComplete(store'[Where], AudioFile)
      <3> DEFINE files == store[Where]
                 now == Put(files, {AudioFile}, Done(x))
      <3>1. IsComplete(now, AudioFile)
        <4> HIDE DEF files
        <4>1. AudioFile \in {AudioFile} /\ Done(x).done
          BY DEF Done
        <4> QED BY <4>1, Wrote
      <3> QED BY <2>3, <3>1
    <2> QED BY <1>1, <1>2, <1>3, <2>3, <2>4, <2>5, <2>6
  <1> QED BY <1>4, <1>5, <1>6

LEMMA PackageKeepsType ==
  ASSUME TypeInv, NEW c \in todo, Package(c)
  PROVE  TypeInv' /\ ToPackage' = ToPackage /\ c \in ToPackage
  <1>1. pc = "package" /\ UNCHANGED <<pc, opt, run, store, error, reads, rows, made, faults>> /\ todo' = todo \ {c}
    BY DEF Package
  <1>2. Where' = Where /\ ToPackage' = ToPackage
    BY <1>1 DEF Where, OnFarm, ToPackage, ResolveCodecSelection, DiscoveredCodecs
  <1> QED BY <1>1, <1>2 DEF TypeInv, Phases, Underway

LEMMA FinishKeepsType ==
  ASSUME TypeInv, Finish
  PROVE  TypeInv'
  <1>1. pc' = "done" /\ UNCHANGED <<opt, run, error, reads>>
        /\ \/ store' = [store EXCEPT !["local"] = << >>]
           \/ store' = store
    BY DEF Finish
  <1>2. FilesOK(<< >>)
    BY FS_EmptySet DEF FilesOK
  <1>3. DOMAIN store' = {"local", "farm"} /\ FilesOK(store'["local"]) /\ FilesOK(store'["farm"])
    BY <1>1, <1>2 DEF TypeInv
  <1> QED BY <1>1, <1>3 DEF TypeInv, Phases, Underway

(* What a kill does to the files.                                          *)
LEMMA KillTears ==
  ASSUME TypeInv, Kill
  PROVE  /\ pc' = "failed" /\ UNCHANGED <<opt, run, error, reads, rows, driven, out, made, excuse>>
         /\ \/ store' = store
            \/ \E f : IsPiece(f) /\ Store(f, Torn)
  <1>1. pc' = "failed" /\ UNCHANGED <<opt, run, error, reads, rows, driven, out, made, excuse>>
    BY DEF Kill
  <1>2. \/ store' = store
        \/ pc = "encode" /\ \E u \in todo : Store(Name(u.codec, u.labels[1], u.chunk), Torn)
        \/ pc = "concat" /\ \E v \in todo : Store(Name(v[1], v[2], 0), Torn)
    BY DEF Kill
  <1>3. ASSUME pc = "encode", NEW u \in todo PROVE IsPiece(Name(u.codec, u.labels[1], u.chunk))
    BY <1>3, FirstPiece
  <1>4. ASSUME pc = "concat", NEW v \in todo PROVE IsPiece(Name(v[1], v[2], 0))
    <2>1. v \in Variants(opt)
      BY <1>4 DEF TypeInv
    <2> QED BY <2>1, WholePiece
  <1> QED BY <1>1, <1>2, <1>3, <1>4

LEMMA KillKeepsType ==
  ASSUME TypeInv, Kill
  PROVE  TypeInv'
  <1>1. pc' = "failed" /\ UNCHANGED <<opt, run, error, reads, rows, driven, out, made, excuse>>
        /\ \/ store' = store
           \/ \E f : IsPiece(f) /\ Store(f, Torn)
    BY KillTears
  <1>2. DOMAIN store' = {"local", "farm"} /\ FilesOK(store'["local"]) /\ FilesOK(store'["farm"])
    <2>1. CASE store' = store
      BY <2>1 DEF TypeInv
    <2>2. CASE \E f : IsPiece(f) /\ Store(f, Torn)
      BY <1>1, <2>2, TornWritten
    <2> QED BY <1>1, <2>1, <2>2
  <1> QED BY <1>1, <1>2 DEF TypeInv, Phases, Underway

LEMMA StutterKeepsType ==
  ASSUME TypeInv, UNCHANGED vars
  PROVE  TypeInv'
  <1>1. UNCHANGED <<pc, opt, run, store, todo, error, reads>>
    BY DEF vars
  <1>2. Where' = Where /\ Units' = Units /\ ToPackage' = ToPackage
    BY <1>1, PlanKept DEF ToPackage, ResolveCodecSelection, DiscoveredCodecs
  <1> QED BY <1>1, <1>2 DEF TypeInv

(* The steps of the pipeline.                                              *)
LEMMA StepsAre ==
  ASSUME [Next]_vars
  PROVE  \/ \E o \in Options : Refuse(o) \/ StartFull(o) \/ StartFarm(o) \/ StartResume(o)
         \/ MakeMezzanine \/ LayOut
         \/ \E u \in todo : \E t \in BOOLEAN : EncodeVariant(u, t)
         \/ \E u \in todo : EncodeFails(u)
         \/ EncodeAllEnds
         \/ \E v \in todo : ConcatChunks(v)
         \/ MakeAudio
         \/ \E c \in todo : Package(c)
         \/ Finish \/ Kill \/ UNCHANGED vars
  BY DEF Next, Ended

LEMMA NextType ==
  ASSUME TypeInv, [Next]_vars
  PROVE  TypeInv'
  <1>1. CASE \E o \in Options : Refuse(o) \/ StartFull(o) \/ StartFarm(o) \/ StartResume(o)
    BY <1>1, BeginType
  <1>2. CASE MakeMezzanine
    BY <1>2, MezzanineKeepsType
  <1>3. CASE LayOut
    BY <1>3, LayOutKeepsType
  <1>4. CASE \E u \in todo : \E t \in BOOLEAN : EncodeVariant(u, t)
    BY <1>4, EncodeWrites
  <1>5. CASE \E u \in todo : EncodeFails(u)
    BY <1>5, FailKeepsType
  <1>6. CASE EncodeAllEnds
    BY <1>6, EndsKeepsType
  <1>7. CASE \E v \in todo : ConcatChunks(v)
    BY <1>7, ConcatKeepsType
  <1>8. CASE MakeAudio
    BY <1>8, AudioKeepsType
  <1>9. CASE \E c \in todo : Package(c)
    BY <1>9, PackageKeepsType
  <1>10. CASE Finish
    BY <1>10, FinishKeepsType
  <1>11. CASE Kill
    BY <1>11, KillKeepsType
  <1>12. CASE UNCHANGED vars
    BY <1>12, StutterKeepsType
  <1> QED BY <1>1, <1>2, <1>3, <1>4, <1>5, <1>6, <1>7, <1>8, <1>9, <1>10, <1>11, <1>12, StepsAre

(* The files of both stores, the options, the phase and the units, in every state. *)
THEOREM Typed == Spec => []TypeInv
  <1>1. Init => TypeInv
    BY InitType
  <1>2. TypeInv /\ [Next]_vars => TypeInv'
    BY NextType
  <1> QED BY <1>1, <1>2, PTL DEF Spec

(***************************************************************************)
(* The rows announced are the rows driven.                                 *)
(***************************************************************************)
Blurs == {"reuse", "padded", "grown", "bands"}

EncodedRows(o) == UNION {EncodeRows(o, v) : v \in Variants(o)}

Started(o) == {Row("mezzanine", "")} \cup EncodedRows(o)

RowsToDrive == UNION {RowsOf(u) : u \in todo}

RowsToPackage == UNION {PackageRows(opt, c) : c \in todo}

(* The directory of a run that reuses nothing starts empty.                *)
FreshInv ==
  ~OnFarm(opt) /\ "reuse" \notin excuse =>
    /\ pc = "mezzanine" => store["local"] = << >>
    /\ pc = "plan" => DOMAIN store["local"] = {MezzFile}

AnnouncedInv == opt.mode # "resume" /\ pc \notin {"idle", "failed"} => rows = Announced(opt)

DrivenInv ==
  opt.mode # "resume" /\ excuse \cap Blurs = {} =>
    /\ pc = "mezzanine" => driven = {}
    /\ pc = "plan" => driven = {Row("mezzanine", "")}
    /\ pc = "encode" /\ ~error => driven \cup RowsToDrive = Started(opt)
    /\ pc = "concat" => driven = Started(opt)
    /\ pc = "package" => driven \cup RowsToPackage = Announced(opt)
    /\ pc = "done" => driven = Announced(opt)

RowsInv == FreshInv /\ AnnouncedInv /\ DrivenInv

(* A resume that finds nothing announces what a full run would.            *)
LEMMA FullAnnounces ==
  ASSUME NEW o \in Options, ~OnFarm(o)
  PROVE  Announced([o EXCEPT !.mode = "full"]) = Announced(o)
  <1> DEFINE p == [o EXCEPT !.mode = "full"]
  <1>1. /\ p.clip = o.clip /\ p.ladder = o.ladder /\ p.limit = o.limit /\ p.chunk = o.chunk
        /\ p.seg = o.seg /\ p.codecs = o.codecs /\ p.minRes = o.minRes /\ p.maxRes = o.maxRes
        /\ p.override = o.override /\ p.fmp4 = o.fmp4 /\ p.ts = o.ts /\ ~OnFarm(p)
    BY OptionAssumption DEF OptionFields, OnFarm
  <1> HIDE DEF p
  <1>2. Info(p) = Info(o) /\ LimitOf(p) = LimitOf(o)
    BY <1>1 DEF Info, LimitOf
  <1>3. Planned(p) = Planned(o) /\ \A c : RungsOf(p, c) = RungsOf(o, c)
    BY <1>1, <1>2 DEF Planned, RungsOf
  <1>4. Codecs(p) = Codecs(o) /\ \A c : LabelsOf(p, c) = LabelsOf(o, c)
    BY <1>1, <1>3 DEF Codecs, LabelsOf
  <1>5. Variants(p) = Variants(o) /\ LocalTiling(p, Planned(p)) = LocalTiling(o, Planned(o))
    BY <1>1, <1>3, <1>4 DEF Variants, LocalTiling
  <1>6. \A v : EncodeRows(p, v) = EncodeRows(o, v)
    BY <1>1, <1>5 DEF EncodeRows
  <1>7. \A c : PackageRows(p, c) = PackageRows(o, c)
    BY <1>1 DEF PackageRows
  <1> QED BY <1>2, <1>4, <1>5, <1>6, <1>7 DEF Announced, p

LEMMA BeginRows ==
  ASSUME TypeInv, NEW o \in Options,
         Refuse(o) \/ StartFull(o) \/ StartFarm(o) \/ StartResume(o)
  PROVE  RowsInv'
  <1>1. CASE Refuse(o)
    <2>1. pc' = "failed"
      BY <1>1 DEF Refuse
    <2> QED BY <2>1 DEF RowsInv, FreshInv, AnnouncedInv, DrivenInv
  <1>2. CASE StartResume(o)
    <2>1. pc' \in {"package", "failed"} /\ opt'.mode = "resume"
      BY <1>2 DEF StartResume
    <2> QED BY <2>1 DEF RowsInv, FreshInv, AnnouncedInv, DrivenInv
  <1>3. CASE StartFarm(o)
    <2>1. pc' = "mezzanine" /\ opt' = o /\ rows' = Announced(o) /\ OnFarm(o) /\ driven' = {}
      BY <1>3 DEF StartFarm, Begin
    <2>2. rows' = Announced(opt') /\ OnFarm(opt')
      BY <2>1
    <2> QED BY <2>1, <2>2 DEF RowsInv, FreshInv, AnnouncedInv, DrivenInv
  <1>4. CASE StartFull(o)
    <2>1. pc' = "mezzanine" /\ opt' = [o EXCEPT !.mode = "full"] /\ rows' = Announced(o) /\ driven' = {}
          /\ o.mode \in {"full", "resume"}
          /\ store' = [store EXCEPT !["local"] = Swept(o, store["local"])]
          /\ ("reuse" \notin excuse' => Swept(o, store["local"]) = << >>)
      BY <1>4 DEF StartFull, Begin
    <2>2. rows' = Announced(opt')
      <3>1. ~OnFarm(o)
        BY <2>1 DEF OnFarm
      <3>2. Announced([o EXCEPT !.mode = "full"]) = Announced(o)
        BY <3>1, FullAnnounces
      <3> QED BY <2>1, <3>2
    <2>3. "reuse" \notin excuse' => store'["local"] = << >>
      BY <2>1 DEF TypeInv
    <2> QED BY <2>1, <2>2, <2>3 DEF RowsInv, FreshInv, AnnouncedInv, DrivenInv
  <1> QED BY <1>1, <1>2, <1>3, <1>4

LEMMA MezzanineRows ==
  ASSUME TypeInv, RowsInv, MakeMezzanine
  PROVE  RowsInv'
  <1>1. pc = "mezzanine" /\ pc' = "plan" /\ UNCHANGED <<opt, rows, excuse>>
        /\ driven' = driven \union {Row("mezzanine", "")}
    BY DEF MakeMezzanine
  <1>2. AnnouncedInv'
    BY <1>1 DEF RowsInv, AnnouncedInv
  <1>3. DrivenInv'
    BY <1>1 DEF RowsInv, DrivenInv
  <1>4. FreshInv'
    <2> SUFFICES ASSUME ~OnFarm(opt), "reuse" \notin excuse PROVE DOMAIN store'["local"] = {MezzFile}
      BY <1>1 DEF FreshInv
    <2>1. store["local"] = << >> /\ Where = "local"
      BY <1>1 DEF RowsInv, FreshInv, Where
    <2>2. ~IsComplete(store[Where], MezzFile)
      BY <2>1 DEF IsComplete
    <2> DEFINE file == Done(Mezzanine(Info(opt), LimitOf(opt)))
    <2>3. store'["local"] = Put(<< >>, {MezzFile}, file)
      BY <2>1, <2>2, MezzanineKeepsType
    <2> HIDE DEF file
    <2>4. DOMAIN Put(<< >>, {MezzFile}, file) = {MezzFile} \cup DOMAIN << >>
      BY DEF Put, Over
    <2> QED BY <2>3, <2>4
  <1> QED BY <1>2, <1>3, <1>4 DEF RowsInv

(* A local run that found nothing has a unit for each row it announced.    *)
LEMMA LocalRows ==
  ASSUME TypeInv, pc = "plan", ~OnFarm(opt), DOMAIN store["local"] = {MezzFile}, Duration = Planned(opt)
  PROVE  /\ UNION {RowsOf(u) : u \in LocalUnits} = EncodedRows(opt)
         /\ \A v \in Variants(opt) : ~IsComplete(store["local"], Name(v[1], v[2], 0))
  <1>1. Valid(opt)
    BY AskedIsValid DEF TypeInv
  <1> DEFINE t == LocalTiling(opt, Duration)
             chunks == IF DOMAIN t = {} THEN {0} ELSE DOMAIN t
  <1>2. \/ t = <<>> /\ DOMAIN t = {}
        \/ t # <<>> /\ DOMAIN t = 1 .. Len(t) /\ Len(t) \in Nat \ {0}
    <2>1. opt.chunk \in Nat /\ opt.seg \in Nat \ {0}
      BY <1>1 DEF Valid
    <2>2. Duration \in Nat \ {0}
      BY MezzType DEF TypeInv, Underway
    <2> QED BY <2>1, <2>2, LocalTilingType
  <1>3. chunks \in SUBSET Nat
    <2> HIDE DEF t
    <2> QED BY <1>2
  <1>4. ASSUME NEW v \in Variants(opt), NEW i \in chunks PROVE ~IsComplete(store["local"], Name(v[1], v[2], i))
    <2>1. Name(v[1], v[2], i) # MezzFile
      BY <1>3, PieceOf, PieceType DEF TypeInv
    <2> QED BY <2>1 DEF IsComplete
  <1>5. ASSUME NEW v \in Variants(opt) PROVE ~IsComplete(store["local"], Name(v[1], v[2], 0))
    <2>1. Name(v[1], v[2], 0) # MezzFile
      BY WholePiece, PieceType
    <2> QED BY <2>1 DEF IsComplete
  <1> DEFINE U(v, i) == [codec |-> v[1], labels |-> <<v[2]>>, chunk |-> i, key |-> 0]
  <1>6. LocalUnits = {U(v, i) : v \in Variants(opt), i \in chunks}
    <2> DEFINE Wanted(v) == {i \in chunks : ~IsComplete(store["local"], Name(v[1], v[2], i))}
               todoOf(v) == {U(v, i) : i \in Wanted(v)}
               these == {w \in Variants(opt) : ~IsComplete(store["local"], Name(w[1], w[2], 0))}
    <2>1. LocalUnits = UNION {todoOf(v) : v \in these}
      BY DEF LocalUnits
    <2>2. these = Variants(opt) /\ \A v \in Variants(opt) : Wanted(v) = chunks
      BY <1>4, <1>5
    <2> HIDE DEF these, Wanted, chunks, U
    <2>3. \A u : u \in UNION {todoOf(v) : v \in these} <=> \E v \in these : \E i \in Wanted(v) : u = U(v, i)
      OBVIOUS
    <2>4. \A u : u \in {U(v, i) : v \in Variants(opt), i \in chunks}
                   <=> \E v \in Variants(opt) : \E i \in chunks : u = U(v, i)
      OBVIOUS
    <2> HIDE DEF todoOf
    <2>5. \A u : u \in LocalUnits <=> u \in {U(v, i) : v \in Variants(opt), i \in chunks}
      BY <2>1, <2>2, <2>3, <2>4
    <2> QED BY <2>5
  <1>7. \A v \in Variants(opt) : \A i : RowsOf(U(v, i)) = {<<"encode", v[1], v[2], i>>}
    <2> SUFFICES ASSUME NEW v \in Variants(opt), NEW i PROVE RowsOf(U(v, i)) = {<<"encode", v[1], v[2], i>>}
      OBVIOUS
    <2>1. DOMAIN <<v[2]>> = {1} /\ <<v[2]>>[1] = v[2]
      OBVIOUS
    <2>2. U(v, i).codec = v[1] /\ U(v, i).labels = <<v[2]>> /\ U(v, i).chunk = i
      OBVIOUS
    <2> HIDE DEF U
    <2> QED BY <2>1, <2>2 DEF RowsOf
  <1>8. \A v \in Variants(opt) : EncodeRows(opt, v) = {<<"encode", v[1], v[2], i>> : i \in chunks}
    <2> SUFFICES ASSUME NEW v \in Variants(opt)
                 PROVE EncodeRows(opt, v) = {<<"encode", v[1], v[2], i>> : i \in chunks}
      OBVIOUS
    <2>1. EncodeRows(opt, v) = IF t = <<>> THEN {WholeRow(v)} ELSE VariantRows(v, Len(t))
      BY DEF EncodeRows
    <2> HIDE DEF t
    <2> QED BY <1>2, <2>1 DEF WholeRow, VariantRows
  <1> HIDE DEF U, chunks
  <1>9. \A r : r \in UNION {RowsOf(u) : u \in LocalUnits}
                 <=> \E v \in Variants(opt) : \E i \in chunks : r = <<"encode", v[1], v[2], i>>
    <2> SUFFICES ASSUME NEW r
                 PROVE  r \in UNION {RowsOf(u) : u \in LocalUnits}
                          <=> \E v \in Variants(opt) : \E i \in chunks : r = <<"encode", v[1], v[2], i>>
      OBVIOUS
    <2>1. r \in UNION {RowsOf(u) : u \in LocalUnits} <=> \E u \in LocalUnits : r \in RowsOf(u)
      OBVIOUS
    <2>2. (\E u \in LocalUnits : r \in RowsOf(u)) <=> \E v \in Variants(opt) : \E i \in chunks : r \in RowsOf(U(v, i))
      BY <1>6
    <2> QED BY <1>7, <2>1, <2>2
  <1>10. \A r : r \in EncodedRows(opt)
                 <=> \E v \in Variants(opt) : \E i \in chunks : r = <<"encode", v[1], v[2], i>>
    BY <1>8 DEF EncodedRows
  <1>11. UNION {RowsOf(u) : u \in LocalUnits} = EncodedRows(opt)
    BY <1>9, <1>10
  <1> QED BY <1>5, <1>11

(* A farm whose bands are cut alike has a unit for each row it announced.  *)
LEMMA FarmRows ==
  ASSUME Valid(opt), OnFarm(opt), \A u \in FarmUnits(opt) : OneGrid(u)
  PROVE  UNION {RowsOf(u) : u \in FarmUnits(opt)} = EncodedRows(opt)
  <1>1. ASSUME NEW u \in FarmUnits(opt), NEW r \in RowsOf(u) PROVE r \in EncodedRows(opt)
    <2>1. PICK i \in DOMAIN u.labels : r = <<"encode", u.codec, u.labels[i], u.chunk>>
      BY <1>1 DEF RowsOf
    <2> DEFINE v == <<u.codec, u.labels[i]>>
    <2>2. v \in Variants(opt) /\ v[1] = u.codec /\ v[2] = u.labels[i]
      BY FarmUnitLabels
    <2>3. u.chunk \in 1 .. Len(FarmTiling(opt, <<u.codec, u.labels[1]>>))
      BY FarmUnitType
    <2>4. Len(FarmTiling(opt, v)) = Len(FarmTiling(opt, <<u.codec, u.labels[1]>>))
      BY DEF OneGrid
    <2> HIDE DEF v
    <2>5. r \in VariantRows(v, Len(FarmTiling(opt, v)))
      BY <2>1, <2>2, <2>3, <2>4 DEF VariantRows
    <2>6. r \in EncodeRows(opt, v)
      BY <2>5 DEF EncodeRows
    <2> QED BY <2>2, <2>6 DEF EncodedRows
  <1>2. ASSUME NEW v \in Variants(opt), NEW r \in EncodeRows(opt, v)
        PROVE  \E u \in FarmUnits(opt) : r \in RowsOf(u)
    <2>1. PICK i \in 1 .. Len(FarmTiling(opt, v)) : r = <<"encode", v[1], v[2], i>>
      BY <1>2 DEF EncodeRows, VariantRows
    <2>2. PICK lead : /\ <<v[1], lead>> \in Variants(opt)
                      /\ \A k \in 1 .. Len(FarmTiling(opt, <<v[1], lead>>)) :
                           \E u \in FarmUnits(opt) : /\ u.codec = v[1] /\ u.chunk = k /\ u.labels[1] = lead
                                                     /\ HasLabel(u, v[2])
                      /\ \A u \in FarmUnits(opt) : u.codec = v[1] /\ HasLabel(u, v[2]) => u.labels[1] = lead
      BY VariantLed
    <2>3. Len(FarmTiling(opt, <<v[1], lead>>)) \in Nat \ {0}
      BY FarmTilingType
    <2>4. PICK u1 \in FarmUnits(opt) : u1.codec = v[1] /\ u1.labels[1] = lead /\ HasLabel(u1, v[2])
      BY <2>2, <2>3
    <2>5. Len(FarmTiling(opt, <<v[1], v[2]>>)) = Len(FarmTiling(opt, <<v[1], lead>>))
      BY <2>4 DEF OneGrid, HasLabel
    <2>6. v = <<v[1], v[2]>>
      BY VariantType
    <2>7. i \in 1 .. Len(FarmTiling(opt, <<v[1], lead>>))
      BY <2>5, <2>6
    <2>8. PICK u \in FarmUnits(opt) : u.codec = v[1] /\ u.chunk = i /\ HasLabel(u, v[2])
      BY <2>2, <2>7
    <2>9. r \in RowsOf(u)
      BY <2>1, <2>8 DEF RowsOf, HasLabel
    <2> QED BY <2>9
  <1> QED BY <1>1, <1>2 DEF EncodedRows

(* What laying out the units adds to the causes.                           *)
LEMMA LayOutCauses ==
  ASSUME LayOut
  PROVE  /\ pc = "plan" /\ pc' = "encode"
         /\ UNCHANGED <<opt, run, store, error, reads, rows, out, made, faults>>
         /\ todo' = IF OnFarm(opt) THEN FarmUnits(opt) ELSE LocalUnits
         /\ driven' = driven \union
              {WholeRow(v) : v \in {w \in Variants(opt) : ~OnFarm(opt)
                                      /\ IsComplete(store["local"], Name(w[1], w[2], 0))}}
         /\ excuse \subseteq excuse'
         /\ "padded" \notin excuse' => ~(Padded > 0)
         /\ "grown" \notin excuse' => OnFarm(opt) \/ Mezz.duration = Planned(opt)
         /\ "bands" \notin excuse' => ~OnFarm(opt) \/ \A u \in FarmUnits(opt) : OneGrid(u)
         /\ excuse' \subseteq excuse \cup {"padded", "grown", "bands"}
  <1> DEFINE p == Padding(opt, Mezz.duration) > 0
             g == ~OnFarm(opt) /\ Mezz.duration # Planned(opt)
             b == OnFarm(opt) /\ \E u \in FarmUnits(opt) : ~OneGrid(u)
  <1>1. /\ pc = "plan" /\ pc' = "encode"
        /\ UNCHANGED <<opt, run, store, error, reads, rows, out, made, faults>>
        /\ todo' = IF OnFarm(opt) THEN FarmUnits(opt) ELSE LocalUnits
        /\ driven' = driven \union
              {WholeRow(v) : v \in {w \in Variants(opt) : ~OnFarm(opt)
                                      /\ IsComplete(store["local"], Name(w[1], w[2], 0))}}
    BY DEF LayOut
  <1>2. excuse' = excuse \union (IF p THEN {"padded"} ELSE {}) \union (IF g THEN {"grown"} ELSE {})
                  \union (IF b THEN {"bands"} ELSE {})
    BY DEF LayOut
  <1>3. p = (Padded > 0)
    BY DEF Padded
  <1> HIDE DEF p, g, b
  <1>4. /\ excuse \subseteq excuse' /\ excuse' \subseteq excuse \cup {"padded", "grown", "bands"}
        /\ "padded" \notin excuse' => ~p
        /\ "grown" \notin excuse' => ~g
        /\ "bands" \notin excuse' => ~b
    BY <1>2
  <1> QED BY <1>1, <1>3, <1>4 DEF g, b

LEMMA LayOutRows ==
  ASSUME TypeInv, RowsInv, LayOut
  PROVE  RowsInv'
  <1>1. /\ pc = "plan" /\ pc' = "encode" /\ UNCHANGED <<opt, rows, store>>
        /\ todo' = IF OnFarm(opt) THEN FarmUnits(opt) ELSE LocalUnits
        /\ driven' = driven \union
              {WholeRow(v) : v \in {w \in Variants(opt) : ~OnFarm(opt)
                                      /\ IsComplete(store["local"], Name(w[1], w[2], 0))}}
    BY LayOutCauses
  <1>2. AnnouncedInv' /\ FreshInv'
    BY <1>1 DEF RowsInv, AnnouncedInv, FreshInv
  <1>3. ASSUME opt.mode # "resume", excuse' \cap Blurs = {}
        PROVE  driven' \cup RowsToDrive' = Started(opt)
    <2>0. "padded" \notin excuse' /\ "grown" \notin excuse' /\ "bands" \notin excuse'
          /\ excuse \cap Blurs = {}
      BY <1>3, LayOutCauses DEF Blurs
    <2>1. /\ excuse \cap Blurs = {} /\ ~(Padded > 0)
          /\ ~OnFarm(opt) => Mezz.duration = Planned(opt)
          /\ OnFarm(opt) => \A u \in FarmUnits(opt) : OneGrid(u)
      BY <2>0, LayOutCauses
    <2>2. driven = {Row("mezzanine", "")}
      BY <1>1, <1>3, <2>1 DEF RowsInv, DrivenInv
    <2>3. Valid(opt)
      BY AskedIsValid DEF TypeInv
    <2>4. CASE OnFarm(opt)
      <3>1. todo' = FarmUnits(opt)
        BY <1>1, <2>4
      <3> DEFINE skipped == {w \in Variants(opt) : ~OnFarm(opt)
                                      /\ IsComplete(store["local"], Name(w[1], w[2], 0))}
      <3>0. skipped = {} /\ driven' = driven \union {WholeRow(v) : v \in skipped}
        BY <1>1, <2>4
      <3> HIDE DEF skipped
      <3>00. driven' = driven
        BY <3>0
      <3>2. RowsToDrive' = EncodedRows(opt)
        BY <2>1, <2>3, <2>4, <3>1, FarmRows DEF RowsToDrive, RowsOf
      <3> QED BY <2>2, <3>00, <3>2 DEF Started
    <2>5. CASE ~OnFarm(opt)
      <3>1. Duration = Planned(opt)
        <4>1. Padded \in Nat /\ Duration = Mezz.duration + Padded /\ Mezz.duration \in Nat
          BY <1>1, <1>3, MezzType DEF Underway
        <4> QED BY <2>1, <2>5, <4>1
      <3>2. DOMAIN store["local"] = {MezzFile}
        BY <1>1, <2>1, <2>5 DEF RowsInv, FreshInv, Blurs
      <3>3. /\ UNION {RowsOf(u) : u \in LocalUnits} = EncodedRows(opt)
            /\ \A v \in Variants(opt) : ~IsComplete(store["local"], Name(v[1], v[2], 0))
        BY <1>1, <2>5, <3>1, <3>2, LocalRows
      <3> DEFINE skipped == {w \in Variants(opt) : ~OnFarm(opt)
                                      /\ IsComplete(store["local"], Name(w[1], w[2], 0))}
      <3>6. skipped = {}
        BY <3>3
      <3>7. todo' = LocalUnits /\ driven' = driven \union {WholeRow(v) : v \in skipped}
        BY <1>1, <2>5
      <3> HIDE DEF skipped
      <3>4. driven' = driven /\ todo' = LocalUnits
        BY <3>6, <3>7
      <3>5. RowsToDrive' = EncodedRows(opt)
        BY <3>3, <3>4 DEF RowsToDrive, RowsOf
      <3> QED BY <2>2, <3>4, <3>5 DEF Started
    <2> QED BY <2>4, <2>5
  <1>4. DrivenInv'
    BY <1>1, <1>3 DEF DrivenInv
  <1> QED BY <1>2, <1>4 DEF RowsInv

LEMMA EncodeRowsKept ==
  ASSUME TypeInv, RowsInv, NEW u \in todo, NEW table, EncodeVariant(u, table)
  PROVE  RowsInv'
  <1>1. pc = "encode" /\ pc' = "encode" /\ UNCHANGED <<opt, rows, error>> /\ todo' = todo \ {u}
        /\ driven' = driven \union RowsOf(u) /\ excuse \subseteq excuse'
    BY DEF EncodeVariant
  <1>2. driven' \cup RowsToDrive' = driven \cup RowsToDrive
    BY <1>1 DEF RowsToDrive, RowsOf
  <1>3. excuse' \cap Blurs = {} => excuse \cap Blurs = {}
    BY <1>1
  <1> QED BY <1>1, <1>2, <1>3 DEF RowsInv, FreshInv, AnnouncedInv, DrivenInv

LEMMA FailRows ==
  ASSUME TypeInv, RowsInv, NEW u \in todo, EncodeFails(u)
  PROVE  RowsInv'
  <1>1. pc = "encode" /\ pc' = "encode" /\ UNCHANGED <<opt, rows, excuse>> /\ error' = TRUE
    BY DEF EncodeFails
  <1> QED BY <1>1 DEF RowsInv, FreshInv, AnnouncedInv, DrivenInv

LEMMA EndsRows ==
  ASSUME TypeInv, RowsInv, EncodeAllEnds
  PROVE  RowsInv'
  <1>1. pc = "encode" /\ todo = {} /\ UNCHANGED <<opt, rows, driven, excuse>>
        /\ (pc' = "failed" \/ (pc' = "concat" /\ ~error))
    <2>1. CASE error
      BY <2>1 DEF EncodeAllEnds
    <2>2. CASE ~error
      BY <2>2 DEF EncodeAllEnds
    <2> QED BY <2>1, <2>2
  <1>2. RowsToDrive = {}
    BY <1>1 DEF RowsToDrive
  <1> QED BY <1>1, <1>2 DEF RowsInv, FreshInv, AnnouncedInv, DrivenInv

LEMMA ConcatRows ==
  ASSUME TypeInv, RowsInv, NEW v \in todo, ConcatChunks(v)
  PROVE  RowsInv'
  <1>1. pc = "concat" /\ UNCHANGED <<opt, rows, driven, excuse>> /\ pc' \in {"concat", "failed"}
    BY JoinSteps
  <1> QED BY <1>1 DEF RowsInv, FreshInv, AnnouncedInv, DrivenInv

LEMMA AudioRows ==
  ASSUME TypeInv, RowsInv, MakeAudio
  PROVE  RowsInv'
  <1>1. pc = "concat" /\ pc' = "package" /\ UNCHANGED <<opt, rows, excuse>>
        /\ driven' = driven \cup (IF Info(opt).audio THEN {Row("audio", "")} ELSE {})
    BY DEF MakeAudio
  <1>2. todo' = Codecs(opt) /\ opt.mode # "resume"
    BY AudioKeepsType
  <1>3. RowsToPackage' = UNION {PackageRows(opt, c) : c \in Codecs(opt)}
    BY <1>1, <1>2 DEF RowsToPackage
  <1>4. Announced(opt) = (Started(opt) \cup (IF Info(opt).audio THEN {Row("audio", "")} ELSE {}))
                           \cup UNION {PackageRows(opt, c) : c \in Codecs(opt)}
    <2> DEFINE A == {Row("mezzanine", "")}
               B == IF Info(opt).audio THEN {Row("audio", "")} ELSE {}
               C == UNION {EncodeRows(opt, v) : v \in Variants(opt)}
               D == UNION {PackageRows(opt, c) : c \in Codecs(opt)}
    <2>1. Announced(opt) = A \union B \union C \union D
      BY Zenon DEF Announced
    <2>3. Started(opt) = A \cup C
      BY Zenon DEF Started, EncodedRows
    <2> HIDE DEF A, B, C, D
    <2>2. Announced(opt) = (Started(opt) \cup B) \cup D
      BY <2>1, <2>3
    <2> QED BY <2>2 DEF B, D
  <1>5. excuse \cap Blurs = {} => driven' \cup RowsToPackage' = Announced(opt)
    BY <1>1, <1>2, <1>3, <1>4 DEF RowsInv, DrivenInv
  <1> QED BY <1>1, <1>5 DEF RowsInv, FreshInv, AnnouncedInv, DrivenInv

LEMMA PackageRowsKept ==
  ASSUME TypeInv, RowsInv, NEW c \in todo, Package(c)
  PROVE  RowsInv'
  <1>1. pc = "package" /\ pc' = "package" /\ UNCHANGED <<opt, rows>> /\ todo' = todo \ {c}
        /\ excuse \subseteq excuse'
        /\ (Packaged(c) # <<>> => driven' = driven \union PackageRows(opt, c))
    BY DEF Package
  <1>2. ASSUME opt.mode # "resume" PROVE Packaged(c) # <<>>
    <2>1. c \in Codecs(opt)
      BY <1>2, PackageKeepsType DEF ToPackage
    <2>2. Valid(opt)
      BY AskedIsValid DEF TypeInv
    <2>3. RungsOf(opt, c) # <<>>
      BY <2>1 DEF Codecs
    <2> DEFINE R == RungsOf(opt, c)
    <2>4. DOMAIN R # {}
      <3>1. R = [k \in DOMAIN R |-> R[k]]
        BY DEF RungsOf, SelectRungs
      <3> HIDE DEF R
      <3>2. ASSUME DOMAIN R = {} PROVE R = <<>>
        BY <3>1, <3>2
      <3> QED BY <2>3, <3>2 DEF R
    <2> HIDE DEF R
    <2>5. DOMAIN LabelsOf(opt, c) # {}
      BY <2>4 DEF LabelsOf, R
    <2> QED BY <1>2, <2>5 DEF Packaged
  <1>3. opt.mode # "resume" => driven' \cup RowsToPackage' = driven \cup RowsToPackage
    BY <1>1, <1>2 DEF RowsToPackage
  <1>4. excuse' \cap Blurs = {} => excuse \cap Blurs = {}
    BY <1>1
  <1> QED BY <1>1, <1>3, <1>4 DEF RowsInv, FreshInv, AnnouncedInv, DrivenInv

LEMMA FinishRows ==
  ASSUME TypeInv, RowsInv, Finish
  PROVE  RowsInv'
  <1>1. pc = "package" /\ todo = {} /\ pc' = "done" /\ UNCHANGED <<opt, rows, driven, excuse>>
    BY DEF Finish
  <1>2. RowsToPackage = {}
    BY <1>1 DEF RowsToPackage
  <1> QED BY <1>1, <1>2 DEF RowsInv, FreshInv, AnnouncedInv, DrivenInv

LEMMA KillRows ==
  ASSUME Kill
  PROVE  RowsInv'
  BY DEF Kill, RowsInv, FreshInv, AnnouncedInv, DrivenInv

LEMMA NextRows ==
  ASSUME TypeInv, RowsInv, [Next]_vars
  PROVE  RowsInv'
  <1>1. CASE \E o \in Options : Refuse(o) \/ StartFull(o) \/ StartFarm(o) \/ StartResume(o)
    BY <1>1, BeginRows
  <1>2. CASE MakeMezzanine
    BY <1>2, MezzanineRows
  <1>3. CASE LayOut
    BY <1>3, LayOutRows
  <1>4. CASE \E u \in todo : \E t \in BOOLEAN : EncodeVariant(u, t)
    BY <1>4, EncodeRowsKept
  <1>5. CASE \E u \in todo : EncodeFails(u)
    BY <1>5, FailRows
  <1>6. CASE EncodeAllEnds
    BY <1>6, EndsRows
  <1>7. CASE \E v \in todo : ConcatChunks(v)
    BY <1>7, ConcatRows
  <1>8. CASE MakeAudio
    BY <1>8, AudioRows
  <1>9. CASE \E c \in todo : Package(c)
    BY <1>9, PackageRowsKept
  <1>10. CASE Finish
    BY <1>10, FinishRows
  <1>11. CASE Kill
    BY <1>11, KillRows
  <1>12. CASE UNCHANGED vars
    <2>1. UNCHANGED <<pc, opt, store, todo, error, rows, driven, excuse>>
      BY <1>12 DEF vars
    <2>2. RowsToDrive' = RowsToDrive /\ RowsToPackage' = RowsToPackage
      BY <2>1 DEF RowsToDrive, RowsToPackage, RowsOf
    <2>3. FreshInv' /\ AnnouncedInv'
      BY <2>1 DEF RowsInv, FreshInv, AnnouncedInv
    <2>4. DrivenInv'
      BY <2>1, <2>2 DEF RowsInv, DrivenInv
    <2> QED BY <2>3, <2>4 DEF RowsInv
  <1> QED BY <1>1, <1>2, <1>3, <1>4, <1>5, <1>6, <1>7, <1>8, <1>9, <1>10, <1>11, <1>12, StepsAre

(* A run that reuses nothing, pads nothing, whose mezzanine does not outlast *)
(* the plan and whose bands are cut alike drives the rows it announced.      *)
THEOREM RowsAreFilled == Spec => []RowsFilled
  <1>1. Init => RowsInv
    BY DEF Init, RowsInv, FreshInv, AnnouncedInv, DrivenInv
  <1>2. TypeInv /\ RowsInv /\ [Next]_vars => RowsInv'
    BY NextRows
  <1>3. RowsInv => RowsFilled
    <2> SUFFICES ASSUME RowsInv, pc = "done", opt.mode # "resume", excuse \cap Blurs = {} PROVE rows = driven
      BY DEF RowsFilled, Blurs
    <2> QED BY DEF RowsInv, AnnouncedInv, DrivenInv
  <1> QED BY <1>1, <1>2, <1>3, Typed, PTL DEF Spec

(***************************************************************************)
(* What the files of a recipe hold.                                        *)
(***************************************************************************)
MezzOf(r) == Mezzanine(Clips[r.clip], r.limit)
PadOf(r) == Padding(r, MezzOf(r).duration)
DurOf(r) == MezzOf(r).duration + PadOf(r)
WholeOf(r) == WholeVariant(MezzOf(r), PadOf(r))
PartOf(r, i) == EncodedChunk(MezzOf(r), LocalTiling(r, DurOf(r))[i], DurOf(r), PadOf(r), TRUE)

PieceMade(r, i) == IF i = 0 THEN WholeOf(r) ELSE PartOf(r, i)

IsRecipe(r) ==
  /\ r \in [clip : DOMAIN Clips, limit : Nat, chunk : Nat, seg : Nat \ {0}, pad : BOOLEAN]
  /\ r.pad => ChunkGrid(r.seg) % PadBoundary(r) = 0

LEMMA RecipeIs ==
  ASSUME NEW o, Valid(o), ~OnFarm(o)
  PROVE  /\ IsRecipe(Recipe(o)) /\ MezzOf(Recipe(o)) = Mezzanine(Info(o), LimitOf(o))
         /\ \A d : Padding(Recipe(o), d) = Padding(o, d)
         /\ \A d : LocalTiling(Recipe(o), d) = LocalTiling(o, d)
  <1> DEFINE r == Recipe(o)
  <1>1. /\ r.clip = o.clip /\ r.limit = o.limit /\ r.chunk = o.chunk /\ r.seg = o.seg /\ r.pad = o.pad
        /\ r = [clip |-> o.clip, limit |-> o.limit, chunk |-> o.chunk, seg |-> o.seg, pad |-> o.pad]
    BY DEF Recipe
  <1> HIDE DEF r
  <1>2. PadBoundary(r) = PadBoundary(o)
    BY <1>1 DEF PadBoundary
  <1>3. r \in [clip : DOMAIN Clips, limit : Nat, chunk : Nat, seg : Nat \ {0}, pad : BOOLEAN]
    BY <1>1 DEF Valid
  <1>4. IsRecipe(r)
    BY <1>1, <1>2, <1>3 DEF IsRecipe, Valid
  <1>5. MezzOf(r) = Mezzanine(Info(o), LimitOf(o))
    BY <1>1 DEF MezzOf, Info, LimitOf
  <1>6. \A d : Padding(r, d) = Padding(o, d)
    BY <1>1, <1>2 DEF Padding
  <1>7. \A d : LocalTiling(r, d) = LocalTiling(o, d)
    BY <1>1 DEF LocalTiling
  <1> QED BY <1>4, <1>5, <1>6, <1>7 DEF r

LEMMA RecipeType ==
  ASSUME NEW r, IsRecipe(r)
  PROVE  /\ IsMezzanine(MezzOf(r)) /\ PadOf(r) \in Nat /\ DurOf(r) \in Nat \ {0}
         /\ PadOf(r) \in {0, PadTo(MezzOf(r).duration, PadBoundary(r))}
         /\ PadBoundary(r) \in Nat \ {0}
         /\ PadOf(r) # 0 => ChunkGrid(r.seg) % PadBoundary(r) = 0
  <1>1. r.clip \in DOMAIN Clips /\ r.limit \in Nat /\ r.seg \in Nat \ {0}
    BY DEF IsRecipe
  <1>2. IsMezzanine(MezzOf(r))
    BY <1>1, MezzanineType DEF MezzOf
  <1>3. MezzOf(r).duration \in Nat \ {0}
    BY <1>2 DEF IsMezzanine
  <1>4. PadOf(r) \in Nat /\ PadOf(r) \in {0, PadTo(MezzOf(r).duration, PadBoundary(r))}
    BY <1>1, <1>3, PaddingType DEF PadOf
  <1>5. PadOf(r) # 0 => r.pad
    BY DEF PadOf, Padding
  <1>6. PadBoundary(r) \in Nat \ {0}
    BY <1>1, BoundaryType
  <1> QED BY <1>2, <1>3, <1>4, <1>5, <1>6 DEF DurOf, IsRecipe

(* Without a gap, frames are counted right without their table.            *)
LEMMA SureChunk ==
  ASSUME NEW m, IsMezzanine(m), NEW pad \in Nat, NEW total \in Nat, NEW tile \in Tile, tile.start < tile.end,
         NEW table \in BOOLEAN, table \/ Gapless(m),
         tile.end < total => pad = 0 \/ tile.end <= m.duration
  PROVE  EncodedChunk(m, tile, total, pad, table) = EncodedChunk(m, tile, total, pad, TRUE)
  <1>1. m.slots \in SUBSET Nat /\ IsFiniteSet(m.slots) /\ m.duration \in Nat \ {0}
    BY DEF IsMezzanine
  <1>2. tile.start \in Nat /\ tile.end \in Nat /\ Period \in Nat \ {0}
    BY TicksAssumption DEF Tile
  <1>3. tile.end < total => Countable(m, pad, tile.end, table)
    <2> SUFFICES ASSUME tile.end < total, ~table PROVE Countable(m, pad, tile.end, table)
      BY DEF Countable
    <2> DEFINE n == CeilDiv(m.duration, Period)
    <2>1. n \in Nat \ {0}
      BY <1>1, <1>2, Rounding
    <2>2. m.slots = 0 .. n - 1
      BY DEF Gapless
    <2> HIDE DEF n
    <2>3. Cardinality(0 .. n - 1) = n
      BY <2>1, FS_Interval
    <2>4. m.slots = 0 .. Cardinality(m.slots) - 1 /\ Cardinality(m.slots) = n
      BY <2>2, <2>3
    <2>5. tile.end <= m.duration => CeilDiv(tile.end, Period) <= n
      <3> SUFFICES ASSUME tile.end <= m.duration PROVE CeilDiv(tile.end, Period) <= n
        OBVIOUS
      <3> DEFINE k == CeilDiv(tile.end, Period)
      <3>1. k \in Nat /\ (\A s \in Nat : s * Period < tile.end <=> s < k)
        BY <1>2, RoundingUp
      <3>2. \A s \in Nat : s * Period < m.duration <=> s < n
        BY <1>1, <1>2, RoundingUp DEF n
      <3> HIDE DEF k
      <3>3. ~(n < k)
        <4>1. ASSUME n < k PROVE FALSE
          <5>1. n * Period < tile.end
            BY <2>1, <3>1, <4>1
          <5>2. ~(n * Period < m.duration)
            BY <2>1, <3>2
          <5>3. n * Period \in Nat
            BY <1>2, <2>1
          <5> QED BY <1>1, <1>2, <5>1, <5>2, <5>3
        <4> QED BY <4>1
      <3> QED BY <2>1, <3>1, <3>3 DEF k
    <2> QED BY <2>4, <2>5 DEF Countable
  <1>4. tile.end < total => Countable(m, pad, tile.end, TRUE)
    BY DEF Countable
  <1> DEFINE part == SubSeq(Shown(m, pad), Cardinality(Early(m, tile.start)) + 1,
                            IF tile.end < total THEN Cardinality(Early(m, tile.end)) ELSE Len(Shown(m, pad)))
  <1>5. \A known \in BOOLEAN :
          (tile.end < total => Countable(m, pad, tile.end, known)) => EncodedChunk(m, tile, total, pad, known) = part
    <2> SUFFICES ASSUME NEW known \in BOOLEAN, tile.end < total => Countable(m, pad, tile.end, known)
                 PROVE  EncodedChunk(m, tile, total, pad, known) = part
      OBVIOUS
    <2> QED BY <1>1, ChunkIsPart
  <1> HIDE DEF part
  <1>6. EncodedChunk(m, tile, total, pad, table) = part
    BY <1>3, <1>5
  <1>7. EncodedChunk(m, tile, total, pad, TRUE) = part
    BY <1>4, <1>5, Zenon
  <1> QED BY <1>6, <1>7

(* The chunks of a recipe.                                                 *)
LEMMA RecipeTiles ==
  ASSUME NEW r, IsRecipe(r), NEW i \in DOMAIN LocalTiling(r, DurOf(r))
  PROVE  LET tile == LocalTiling(r, DurOf(r))[i]
         IN  /\ i \in Nat \ {0} /\ tile \in Tile /\ tile.start < tile.end
             /\ tile.end < DurOf(r) => PadOf(r) = 0 \/ tile.end <= MezzOf(r).duration
  <1> DEFINE d == DurOf(r)
             t == Tiling(d, r.chunk, r.seg)
  <1>1. r.chunk \in Nat /\ r.seg \in Nat \ {0} /\ d \in Nat \ {0}
    BY RecipeType DEF IsRecipe
  <1>2. /\ r.chunk \in Nat \ {0} /\ LocalTiling(r, d) = t
        /\ t \in Seq(Tile) /\ EndToEnd(t, d) /\ Len(t) \in Nat \ {0} /\ DOMAIN t = 1 .. Len(t)
    BY <1>1, LocalTilingType
  <1>3. OnGrid(t, ChunkGrid(r.seg))
    BY <1>1, <1>2, TilingType
  <1>4. d = MezzOf(r).duration + PadOf(r)
    BY DEF DurOf
  <1>0. i \in DOMAIN t
    BY <1>2
  <1> HIDE DEF t, d
  <1>5. i \in 1 .. Len(t) /\ t[i] \in Tile /\ t[i].start < t[i].end /\ t[i].end \in Nat
    BY <1>0, <1>2 DEF EndToEnd
  <1>6. ASSUME t[i].end < d, PadOf(r) # 0 PROVE t[i].end <= MezzOf(r).duration
    <2>1. i # Len(t)
      BY <1>1, <1>2, <1>6 DEF EndToEnd
    <2>2. i + 1 \in 1 .. Len(t) /\ i < Len(t)
      BY <1>2, <1>5, <2>1
    <2>3. t[i].end % ChunkGrid(r.seg) = 0
      BY <1>2, <1>3, <1>5, <2>2 DEF EndToEnd, OnGrid
    <2>4. MezzOf(r).duration \in Nat /\ PadBoundary(r) \in Nat \ {0} /\ ChunkGrid(r.seg) % PadBoundary(r) = 0
          /\ PadOf(r) = PadTo(MezzOf(r).duration, PadBoundary(r)) /\ PadOf(r) \in Nat
      BY <1>6, RecipeType DEF IsMezzanine
    <2>5. ChunkGrid(r.seg) \in Nat \ {0}
      BY <1>1, GridIsPositive
    <2>6. PadTo(MezzOf(r).duration, PadBoundary(r)) > 0
      BY <1>6, <2>4
    <2> QED BY <1>4, <1>5, <1>6, <2>3, <2>4, <2>5, <2>6, PaddingIsLast
  <1>7. LocalTiling(r, DurOf(r))[i] = t[i]
    BY <1>2 DEF d
  <1> QED BY <1>5, <1>6, <1>7 DEF d

(* The chunks of a recipe make up its whole.                               *)
LEMMA RecipeJoined ==
  ASSUME NEW r, IsRecipe(r), NEW n, n = Len(LocalTiling(r, DurOf(r))), n > 0
  PROVE  FlattenSeq([i \in 1 .. n |-> PartOf(r, i)]) = WholeOf(r)
  <1> DEFINE d == DurOf(r)
             t == Tiling(d, r.chunk, r.seg)
             m == MezzOf(r)
  <1>1. r.chunk \in Nat /\ r.seg \in Nat \ {0} /\ d \in Nat \ {0}
    BY RecipeType DEF IsRecipe
  <1>2. LocalTiling(r, d) # <<>>
    BY DEF d
  <1>3. r.chunk \in Nat \ {0} /\ LocalTiling(r, d) = t
    BY <1>1, <1>2, LocalTilingType
  <1>4. m.slots \in SUBSET Nat /\ IsFiniteSet(m.slots) /\ PadOf(r) \in Nat
    BY RecipeType DEF IsMezzanine
  <1>5. Attained(m, d, d, PadOf(r))
    BY DEF Attained
  <1>6. t \in Seq(Tile) /\ EndToEnd(t, d)
    BY <1>1, <1>3, TilingType
  <1>7. JoinedChunks(m, t, d, PadOf(r), TRUE) = WholeVariant(m, PadOf(r))
    <2> HIDE DEF m, d, t
    <2>1. \A known \in BOOLEAN : AllCountable(m, t, d, PadOf(r), known) =>
            JoinedChunks(m, t, d, PadOf(r), known) = WholeVariant(m, PadOf(r))
      <3> SUFFICES ASSUME NEW known \in BOOLEAN, AllCountable(m, t, d, PadOf(r), known)
                   PROVE  JoinedChunks(m, t, d, PadOf(r), known) = WholeVariant(m, PadOf(r))
        OBVIOUS
      <3> QED BY <1>1, <1>4, <1>5, <1>6, ChunksJoined
    <2>2. AllCountable(m, t, d, PadOf(r), TRUE)
      BY DEF AllCountable, Countable
    <2> QED BY <2>1, <2>2, Zenon
  <1>8. JoinedChunks(m, t, d, PadOf(r), TRUE) = FlattenSeq([i \in 1 .. n |-> PartOf(r, i)])
    BY <1>3 DEF JoinedChunks, PartOf
  <1> QED BY <1>7, <1>8 DEF WholeOf

(***************************************************************************)
(* The work directory of the local pipeline.                               *)
(***************************************************************************)
MadeType == IsFiniteSet(made) /\ \A r \in made : IsRecipe(r)

MadeFiles ==
  \A f \in DOMAIN store["local"] : IsComplete(store["local"], f) => made # {}

MadeMezzanine ==
  IsComplete(store["local"], MezzFile) => \E m \in made : store["local"][MezzFile].content = MezzOf(m)

MadePieces ==
  \A r \in made : made = {r} /\ "hole" \notin excuse =>
    \A f \in DOMAIN store["local"] : IsPiece(f) /\ IsComplete(store["local"], f) =>
      store["local"][f].content = PieceMade(r, f[3])

LocalInv == MadeType /\ MadeFiles /\ MadeMezzanine /\ MadePieces

(* Which recipes the run in progress relies on.                            *)
MadeInv ==
  /\ opt.mode = "full" /\ pc \in Underway \cup {"mezzanine"} =>
       Recipe(opt) \in made /\ ("mixed" \notin excuse => made = {Recipe(opt)})
  /\ opt.mode = "resume" /\ pc \in {"package", "done"} /\ "mixed" \notin excuse =>
       \E m \in made : made = {m}

LEMMA FullRun ==
  ASSUME TypeInv, MadeInv, ~OnFarm(opt), pc \in {"mezzanine", "plan", "encode", "concat"}
  PROVE  /\ opt.mode = "full" /\ Where = "local" /\ Recipe(opt) \in made /\ Valid(opt)
         /\ "mixed" \notin excuse => made = {Recipe(opt)}
  <1>1. Valid(opt)
    BY AskedIsValid DEF TypeInv
  <1>2. opt.mode = "full"
    BY <1>1 DEF TypeInv, Valid, OnFarm
  <1> QED BY <1>1, <1>2 DEF MadeInv, Underway, Where

(* A piece that a local run encodes is that of its recipe.                 *)
LEMMA LocalPiece ==
  ASSUME TypeInv, Valid(opt), ~OnFarm(opt), pc = "encode", NEW u \in Units,
         NEW table \in BOOLEAN, table \/ Gapless(Mezz), Mezz = MezzOf(Recipe(opt))
  PROVE  EncodedChunk(Mezz, TileOf(u), Duration, Padded, table) = PieceMade(Recipe(opt), u.chunk)
  <1> DEFINE r == Recipe(opt)
  <1>1. IsRecipe(r) /\ (\A d : Padding(r, d) = Padding(opt, d)) /\ (\A d : LocalTiling(r, d) = LocalTiling(opt, d))
    BY RecipeIs
  <1>2. Padded = PadOf(r) /\ Duration = DurOf(r)
    BY <1>1 DEF Padded, Duration, PadOf, DurOf
  <1> DEFINE t == LocalTiling(opt, Duration)
  <1>3. PICK v \in Variants(opt), i \in (IF DOMAIN t = {} THEN {0} ELSE DOMAIN t) :
          u = [codec |-> v[1], labels |-> <<v[2]>>, chunk |-> i, key |-> 0]
    BY DEF Units, LocalPlan
  <1>4. u.chunk = i
    BY <1>3
  <1>5. t = LocalTiling(r, DurOf(r))
    BY <1>1, <1>2
  <1>6. IsMezzanine(MezzOf(r)) /\ PadOf(r) \in Nat /\ DurOf(r) \in Nat \ {0}
    BY <1>1, RecipeType
  <1>7. ASSUME NEW j \in DOMAIN t PROVE j \in Nat \ {0} /\ t[j] \in Tile /\ t[j].start < t[j].end
                /\ (t[j].end < DurOf(r) => PadOf(r) = 0 \/ t[j].end <= MezzOf(r).duration)
    BY <1>1, <1>5, RecipeTiles
  <1> HIDE DEF r, t
  <1>8. CASE DOMAIN t = {}
    <2>1. u.chunk = 0
      BY <1>3, <1>4, <1>8
    <2> DEFINE tile == [start |-> 0, end |-> Duration]
    <2>2. TileOf(u) = tile
      BY <2>1 DEF TileOf
    <2>3. tile.start = 0 /\ tile.end = Duration /\ ~(tile.end < Duration)
      BY <1>2, <1>6
    <2> HIDE DEF tile
    <2>4. EncodedChunk(Mezz, tile, Duration, Padded, table) = Filtered(Mezz, 0, Padded)
      BY <2>3 DEF EncodedChunk
    <2> QED BY <1>2, <2>1, <2>2, <2>4 DEF PieceMade, WholeOf, WholeVariant, r
  <1>9. CASE DOMAIN t # {}
    <2>1. i \in DOMAIN t /\ i # 0
      BY <1>3, <1>7, <1>9
    <2>2. TileOf(u) = t[i]
      BY <1>4, <2>1 DEF TileOf, t
    <2>4. IsMezzanine(Mezz) /\ Padded \in Nat /\ Duration \in Nat /\ Mezz = MezzOf(r)
      BY <1>2, <1>6 DEF r
    <2>5. t[i] \in Tile /\ t[i].start < t[i].end
          /\ (t[i].end < Duration => Padded = 0 \/ t[i].end <= Mezz.duration)
      BY <1>2, <1>7, <2>1, <2>4
    <2>3. EncodedChunk(Mezz, t[i], Duration, Padded, table) = EncodedChunk(Mezz, t[i], Duration, Padded, TRUE)
      BY <2>4, <2>5, SureChunk
    <2> QED BY <1>2, <1>4, <1>5, <2>1, <2>2, <2>3 DEF PieceMade, PartOf, r
  <1> QED BY <1>8, <1>9

LEMMA LocalKept ==
  ASSUME LocalInv, store'["local"] = store["local"], made' = made, "hole" \in excuse => "hole" \in excuse'
  PROVE  LocalInv'
  BY DEF LocalInv, MadeType, MadeFiles, MadeMezzanine, MadePieces

LEMMA LocalWritten ==
  ASSUME LocalInv, made' = made, "hole" \in excuse => "hole" \in excuse',
         NEW names, NEW file, store'["local"] = Put(store["local"], names, file),
         file.done => made # {},
         file.done /\ MezzFile \in names => \E m \in made : file.content = MezzOf(m),
         \A r \in made : made = {r} /\ "hole" \notin excuse' /\ file.done =>
           \A f \in names : IsPiece(f) => file.content = PieceMade(r, f[3])
  PROVE  LocalInv'
  <1> DEFINE files == store["local"]
  <1>0. store'["local"] = Put(files, names, file)
    OBVIOUS
  <1> HIDE DEF files
  <1> DEFINE now == Put(files, names, file)
  <1>1. /\ DOMAIN now = names \cup DOMAIN files
        /\ \A f \in names : now[f] = file /\ (IsComplete(now, f) <=> file.done)
        /\ \A f : f \notin names => (IsComplete(now, f) <=> IsComplete(files, f))
        /\ \A f \in DOMAIN files : f \notin names => now[f] = files[f]
    BY ONLY Wrote
  <1>2. store'["local"] = now
    BY <1>0
  <1> HIDE DEF now
  <1>3. MadeType'
    BY DEF LocalInv, MadeType
  <1>4. MadeFiles'
    <2> SUFFICES ASSUME NEW f \in DOMAIN now, IsComplete(now, f) PROVE made # {}
      BY <1>2 DEF MadeFiles
    <2>1. CASE f \in names
      BY <1>1, <2>1
    <2>2. CASE f \notin names
      BY <1>1, <2>2 DEF LocalInv, MadeFiles, files
    <2> QED BY <2>1, <2>2
  <1>5. MadeMezzanine'
    <2> SUFFICES ASSUME IsComplete(now, MezzFile) PROVE \E m \in made : now[MezzFile].content = MezzOf(m)
      BY <1>2 DEF MadeMezzanine
    <2>1. CASE MezzFile \in names
      BY <1>1, <2>1
    <2>2. CASE MezzFile \notin names
      <3>1. IsComplete(files, MezzFile) /\ now[MezzFile] = files[MezzFile]
        BY <1>1, <2>2 DEF IsComplete
      <3> QED BY <3>1 DEF LocalInv, MadeMezzanine, files
    <2> QED BY <2>1, <2>2
  <1>6. MadePieces'
    <2> SUFFICES ASSUME NEW r \in made, made = {r}, "hole" \notin excuse',
                        NEW f \in DOMAIN now, IsPiece(f), IsComplete(now, f)
                 PROVE  now[f].content = PieceMade(r, f[3])
      BY <1>2 DEF MadePieces
    <2>1. CASE f \in names
      BY <1>1, <2>1
    <2>2. CASE f \notin names
      <3>1. f \in DOMAIN files /\ IsComplete(files, f) /\ now[f] = files[f]
        BY <1>1, <2>2
      <3> QED BY <3>1 DEF LocalInv, MadePieces, files
    <2> QED BY <2>1, <2>2
  <1> QED BY <1>3, <1>4, <1>5, <1>6 DEF LocalInv

(* A full run starts from what is left of the files of earlier ones.       *)
LEMMA FullStarts ==
  ASSUME TypeInv, LocalInv, NEW o \in Options, StartFull(o)
  PROVE  LocalInv' /\ MadeInv'
  <1> DEFINE old == store["local"]
             files == Swept(o, old)
             own == Recipe(o)
             kept == IF files = << >> THEN {}
                     ELSE IF o.force THEN {[Recipe(o) EXCEPT !.clip = m.clip, !.limit = m.limit] : m \in made}
                     ELSE made
  <1>1. /\ opt' = [o EXCEPT !.mode = "full"] /\ pc' = "mezzanine"
        /\ store' = [store EXCEPT !["local"] = files] /\ made' = kept \cup {own}
        /\ excuse' = (IF files = << >> THEN {} ELSE {"reuse"} \union Holed)
                      \union (IF kept \subseteq {own} THEN {} ELSE {"mixed"})
        /\ o.mode \in {"full", "resume"}
    BY DEF StartFull
  <1>2. /\ FilesOK(files) /\ DOMAIN files \in SUBSET DOMAIN old
        /\ \A f \in DOMAIN files : /\ files[f] = old[f]
                                   /\ IsComplete(old, f) /\ IsComplete(files, f)
                                   /\ o.force => f = MezzFile
    BY SweptOK DEF TypeInv
  <1>3. store'["local"] = files
    BY <1>1 DEF TypeInv
  <1>4. Valid(o) /\ ~OnFarm(o)
    BY <1>1, AskedIsValid DEF Asked, OnFarm
  <1>5. IsRecipe(own)
    BY <1>4, RecipeIs
  <1>6. files = << >> => DOMAIN files = {}
    <2> HIDE DEF files
    <2> QED OBVIOUS
  <1>7. /\ "mixed" \notin excuse' => kept \subseteq {own}
        /\ files # << >> => (Holed \subseteq excuse')
    <2> HIDE DEF kept, files, own
    <2> QED BY <1>1
  <1>8. files # << >> /\ "hole" \notin excuse' => "hole" \notin excuse
    BY <1>7 DEF Holed
  <1> HIDE DEF files, old
  <1>9. ASSUME NEW m \in made
        PROVE  LET r == [own EXCEPT !.clip = m.clip, !.limit = m.limit]
               IN  IsRecipe(r) /\ MezzOf(r) = MezzOf(m)
    <2> DEFINE r == [own EXCEPT !.clip = m.clip, !.limit = m.limit]
    <2>1. m.clip \in DOMAIN Clips /\ m.limit \in Nat
      BY DEF LocalInv, MadeType, IsRecipe
    <2> HIDE DEF own
    <2>2. r \in [clip : DOMAIN Clips, limit : Nat, chunk : Nat, seg : Nat \ {0}, pad : BOOLEAN]
      BY <1>5, <2>1 DEF IsRecipe
    <2>3. r.clip = m.clip /\ r.limit = m.limit /\ r.seg = own.seg /\ r.pad = own.pad
      BY <1>5 DEF IsRecipe
    <2> HIDE DEF r
    <2>4. IsRecipe(r)
      BY <1>5, <2>2, <2>3 DEF IsRecipe, PadBoundary
    <2>5. MezzOf(r) = MezzOf(m)
      BY <2>3 DEF MezzOf
    <2> QED BY <2>4, <2>5 DEF r
  <1>10. IsFiniteSet(kept)
    <2>1. IsFiniteSet(made)
      BY DEF LocalInv, MadeType
    <2> DEFINE T == {[Recipe(o) EXCEPT !.clip = m.clip, !.limit = m.limit] : m \in made}
               g == [m \in made |-> [Recipe(o) EXCEPT !.clip = m.clip, !.limit = m.limit]]
    <2>2. g \in [made -> T] /\ \A t \in T : \E m \in made : g[m] = t
      OBVIOUS
    <2> HIDE DEF g, T
    <2>3. g \in Surjection(made, T)
      BY <2>2 DEF Surjection
    <2>4. IsFiniteSet(T)
      BY <2>1, <2>3, FS_Surjection
    <2> QED BY <2>1, <2>4, FS_EmptySet DEF T
  <1>11. \A r \in kept : IsRecipe(r)
    BY <1>9 DEF LocalInv, MadeType
  <1>12. MadeType'
    <2>1. IsFiniteSet(kept \cup {own})
      <3> HIDE DEF kept, own
      <3> QED BY <1>10, FS_Union, FS_Singleton
    <2>2. \A r \in kept \cup {own} : IsRecipe(r)
      <3> HIDE DEF kept, own
      <3> QED BY <1>5, <1>11
    <2> QED BY <1>1, <2>1, <2>2 DEF MadeType
  <1>13. MadeFiles'
    BY <1>1 DEF MadeFiles
  <1>14. MadeMezzanine'
    <2> SUFFICES ASSUME IsComplete(files, MezzFile)
                 PROVE  \E r \in made' : files[MezzFile].content = MezzOf(r)
      BY <1>3 DEF MadeMezzanine
    <2>1. MezzFile \in DOMAIN files /\ files # << >>
      BY <1>6 DEF IsComplete
    <2>2. IsComplete(old, MezzFile) /\ files[MezzFile] = old[MezzFile]
      BY <1>2, <2>1
    <2>3. PICK m \in made : old[MezzFile].content = MezzOf(m)
      BY <2>2 DEF LocalInv, MadeMezzanine, old
    <2>4. CASE o.force
      <3> DEFINE r == [own EXCEPT !.clip = m.clip, !.limit = m.limit]
      <3>1. r \in kept
        BY <2>1, <2>4
      <3>2. r \in made' /\ MezzOf(r) = MezzOf(m)
        BY <1>1, <1>9, <3>1
      <3> QED BY <2>2, <2>3, <3>2
    <2>5. CASE ~o.force
      <3>1. m \in kept
        BY <2>1, <2>5
      <3> QED BY <1>1, <2>2, <2>3, <3>1
    <2> QED BY <2>4, <2>5
  <1>15. MadePieces'
    <2> SUFFICES ASSUME NEW r \in made', made' = {r}, "hole" \notin excuse',
                        NEW f \in DOMAIN files, IsPiece(f), IsComplete(files, f)
                 PROVE  files[f].content = PieceMade(r, f[3])
      BY <1>3 DEF MadePieces
    <2>1. f # MezzFile /\ files # << >>
      BY <1>6, PieceType
    <2>2. ~o.force /\ IsComplete(old, f) /\ files[f] = old[f]
      BY <1>2, <2>1
    <2>3. kept = made
      BY <2>1, <2>2
    <2>4. made # {} /\ f \in DOMAIN old
      BY <2>2 DEF LocalInv, MadeFiles, old, IsComplete
    <2>5. made = {r}
      BY <1>1, <2>3, <2>4
    <2>6. "hole" \notin excuse
      BY <1>8, <2>1
    <2> QED BY <2>2, <2>4, <2>5, <2>6 DEF LocalInv, MadePieces, old
  <1>16. MadeInv'
    <2>1. Recipe(opt') = own /\ opt'.mode = "full"
      <3>1. /\ opt'.clip = o.clip /\ opt'.limit = o.limit /\ opt'.chunk = o.chunk
            /\ opt'.seg = o.seg /\ opt'.pad = o.pad /\ opt'.mode = "full"
        BY <1>1, <1>4 DEF Valid, OptionFields
      <3> QED BY <3>1 DEF Recipe
    <2>2. own \in made' /\ ("mixed" \notin excuse' => made' = {own})
      <3> HIDE DEF kept, own
      <3> QED BY <1>1, <1>7
    <2>3. Recipe(opt)' = Recipe(opt')
      BY DEF Recipe
    <2> HIDE DEF own
    <2> QED BY <2>1, <2>2, <2>3 DEF MadeInv
  <1> QED BY <1>12, <1>13, <1>14, <1>15, <1>16 DEF LocalInv

LEMMA BeginLocal ==
  ASSUME TypeInv, LocalInv, NEW o \in Options,
         Refuse(o) \/ StartFull(o) \/ StartFarm(o) \/ StartResume(o)
  PROVE  LocalInv' /\ MadeInv'
  <1>1. CASE Refuse(o)
    <2>1. pc' = "failed" /\ store' = store /\ made' = made /\ excuse' = Holed
      BY <1>1 DEF Refuse
    <2>2. LocalInv'
      BY <2>1, LocalKept DEF Holed
    <2> QED BY <2>1, <2>2 DEF MadeInv, Underway
  <1>2. CASE StartFarm(o)
    <2>1. pc' = "mezzanine" /\ opt' = o /\ OnFarm(o) /\ made' = made /\ excuse' = Holed
          /\ store' = [store EXCEPT !["farm"] = << >>]
      BY <1>2 DEF StartFarm
    <2>2. store'["local"] = store["local"]
      BY <2>1 DEF TypeInv
    <2>3. LocalInv'
      BY <2>1, <2>2, LocalKept DEF Holed
    <2> QED BY <2>1, <2>3 DEF MadeInv, OnFarm
  <1>3. CASE StartResume(o)
    <2>1. /\ opt' = o /\ o.mode = "resume" /\ made' = made /\ store' = store
          /\ excuse' = (IF Cardinality(made) > 1 THEN {"mixed"} ELSE {}) \union Holed
          /\ Discovered(store["local"]) # {}
      BY <1>3 DEF StartResume
    <2>2. LocalInv'
      BY <2>1, LocalKept DEF Holed
    <2>3. made # {}
      <3>1. PICK f \in DOMAIN store["local"] : IsComplete(store["local"], f)
        BY <2>1 DEF Discovered
      <3> QED BY <3>1 DEF LocalInv, MadeFiles
    <2>4. "mixed" \notin excuse' => \E m \in made : made = {m}
      <3> SUFFICES ASSUME ~(Cardinality(made) > 1) PROVE \E m \in made : made = {m}
        BY <2>1
      <3>1. IsFiniteSet(made) /\ Cardinality(made) \in Nat
        BY FS_CardinalityType DEF LocalInv, MadeType
      <3>2. PICK m \in made : TRUE
        BY <2>3
      <3>3. IsFiniteSet(made \ {m}) /\ Cardinality(made \ {m}) = Cardinality(made) - 1
        BY <3>1, FS_RemoveElement
      <3>4. Cardinality(made \ {m}) \in Nat
        BY <3>3, FS_CardinalityType
      <3>5. Cardinality(made \ {m}) = 0
        BY <3>1, <3>3, <3>4
      <3>6. made \ {m} = {}
        BY <3>3, <3>5, FS_EmptySet
      <3> QED BY <3>2, <3>6
    <2> QED BY <2>1, <2>2, <2>4 DEF MadeInv
  <1> QED BY <1>1, <1>2, <1>3, FullStarts

LEMMA MezzanineLocal ==
  ASSUME TypeInv, LocalInv, MadeInv, MakeMezzanine
  PROVE  LocalInv' /\ MadeInv'
  <1>1. pc = "mezzanine" /\ pc' = "plan" /\ UNCHANGED <<opt, made, excuse>>
    BY DEF MakeMezzanine
  <1>2. MadeInv'
    <2>1. Recipe(opt)' = Recipe(opt)
      BY <1>1 DEF Recipe
    <2> QED BY <1>1, <2>1 DEF MadeInv, Underway
  <1>3. CASE store'["local"] = store["local"]
    BY <1>1, <1>2, <1>3, LocalKept
  <1>4. CASE store'["local"] # store["local"]
    <2>1. Where = "local" /\ ~OnFarm(opt)
      BY <1>4, MezzanineKeepsType DEF Where
    <2> DEFINE file == Done(Mezzanine(Info(opt), LimitOf(opt)))
    <2>2. store'["local"] = Put(store["local"], {MezzFile}, file)
      BY <1>4, <2>1, MezzanineKeepsType
    <2>3. Recipe(opt) \in made /\ file.content = MezzOf(Recipe(opt))
      BY <1>1, <2>1, FullRun, RecipeIs DEF Done
    <2> HIDE DEF file
    <2>4. \A f \in {MezzFile} : ~IsPiece(f)
      BY SpecialNames
    <2> QED BY <1>1, <1>2, <2>2, <2>3, <2>4, LocalWritten
  <1> QED BY <1>3, <1>4

LEMMA EncodeLocal ==
  ASSUME TypeInv, LocalInv, MadeInv, NEW u \in todo, NEW table \in BOOLEAN, EncodeVariant(u, table)
  PROVE  LocalInv' /\ MadeInv'
  <1>1. /\ pc = "encode" /\ pc' = "encode" /\ UNCHANGED <<opt, made>>
        /\ excuse' = excuse \union (IF ~table /\ ~Gapless(Mezz) THEN {"hole"} ELSE {})
    BY DEF EncodeVariant
  <1>2. excuse \subseteq excuse' /\ ("hole" \notin excuse' => table \/ Gapless(Mezz))
        /\ ("mixed" \in excuse' => "mixed" \in excuse)
    <2> DEFINE b == ~table /\ ~Gapless(Mezz)
    <2>1. excuse' = excuse \union (IF b THEN {"hole"} ELSE {})
      BY <1>1
    <2>2. excuse \subseteq excuse' /\ ("hole" \notin excuse' => ~b)
          /\ ("mixed" \in excuse' => "mixed" \in excuse)
      <3> HIDE DEF b
      <3> QED BY <2>1
    <2> QED BY <2>2
  <1>3. MadeInv'
    <2>1. Recipe(opt)' = Recipe(opt)
      BY <1>1 DEF Recipe
    <2> QED BY <1>1, <1>2, <2>1 DEF MadeInv, Underway
  <1> DEFINE content == EncodedChunk(Mezz, TileOf(u), Duration, Padded, table)
  <1>4. /\ u \in Units /\ store'[Where] = Put(store[Where], Outputs(u), Done(content))
        /\ \A w \in {"local", "farm"} : w # Where => store'[w] = store[w]
    BY EncodeWrites
  <1>5. CASE OnFarm(opt)
    <2>1. Where = "farm" /\ store'["local"] = store["local"]
      BY <1>4, <1>5 DEF Where
    <2> QED BY <1>1, <1>2, <1>3, <2>1, LocalKept
  <1>6. CASE ~OnFarm(opt)
    <2>1. Where = "local" /\ Recipe(opt) \in made /\ Valid(opt)
      BY <1>1, <1>6, FullRun
    <2>2. IsComplete(store["local"], MezzFile)
      BY <1>1, <2>1 DEF TypeInv, Underway
    <2>3. ASSUME NEW r \in made, made = {r}, "hole" \notin excuse', NEW f \in Outputs(u)
          PROVE  content = PieceMade(r, f[3])
      <3>1. r = Recipe(opt) /\ Mezz = MezzOf(r)
        BY <2>1, <2>2, <2>3 DEF LocalInv, MadeMezzanine, Mezz
      <3>2. table \/ Gapless(Mezz)
        BY <1>2, <2>3
      <3>3. content = PieceMade(r, u.chunk)
        BY <1>1, <1>4, <1>6, <2>1, <3>1, <3>2, LocalPiece
      <3>4. f[3] = u.chunk
        BY <1>1, <1>4, <2>3, UnitType
      <3> QED BY <3>3, <3>4
    <2>4. MezzFile \notin Outputs(u)
      BY <1>1, <1>4, UnitType, PieceType
    <2> DEFINE file == Done(content)
    <2>5. file.content = content /\ store'["local"] = Put(store["local"], Outputs(u), file)
      BY <1>4, <2>1 DEF Done
    <2> HIDE DEF file, content
    <2> QED BY <1>1, <1>2, <1>3, <2>1, <2>3, <2>4, <2>5, LocalWritten
  <1> QED BY <1>5, <1>6

(* A torn file changes nothing of what is complete.                        *)
LEMMA TornLocal ==
  ASSUME LocalInv, made' = made, "hole" \in excuse => "hole" \in excuse', NEW f,
         store'["local"] = Put(store["local"], {f}, Torn)
  PROVE  LocalInv'
  <1>1. ~Torn.done
    BY DEF Torn
  <1> QED BY <1>1, LocalWritten

LEMMA FailLocal ==
  ASSUME TypeInv, LocalInv, MadeInv, NEW u \in todo, EncodeFails(u)
  PROVE  LocalInv' /\ MadeInv'
  <1>1. pc = "encode" /\ pc' = "encode" /\ UNCHANGED <<opt, made, excuse>>
    BY DEF EncodeFails
  <1>2. MadeInv'
    <2>1. Recipe(opt)' = Recipe(opt)
      BY <1>1 DEF Recipe
    <2> QED BY <1>1, <2>1 DEF MadeInv, Underway
  <1> DEFINE f == Name(u.codec, u.labels[1], u.chunk)
  <1>3. store'[Where] = Put(store[Where], {f}, Torn)
        /\ \A w \in {"local", "farm"} : w # Where => store'[w] = store[w]
    BY FailKeepsType
  <1> HIDE DEF f
  <1>4. store'["local"] = store["local"] \/ store'["local"] = Put(store["local"], {f}, Torn)
    BY <1>3 DEF Where
  <1> QED BY <1>1, <1>2, <1>4, LocalKept, TornLocal

LEMMA ConcatLocal ==
  ASSUME TypeInv, LocalInv, MadeInv, NEW v \in todo, ConcatChunks(v)
  PROVE  LocalInv' /\ MadeInv'
  <1>1. pc = "concat" /\ pc' \in {"concat", "failed"} /\ UNCHANGED <<opt, made, excuse>>
    BY JoinSteps
  <1>2. MadeInv'
    <2>1. Recipe(opt)' = Recipe(opt)
      BY <1>1 DEF Recipe
    <2> QED BY <1>1, <2>1 DEF MadeInv, Underway
  <1>3. CASE store'["local"] = store["local"]
    BY <1>1, <1>2, <1>3, LocalKept
  <1>4. CASE store'["local"] # store["local"]
    <2>1. Where = "local" /\ ~OnFarm(opt) /\ v \in Variants(opt) /\ Joinable(v)
      BY <1>4, ConcatKeepsType DEF Where
    <2> DEFINE x == FlattenSeq(PartsOf(v))
               file == Done(x)
               f == Name(v[1], v[2], 0)
    <2>2. store'["local"] = Put(store["local"], {f}, file)
      BY <1>4, <2>1, ConcatKeepsType
    <2>3. Recipe(opt) \in made /\ Valid(opt)
      BY <1>1, <2>1, FullRun
    <2>4. IsComplete(store["local"], MezzFile)
      BY <1>1, <2>1 DEF TypeInv, Underway
    <2>5. ASSUME NEW r \in made, made = {r}, "hole" \notin excuse' PROVE x = WholeOf(r)
      <3>1. r = Recipe(opt) /\ Mezz = MezzOf(r)
        BY <2>1, <2>3, <2>4, <2>5 DEF LocalInv, MadeMezzanine, Mezz
      <3>2. IsRecipe(r) /\ (\A d : Padding(r, d) = Padding(opt, d)) /\ (\A d : LocalTiling(r, d) = LocalTiling(opt, d))
        BY <2>1, <2>3, <3>1, RecipeIs
      <3>3. Duration = DurOf(r)
        BY <3>1, <3>2 DEF Duration, PadOf, DurOf
      <3> DEFINE n == ChunksToJoin(v)
      <3>4. n = Len(LocalTiling(r, DurOf(r))) /\ n > 0
        BY <2>1, <3>2, <3>3 DEF ChunksToJoin, Joinable
      <3>5. n \in Nat
        BY <1>1, JoinType DEF TypeInv, Underway
      <3>6. ASSUME NEW i \in 1 .. n PROVE store["local"][Name(v[1], v[2], i)].content = PartOf(r, i)
        <4>1. i \in Nat /\ i # 0
          BY <3>5
        <4>2. IsPiece(Name(v[1], v[2], i))
          BY <2>1, <4>1, PieceOf DEF TypeInv
        <4>3. IsComplete(store["local"], Name(v[1], v[2], i))
          BY <2>1 DEF Joinable
        <4>4. Name(v[1], v[2], i)[3] = i
          BY NameParts
        <4> HIDE DEF n
        <4>5. store["local"][Name(v[1], v[2], i)].content = PieceMade(r, i)
          BY <1>1, <2>5, <4>2, <4>3, <4>4 DEF LocalInv, MadePieces, IsComplete
        <4> QED BY <4>1, <4>5 DEF PieceMade
      <3>7. PartsOf(v) = [i \in 1 .. n |-> PartOf(r, i)]
        BY <2>1, <3>6 DEF PartsOf
      <3> HIDE DEF n
      <3> QED BY <3>2, <3>4, <3>7, RecipeJoined
    <2>6. f[3] = 0 /\ f # MezzFile
      BY <2>1, WholePiece, PieceType, NameParts
    <2>7. file.content = x
      BY DEF Done
    <2> HIDE DEF file, x, f
    <2>8. \A r \in made : made = {r} /\ "hole" \notin excuse' /\ file.done =>
            \A g \in {f} : IsPiece(g) => file.content = PieceMade(r, g[3])
      BY <2>5, <2>6, <2>7 DEF PieceMade
    <2> QED BY <1>1, <1>2, <2>2, <2>3, <2>6, <2>8, LocalWritten
  <1> QED BY <1>3, <1>4

LEMMA AudioLocal ==
  ASSUME TypeInv, LocalInv, MadeInv, MakeAudio
  PROVE  LocalInv' /\ MadeInv'
  <1>1. pc = "concat" /\ pc' = "package" /\ UNCHANGED <<opt, made, excuse>> /\ opt.mode # "resume"
    <2>1. opt.mode # "resume"
      BY AudioKeepsType
    <2> QED BY <2>1 DEF MakeAudio
  <1>2. MadeInv'
    <2>1. Recipe(opt)' = Recipe(opt)
      BY <1>1 DEF Recipe
    <2> QED BY <1>1, <2>1 DEF MadeInv, Underway
  <1>3. CASE store'["local"] = store["local"]
    BY <1>1, <1>2, <1>3, LocalKept
  <1>4. CASE store'["local"] # store["local"]
    <2>1. Where = "local" /\ ~OnFarm(opt)
      BY <1>4, AudioKeepsType DEF Where
    <2>2. PICK x : store'["local"] = Put(store["local"], {AudioFile}, Done(x))
      BY <1>4, <2>1, AudioKeepsType
    <2>3. made # {}
      BY <1>1, <2>1, FullRun
    <2>4. MezzFile \notin {AudioFile} /\ \A f \in {AudioFile} : ~IsPiece(f)
      BY SpecialNames
    <2> QED BY <1>1, <1>2, <2>2, <2>3, <2>4, LocalWritten
  <1> QED BY <1>3, <1>4

LEMMA FinishLocal ==
  ASSUME TypeInv, LocalInv, MadeInv, Finish
  PROVE  LocalInv' /\ MadeInv'
  <1>1. pc = "package" /\ pc' = "done" /\ UNCHANGED <<opt, excuse>>
    BY DEF Finish
  <1>2. CASE opt.mode = "full"
    <2>1. store' = [store EXCEPT !["local"] = << >>] /\ made' = {}
      BY <1>2 DEF Finish
    <2>2. store'["local"] = << >>
      BY <2>1 DEF TypeInv
    <2>3. DOMAIN << >> = {} /\ ~IsComplete(<< >>, MezzFile)
      BY DEF IsComplete
    <2>4. LocalInv'
      BY <2>1, <2>2, <2>3, FS_EmptySet DEF LocalInv, MadeType, MadeFiles, MadeMezzanine, MadePieces
    <2> QED BY <1>1, <1>2, <2>4 DEF MadeInv, Underway
  <1>3. CASE opt.mode # "full"
    <2>1. store' = store /\ made' = made
      BY <1>3 DEF Finish
    <2> QED BY <1>1, <1>3, <2>1, LocalKept DEF MadeInv, Underway
  <1> QED BY <1>2, <1>3

LEMMA KillLocal ==
  ASSUME TypeInv, LocalInv, Kill
  PROVE  LocalInv' /\ MadeInv'
  <1>1. pc' = "failed" /\ UNCHANGED <<opt, made, excuse>>
    BY DEF Kill
  <1>2. MadeInv'
    BY <1>1 DEF MadeInv, Underway
  <1>3. CASE store' = store
    BY <1>1, <1>2, <1>3, LocalKept
  <1>4. ASSUME NEW f, IsPiece(f), Store(f, Torn) PROVE LocalInv'
    <2>1. store'[Where] = Put(store[Where], {f}, Torn)
          /\ \A w \in {"local", "farm"} : w # Where => store'[w] = store[w]
      BY <1>1, <1>4, TornWritten
    <2>2. store'["local"] = store["local"] \/ store'["local"] = Put(store["local"], {f}, Torn)
      BY <2>1 DEF Where
    <2> QED BY <1>1, <2>2, LocalKept, TornLocal
  <1> QED BY <1>2, <1>3, <1>4, KillTears

LEMMA NextLocal ==
  ASSUME TypeInv, LocalInv, MadeInv, [Next]_vars
  PROVE  LocalInv' /\ MadeInv'
  <1>1. CASE \E o \in Options : Refuse(o) \/ StartFull(o) \/ StartFarm(o) \/ StartResume(o)
    BY <1>1, BeginLocal
  <1>2. CASE MakeMezzanine
    BY <1>2, MezzanineLocal
  <1>3. CASE LayOut
    <2>1. pc = "plan" /\ pc' = "encode" /\ UNCHANGED <<opt, store, made>> /\ excuse \subseteq excuse'
          /\ excuse' \subseteq excuse \cup {"padded", "grown", "bands"}
      BY <1>3, LayOutCauses
    <2>2. LocalInv'
      BY <2>1, LocalKept
    <2>3. Recipe(opt)' = Recipe(opt)
      BY <2>1 DEF Recipe
    <2>4. "mixed" \in excuse' => "mixed" \in excuse
      BY <2>1
    <2> QED BY <2>1, <2>2, <2>3, <2>4 DEF MadeInv, Underway
  <1>4. CASE \E u \in todo : \E t \in BOOLEAN : EncodeVariant(u, t)
    BY <1>4, EncodeLocal
  <1>5. CASE \E u \in todo : EncodeFails(u)
    BY <1>5, FailLocal
  <1>6. CASE EncodeAllEnds
    <2>1. pc = "encode" /\ pc' \in {"concat", "failed"} /\ UNCHANGED <<opt, store, made, excuse>>
      BY <1>6 DEF EncodeAllEnds
    <2>2. Recipe(opt)' = Recipe(opt)
      BY <2>1 DEF Recipe
    <2> QED BY <2>1, <2>2, LocalKept DEF MadeInv, Underway
  <1>7. CASE \E v \in todo : ConcatChunks(v)
    BY <1>7, ConcatLocal
  <1>8. CASE MakeAudio
    BY <1>8, AudioLocal
  <1>9. CASE \E c \in todo : Package(c)
    <2>1. pc = "package" /\ pc' = "package" /\ UNCHANGED <<opt, store, made>>
          /\ excuse \subseteq excuse'
      BY <1>9 DEF Package
    <2>2. Recipe(opt)' = Recipe(opt)
      BY <2>1 DEF Recipe
    <2> QED BY <2>1, <2>2, LocalKept DEF MadeInv, Underway
  <1>10. CASE Finish
    BY <1>10, FinishLocal
  <1>11. CASE Kill
    BY <1>11, KillLocal
  <1>12. CASE UNCHANGED vars
    <2>1. UNCHANGED <<pc, opt, store, made, excuse>>
      BY <1>12 DEF vars
    <2>2. Recipe(opt)' = Recipe(opt)
      BY <2>1 DEF Recipe
    <2> QED BY <2>1, <2>2, LocalKept DEF MadeInv
  <1> QED BY <1>1, <1>2, <1>3, <1>4, <1>5, <1>6, <1>7, <1>8, <1>9, <1>10, <1>11, <1>12, StepsAre

LEMMA InitLocal == Init => LocalInv /\ MadeInv
  <1> SUFFICES ASSUME Init PROVE LocalInv /\ MadeInv
    OBVIOUS
  <1>1. store["local"] = << >> /\ made = {} /\ pc = "idle"
    BY DEF Init
  <1>2. DOMAIN << >> = {} /\ ~IsComplete(<< >>, MezzFile)
    BY DEF IsComplete
  <1>3. LocalInv
    BY <1>1, <1>2, FS_EmptySet DEF LocalInv, MadeType, MadeFiles, MadeMezzanine, MadePieces
  <1> QED BY <1>1, <1>3 DEF MadeInv, Underway

(***************************************************************************)
(* The staging of the farm.                                                *)
(***************************************************************************)
FarmPart(u) == EncodedChunk(Mezz, TileOf(u), Duration, Padded, TRUE)

FarmFresh == OnFarm(opt) /\ pc = "mezzanine" => store["farm"] = << >>

FarmMezz == OnFarm(opt) /\ pc \in Underway => Mezz = Mezzanine(Info(opt), LimitOf(opt))

(* A piece is one of a unit, and holds that unit's chunk.                  *)
OfUnit(f) ==
  \E u \in FarmUnits(opt) :
    /\ f \in Outputs(u)
    /\ IsComplete(store["farm"], f) /\ "hole" \notin excuse => store["farm"][f].content = FarmPart(u)

FarmPieces ==
  OnFarm(opt) /\ pc \in {"plan", "encode", "concat"} =>
    \A f \in DOMAIN store["farm"] : IsPiece(f) =>
      \/ pc = "concat" /\ f[3] = 0
      \/ pc # "plan" /\ OfUnit(f)

UnitDone(u) == \A f \in Outputs(u) : IsComplete(store["farm"], f)

FarmDone ==
  OnFarm(opt) =>
    /\ pc = "encode" /\ ~error => \A u \in FarmUnits(opt) : u \in todo \/ UnitDone(u)
    /\ pc = "concat" => \A u \in FarmUnits(opt) : UnitDone(u)

FarmWholes ==
  OnFarm(opt) /\ pc \in {"concat", "package"} /\ "hole" \notin excuse =>
    \A v \in Variants(opt) : IsComplete(store["farm"], Name(v[1], v[2], 0)) =>
      store["farm"][Name(v[1], v[2], 0)].content = WholeVariant(Mezz, Padded)

FarmInv == FarmFresh /\ FarmMezz /\ FarmPieces /\ FarmDone /\ FarmWholes

(* What a farm run has planned on its mezzanine.                           *)
LEMMA FarmRun ==
  ASSUME TypeInv, FarmInv, OnFarm(opt), pc \in Underway
  PROVE  /\ Valid(opt) /\ Where = "farm" /\ Padded = 0 /\ Duration = Mezz.duration
         /\ IsMezzanine(Mezz) /\ Duration \in Nat \ {0}
         /\ Attained(Mezz, Planned(opt), Duration, 0)
  <1>1. Valid(opt)
    BY AskedIsValid DEF TypeInv
  <1>2. ~opt.pad /\ opt.mode # "resume" /\ Where = "farm"
    BY <1>1 DEF Valid, OnFarm, Where
  <1>3. Padded = 0
    BY <1>2 DEF Padded, Padding
  <1>4. IsMezzanine(Mezz) /\ Duration = Mezz.duration + Padded /\ Duration \in Nat \ {0}
        /\ Mezz.duration \in Nat \ {0}
    BY <1>2, MezzType
  <1>5. Duration = Mezz.duration
    BY <1>3, <1>4
  <1> DEFINE m == Mezzanine(Info(opt), LimitOf(opt))
  <1>6. Mezz = m
    BY DEF FarmInv, FarmMezz
  <1>7. /\ LimitOf(opt) \in Nat /\ Planned(opt) \in Nat \ {0}
        /\ IF LimitOf(opt) = 0 THEN Planned(opt) = Info(opt).duration
           ELSE Planned(opt) = LimitOf(opt) /\ LimitOf(opt) < Info(opt).duration
    BY <1>1, PlannedType
  <1>8. /\ m.slots = {s \in Info(opt).slots : LimitOf(opt) = 0 \/ s * Period < LimitOf(opt)}
        /\ LimitOf(opt) = 0 => m.duration = Info(opt).duration
        /\ 0 < LimitOf(opt) /\ LimitOf(opt) < Info(opt).duration => LimitOf(opt) <= m.duration
    <2>1. opt.clip \in DOMAIN Clips
      BY <1>1 DEF Valid
    <2> QED BY <1>7, <2>1, MezzanineType DEF Info
  <1> HIDE DEF m
  <1>9. Attained(Mezz, Planned(opt), Duration, 0)
    <2>1. CASE LimitOf(opt) = 0
      BY <1>5, <1>6, <1>7, <1>8, <2>1 DEF Attained
    <2>2. CASE LimitOf(opt) # 0
      <3>1. Planned(opt) <= Duration
        BY <1>5, <1>6, <1>7, <1>8, <2>2
      <3>2. \A s \in Mezz.slots : s * Period < Planned(opt)
        BY <1>6, <1>7, <1>8, <2>2
      <3> QED BY <1>4, <1>7, <3>1, <3>2 DEF Attained
    <2> QED BY <2>1, <2>2
  <1> QED BY <1>1, <1>2, <1>3, <1>4, <1>5, <1>9

(* A task that counted without the table found the same, if there is no gap. *)
LEMMA FarmPiece ==
  ASSUME TypeInv, FarmInv, OnFarm(opt), pc \in {"encode", "concat"}, NEW u \in FarmUnits(opt),
         NEW table \in BOOLEAN, table \/ Gapless(Mezz)
  PROVE  EncodedChunk(Mezz, TileOf(u), Duration, Padded, table) = FarmPart(u)
  <1>1. /\ Valid(opt) /\ Padded = 0 /\ IsMezzanine(Mezz) /\ Duration \in Nat
    BY FarmRun DEF Underway
  <1> DEFINE t == FarmTiling(opt, <<u.codec, u.labels[1]>>)
  <1>2. u.chunk \in 1 .. Len(t) /\ t \in Seq(Tile) /\ EndToEnd(t, Planned(opt))
    BY <1>1, FarmUnitType, FarmTilingType
  <1>3. u.chunk # 0 /\ t[u.chunk] \in Tile /\ t[u.chunk].start < t[u.chunk].end
    BY <1>2 DEF EndToEnd
  <1>4. TileOf(u) = t[u.chunk]
    BY <1>3 DEF TileOf
  <1> HIDE DEF t
  <1>5. EncodedChunk(Mezz, t[u.chunk], Duration, Padded, table) = EncodedChunk(Mezz, t[u.chunk], Duration, Padded, TRUE)
    BY <1>1, <1>3, SureChunk
  <1> QED BY <1>4, <1>5 DEF FarmPart

(* The pieces of a variant are its chunks, all of them.                    *)
LEMMA FarmParts ==
  ASSUME TypeInv, FarmInv, OnFarm(opt), pc = "concat", NEW v \in Variants(opt)
  PROVE  \E lead :
           LET t == FarmTiling(opt, <<v[1], lead>>)
           IN  /\ ChunksToJoin(v) = Len(t) /\ t \in Seq(Tile) /\ EndToEnd(t, Planned(opt))
               /\ \A i \in 1 .. Len(t) :
                    LET f == Name(v[1], v[2], i)
                    IN  /\ IsComplete(store["farm"], f)
                        /\ "hole" \notin excuse =>
                             store["farm"][f].content = EncodedChunk(Mezz, t[i], Duration, Padded, TRUE)
  <1>1. Valid(opt)
    BY FarmRun DEF Underway
  <1>2. PICK lead : /\ <<v[1], lead>> \in Variants(opt)
                    /\ \A i \in 1 .. Len(FarmTiling(opt, <<v[1], lead>>)) :
                         \E u \in FarmUnits(opt) : /\ u.codec = v[1] /\ u.chunk = i /\ u.labels[1] = lead
                                                   /\ HasLabel(u, v[2])
                    /\ \A u \in FarmUnits(opt) : u.codec = v[1] /\ HasLabel(u, v[2]) => u.labels[1] = lead
    BY <1>1, VariantLed
  <1> DEFINE t == FarmTiling(opt, <<v[1], lead>>)
             n == Len(t)
             files == store["farm"]
  <1>3. t \in Seq(Tile) /\ EndToEnd(t, Planned(opt)) /\ n \in Nat \ {0}
    BY <1>1, FarmTilingType
  <1>4. ASSUME NEW f, NEW u \in FarmUnits(opt), f \in Outputs(u), f[1] = v[1], f[2] = v[2]
        PROVE  u.labels[1] = lead /\ u.codec = v[1] /\ u.chunk = f[3] /\ f[3] \in 1 .. n
    <2>1. PICK i \in DOMAIN u.labels : f = Name(u.codec, u.labels[i], u.chunk)
      BY <1>4 DEF Outputs
    <2>2. u.codec = v[1] /\ u.labels[i] = v[2] /\ u.chunk = f[3]
      BY <1>4, <2>1, NameParts
    <2>3. u.labels[1] = lead
      BY <1>2, <2>2 DEF HasLabel
    <2>4. u.chunk \in 1 .. Len(FarmTiling(opt, <<u.codec, u.labels[1]>>))
      BY <1>1, FarmUnitType
    <2> QED BY <2>2, <2>3, <2>4
  <1>5. ASSUME NEW i \in 1 .. n PROVE IsComplete(files, Name(v[1], v[2], i)) /\ Name(v[1], v[2], i) \in DOMAIN files
    <2>1. PICK u \in FarmUnits(opt) : u.codec = v[1] /\ u.chunk = i /\ HasLabel(u, v[2])
      BY <1>2
    <2>2. Name(v[1], v[2], i) \in Outputs(u)
      BY <2>1 DEF Outputs, HasLabel
    <2> QED BY <2>2 DEF FarmInv, FarmDone, UnitDone, IsComplete
  <1>6. ASSUME NEW f \in DOMAIN files, f[1] = v[1], f[2] = v[2] PROVE f[3] \in 0 .. n
    <2>1. v[2] # Audio
      BY <1>1, VariantType
    <2>2. IsPiece(f)
      BY <1>6, <2>1, SpecialNames DEF TypeInv, FilesOK, IsName
    <2>3. CASE f[3] = 0
      BY <1>3, <2>3
    <2>4. CASE f[3] # 0
      <3>1. PICK u \in FarmUnits(opt) : f \in Outputs(u)
        BY <2>2, <2>4 DEF FarmInv, FarmPieces, OfUnit
      <3>2. f[3] \in 1 .. n
        BY <1>4, <1>6, <3>1
      <3> QED BY <1>3, <3>2
    <2> QED BY <2>3, <2>4
  <1> DEFINE ours == {g \in DOMAIN files : g[1] = v[1] /\ g[2] = v[2]}
             S == {0} \union {f[3] : f \in ours}
  <1>7. ChunksToJoin(v) = Max(S)
    BY DEF ChunksToJoin
  <1>8. n \in S
    <2>1. Name(v[1], v[2], n) \in ours /\ Name(v[1], v[2], n)[3] = n
      BY <1>3, <1>5, NameParts
    <2> HIDE DEF ours, n
    <2> QED BY <2>1
  <1>9. \A m \in S : m \in 0 .. n
    <2>1. \A f \in ours : f[3] \in 0 .. n
      BY <1>6
    <2>2. 0 \in 0 .. n
      BY <1>3
    <2> HIDE DEF ours, n
    <2> QED BY <2>1, <2>2
  <1> HIDE DEF S, n
  <1>10. Max(S) = n
    <2>1. \A m \in S : n >= m
      BY <1>3, <1>9
    <2>2. \E x \in S : \A y \in S : x >= y
      BY <1>8, <2>1
    <2>3. Max(S) \in S /\ \A y \in S : Max(S) >= y
      BY <2>2 DEF Max
    <2>4. Max(S) >= n /\ n >= Max(S) /\ Max(S) \in 0 .. n
      BY <1>8, <1>9, <2>1, <2>3
    <2> QED BY <1>3, <2>4
  <1>11. ASSUME NEW i \in 1 .. n, "hole" \notin excuse
         PROVE  store["farm"][Name(v[1], v[2], i)].content = EncodedChunk(Mezz, t[i], Duration, Padded, TRUE)
    <2> DEFINE f == Name(v[1], v[2], i)
    <2>1. f[1] = v[1] /\ f[2] = v[2] /\ f[3] = i /\ i # 0 /\ i \in Nat
      BY <1>3, NameParts
    <2>2. IsPiece(f) /\ f \in DOMAIN files /\ IsComplete(files, f)
      <3>1. IsPiece(f)
        BY <2>1, PieceOf DEF TypeInv
      <3> QED BY <1>5, <1>11, <3>1
    <2> HIDE DEF f, t, files
    <2>3. PICK u \in FarmUnits(opt) : f \in Outputs(u) /\ files[f].content = FarmPart(u)
      BY <1>11, <2>1, <2>2 DEF FarmInv, FarmPieces, OfUnit, files
    <2>4. u.labels[1] = lead /\ u.codec = v[1] /\ u.chunk = i
      BY <1>4, <2>1, <2>3
    <2>5. TileOf(u) = t[i]
      BY <2>1, <2>4 DEF TileOf, t
    <2> QED BY <2>3, <2>5 DEF FarmPart, files, f
  <1>12. ChunksToJoin(v) = n
    BY <1>7, <1>10
  <1> HIDE DEF t, files
  <1>13. /\ ChunksToJoin(v) = Len(t) /\ t \in Seq(Tile) /\ EndToEnd(t, Planned(opt))
         /\ \A i \in 1 .. Len(t) :
              LET f == Name(v[1], v[2], i)
              IN  /\ IsComplete(store["farm"], f)
                  /\ "hole" \notin excuse =>
                       store["farm"][f].content = EncodedChunk(Mezz, t[i], Duration, Padded, TRUE)
    BY <1>3, <1>5, <1>11, <1>12 DEF n, files
  <1> QED BY <1>13 DEF t

(* The chunks of a farm's variant make up the whole.                       *)
LEMMA FarmJoined ==
  ASSUME TypeInv, FarmInv, OnFarm(opt), pc = "concat", NEW v \in Variants(opt), "hole" \notin excuse
  PROVE  FlattenSeq(PartsOf(v)) = WholeVariant(Mezz, Padded)
  <1>1. /\ Where = "farm" /\ Padded = 0 /\ IsMezzanine(Mezz) /\ Duration \in Nat \ {0}
        /\ Attained(Mezz, Planned(opt), Duration, 0) /\ Planned(opt) \in Nat
    <2>1. Valid(opt)
      BY AskedIsValid DEF TypeInv
    <2> QED BY <2>1, FarmRun, PlannedType DEF Underway
  <1>2. PICK lead :
           LET t == FarmTiling(opt, <<v[1], lead>>)
           IN  /\ ChunksToJoin(v) = Len(t) /\ t \in Seq(Tile) /\ EndToEnd(t, Planned(opt))
               /\ \A i \in 1 .. Len(t) :
                    store["farm"][Name(v[1], v[2], i)].content = EncodedChunk(Mezz, t[i], Duration, Padded, TRUE)
    BY FarmParts
  <1> DEFINE t == FarmTiling(opt, <<v[1], lead>>)
  <1>3. /\ ChunksToJoin(v) = Len(t) /\ t \in Seq(Tile) /\ EndToEnd(t, Planned(opt))
        /\ \A i \in 1 .. Len(t) :
             store["farm"][Name(v[1], v[2], i)].content = EncodedChunk(Mezz, t[i], Duration, Padded, TRUE)
    BY <1>2
  <1> HIDE DEF t
  <1>4. PartsOf(v) = [i \in 1 .. Len(t) |-> EncodedChunk(Mezz, t[i], Duration, Padded, TRUE)]
    BY <1>1, <1>3 DEF PartsOf
  <1>5. FlattenSeq(PartsOf(v)) = JoinedChunks(Mezz, t, Duration, Padded, TRUE)
    BY <1>4 DEF JoinedChunks
  <1>6. Mezz.slots \in SUBSET Nat /\ IsFiniteSet(Mezz.slots)
    BY <1>1 DEF IsMezzanine
  <1>7. \A known \in BOOLEAN : AllCountable(Mezz, t, Duration, Padded, known) =>
            JoinedChunks(Mezz, t, Duration, Padded, known) = WholeVariant(Mezz, Padded)
    <2> SUFFICES ASSUME NEW known \in BOOLEAN, AllCountable(Mezz, t, Duration, Padded, known)
                 PROVE  JoinedChunks(Mezz, t, Duration, Padded, known) = WholeVariant(Mezz, Padded)
      OBVIOUS
    <2>1. Padded \in Nat /\ Duration \in Nat /\ Attained(Mezz, Planned(opt), Duration, Padded)
      BY <1>1
    <2> QED BY <1>1, <1>3, <1>6, <2>1, ChunksJoined
  <1>8. AllCountable(Mezz, t, Duration, Padded, TRUE)
    BY DEF AllCountable, Countable
  <1>9. JoinedChunks(Mezz, t, Duration, Padded, TRUE) = WholeVariant(Mezz, Padded)
    BY <1>7, <1>8, Zenon
  <1> QED BY <1>5, <1>9

(* A step of a farm run keeps its plan.                                    *)
LEMMA FarmKept ==
  ASSUME TypeInv, FarmInv, OnFarm(opt), pc \in Underway, opt' = opt,
         store'["farm"][MezzFile] = store["farm"][MezzFile]
  PROVE  /\ OnFarm(opt') /\ FarmMezz' /\ Where = "farm" /\ Mezz' = Mezz /\ Padded' = Padded
         /\ \A u : FarmPart(u)' = FarmPart(u)
         /\ FarmUnits(opt') = FarmUnits(opt)
  <1>1. Where = "farm" /\ OnFarm(opt')
    BY DEF Where
  <1>2. /\ Mezz' = Mezz /\ Duration' = Duration /\ Padded' = Padded
        /\ \A u : TileOf(u)' = TileOf(u)
    BY <1>1, PlanKept
  <1>3. FarmMezz'
    BY <1>2 DEF FarmInv, FarmMezz
  <1>4. \A u : FarmPart(u)' = FarmPart(u)
    BY <1>2 DEF FarmPart
  <1> QED BY <1>1, <1>2, <1>3, <1>4

(* Files over the files of the farm.                                       *)
LEMMA FarmWrote ==
  ASSUME NEW names, NEW file, store'["farm"] = Put(store["farm"], names, file)
  PROVE  LET files == store["farm"]
             now == store'["farm"]
         IN  /\ DOMAIN now = names \cup DOMAIN files
             /\ \A f \in names : now[f] = file /\ (IsComplete(now, f) <=> file.done)
             /\ \A f : f \notin names => (IsComplete(now, f) <=> IsComplete(files, f))
             /\ \A f \in DOMAIN files : f \notin names => now[f] = files[f]
  <1> DEFINE files == store["farm"]
             now == store'["farm"]
  <1>1. now = Put(files, names, file)
    OBVIOUS
  <1> HIDE DEF files, now
  <1> DEFINE put == Put(files, names, file)
  <1>2. /\ DOMAIN put = names \cup DOMAIN files
        /\ \A f \in names : put[f] = file /\ (IsComplete(put, f) <=> file.done)
        /\ \A f : f \notin names => (IsComplete(put, f) <=> IsComplete(files, f))
        /\ \A f \in DOMAIN files : f \notin names => put[f] = files[f]
    BY ONLY Wrote
  <1> HIDE DEF put
  <1>3. now = put
    BY <1>1 DEF put
  <1> QED BY <1>2, <1>3 DEF files, now

LEMMA BeginFarm ==
  ASSUME TypeInv, NEW o \in Options,
         Refuse(o) \/ StartFull(o) \/ StartFarm(o) \/ StartResume(o)
  PROVE  FarmInv'
  <1>1. CASE Refuse(o)
    <2>1. pc' = "failed"
      BY <1>1 DEF Refuse
    <2> QED BY <2>1 DEF FarmInv, FarmFresh, FarmMezz, FarmPieces, FarmDone, FarmWholes, Underway
  <1>2. CASE StartFull(o)
    <2>1. opt' = [o EXCEPT !.mode = "full"]
      BY <1>2 DEF StartFull
    <2>2. ~OnFarm(opt')
      BY <2>1, OptionAssumption DEF OnFarm, OptionFields
    <2> QED BY <2>2 DEF FarmInv, FarmFresh, FarmMezz, FarmPieces, FarmDone, FarmWholes
  <1>3. CASE StartResume(o)
    <2>1. ~OnFarm(opt')
      BY <1>3 DEF StartResume, OnFarm
    <2> QED BY <2>1 DEF FarmInv, FarmFresh, FarmMezz, FarmPieces, FarmDone, FarmWholes
  <1>4. CASE StartFarm(o)
    <2>1. pc' = "mezzanine" /\ store' = [store EXCEPT !["farm"] = << >>]
      BY <1>4 DEF StartFarm
    <2>2. store'["farm"] = << >>
      BY <2>1 DEF TypeInv
    <2> QED BY <2>1, <2>2 DEF FarmInv, FarmFresh, FarmMezz, FarmPieces, FarmDone, FarmWholes, Underway
  <1> QED BY <1>1, <1>2, <1>3, <1>4

LEMMA MezzanineFarm ==
  ASSUME TypeInv, FarmInv, MakeMezzanine, OnFarm(opt)
  PROVE  FarmInv'
  <1>1. pc = "mezzanine" /\ pc' = "plan" /\ opt' = opt
    BY DEF MakeMezzanine
  <1>2. Where = "farm" /\ Where' = "farm" /\ store["farm"] = << >>
    BY <1>1 DEF Where, OnFarm, FarmInv, FarmFresh
  <1>3. ~IsComplete(store[Where], MezzFile)
    BY <1>2 DEF IsComplete
  <1> DEFINE m == Mezzanine(Info(opt), LimitOf(opt))
             file == Done(m)
  <1>4. store'["farm"] = Put(store["farm"], {MezzFile}, file)
    BY <1>2, <1>3, MezzanineKeepsType
  <1> HIDE DEF file
  <1>5. /\ DOMAIN store'["farm"] = {MezzFile} \cup DOMAIN store["farm"]
        /\ \A f \in {MezzFile} : store'["farm"][f] = file
    BY <1>4, FarmWrote
  <1>6. DOMAIN store'["farm"] = {MezzFile} /\ store'["farm"][MezzFile] = file
    BY <1>2, <1>5
  <1>7. Mezz' = m
    BY <1>2, <1>6 DEF Mezz, file, Done
  <1>8. FarmMezz'
    BY <1>1, <1>7 DEF FarmMezz
  <1>9. FarmPieces'
    BY <1>6, SpecialNames DEF FarmPieces
  <1> QED BY <1>1, <1>8, <1>9 DEF FarmInv, FarmFresh, FarmDone, FarmWholes

LEMMA LayOutFarm ==
  ASSUME TypeInv, FarmInv, LayOut, OnFarm(opt)
  PROVE  FarmInv'
  <1>1. pc = "plan" /\ pc' = "encode" /\ UNCHANGED <<opt, store, error>> /\ todo' = FarmUnits(opt)
    BY LayOutCauses
  <1>2. FarmMezz'
    BY <1>1, FarmKept DEF Underway
  <1>3. FarmPieces'
    BY <1>1 DEF FarmInv, FarmPieces
  <1>4. FarmDone'
    BY <1>1 DEF FarmDone
  <1> QED BY <1>1, <1>2, <1>3, <1>4 DEF FarmInv, FarmFresh, FarmWholes

LEMMA EncodeFarm ==
  ASSUME TypeInv, FarmInv, NEW u \in todo, NEW table \in BOOLEAN, EncodeVariant(u, table), OnFarm(opt)
  PROVE  FarmInv'
  <1>1. /\ pc = "encode" /\ pc' = "encode" /\ UNCHANGED <<opt, error>> /\ todo' = todo \ {u}
        /\ excuse' = excuse \union (IF ~table /\ ~Gapless(Mezz) THEN {"hole"} ELSE {})
    BY DEF EncodeVariant
  <1>2. ("hole" \notin excuse' => "hole" \notin excuse) /\ ("hole" \notin excuse' => table \/ Gapless(Mezz))
    <2> DEFINE b == ~table /\ ~Gapless(Mezz)
    <2>1. excuse' = excuse \union (IF b THEN {"hole"} ELSE {})
      BY <1>1
    <2>2. ("hole" \notin excuse' => "hole" \notin excuse) /\ ("hole" \notin excuse' => ~b)
      <3> HIDE DEF b
      <3> QED BY <2>1
    <2> QED BY <2>2
  <1> DEFINE content == EncodedChunk(Mezz, TileOf(u), Duration, Padded, table)
             file == Done(content)
             names == Outputs(u)
  <1>3. u \in FarmUnits(opt) /\ Where = "farm"
    BY <1>1 DEF TypeInv, Units, Where
  <1>4. store'["farm"] = Put(store["farm"], names, file) /\ store'["farm"][MezzFile] = store["farm"][MezzFile]
    BY <1>3, EncodeWrites
  <1>5. file.done /\ file.content = content
    BY DEF Done
  <1>6. "hole" \notin excuse' => content = FarmPart(u)
    BY <1>1, <1>2, <1>3, FarmPiece
  <1> HIDE DEF content, file, names
  <1>7. /\ DOMAIN store'["farm"] = names \cup DOMAIN store["farm"]
        /\ \A f \in names : store'["farm"][f] = file /\ (IsComplete(store'["farm"], f) <=> file.done)
        /\ \A f : f \notin names => (IsComplete(store'["farm"], f) <=> IsComplete(store["farm"], f))
        /\ \A f \in DOMAIN store["farm"] : f \notin names => store'["farm"][f] = store["farm"][f]
    BY <1>4, FarmWrote
  <1>8. /\ FarmMezz' /\ (\A w : FarmPart(w)' = FarmPart(w)) /\ FarmUnits(opt') = FarmUnits(opt)
    BY <1>1, <1>4, FarmKept DEF Underway
  <1>9. FarmPieces'
    <2> SUFFICES ASSUME NEW f \in DOMAIN store'["farm"], IsPiece(f) PROVE OfUnit(f)'
      BY <1>1 DEF FarmPieces
    <2>1. CASE f \in names
      BY <1>3, <1>5, <1>6, <1>7, <1>8, <2>1 DEF OfUnit, names
    <2>2. CASE f \notin names
      <3>1. f \in DOMAIN store["farm"] /\ OfUnit(f)
        BY <1>1, <1>7, <2>2 DEF FarmInv, FarmPieces
      <3>2. PICK w \in FarmUnits(opt) :
              /\ f \in Outputs(w)
              /\ IsComplete(store["farm"], f) /\ "hole" \notin excuse => store["farm"][f].content = FarmPart(w)
        BY <3>1 DEF OfUnit
      <3> QED BY <1>2, <1>7, <1>8, <2>2, <3>1, <3>2 DEF OfUnit
    <2> QED BY <2>1, <2>2
  <1>10. FarmDone'
    <2> SUFFICES ASSUME ~error, NEW w \in FarmUnits(opt), w \notin todo' PROVE UnitDone(w)'
      BY <1>1 DEF FarmDone
    <2>1. CASE w = u
      BY <1>5, <1>7, <2>1 DEF UnitDone, names
    <2>2. CASE w # u
      <3>1. UnitDone(w)
        BY <1>1, <2>2 DEF FarmInv, FarmDone
      <3> QED BY <1>5, <1>7, <3>1 DEF UnitDone
    <2> QED BY <2>1, <2>2
  <1> QED BY <1>1, <1>8, <1>9, <1>10 DEF FarmInv, FarmFresh, FarmWholes

LEMMA FailFarm ==
  ASSUME TypeInv, FarmInv, NEW u \in todo, EncodeFails(u), OnFarm(opt)
  PROVE  FarmInv'
  <1>1. pc = "encode" /\ pc' = "encode" /\ UNCHANGED <<opt, excuse>> /\ error' = TRUE
    BY DEF EncodeFails
  <1> DEFINE name == Name(u.codec, u.labels[1], u.chunk)
  <1>2. u \in FarmUnits(opt) /\ Where = "farm"
    BY <1>1 DEF TypeInv, Units, Where
  <1>3. store'["farm"] = Put(store["farm"], {name}, Torn) /\ store'["farm"][MezzFile] = store["farm"][MezzFile]
    BY <1>2, FailKeepsType
  <1>4. ~Torn.done
    BY DEF Torn
  <1>5. name \in Outputs(u)
    BY <1>1, <1>2, UnitType DEF Units
  <1> HIDE DEF name
  <1> DEFINE names == {name}
  <1>6. /\ DOMAIN store'["farm"] = names \cup DOMAIN store["farm"]
        /\ \A f \in names : (IsComplete(store'["farm"], f) <=> Torn.done)
        /\ \A f : f \notin names => (IsComplete(store'["farm"], f) <=> IsComplete(store["farm"], f))
        /\ \A f \in DOMAIN store["farm"] : f \notin names => store'["farm"][f] = store["farm"][f]
    BY <1>3, FarmWrote
  <1> HIDE DEF names
  <1>7. /\ FarmMezz' /\ (\A w : FarmPart(w)' = FarmPart(w)) /\ FarmUnits(opt') = FarmUnits(opt)
    BY <1>1, <1>3, FarmKept DEF Underway
  <1>8. FarmPieces'
    <2> SUFFICES ASSUME NEW f \in DOMAIN store'["farm"], IsPiece(f) PROVE OfUnit(f)'
      BY <1>1 DEF FarmPieces
    <2>1. CASE f \in names
      <3>1. f = name /\ ~IsComplete(store'["farm"], f)
        BY <1>4, <1>6, <2>1 DEF names
      <3> QED BY <1>2, <1>5, <1>7, <3>1 DEF OfUnit
    <2>2. CASE f \notin names
      <3>1. f \in DOMAIN store["farm"] /\ OfUnit(f)
        BY <1>1, <1>6, <2>2 DEF FarmInv, FarmPieces
      <3>2. PICK w \in FarmUnits(opt) :
              /\ f \in Outputs(w)
              /\ IsComplete(store["farm"], f) /\ "hole" \notin excuse => store["farm"][f].content = FarmPart(w)
        BY <3>1 DEF OfUnit
      <3> QED BY <1>1, <1>6, <1>7, <2>2, <3>1, <3>2 DEF OfUnit
    <2> QED BY <2>1, <2>2
  <1> QED BY <1>1, <1>7, <1>8 DEF FarmInv, FarmFresh, FarmDone, FarmWholes

LEMMA EndsFarm ==
  ASSUME TypeInv, FarmInv, EncodeAllEnds, OnFarm(opt)
  PROVE  FarmInv'
  <1>1. pc = "encode" /\ todo = {} /\ UNCHANGED <<opt, store, excuse>>
    BY DEF EncodeAllEnds
  <1>2. CASE pc' = "failed"
    BY <1>2 DEF FarmInv, FarmFresh, FarmMezz, FarmPieces, FarmDone, FarmWholes, Underway
  <1>3. CASE pc' # "failed"
    <2>1. pc' = "concat" /\ ~error
      <3>1. CASE error
        BY <1>3, <3>1 DEF EncodeAllEnds
      <3>2. CASE ~error
        BY <3>2 DEF EncodeAllEnds
      <3> QED BY <3>1, <3>2
    <2>2. /\ FarmMezz' /\ (\A w : FarmPart(w)' = FarmPart(w)) /\ FarmUnits(opt') = FarmUnits(opt)
      BY <1>1, FarmKept DEF Underway
    <2>3. \A f \in DOMAIN store["farm"] : IsPiece(f) => OfUnit(f)
      BY <1>1 DEF FarmInv, FarmPieces
    <2>4. FarmPieces'
      BY <1>1, <2>1, <2>2, <2>3 DEF FarmPieces, OfUnit
    <2>5. FarmDone'
      BY <1>1, <2>1 DEF FarmInv, FarmDone, UnitDone
    <2>6. ASSUME NEW v \in Variants(opt), IsComplete(store["farm"], Name(v[1], v[2], 0)) PROVE FALSE
      <3> DEFINE f == Name(v[1], v[2], 0)
      <3>1. f \in DOMAIN store["farm"] /\ IsPiece(f) /\ f[3] = 0
        BY <2>6, WholePiece, NameParts DEF IsComplete
      <3> HIDE DEF f
      <3>2. PICK u \in FarmUnits(opt) : f \in Outputs(u)
        BY <2>3, <3>1 DEF OfUnit
      <3>3. f[3] = u.chunk
        BY <3>2, <1>1, UnitType DEF Units
      <3>4. u.chunk \in 1 .. Len(FarmTiling(opt, <<u.codec, u.labels[1]>>))
        BY <3>2, AskedIsValid, FarmUnitType DEF TypeInv
      <3> QED BY <3>1, <3>3, <3>4
    <2>7. FarmWholes'
      BY <1>1, <2>6 DEF FarmWholes
    <2> QED BY <2>1, <2>2, <2>4, <2>5, <2>7 DEF FarmInv, FarmFresh
  <1> QED BY <1>2, <1>3

LEMMA ConcatFarm ==
  ASSUME TypeInv, FarmInv, NEW v \in todo, ConcatChunks(v), OnFarm(opt)
  PROVE  FarmInv'
  <1>1. pc = "concat" /\ UNCHANGED <<opt, excuse>>
    BY JoinSteps
  <1>2. CASE pc' = "failed"
    BY <1>2 DEF FarmInv, FarmFresh, FarmMezz, FarmPieces, FarmDone, FarmWholes, Underway
  <1>3. CASE pc' # "failed"
    <2> DEFINE name == Name(v[1], v[2], 0)
               x == FlattenSeq(PartsOf(v))
               file == Done(x)
    <2>1. Where = "farm"
      BY DEF Where
    <2>2. pc' = "concat" /\ v \in Variants(opt) /\ store'["farm"] = Put(store["farm"], {name}, file)
      BY <1>1, <1>3, <2>1, ConcatKeepsType
    <2>3. IsPiece(name) /\ name[3] = 0 /\ name # MezzFile
      BY <2>2, WholePiece, PieceType, NameParts
    <2>4. file.done /\ file.content = x
      BY DEF Done
    <2>5. "hole" \notin excuse => x = WholeVariant(Mezz, Padded)
      BY <1>1, <2>2, FarmJoined
    <2>6. MezzFile \in DOMAIN store["farm"]
      BY <1>1, <2>1, MezzType DEF TypeInv, Underway
    <2> DEFINE names == {name}
    <2> HIDE DEF x, file, names
    <2>7. /\ DOMAIN store'["farm"] = names \cup DOMAIN store["farm"]
          /\ \A f \in names : store'["farm"][f] = file /\ (IsComplete(store'["farm"], f) <=> file.done)
          /\ \A f : f \notin names => (IsComplete(store'["farm"], f) <=> IsComplete(store["farm"], f))
          /\ \A f \in DOMAIN store["farm"] : f \notin names => store'["farm"][f] = store["farm"][f]
      BY <2>2, FarmWrote DEF names
    <2>8. store'["farm"][MezzFile] = store["farm"][MezzFile]
      BY <2>3, <2>6, <2>7 DEF names
    <2>9. /\ FarmMezz' /\ (\A w : FarmPart(w)' = FarmPart(w)) /\ FarmUnits(opt') = FarmUnits(opt)
          /\ Mezz' = Mezz /\ Padded' = Padded
      BY <1>1, <2>8, FarmKept DEF Underway
    <2>10. FarmPieces'
      <3> SUFFICES ASSUME NEW f \in DOMAIN store'["farm"], IsPiece(f) PROVE f[3] = 0 \/ OfUnit(f)'
        BY <2>2 DEF FarmPieces
      <3>1. CASE f \in names
        BY <2>3, <3>1 DEF names
      <3>2. CASE f \notin names
        <4>1. f \in DOMAIN store["farm"] /\ (f[3] = 0 \/ OfUnit(f))
          BY <1>1, <2>7, <3>2 DEF FarmInv, FarmPieces
        <4>2. CASE OfUnit(f)
          <5>1. PICK w \in FarmUnits(opt) :
                  /\ f \in Outputs(w)
                  /\ IsComplete(store["farm"], f) /\ "hole" \notin excuse => store["farm"][f].content = FarmPart(w)
            BY <4>2 DEF OfUnit
          <5>2. OfUnit(f)'
            BY <1>1, <2>7, <2>9, <3>2, <4>1, <5>1 DEF OfUnit
          <5> QED BY <5>2
        <4> QED BY <4>1, <4>2
      <3> QED BY <3>1, <3>2
    <2>11. FarmDone'
      <3> SUFFICES ASSUME NEW w \in FarmUnits(opt) PROVE UnitDone(w)'
        BY <1>1, <2>2 DEF FarmDone
      <3>1. UnitDone(w)
        BY <1>1 DEF FarmInv, FarmDone
      <3> QED BY <2>4, <2>7, <3>1 DEF UnitDone
    <2>12. FarmWholes'
      <3> SUFFICES ASSUME "hole" \notin excuse, NEW w \in Variants(opt),
                          IsComplete(store'["farm"], Name(w[1], w[2], 0))
                   PROVE  store'["farm"][Name(w[1], w[2], 0)].content = WholeVariant(Mezz, Padded)
        BY <1>1, <2>9 DEF FarmWholes
      <3> DEFINE g == Name(w[1], w[2], 0)
      <3> HIDE DEF g
      <3>1. CASE g \in names
        BY <2>4, <2>5, <2>7, <3>1 DEF g
      <3>2. CASE g \notin names
        <4>1. IsComplete(store["farm"], g) /\ g \in DOMAIN store["farm"]
          BY <2>7, <3>2 DEF g, IsComplete
        <4> QED BY <1>1, <2>7, <3>2, <4>1 DEF FarmInv, FarmWholes, g
      <3> QED BY <3>1, <3>2
    <2> QED BY <2>2, <2>9, <2>10, <2>11, <2>12 DEF FarmInv, FarmFresh
  <1> QED BY <1>2, <1>3

LEMMA AudioFarm ==
  ASSUME TypeInv, FarmInv, MakeAudio, OnFarm(opt)
  PROVE  FarmInv'
  <1>1. pc = "concat" /\ pc' = "package" /\ UNCHANGED <<opt, excuse>>
    BY DEF MakeAudio
  <1>2. Where = "farm" /\ Mezz' = Mezz /\ Padded' = Padded
    BY AudioKeepsType DEF Where
  <1>3. FarmMezz'
    BY <1>1, <1>2 DEF FarmInv, FarmMezz, Underway
  <1>4. ASSUME NEW v \in Variants(opt), IsComplete(store'["farm"], Name(v[1], v[2], 0))
        PROVE  /\ IsComplete(store["farm"], Name(v[1], v[2], 0))
               /\ store'["farm"][Name(v[1], v[2], 0)] = store["farm"][Name(v[1], v[2], 0)]
    <2> DEFINE g == Name(v[1], v[2], 0)
    <2>1. g # AudioFile
      BY WholePiece, PieceType
    <2> HIDE DEF g
    <2>2. CASE store' = store
      BY <1>4, <2>2 DEF g
    <2>3. CASE \E x : store'["farm"] = Put(store["farm"], {AudioFile}, Done(x))
      <3>1. PICK x : store'["farm"] = Put(store["farm"], {AudioFile}, Done(x))
        BY <2>3
      <3> DEFINE file == Done(x)
                 names == {AudioFile}
      <3>2. store'["farm"] = Put(store["farm"], names, file)
        BY <3>1
      <3> HIDE DEF file, names
      <3>3. /\ \A f : f \notin names => (IsComplete(store'["farm"], f) <=> IsComplete(store["farm"], f))
            /\ \A f \in DOMAIN store["farm"] : f \notin names => store'["farm"][f] = store["farm"][f]
        BY <3>2, FarmWrote
      <3>4. g \notin names
        BY <2>1 DEF names
      <3>5. IsComplete(store["farm"], g) /\ store'["farm"][g] = store["farm"][g]
        BY <1>4, <3>3, <3>4 DEF g, IsComplete
      <3> QED BY <3>5 DEF g
    <2> QED BY <1>2, <2>2, <2>3, AudioKeepsType
  <1>5. FarmWholes'
    BY <1>1, <1>2, <1>4 DEF FarmInv, FarmWholes
  <1> QED BY <1>1, <1>3, <1>5 DEF FarmInv, FarmFresh, FarmPieces, FarmDone

LEMMA NextFarm ==
  ASSUME TypeInv, FarmInv, [Next]_vars
  PROVE  FarmInv'
  <1>0. ASSUME ~OnFarm(opt'), opt' = opt PROVE FarmInv'
    BY <1>0 DEF FarmInv, FarmFresh, FarmMezz, FarmPieces, FarmDone, FarmWholes
  <1>1. CASE \E o \in Options : Refuse(o) \/ StartFull(o) \/ StartFarm(o) \/ StartResume(o)
    BY <1>1, BeginFarm
  <1>2. CASE MakeMezzanine
    BY <1>0, <1>2, MezzanineFarm DEF MakeMezzanine
  <1>3. CASE LayOut
    BY <1>0, <1>3, LayOutFarm, LayOutCauses
  <1>4. CASE \E u \in todo : \E t \in BOOLEAN : EncodeVariant(u, t)
    BY <1>0, <1>4, EncodeFarm, EncodeWrites
  <1>5. CASE \E u \in todo : EncodeFails(u)
    BY <1>0, <1>5, FailFarm, FailKeepsType
  <1>6. CASE EncodeAllEnds
    BY <1>0, <1>6, EndsFarm DEF EncodeAllEnds
  <1>7. CASE \E v \in todo : ConcatChunks(v)
    BY <1>0, <1>7, ConcatFarm, ConcatKeepsType
  <1>8. CASE MakeAudio
    BY <1>0, <1>8, AudioFarm, AudioKeepsType
  <1>9. CASE \E c \in todo : Package(c)
    <2>1. pc = "package" /\ pc' = "package" /\ UNCHANGED <<opt, store>> /\ excuse \subseteq excuse'
      BY <1>9 DEF Package
    <2>2. CASE OnFarm(opt)
      <3>1. FarmMezz' /\ Mezz' = Mezz /\ Padded' = Padded
        BY <2>1, <2>2, FarmKept DEF Underway
      <3>2. FarmWholes'
        BY <2>1, <3>1 DEF FarmInv, FarmWholes
      <3> QED BY <2>1, <3>1, <3>2 DEF FarmInv, FarmFresh, FarmPieces, FarmDone
    <2> QED BY <1>0, <2>1, <2>2
  <1>10. CASE Finish
    <2>1. pc' = "done"
      BY <1>10 DEF Finish
    <2> QED BY <2>1 DEF FarmInv, FarmFresh, FarmMezz, FarmPieces, FarmDone, FarmWholes, Underway
  <1>11. CASE Kill
    <2>1. pc' = "failed"
      BY <1>11 DEF Kill
    <2> QED BY <2>1 DEF FarmInv, FarmFresh, FarmMezz, FarmPieces, FarmDone, FarmWholes, Underway
  <1>12. CASE UNCHANGED vars
    <2>1. UNCHANGED <<pc, opt, store, todo, error, excuse>>
      BY <1>12 DEF vars
    <2>2. Mezz' = Mezz /\ Padded' = Padded /\ Duration' = Duration /\ \A u : TileOf(u)' = TileOf(u)
      BY <2>1, PlanKept
    <2>3. \A u : FarmPart(u)' = FarmPart(u)
      BY <2>2 DEF FarmPart
    <2>4. FarmFresh' /\ FarmMezz' /\ FarmWholes'
      BY <2>1, <2>2 DEF FarmInv, FarmFresh, FarmMezz, FarmWholes
    <2>5. FarmDone'
      BY <2>1 DEF FarmInv, FarmDone, UnitDone
    <2>6. FarmPieces'
      BY <2>1, <2>3 DEF FarmInv, FarmPieces, OfUnit
    <2> QED BY <2>4, <2>5, <2>6 DEF FarmInv
  <1> QED BY <1>1, <1>2, <1>3, <1>4, <1>5, <1>6, <1>7, <1>8, <1>9, <1>10, <1>11, <1>12, StepsAre

(***************************************************************************)
(* The whole variants, and what is packaged of them.                       *)
(***************************************************************************)
WholeFile(v) == Name(v[1], v[2], 0)

IsWhole(v) == IsComplete(store[Where], WholeFile(v))

WholeInv ==
  opt.mode # "resume" =>
    /\ pc = "concat" => \A v \in Variants(opt) : v \in todo \/ IsWhole(v)
    /\ pc = "package" => \A v \in Variants(opt) : IsWhole(v)
    /\ pc = "package" /\ Info(opt).audio => IsComplete(store[Where], AudioFile)

LEMMA BeginPhase ==
  ASSUME NEW o \in Options, Refuse(o) \/ StartFull(o) \/ StartFarm(o) \/ StartResume(o)
  PROVE  /\ pc' \in {"failed", "mezzanine", "package"} /\ run' = run + 1 /\ out' = out
         /\ pc' = "package" => opt'.mode = "resume"
  <1>1. CASE Refuse(o)
    BY <1>1 DEF Refuse, Begin
  <1>2. CASE StartFull(o)
    <2>1. pc' = "mezzanine" /\ run' = run + 1 /\ out' = out
      BY <1>2 DEF StartFull, Begin
    <2> QED BY <2>1
  <1>3. CASE StartFarm(o)
    <2>1. pc' = "mezzanine" /\ run' = run + 1 /\ out' = out
      BY <1>3 DEF StartFarm, Begin
    <2> QED BY <2>1
  <1>4. CASE StartResume(o)
    <2> DEFINE b == ResolveCodecSelection(o) \subseteq DiscoveredCodecs
    <2>1. pc' = (IF b THEN "package" ELSE "failed") /\ run' = run + 1 /\ out' = out /\ opt' = o /\ o.mode = "resume"
      BY <1>4 DEF StartResume, Begin
    <2> HIDE DEF b
    <2> QED BY <2>1
  <1> QED BY <1>1, <1>2, <1>3, <1>4

(* A file that is written makes none incomplete.                           *)
LEMMA WholeKept ==
  ASSUME NEW files, NEW names, NEW x, NEW f, IsComplete(files, f) \/ f \in names
  PROVE  IsComplete(Put(files, names, Done(x)), f)
  <1> DEFINE file == Done(x)
  <1>1. file.done
    BY DEF Done
  <1> HIDE DEF file
  <1> DEFINE now == Put(files, names, file)
  <1>2. /\ \A g \in names : (IsComplete(now, g) <=> file.done)
        /\ \A g : g \notin names => (IsComplete(now, g) <=> IsComplete(files, g))
    BY ONLY Wrote
  <1> HIDE DEF now
  <1>3. IsComplete(now, f)
    BY <1>1, <1>2
  <1> QED BY <1>3 DEF now, file

LEMMA NextWhole ==
  ASSUME TypeInv, WholeInv, [Next]_vars
  PROVE  WholeInv'
  <1>0. ASSUME pc' \notin {"concat", "package"} PROVE WholeInv'
    BY <1>0 DEF WholeInv
  <1>1. CASE \E o \in Options : Refuse(o) \/ StartFull(o) \/ StartFarm(o) \/ StartResume(o)
    BY <1>1, BeginPhase DEF WholeInv
  <1>2. CASE MakeMezzanine
    <2>1. pc' = "plan"
      BY <1>2 DEF MakeMezzanine
    <2> QED BY <1>0, <2>1
  <1>3. CASE LayOut
    <2>1. pc' = "encode"
      BY <1>3 DEF LayOut
    <2> QED BY <1>0, <2>1
  <1>4. CASE \E u \in todo : \E t \in BOOLEAN : EncodeVariant(u, t)
    <2>1. pc' = "encode"
      BY <1>4 DEF EncodeVariant
    <2> QED BY <1>0, <2>1
  <1>5. CASE \E u \in todo : EncodeFails(u)
    <2>1. pc' = "encode"
      BY <1>5 DEF EncodeFails
    <2> QED BY <1>0, <2>1
  <1>6. CASE EncodeAllEnds
    <2>1. pc = "encode" /\ UNCHANGED <<opt, store>>
          /\ \/ pc' = "failed"
             \/ pc' = "concat" /\ todo' = {v \in Variants(opt) : ~IsComplete(store[Where], Name(v[1], v[2], 0))}
      BY <1>6 DEF EncodeAllEnds
    <2>2. Where' = Where
      BY <2>1 DEF Where
    <2> QED BY <2>1, <2>2 DEF WholeInv, IsWhole, WholeFile
  <1>7. CASE \E v \in todo : ConcatChunks(v)
    <2>1. PICK v \in todo : ConcatChunks(v)
      BY <1>7
    <2>2. /\ opt' = opt /\ pc = "concat" /\ Where' = Where
          /\ \/ /\ pc' = pc /\ todo' = todo \ {v}
                /\ store'[Where] = Put(store[Where], {WholeFile(v)}, Done(FlattenSeq(PartsOf(v))))
             \/ pc' = "failed"
      BY <2>1, ConcatKeepsType DEF WholeFile
    <2>3. CASE pc' = "failed"
      BY <1>0, <2>3
    <2>4. CASE pc' # "failed"
      <3> SUFFICES ASSUME opt.mode # "resume", NEW w \in Variants(opt), w \notin todo'
                   PROVE  IsComplete(store'[Where], WholeFile(w))
        BY <2>2, <2>4 DEF WholeInv, IsWhole
      <3>1. w = v \/ IsWhole(w)
        BY <2>2, <2>4 DEF WholeInv
      <3>2. IsComplete(store[Where], WholeFile(w)) \/ WholeFile(w) \in {WholeFile(v)}
        BY <3>1 DEF IsWhole
      <3> QED BY <2>2, <2>4, <3>2, WholeKept
    <2> QED BY <2>3, <2>4
  <1>8. CASE MakeAudio
    <2>1. /\ opt' = opt /\ Where' = Where /\ pc = "concat" /\ pc' = "package" /\ todo = {}
          /\ opt.mode # "resume"
          /\ store' = store \/ \E x : store'[Where] = Put(store[Where], {AudioFile}, Done(x))
          /\ Info(opt).audio => IsComplete(store'[Where], AudioFile)
      BY <1>8, AudioKeepsType
    <2>2. ASSUME NEW w \in Variants(opt) PROVE IsComplete(store'[Where], WholeFile(w))
      <3>1. IsComplete(store[Where], WholeFile(w))
        BY <2>1 DEF WholeInv, IsWhole
      <3> QED BY <2>1, <3>1, WholeKept
    <2> QED BY <2>1, <2>2 DEF WholeInv, IsWhole
  <1>9. CASE \E c \in todo : Package(c)
    <2>1. pc = "package" /\ pc' = "package" /\ UNCHANGED <<opt, store>>
      BY <1>9 DEF Package
    <2>2. Where' = Where
      BY <2>1 DEF Where
    <2> QED BY <2>1, <2>2 DEF WholeInv, IsWhole
  <1>10. CASE Finish
    <2>1. pc' = "done"
      BY <1>10 DEF Finish
    <2> QED BY <1>0, <2>1
  <1>11. CASE Kill
    <2>1. pc' = "failed"
      BY <1>11 DEF Kill
    <2> QED BY <1>0, <2>1
  <1>12. CASE UNCHANGED vars
    <2>1. UNCHANGED <<pc, opt, store, todo>>
      BY <1>12 DEF vars
    <2>2. Where' = Where
      BY <2>1 DEF Where
    <2> QED BY <2>1, <2>2 DEF WholeInv, IsWhole
  <1> QED BY <1>1, <1>2, <1>3, <1>4, <1>5, <1>6, <1>7, <1>8, <1>9, <1>10, <1>11, <1>12, StepsAre

(***************************************************************************)
(* What a run packages.                                                    *)
(***************************************************************************)
(* The label of a discovered variant is that of a whole file.              *)
LEMMA DiscoveredAre ==
  ASSUME TypeInv, NEW w \in Discovered(store["local"])
  PROVE  /\ IsComplete(store["local"], Name(w[1], w[2], 0)) /\ IsPiece(Name(w[1], w[2], 0))
         /\ w[2] \in Label
  <1> DEFINE files == store["local"]
  <1>1. PICK f \in DOMAIN files : /\ IsComplete(files, f) /\ f[3] = 0 /\ w = <<f[1], f[2]>>
                                  /\ w # <<"mezzanine", Audio>> /\ w # <<"audio", Audio>>
    BY DEF Discovered
  <1>2. IsName(f)
    BY DEF TypeInv, FilesOK
  <1>3. f # MezzFile /\ f # AudioFile
    BY <1>1, SpecialNames
  <1>4. IsPiece(f)
    BY <1>2, <1>3 DEF IsName
  <1>5. f = <<f[1], f[2], f[3]>> /\ f[2] \in Label
    BY <1>4, PieceType
  <1>6. w[1] = f[1] /\ w[2] = f[2]
    BY <1>1
  <1>7. f = Name(w[1], w[2], 0)
    BY <1>1, <1>5, <1>6 DEF Name
  <1> QED BY <1>1, <1>4, <1>5, <1>6, <1>7

(* A resume packages the whole variants of its codec, each once.           *)
LEMMA ResumePackages ==
  ASSUME TypeInv, opt.mode = "resume", NEW codec
  PROVE  \E labels : /\ IsFiniteSet(labels) /\ OnceEach(Packaged(codec), labels)
                     /\ Range(Packaged(codec)) = labels /\ Packaged(codec) \in Seq(labels)
                     /\ \A l \in labels : <<codec, l>> \in Discovered(store["local"])
  <1> DEFINE ours == {w \in Discovered(store["local"]) :
                       /\ w[1] = codec
                       /\ w[2][1] >= opt.minRes /\ w[2][1] <= opt.maxRes}
             labels == {v[2] : v \in ours}
             before == {p \in labels \X labels :
                          \/ p[1][1] > p[2][1]
                          \/ p[1][1] = p[2][1] /\ p[1][2] < p[2][2]}
  <1>1. Packaged(codec) = Ordered(labels, before)
    BY DEF Packaged
  <1>2. ASSUME NEW l \in labels PROVE l \in Label /\ <<codec, l>> \in Discovered(store["local"])
    <2>1. PICK w \in ours : l = w[2]
      OBVIOUS
    <2>2. w \in Discovered(store["local"]) /\ w[1] = codec
      OBVIOUS
    <2>3. w = <<w[1], w[2]>>
      BY <2>2 DEF Discovered
    <2> QED BY <2>1, <2>2, <2>3, DiscoveredAre
  <1>3. IsFiniteSet(labels)
    <2> DEFINE files == store["local"]
               g == [f \in DOMAIN files |-> f[2]]
               E == {f[2] : f \in DOMAIN files}
    <2>1. IsFiniteSet(DOMAIN files)
      BY DEF TypeInv, FilesOK
    <2>2. labels \subseteq E
      <3> SUFFICES ASSUME NEW l \in labels PROVE l \in E
        OBVIOUS
      <3>1. PICK w \in Discovered(files) : l = w[2]
        OBVIOUS
      <3>2. IsComplete(files, Name(w[1], w[2], 0))
        BY <3>1, DiscoveredAre
      <3>3. Name(w[1], w[2], 0) \in DOMAIN files
        BY <3>2 DEF IsComplete
      <3> QED BY <3>1, <3>3, NameParts
    <2>3. \A e \in E : \E f \in DOMAIN files : e = g[f]
      OBVIOUS
    <2>4. g \in [DOMAIN files -> E]
      OBVIOUS
    <2> HIDE DEF g, E, labels, files
    <2>5. g \in Surjection(DOMAIN files, E)
      BY <2>3, <2>4 DEF Surjection
    <2>6. IsFiniteSet(E)
      BY <2>1, <2>5, FS_Surjection
    <2> QED BY <2>2, <2>6, FS_Subset
  <1>4. Ranks(before, labels)
    <2>1. \A l \in labels : l \in Label
      BY <1>2
    <2>2. before = {p \in labels \X labels :
                      \/ p[1][1] > p[2][1]
                      \/ p[1][1] = p[2][1] /\ p[1][2] < p[2][2]}
      OBVIOUS
    <2> HIDE DEF labels, before
    <2>3. \A x, y \in labels : <<x, y>> \in before <=> x[1] > y[1] \/ (x[1] = y[1] /\ x[2] < y[2])
      BY <2>2
    <2>4. \A x \in labels : x[1] \in Nat /\ x[2] \in Nat /\ x = <<x[1], x[2]>>
      BY <2>1 DEF Label
    <2>5. \A x \in labels : <<x, x>> \notin before
      BY <2>3, <2>4
    <2>6. \A x, y, z \in labels : <<x, y>> \in before /\ <<y, z>> \in before => <<x, z>> \in before
      BY <2>3, <2>4
    <2>7. \A x, y \in labels : x = y \/ <<x, y>> \in before \/ <<y, x>> \in before
      <3> SUFFICES ASSUME NEW x \in labels, NEW y \in labels
                   PROVE  x = y \/ <<x, y>> \in before \/ <<y, x>> \in before
        OBVIOUS
      <3>1. x[1] \in Nat /\ y[1] \in Nat /\ x[2] \in Nat /\ y[2] \in Nat
        BY <2>4
      <3>2. x[1] > y[1] \/ y[1] > x[1] \/ (x[1] = y[1] /\ (x[2] < y[2] \/ y[2] < x[2] \/ x[2] = y[2]))
        BY <3>1
      <3>3. x[1] = y[1] /\ x[2] = y[2] => x = y
        BY <2>4
      <3> QED BY <2>3, <3>2, <3>3
    <2> QED BY <2>5, <2>6, <2>7 DEF Ranks
  <1> HIDE DEF labels, before
  <1> DEFINE a == Ordered(labels, before)
  <1>5. OnceEach(a, labels) /\ Cardinality(labels) \in Nat
    BY <1>3, <1>4, OrderedLists
  <1> HIDE DEF a
  <1>6. Range(a) = labels /\ a \in Seq(labels)
    <2>1. a \in [1 .. Cardinality(labels) -> labels]
      BY <1>5 DEF OnceEach
    <2>2. a \in Seq(labels)
      BY <1>5, <2>1
    <2> QED BY <1>5, <2>1, <2>2 DEF OnceEach, Range
  <1>7. Packaged(codec) = a
    BY <1>1 DEF a
  <1> QED BY <1>2, <1>3, <1>5, <1>6, <1>7

(* What is packaged is whole, and what it owes.                            *)
LEMMA PackagedWhole ==
  ASSUME TypeInv, WholeInv, pc = "package", NEW c \in ToPackage, NEW l \in Range(Packaged(c))
  PROVE  /\ IsComplete(store[Where], Name(c, l, 0)) /\ IsPiece(Name(c, l, 0))
         /\ l \in Label /\ l # Audio
         /\ opt.mode # "resume" => <<c, l>> \in Variants(opt)
  <1>1. CASE opt.mode = "resume"
    <2>1. <<c, l>> \in Discovered(store["local"])
      BY <1>1, ResumePackages
    <2> DEFINE w == <<c, l>>
    <2>2. w[1] = c /\ w[2] = l
      OBVIOUS
    <2> HIDE DEF w
    <2>3. IsComplete(store["local"], Name(w[1], w[2], 0)) /\ IsPiece(Name(w[1], w[2], 0)) /\ w[2] \in Label
      BY <2>1, DiscoveredAre DEF w
    <2>4. Where = "local"
      BY <1>1, WhereType
    <2> QED BY <1>1, <2>2, <2>3, <2>4 DEF Label, Audio
  <1>2. CASE opt.mode # "resume"
    <2>1. c \in Codecs(opt) /\ l \in Range(LabelsOf(opt, c))
      BY <1>2 DEF ToPackage, Packaged
    <2> DEFINE v == <<c, l>>
    <2>2. v \in Variants(opt) /\ v[1] = c /\ v[2] = l
      BY <2>1 DEF Variants
    <2> HIDE DEF v
    <2>3. v[2] \in Label /\ v[2] # Audio
      BY <2>2, VariantType, AskedIsValid DEF TypeInv
    <2>4. IsComplete(store[Where], Name(v[1], v[2], 0)) /\ IsPiece(Name(v[1], v[2], 0))
      BY <1>2, <2>2, WholePiece DEF WholeInv, IsWhole, WholeFile
    <2> QED BY <1>2, <2>2, <2>3, <2>4 DEF v
  <1> QED BY <1>1, <1>2

LEMMA PackagedOwed ==
  ASSUME TypeInv, LocalInv, MadeInv, FarmInv, WholeInv, pc = "package",
         excuse \cap {"mixed", "hole"} = {}, NEW c \in ToPackage, NEW l \in Range(Packaged(c))
  PROVE  store[Where][Name(c, l, 0)].content = Owed
  <1> DEFINE f == Name(c, l, 0)
  <1>1. /\ IsComplete(store[Where], f) /\ IsPiece(f) /\ f[3] = 0 /\ f \in DOMAIN store[Where]
        /\ opt.mode # "resume" => <<c, l>> \in Variants(opt)
    BY PackagedWhole, NameParts DEF IsComplete
  <1>2. "mixed" \notin excuse /\ "hole" \notin excuse
    OBVIOUS
  <1>3. Valid(opt)
    BY AskedIsValid DEF TypeInv
  <1>4. ASSUME NEW r, made = {r}, Where = "local" PROVE store[Where][f].content = WholeOf(r)
    <2>1. r \in made
      BY <1>4
    <2> HIDE DEF f
    <2>2. store["local"][f].content = PieceMade(r, f[3])
      BY <1>1, <1>2, <1>4, <2>1 DEF LocalInv, MadePieces
    <2> QED BY <1>1, <1>4, <2>2 DEF PieceMade
  <1> HIDE DEF f
  <1>5. CASE opt.mode = "full"
    <2>1. Where = "local" /\ ~OnFarm(opt)
      BY <1>5 DEF Where, OnFarm
    <2> DEFINE r == Recipe(opt)
    <2>2. made = {r}
      BY <1>2, <1>5 DEF MadeInv, Underway
    <2>3. MezzOf(r) = Mezzanine(Info(opt), LimitOf(opt)) /\ \A d : Padding(r, d) = Padding(opt, d)
      BY <1>3, <2>1, RecipeIs
    <2> HIDE DEF r
    <2> DEFINE m == Mezzanine(Info(opt), LimitOf(opt))
    <2>4. Owed = WholeVariant(m, Padding(opt, m.duration))
      BY <1>5 DEF Owed
    <2>5. WholeOf(r) = WholeVariant(m, Padding(opt, m.duration))
      BY <2>3 DEF WholeOf, PadOf
    <2> QED BY <1>4, <2>1, <2>2, <2>4, <2>5 DEF f
  <1>6. CASE OnFarm(opt)
    <2>1. Where = "farm" /\ opt.mode # "resume"
      BY <1>6 DEF Where, OnFarm
    <2> DEFINE v == <<c, l>>
    <2>2. v \in Variants(opt) /\ f = Name(v[1], v[2], 0)
      BY <1>1, <2>1 DEF f
    <2> HIDE DEF v
    <2>3. store["farm"][f].content = WholeVariant(Mezz, Padded)
      BY <1>1, <1>2, <1>6, <2>1, <2>2 DEF FarmInv, FarmWholes
    <2>4. Mezz = Mezzanine(Info(opt), LimitOf(opt))
      BY <1>6 DEF FarmInv, FarmMezz, Underway
    <2> DEFINE m == Mezzanine(Info(opt), LimitOf(opt))
    <2>5. Owed = WholeVariant(m, Padding(opt, m.duration))
      BY <2>1 DEF Owed
    <2>6. Padded = Padding(opt, m.duration) /\ Mezz = m
      BY <2>4 DEF Padded
    <2> HIDE DEF m
    <2> QED BY <2>1, <2>3, <2>5, <2>6 DEF f
  <1>7. CASE opt.mode = "resume"
    <2>1. PICK r \in made : made = {r}
      BY <1>2, <1>7 DEF MadeInv
    <2>2. Where = "local"
      BY <1>7, WhereType
    <2>3. (CHOOSE m \in made : TRUE) = r
      BY <2>1
    <2>4. Owed = WholeOf(r)
      BY <1>7, <2>3 DEF Owed, WholeOf, MezzOf, PadOf, Info
    <2> QED BY <1>4, <2>1, <2>2, <2>4 DEF f
  <1> QED BY <1>3, <1>5, <1>6, <1>7 DEF Valid, OnFarm

(***************************************************************************)
(* The packaged directories.                                               *)
(***************************************************************************)
(* The durations of a stream's segments.                                   *)
LEMMA CutType ==
  ASSUME NEW length \in Nat, NEW seg \in Nat \ {0}
  PROVE  LET durs == Cut(length, seg)
             n == CeilDiv(length, seg)
         IN  /\ n \in Nat /\ durs \in [1 .. n -> Nat \ {0}] /\ durs \in Seq(Nat \ {0}) /\ Len(durs) = n
             /\ \A i \in 1 .. n : i < n => durs[i] = seg
             /\ n # 0 => durs[n] = length - (n - 1) * seg
             /\ n = 0 <=> length = 0
  <1> DEFINE n == CeilDiv(length, seg)
             durs == Cut(length, seg)
  <1>1. CASE length = 0
    <2>1. n = 0
      BY <1>1, RoundingUp
    <2>2. durs = [i \in 1 .. 0 |-> IF i = 0 THEN length - (0 - 1) * seg ELSE seg]
      BY <2>1 DEF Cut
    <2>3. durs = <<>>
      BY <2>2
    <2> HIDE DEF durs
    <2>4. /\ durs \in [1 .. 0 -> Nat \ {0}] /\ durs \in Seq(Nat \ {0}) /\ Len(durs) = 0
      BY <2>3
    <2> QED BY <1>1, <2>1, <2>4 DEF durs
  <1>2. CASE length # 0
    <2>1. n \in Nat \ {0} /\ length <= n * seg /\ (n - 1) * seg < length
      BY <1>2, Rounding
    <2>2. durs = [i \in 1 .. n |-> IF i = n THEN length - (n - 1) * seg ELSE seg]
      BY DEF Cut
    <2> HIDE DEF n, durs
    <2>3. (n - 1) * seg \in Nat
      BY <2>1
    <2> DEFINE last == length - (n - 1) * seg
    <2>4. last \in Nat \ {0}
      BY <2>1, <2>3
    <2> HIDE DEF last
    <2>5. durs = [i \in 1 .. n |-> IF i = n THEN last ELSE seg]
      BY <2>2 DEF last
    <2>6. durs \in [1 .. n -> Nat \ {0}]
      BY <2>4, <2>5
    <2>7. durs \in Seq(Nat \ {0}) /\ Len(durs) = n
      BY <2>1, <2>6
    <2>8. \A i \in 1 .. n : i < n => durs[i] = seg
      BY <2>1, <2>5
    <2>9. durs[n] = last
      BY <2>1, <2>5
    <2> QED BY <1>2, <2>1, <2>6, <2>7, <2>8, <2>9 DEF n, durs, last
  <1> QED BY <1>1, <1>2

(* The segment files of the runs so far.                                   *)
SegFiles(last) == {SegmentFile(d, r) : d \in Nat \ {0}, r \in 0 .. last}

LEMMA WrittenBy ==
  ASSUME NEW last \in Nat, NEW x \in SegFiles(last)
  PROVE  x.run \in 0 .. last
  BY DEF SegFiles, SegmentFile

OutFiles ==
  \A c \in DOMAIN out : \A l \in DOMAIN out[c].files : out[c].files[l] \in Seq(SegFiles(run))

(* The length of what is packaged.                                         *)
LEMMA LengthType ==
  ASSUME TypeInv, WholeInv, pc = "package", NEW c \in ToPackage, NEW l \in Range(Representations(c))
  PROVE  /\ LengthOf(c, l) \in Nat
         /\ l = Audio \/ l \in Range(Packaged(c))
         /\ l # Audio => LengthOf(c, l) = Len(store[Where][Name(c, l, 0)].content) * Period
  <1> DEFINE b == IF opt.mode = "full" THEN Info(opt).audio ELSE IsComplete(store[Where], AudioFile)
  <1>1. Representations(c) = Packaged(c) \o (IF b THEN <<Audio>> ELSE <<>>)
    BY DEF Representations
  <1>2. b => IsComplete(store[Where], AudioFile)
    <2>1. CASE opt.mode = "full"
      BY <2>1 DEF WholeInv
    <2>2. CASE opt.mode # "full"
      BY <2>2
    <2> QED BY <2>1, <2>2
  <1>3. FilesOK(store[Where])
    BY WhereType
  <1> DEFINE seen == Packaged(c)
  <1>4. seen \in Seq(Range(seen))
    <2>1. CASE opt.mode = "resume"
      <3>1. PICK labels : seen \in Seq(labels) /\ Range(seen) = labels
        BY <2>1, ResumePackages
      <3> HIDE DEF seen
      <3> QED BY <3>1
    <2>2. CASE opt.mode # "resume"
      <3>1. seen = [i \in DOMAIN RungsOf(opt, c) |-> RungsOf(opt, c)[i].label]
        BY <2>2 DEF Packaged, LabelsOf
      <3>2. PICK n \in Nat : DOMAIN RungsOf(opt, c) = 1 .. n
        BY RungsApart, AskedIsValid DEF TypeInv, Apart
      <3> HIDE DEF seen
      <3>3. seen \in [1 .. n -> Range(seen)]
        BY <3>1, <3>2 DEF Range
      <3> QED BY <3>2, <3>3
    <2> QED BY <2>1, <2>2
  <1> HIDE DEF b, seen
  <1>5. (l = Audio /\ b) \/ l \in Range(seen)
    <2>1. l \in Range(seen \o (IF b THEN <<Audio>> ELSE <<>>))
      BY <1>1 DEF seen
    <2>2. CASE ~b
      <3>1. seen \o (IF b THEN <<Audio>> ELSE <<>>) = seen
        BY <1>4, <2>2
      <3> QED BY <2>1, <3>1
    <2>3. CASE b
      <3>1. l \in Range(seen \o <<Audio>>)
        BY <2>1, <2>3
      <3>2. PICK i \in DOMAIN (seen \o <<Audio>>) : l = (seen \o <<Audio>>)[i]
        BY <3>1 DEF Range
      <3>3. i \in 1 .. Len(seen) + 1 /\ Len(seen) \in Nat
        BY <1>4, <3>2
      <3>4. i = Len(seen) + 1 => l = Audio
        BY <1>4, <3>2, <3>3
      <3>5. i \in 1 .. Len(seen) => l = seen[i] /\ i \in DOMAIN seen
        BY <1>4, <3>2, <3>3
      <3> QED BY <2>3, <3>3, <3>4, <3>5 DEF Range
    <2> QED BY <2>2, <2>3
  <1>6. CASE l = Audio
    <2>1. b
      <3>1. l \in Range(Packaged(c)) => l # Audio
        BY PackagedWhole
      <3> QED BY <1>5, <1>6, <3>1 DEF seen
    <2>2. store[Where][AudioFile].content[2] \in Nat
      BY <1>2, <1>3, <2>1 DEF FilesOK, ContentOK, IsComplete
    <2> QED BY <1>6, <2>2 DEF LengthOf
  <1>7. CASE l # Audio
    <2>1. l \in Range(Packaged(c))
      BY <1>5, <1>7 DEF seen
    <2> DEFINE f == Name(c, l, 0)
    <2>2. IsComplete(store[Where], f) /\ IsPiece(f)
      BY <2>1, PackagedWhole
    <2> HIDE DEF f
    <2>3. store[Where][f].content \in Seq(AnyFrame)
      BY <1>3, <2>2 DEF FilesOK, ContentOK, IsComplete
    <2>4. Len(store[Where][f].content) \in Nat /\ Period \in Nat
      BY <2>3, TicksAssumption
    <2>5. Len(store[Where][f].content) * Period \in Nat
      <3> DEFINE k == Len(store[Where][f].content)
      <3> HIDE DEF k
      <3>1. k \in Nat => k * Period \in Nat
        BY <2>4
      <3> QED BY <2>4, <3>1 DEF k
    <2>6. LengthOf(c, l) = Len(store[Where][f].content) * Period
      BY <1>7 DEF LengthOf, f
    <2> QED BY <1>7, <2>1, <2>5, <2>6 DEF f
  <1> QED BY <1>6, <1>7

(* What a package leaves in the directory: the old files, the new ones over them. *)
LEMMA FilesOfDirectory ==
  ASSUME TypeInv, WholeInv, OutFiles, pc = "package", NEW c \in ToPackage
  PROVE  LET files == Directory(c).files
         IN  /\ DOMAIN files = Range(Representations(c)) \cup DOMAIN Held(c).files
             /\ \A l \in DOMAIN files : files[l] \in Seq(SegFiles(run))
             /\ \A l \in Range(Representations(c)) :
                  /\ OldFiles(c, l) \in Seq(SegFiles(run)) /\ NewFiles(c, l) \in Seq(SegFiles(run))
                  /\ files[l] = Overwritten(OldFiles(c, l), NewFiles(c, l))
  <1> DEFINE labels == Range(Representations(c))
             held == Held(c).files
             files == Directory(c).files
             over == [l \in labels |-> Overwritten(OldFiles(c, l), NewFiles(c, l))]
             S == SegFiles(run)
  <1>0. run \in Nat /\ opt.seg \in Nat \ {0}
    BY AskedIsValid DEF TypeInv, Valid
  <1>1. files = Over(over, held)
    BY DEF Directory
  <1>2. \A l \in DOMAIN held : held[l] \in Seq(S)
    <2>1. CASE c \in DOMAIN out /\ ~OnFarm(opt)
      BY <2>1 DEF Held, OutFiles
    <2>2. CASE ~(c \in DOMAIN out /\ ~OnFarm(opt))
      <3>1. held = << >>
        BY <2>2 DEF Held
      <3> HIDE DEF held
      <3> QED BY <3>1
    <2> QED BY <2>1, <2>2
  <1> HIDE DEF held
  <1>3. ASSUME NEW l \in labels
        PROVE  /\ OldFiles(c, l) \in Seq(S) /\ NewFiles(c, l) \in Seq(S) /\ over[l] \in Seq(S)
               /\ over[l] = Overwritten(OldFiles(c, l), NewFiles(c, l))
    <2>1. OldFiles(c, l) \in Seq(S)
      BY <1>2 DEF OldFiles, held
    <2>2. LengthOf(c, l) \in Nat
      BY LengthType
    <2> DEFINE durs == Cut(LengthOf(c, l), opt.seg)
               k == Len(durs)
    <2>3. k \in Nat /\ durs \in [1 .. k -> Nat \ {0}]
      BY <1>0, <2>2, CutType
    <2>4. NewFiles(c, l) = [i \in DOMAIN durs |-> SegmentFile(durs[i], run)]
      BY DEF NewFiles
    <2> HIDE DEF durs, k
    <2>5. \A i \in 1 .. k : SegmentFile(durs[i], run) \in S
      BY <1>0, <2>3 DEF SegFiles
    <2> DEFINE new == NewFiles(c, l)
               prior == OldFiles(c, l)
    <2>6. new \in [1 .. k -> S]
      <3>1. DOMAIN durs = 1 .. k
        BY <2>3
      <3> HIDE DEF S
      <3> QED BY <2>4, <2>5, <3>1
    <2>7. new \in Seq(S) /\ prior \in Seq(S)
      BY <2>1, <2>3, <2>6
    <2> HIDE DEF new, prior
    <2>8. Overwritten(prior, new) \in Seq(S)
      <3>1. Len(new) \in Nat /\ Len(prior) \in Nat
        BY <2>7
      <3> DEFINE rest == SubSeq(prior, Len(new) + 1, Len(prior))
      <3>2. rest \in Seq(S)
        <4> HIDE DEF S
        <4>1. \A j \in (Len(new) + 1) .. Len(prior) : prior[j] \in S
          BY <2>7, <3>1
        <4> QED BY <3>1, <4>1, <2>7, SubSeqProperties
      <3> HIDE DEF rest, S
      <3>3. new \o rest \in Seq(S)
        BY <2>7, <3>2, ConcatProperties
      <3> QED BY <3>3 DEF Overwritten, rest
    <2> QED BY <2>7, <2>8 DEF new, prior
  <1>4. DOMAIN over = labels
    OBVIOUS
  <1> HIDE DEF over, files, labels
  <1>5. DOMAIN files = labels \cup DOMAIN held /\ (\A l \in labels : files[l] = over[l])
        /\ \A l \in DOMAIN held : l \notin labels => files[l] = held[l]
    BY <1>1, <1>4 DEF Over
  <1>6. \A l \in DOMAIN files : files[l] \in Seq(S)
    BY <1>2, <1>3, <1>5
  <1> HIDE DEF S
  <1> QED BY <1>3, <1>5, <1>6 DEF S, files, held, labels

LEMMA PackageWrites ==
  ASSUME TypeInv, NEW c \in todo, Package(c)
  PROVE  /\ pc = "package" /\ pc' = "package" /\ UNCHANGED <<opt, run, store, made>> /\ c \in ToPackage
         /\ excuse \subseteq excuse' /\ excuse' \subseteq excuse \cup {"stale"}
         /\ \/ out' = out
            \/ /\ Packaged(c) # <<>>
               /\ DOMAIN out' = DOMAIN out \cup {c} /\ out'[c] = Directory(c)
               /\ \A d \in DOMAIN out : d # c => out'[d] = out[d]
               /\ "stale" \notin excuse' =>
                    \A l \in Range(Representations(c)) : ~(Len(OldFiles(c, l)) > Len(NewFiles(c, l)))
  <1> DEFINE b == \E l \in Range(Representations(c)) : Len(OldFiles(c, l)) > Len(NewFiles(c, l))
             dir == Directory(c)
  <1>1. /\ pc = "package" /\ pc' = "package" /\ UNCHANGED <<opt, run, store, made>>
        /\ IF Packaged(c) = <<>> THEN out' = out /\ excuse' = excuse
           ELSE /\ out' = Over([d \in {c} |-> dir], out)
                /\ excuse' = excuse \union (IF b THEN {"stale"} ELSE {})
    BY DEF Package
  <1>2. c \in ToPackage
    BY <1>1 DEF TypeInv
  <1>3. CASE Packaged(c) = <<>>
    BY <1>1, <1>2, <1>3
  <1>4. CASE Packaged(c) # <<>>
    <2>1. ~b => \A l \in Range(Representations(c)) : ~(Len(OldFiles(c, l)) > Len(NewFiles(c, l)))
      OBVIOUS
    <2> HIDE DEF b, dir
    <2>2. out' = Over([d \in {c} |-> dir], out) /\ excuse' = excuse \union (IF b THEN {"stale"} ELSE {})
      BY <1>1, <1>4
    <2>3. DOMAIN out' = DOMAIN out \cup {c} /\ out'[c] = dir
          /\ \A d \in DOMAIN out : d # c => out'[d] = out[d]
      BY <2>2 DEF Over
    <2>4. /\ excuse \subseteq excuse' /\ excuse' \subseteq excuse \cup {"stale"}
          /\ "stale" \notin excuse' => ~b
      BY <2>2
    <2> QED BY <1>1, <1>2, <1>4, <2>1, <2>3, <2>4 DEF dir
  <1> QED BY <1>3, <1>4

(* What a step leaves of the directories.                                  *)
LEMMA NextOut ==
  ASSUME TypeInv, [Next]_vars
  PROVE  \/ run' = run /\ out' = out /\ pc \notin {"package", "done", "failed"}
         \/ run' = run + 1 /\ out' = out
         \/ \E c \in todo : Package(c)
         \/ run' = run /\ out' = out /\ (Finish \/ Kill \/ UNCHANGED vars)
  <1>1. ASSUME NEW o \in Options, Refuse(o) \/ StartFull(o) \/ StartFarm(o) \/ StartResume(o)
        PROVE  run' = run + 1 /\ out' = out
    BY <1>1, BeginPhase
  <1>2. MakeMezzanine => run' = run /\ out' = out /\ pc = "mezzanine"
    BY DEF MakeMezzanine
  <1>3. LayOut => run' = run /\ out' = out /\ pc = "plan"
    BY DEF LayOut
  <1>4. ASSUME NEW u \in todo, NEW t \in BOOLEAN, EncodeVariant(u, t)
        PROVE  run' = run /\ out' = out /\ pc = "encode"
    BY <1>4 DEF EncodeVariant
  <1>5. ASSUME NEW u \in todo, EncodeFails(u) PROVE run' = run /\ out' = out /\ pc = "encode"
    BY <1>5 DEF EncodeFails
  <1>6. EncodeAllEnds => run' = run /\ out' = out /\ pc = "encode"
    BY DEF EncodeAllEnds
  <1>7. ASSUME NEW v \in todo, ConcatChunks(v) PROVE run' = run /\ out' = out /\ pc = "concat"
    BY <1>7, JoinSteps
  <1>8. MakeAudio => run' = run /\ out' = out /\ pc = "concat"
    BY DEF MakeAudio
  <1>9. Finish => run' = run /\ out' = out
    BY DEF Finish
  <1>10. Kill => run' = run /\ out' = out
    BY DEF Kill
  <1>11. UNCHANGED vars => run' = run /\ out' = out
    BY DEF vars
  <1> QED BY <1>1, <1>2, <1>3, <1>4, <1>5, <1>6, <1>7, <1>8, <1>9, <1>10, <1>11, StepsAre

LEMMA SegFilesGrow ==
  ASSUME NEW r \in Nat
  PROVE  \A s : s \in Seq(SegFiles(r)) => s \in Seq(SegFiles(r + 1))
  <1>1. SegFiles(r) \subseteq SegFiles(r + 1)
    BY DEF SegFiles
  <1> HIDE DEF SegFiles
  <1> QED BY <1>1

LEMMA NextFiles ==
  ASSUME TypeInv, WholeInv, OutFiles, [Next]_vars
  PROVE  OutFiles'
  <1>1. CASE run' = run /\ out' = out
    BY <1>1 DEF OutFiles
  <1>2. CASE run' = run + 1 /\ out' = out
    <2>1. run \in Nat
      BY DEF TypeInv
    <2> QED BY <1>2, <2>1, SegFilesGrow DEF OutFiles
  <1>3. ASSUME NEW c \in todo, Package(c) PROVE OutFiles'
    <2>1. /\ run' = run /\ pc = "package" /\ c \in ToPackage
          /\ \/ out' = out
             \/ /\ DOMAIN out' = DOMAIN out \cup {c} /\ out'[c] = Directory(c)
                /\ \A d \in DOMAIN out : d # c => out'[d] = out[d]
      BY <1>3, PackageWrites
    <2>2. \A l \in DOMAIN Directory(c).files : Directory(c).files[l] \in Seq(SegFiles(run))
      BY <2>1, FilesOfDirectory
    <2>3. CASE out' = out
      BY <2>1, <2>3 DEF OutFiles
    <2>4. CASE out' # out
      <3> DEFINE dir == Directory(c)
      <3>1. \A l \in DOMAIN dir.files : dir.files[l] \in Seq(SegFiles(run))
        BY <2>2
      <3>2. out'[c] = dir /\ DOMAIN out' = DOMAIN out \cup {c} /\ \A d \in DOMAIN out : d # c => out'[d] = out[d]
        BY <2>1, <2>4
      <3> HIDE DEF dir
      <3> QED BY <2>1, <3>1, <3>2 DEF OutFiles
    <2> QED BY <2>3, <2>4
  <1> QED BY <1>1, <1>2, <1>3, NextOut

(***************************************************************************)
(* What the run in progress has packaged, and that it shows what it owes.  *)
(***************************************************************************)
NoneYet == pc \notin {"package", "done", "failed"} => Fresh = {}

MediaOwed ==
  pc \in {"package", "done"} /\ excuse \cap {"mixed", "hole"} = {} =>
    \A c \in Fresh : \A l \in Range(Packaged(c)) : out[c].media[l] = Owed

LEMMA NoneFresh ==
  ASSUME OutFiles, run \in Nat, run' = run + 1, out' = out
  PROVE  Fresh' = {}
  <1> SUFFICES ASSUME NEW c \in DOMAIN out, NEW l \in DOMAIN out[c].files,
                      NEW k \in DOMAIN out[c].files[l], out[c].files[l][k].run = run + 1
               PROVE  FALSE
    BY DEF Fresh
  <1>1. out[c].files[l] \in Seq(SegFiles(run))
    BY DEF OutFiles
  <1> DEFINE s == out[c].files[l]
  <1>2. s[k] \in SegFiles(run)
    <2> HIDE DEF s
    <2>1. s \in Seq(SegFiles(run)) /\ k \in DOMAIN s
      BY <1>1 DEF s
    <2> HIDE DEF SegFiles
    <2> QED BY <2>1
  <1>3. s[k].run \in 0 .. run
    BY <1>2, WrittenBy
  <1> QED BY <1>3

LEMMA FreshKept ==
  ASSUME run' = run, out' = out
  PROVE  Fresh' = Fresh
  BY DEF Fresh

LEMMA OwedKept ==
  ASSUME opt' = opt, made' = made \/ opt.mode # "resume"
  PROVE  Owed' = Owed
  <1>1. CASE opt.mode = "resume"
    <2>1. made' = made
      BY <1>1
    <2>2. Owed = WholeVariant(Mezzanine(Info(CHOOSE m \in made : TRUE), (CHOOSE m \in made : TRUE).limit),
                    Padding(CHOOSE m \in made : TRUE, Mezzanine(Info(CHOOSE m \in made : TRUE), (CHOOSE m \in made : TRUE).limit).duration))
      BY <1>1 DEF Owed
    <2>3. Owed' = WholeVariant(Mezzanine(Info(CHOOSE m \in made' : TRUE), (CHOOSE m \in made' : TRUE).limit),
                    Padding(CHOOSE m \in made' : TRUE, Mezzanine(Info(CHOOSE m \in made' : TRUE), (CHOOSE m \in made' : TRUE).limit).duration))
      BY <1>1 DEF Owed
    <2> QED BY <2>1, <2>2, <2>3
  <1>2. CASE opt.mode # "resume"
    BY <1>2 DEF Owed
  <1> QED BY <1>1, <1>2

LEMMA PackagedKept ==
  ASSUME opt' = opt, store' = store \/ opt.mode # "resume", NEW c
  PROVE  Packaged(c)' = Packaged(c)
  <1>1. CASE opt.mode = "resume"
    <2>1. store' = store
      BY <1>1
    <2> QED BY <2>1 DEF Packaged
  <1>2. CASE opt.mode # "resume"
    BY <1>2 DEF Packaged
  <1> QED BY <1>1, <1>2

LEMMA PackageMedia ==
  ASSUME TypeInv, LocalInv, MadeInv, FarmInv, WholeInv, MediaOwed, NEW c \in todo, Package(c)
  PROVE  MediaOwed'
  <1>1. /\ pc = "package" /\ UNCHANGED <<opt, run, store, made>> /\ c \in ToPackage
        /\ excuse \subseteq excuse'
        /\ \/ out' = out
           \/ /\ DOMAIN out' = DOMAIN out \cup {c} /\ out'[c] = Directory(c)
              /\ \A d \in DOMAIN out : d # c => out'[d] = out[d]
    BY PackageWrites
  <1> SUFFICES ASSUME excuse' \cap {"mixed", "hole"} = {},
                      NEW d \in Fresh', NEW l \in Range(Packaged(d)')
               PROVE  out'[d].media[l] = Owed'
    BY DEF MediaOwed
  <1>2. Owed' = Owed /\ Packaged(d)' = Packaged(d) /\ excuse \cap {"mixed", "hole"} = {}
    BY <1>1, OwedKept, PackagedKept
  <1>3. CASE out' = out \/ d # c
    <2>1. d \in DOMAIN out /\ out'[d] = out[d]
      BY <1>1, <1>3 DEF Fresh
    <2>2. d \in Fresh
      BY <1>1, <2>1 DEF Fresh
    <2> QED BY <1>1, <1>2, <2>1, <2>2 DEF MediaOwed
  <1>4. CASE out' # out /\ d = c
    <2>1. l \in Range(Packaged(c))
      BY <1>2, <1>4
    <2>2. Directory(c).media[l] = store[Where][Name(c, l, 0)].content
      BY <2>1 DEF Directory
    <2>3. store[Where][Name(c, l, 0)].content = Owed
      BY <1>1, <1>2, <2>1, PackagedOwed
    <2>4. out'[c] = Directory(c)
      BY <1>1, <1>4
    <2> QED BY <1>2, <1>4, <2>2, <2>3, <2>4
  <1> QED BY <1>3, <1>4

LEMMA NextMedia ==
  ASSUME TypeInv, LocalInv, MadeInv, FarmInv, WholeInv, OutFiles, NoneYet, MediaOwed, [Next]_vars
  PROVE  NoneYet' /\ MediaOwed'
  <1>1. CASE Fresh' = {}
    BY <1>1 DEF NoneYet, MediaOwed
  <1>2. CASE run' = run /\ out' = out /\ pc \notin {"package", "done", "failed"}
    BY <1>1, <1>2, FreshKept DEF NoneYet
  <1>3. CASE run' = run + 1 /\ out' = out
    BY <1>1, <1>3, NoneFresh DEF TypeInv
  <1>4. CASE \E c \in todo : Package(c)
    <2>1. pc' = "package"
      BY <1>4 DEF Package
    <2>2. MediaOwed'
      BY <1>4, PackageMedia
    <2> QED BY <2>1, <2>2 DEF NoneYet
  <1>5. CASE run' = run /\ out' = out /\ Finish
    <2>1. pc = "package" /\ pc' = "done" /\ UNCHANGED <<opt, excuse>>
          /\ (opt.mode = "full" \/ UNCHANGED <<store, made>>)
      BY <1>5 DEF Finish
    <2>2. Owed' = Owed /\ Fresh' = Fresh /\ \A c : Packaged(c)' = Packaged(c)
      BY <1>5, <2>1, FreshKept, OwedKept, PackagedKept
    <2> QED BY <1>5, <2>1, <2>2 DEF NoneYet, MediaOwed
  <1>6. CASE Kill
    <2>1. pc' = "failed"
      BY <1>6 DEF Kill
    <2> QED BY <2>1 DEF NoneYet, MediaOwed
  <1>7. CASE UNCHANGED vars
    <2>1. UNCHANGED <<pc, opt, run, store, out, made, excuse>>
      BY <1>7 DEF vars
    <2>2. Owed' = Owed /\ Fresh' = Fresh /\ \A c : Packaged(c)' = Packaged(c)
      BY <2>1, FreshKept, OwedKept, PackagedKept
    <2> QED BY <2>1, <2>2 DEF NoneYet, MediaOwed
  <1> QED BY <1>2, <1>3, <1>4, <1>5, <1>6, <1>7, NextOut

FrameInv ==
  LocalInv /\ MadeInv /\ FarmInv /\ WholeInv /\ OutFiles /\ NoneYet /\ MediaOwed

LEMMA InitFrames == Init => FrameInv
  <1> SUFFICES ASSUME Init PROVE FrameInv
    OBVIOUS
  <1>1. pc = "idle" /\ out = << >> /\ DOMAIN << >> = {}
    BY DEF Init
  <1>2. FarmInv /\ WholeInv
    BY <1>1 DEF FarmInv, FarmFresh, FarmMezz, FarmPieces, FarmDone, FarmWholes, WholeInv, Underway
  <1>3. OutFiles /\ Fresh = {}
    BY <1>1 DEF OutFiles, Fresh
  <1> QED BY <1>1, <1>2, <1>3, InitLocal DEF FrameInv, NoneYet, MediaOwed

LEMMA NextFrames ==
  ASSUME TypeInv, FrameInv, [Next]_vars
  PROVE  FrameInv'
  BY NextLocal, NextFarm, NextWhole, NextFiles, NextMedia DEF FrameInv

(* The inductive invariant of the frames holds in every reachable state:   *)
(* what is on the disk and in the bucket, what the tasks of the farm hold, *)
(* what packaging read and what it wrote.                                  *)
THEOREM FramesInduct == Spec => []FrameInv
  <1>1. TypeInv /\ FrameInv /\ [Next]_vars => FrameInv'
    BY NextFrames
  <1> QED BY <1>1, InitFrames, Typed, PTL DEF Spec

(* A variant that is delivered shows every frame of the planned clip once  *)
(* and in order, whatever the chunks, the padding, the grid and the earlier*)
(* runs, unless files of other options are reused or a gap went uncounted. *)
THEOREM FramesAreOnce == Spec => []FramesOnce
  <1>1. FrameInv => FramesOnce
    BY DEF FrameInv, MediaOwed, FramesOnce
  <1> QED BY <1>1, FramesInduct, PTL

(***************************************************************************)
(* Sums of sequences.                                                      *)
(***************************************************************************)
(* The sums of the first elements of a sequence, of none to all.           *)
Adding(f, s, n) == f[0] = 0 /\ \A i \in 1 .. n : f[i] = f[i - 1] + s[i]

Sums(f, s, n) == f \in [0 .. n -> Nat] /\ Adding(f, s, n)

LEMMA SumsExist ==
  ASSUME NEW n \in Nat, NEW s \in [1 .. n -> Nat]
  PROVE  \E f : Sums(f, s, n)
  <1> DEFINE T == {m \in 0 .. n : ~\E f : Sums(f, s, m)}
  <1>1. SUFFICES ASSUME T # {} PROVE FALSE
    <2>1. n \in 0 .. n
      OBVIOUS
    <2> QED BY <2>1
  <1>2. PICK m \in T : \A k \in T : m <= k
    <2>1. T \subseteq Nat
      OBVIOUS
    <2> HIDE DEF T
    <2> QED BY <1>1, <2>1, Least
  <1>3. m \in 0 .. n /\ ~\E f : Sums(f, s, m)
    BY <1>2
  <1>4. m # 0
    <2>1. Sums([i \in 0 .. 0 |-> 0], s, 0)
      BY DEF Sums, Adding
    <2> QED BY <1>3, <2>1
  <1>5. m - 1 \in 0 .. n /\ ~(m <= m - 1)
    BY <1>3, <1>4
  <1>6. PICK f : Sums(f, s, m - 1)
    BY <1>2, <1>5
  <1> DEFINE g == [i \in 0 .. m |-> IF i < m THEN f[i] ELSE f[m - 1] + s[m]]
  <1>7. s[m] \in Nat /\ f[m - 1] \in Nat /\ f \in [0 .. m - 1 -> Nat]
    BY <1>3, <1>5, <1>6 DEF Sums, Adding
  <1>8. g \in [0 .. m -> Nat] /\ g[0] = 0
    BY <1>3, <1>4, <1>6, <1>7 DEF Sums, Adding
  <1>9. ASSUME NEW i \in 1 .. m PROVE g[i] = g[i - 1] + s[i]
    <2>1. i \in 0 .. m /\ i - 1 \in 0 .. m /\ i - 1 < m
      BY <1>3
    <2>2. g[i - 1] = f[i - 1]
      BY <2>1
    <2>3. CASE i = m
      BY <2>1, <2>2, <2>3
    <2>4. CASE i # m
      <3>1. i \in 1 .. m - 1 /\ i < m
        BY <1>3, <2>4
      <3>2. g[i] = f[i]
        BY <2>1, <3>1
      <3> QED BY <1>6, <2>2, <3>1, <3>2 DEF Sums, Adding
    <2> QED BY <2>3, <2>4
  <1> HIDE DEF g
  <1>10. Sums(g, s, m)
    BY <1>8, <1>9 DEF Sums, Adding
  <1> QED BY <1>3, <1>10

LEMMA SumsAreOne ==
  ASSUME NEW n \in Nat, NEW s, NEW f, Adding(f, s, n), NEW g, Adding(g, s, n)
  PROVE  f[n] = g[n]
  <1> DEFINE T == {j \in 0 .. n : f[j] # g[j]}
  <1>1. SUFFICES ASSUME T # {} PROVE FALSE
    <2>1. n \in 0 .. n
      OBVIOUS
    <2> QED BY <1>1, <2>1
  <1>2. PICK j \in T : \A k \in T : j <= k
    <2>1. T \subseteq Nat
      OBVIOUS
    <2> HIDE DEF T
    <2> QED BY <1>1, <2>1, Least
  <1>3. j \in 0 .. n /\ f[j] # g[j] /\ j # 0
    BY <1>2 DEF Adding
  <1>4. j \in 1 .. n /\ j - 1 \in 0 .. n /\ ~(j <= j - 1)
    BY <1>3
  <1>5. f[j - 1] = g[j - 1]
    BY <1>2, <1>4
  <1> QED BY <1>3, <1>4, <1>5 DEF Adding

(* Total is the last of them.                                              *)
LEMMA TotalBy ==
  ASSUME NEW n \in Nat, NEW s \in [1 .. n -> Nat], NEW f, Sums(f, s, n)
  PROVE  Total(s) = f[n] /\ Total(s) \in Nat
  <1> DEFINE Adds(g) == g = [i \in 0 .. Len(s) |-> IF i = 0 THEN 0 ELSE g[i - 1] + s[i]]
             h == CHOOSE g : Adds(g)
  <1>1. Len(s) = n
    OBVIOUS
  <1>2. Adds(f)
    <2>1. f = [i \in 0 .. n |-> f[i]]
      BY DEF Sums, Adding
    <2>2. \A i \in 0 .. n : f[i] = IF i = 0 THEN 0 ELSE f[i - 1] + s[i]
      BY DEF Sums, Adding
    <2>3. [i \in 0 .. n |-> f[i]] = [i \in 0 .. n |-> IF i = 0 THEN 0 ELSE f[i - 1] + s[i]]
      BY <2>2
    <2> QED BY <1>1, <2>1, <2>3
  <1>3. Adds(h)
    <2> HIDE DEF Adds
    <2> QED BY <1>2
  <1>4. \A i \in 0 .. n : h[i] = IF i = 0 THEN 0 ELSE h[i - 1] + s[i]
    <2> HIDE DEF h
    <2> QED BY <1>1, <1>3
  <1>5. Total(s) = h[n]
    BY <1>1 DEF Total
  <1> HIDE DEF h, Adds
  <1>6. h[0] = 0 /\ \A i \in 1 .. n : h[i] = h[i - 1] + s[i]
    BY <1>4
  <1>7. h[n] = f[n]
    <2>1. Adding(h, s, n)
      BY <1>6 DEF Adding
    <2> QED BY <2>1, SumsAreOne DEF Sums
  <1>8. f[n] \in Nat
    BY DEF Sums
  <1> QED BY <1>5, <1>7, <1>8

LEMMA TotalIs ==
  ASSUME NEW n \in Nat, NEW s \in [1 .. n -> Nat]
  PROVE  Total(s) \in Nat /\ \E f : Sums(f, s, n) /\ Total(s) = f[n]
  <1>1. PICK f : Sums(f, s, n)
    BY SumsExist
  <1> QED BY <1>1, TotalBy

(* The segments of a stream last as long as the stream.                    *)
LEMMA TotalCut ==
  ASSUME NEW length \in Nat, NEW seg \in Nat \ {0}
  PROVE  Total(Cut(length, seg)) = length
  <1> DEFINE n == CeilDiv(length, seg)
             s == Cut(length, seg)
             f == [i \in 0 .. n |-> IF i = n THEN length ELSE i * seg]
  <1>1. /\ n \in Nat /\ s \in [1 .. n -> Nat \ {0}]
        /\ \A i \in 1 .. n : i < n => s[i] = seg
        /\ n # 0 => s[n] = length - (n - 1) * seg
        /\ n = 0 <=> length = 0
    BY CutType
  <1> HIDE DEF n, s
  <1>2. \A i \in Nat : i * seg \in Nat /\ (i # 0 => (i - 1) * seg + seg = i * seg /\ (i - 1) * seg \in Nat)
    OBVIOUS
  <1>3. f \in [0 .. n -> Nat] /\ f[0] = 0
    <2>1. \A i \in 0 .. n : (IF i = n THEN length ELSE i * seg) \in Nat
      BY <1>2
    <2>2. 0 * seg = 0
      OBVIOUS
    <2> QED BY <1>1, <2>1, <2>2
  <1>4. ASSUME NEW i \in 1 .. n PROVE f[i] = f[i - 1] + s[i]
    <2>1. i \in 0 .. n /\ i - 1 \in 0 .. n /\ i - 1 # n /\ i # 0 /\ i \in Nat
      BY <1>1
    <2>2. f[i - 1] = (i - 1) * seg
      BY <2>1
    <2>3. CASE i = n
      <3>1. f[i] = length /\ s[i] = length - (i - 1) * seg
        BY <1>1, <2>1, <2>3
      <3> QED BY <1>2, <2>1, <2>2, <3>1
    <2>4. CASE i # n
      <3>1. f[i] = i * seg /\ s[i] = seg
        BY <1>1, <2>1, <2>4
      <3> QED BY <1>2, <2>1, <2>2, <3>1
    <2> QED BY <2>3, <2>4
  <1>5. f[n] = length
    BY <1>1
  <1> HIDE DEF f
  <1>6. Sums(f, s, n)
    BY <1>3, <1>4 DEF Sums, Adding
  <1>7. s \in [1 .. n -> Nat]
    BY <1>1
  <1>8. Total(s) = f[n]
    BY <1>1, <1>6, <1>7, TotalBy
  <1> QED BY <1>5, <1>8 DEF s

(* The shares of the fragments of a segment add up to the segment.         *)
LEMMA TotalShares ==
  ASSUME NEW d \in Nat, NEW m \in Nat \ {0}, m <= d
  PROVE  /\ FragmentDurations(d, m) \in [1 .. m -> Nat] /\ FragmentDurations(d, m) \in Seq(Nat)
         /\ Len(FragmentDurations(d, m)) = m
         /\ Total(FragmentDurations(d, m)) = d
  <1> DEFINE q == d \div m
             r == d % m
             s == FragmentDurations(d, m)
             f == [k \in 0 .. m |-> k * q + IF k <= r THEN k ELSE r]
  <1>1. q \in Nat /\ r \in 0 .. m - 1 /\ d = m * q + r
    BY Division
  <1>2. q # 0
    BY <1>1
  <1>3. s = [k \in 1 .. m |-> LET share == q + (IF k <= r THEN 1 ELSE 0) IN IF share < 1 THEN 1 ELSE share]
    BY DEF FragmentDurations
  <1> HIDE DEF q, r, s
  <1>4. ASSUME NEW k \in 1 .. m PROVE s[k] = q + (IF k <= r THEN 1 ELSE 0)
    BY <1>1, <1>2, <1>3
  <1>5. s \in [1 .. m -> Nat]
    <2>1. \A k \in 1 .. m : s[k] \in Nat
      BY <1>1, <1>4
    <2> QED BY <1>3, <2>1
  <1>6. \A k \in Nat : k * q \in Nat /\ (k # 0 => (k - 1) * q + q = k * q /\ (k - 1) * q \in Nat)
    BY <1>1
  <1>7. f \in [0 .. m -> Nat] /\ f[0] = 0
    <2>1. \A k \in 0 .. m : k * q + (IF k <= r THEN k ELSE r) \in Nat
      BY <1>1, <1>6
    <2>2. 0 * q = 0 /\ 0 \in 0 .. m /\ 0 <= r
      BY <1>1
    <2>3. f[0] = 0 * q + 0
      BY <2>2
    <2> QED BY <2>1, <2>2, <2>3
  <1>8. ASSUME NEW k \in 1 .. m PROVE f[k] = f[k - 1] + s[k]
    <2>1. k \in 0 .. m /\ k - 1 \in 0 .. m /\ k \in Nat /\ k # 0
      OBVIOUS
    <2>2. f[k] = k * q + (IF k <= r THEN k ELSE r)
      BY <2>1
    <2>3. f[k - 1] = (k - 1) * q + (IF k - 1 <= r THEN k - 1 ELSE r)
      BY <2>1
    <2> HIDE DEF f
    <2> DEFINE a == (k - 1) * q
    <2>4. a \in Nat /\ k * q = a + q
      BY <1>6, <2>1
    <2> HIDE DEF a
    <2>5. f[k - 1] = a + (IF k - 1 <= r THEN k - 1 ELSE r) /\ f[k] = a + q + (IF k <= r THEN k ELSE r)
      BY <1>1, <2>1, <2>2, <2>3, <2>4 DEF a
    <2> QED BY <1>1, <1>4, <2>1, <2>4, <2>5
  <1>9. f[m] = d
    <2>1. f[m] = m * q + (IF m <= r THEN m ELSE r)
      OBVIOUS
    <2> QED BY <1>1, <2>1
  <1> HIDE DEF f
  <1>10. Sums(f, s, m)
    BY <1>7, <1>8 DEF Sums, Adding
  <1>11. Total(s) = d
    BY <1>5, <1>9, <1>10, TotalBy
  <1>12. s \in Seq(Nat) /\ Len(s) = m
    BY <1>5
  <1> QED BY <1>5, <1>11, <1>12 DEF s

(* The sums rise, and each number up to the last is in one of their steps. *)
LEMMA SumsRise ==
  ASSUME NEW n \in Nat, NEW s \in [1 .. n -> Nat], NEW f, Sums(f, s, n),
         NEW i \in 0 .. n, NEW j \in 0 .. n, i <= j
  PROVE  f[i] \in Nat /\ f[j] \in Nat /\ f[i] <= f[j]
  <1> DEFINE T == {k \in i .. n : ~(f[i] <= f[k])}
  <1>0. \A k \in 0 .. n : f[k] \in Nat
    BY DEF Sums
  <1>1. SUFFICES ASSUME T # {} PROVE FALSE
    <2>1. j \in i .. n
      OBVIOUS
    <2> QED BY <1>0, <1>1, <2>1
  <1>2. PICK k \in T : \A m \in T : k <= m
    <2>1. T \subseteq Nat
      OBVIOUS
    <2> HIDE DEF T
    <2> QED BY <1>1, <2>1, Least
  <1>3. k \in i .. n /\ ~(f[i] <= f[k])
    BY <1>2
  <1>4. k # i
    BY <1>0, <1>3
  <1>5. k - 1 \in i .. n /\ k \in 1 .. n /\ k - 1 \in 0 .. n /\ ~(k <= k - 1)
    BY <1>3, <1>4
  <1>6. f[i] <= f[k - 1]
    BY <1>2, <1>5
  <1>7. f[k] = f[k - 1] + s[k] /\ s[k] \in Nat
    BY <1>5 DEF Sums, Adding
  <1> QED BY <1>0, <1>3, <1>5, <1>6, <1>7

Located(p, f, s, n) == \E i \in 1 .. n : \E k \in 1 .. s[i] : p = f[i - 1] + k

LEMMA SumsLocate ==
  ASSUME NEW n \in Nat, NEW s \in [1 .. n -> Nat], NEW f, Sums(f, s, n), NEW p \in 1 .. f[n]
  PROVE  Located(p, f, s, n)
  <1> DEFINE T == {i \in 0 .. n : p <= f[i]}
  <1>0. (\A k \in 0 .. n : f[k] \in Nat) /\ f[0] = 0 /\ p \in Nat /\ p <= f[n] /\ p # 0 /\ n \in 0 .. n
    BY DEF Sums, Adding
  <1>1. PICK i \in T : \A m \in T : i <= m
    <2>1. T \subseteq Nat /\ n \in T
      BY <1>0
    <2> HIDE DEF T
    <2> QED BY <2>1, Least
  <1>2. i \in 0 .. n /\ p <= f[i] /\ i # 0
    BY <1>0, <1>1
  <1>3. i \in 1 .. n /\ i - 1 \in 0 .. n /\ ~(i <= i - 1)
    BY <1>2
  <1>4. ~(p <= f[i - 1])
    BY <1>1, <1>3
  <1>5. f[i] = f[i - 1] + s[i] /\ s[i] \in Nat
    BY <1>3 DEF Sums, Adding
  <1>6. p - f[i - 1] \in 1 .. s[i] /\ p = f[i - 1] + (p - f[i - 1])
    BY <1>0, <1>2, <1>3, <1>4, <1>5
  <1> QED BY <1>3, <1>6 DEF Located

(* A number is not in two steps that lie apart.                            *)
LEMMA StepsApart ==
  ASSUME NEW a \in Nat, NEW b \in Nat, NEW x \in Nat, NEW y \in Nat,
         NEW k \in 1 .. x, NEW q \in 1 .. y, a + k = b + q
  PROVE  ~(a + x <= b)
  OBVIOUS

LEMMA SumsLocateOnce ==
  ASSUME NEW n \in Nat, NEW s \in [1 .. n -> Nat], NEW f, Sums(f, s, n),
         NEW i \in 1 .. n, NEW k \in 1 .. s[i], NEW j \in 1 .. n, NEW q \in 1 .. s[j],
         f[i - 1] + k = f[j - 1] + q
  PROVE  i = j /\ k = q
  <1>1. ASSUME NEW a \in 1 .. n, NEW b \in 1 .. n, a < b PROVE f[a] <= f[b - 1]
    <2>1. a \in 0 .. n /\ b - 1 \in 0 .. n /\ a <= b - 1
      BY <1>1
    <2> QED BY <2>1, SumsRise
  <1>2. ASSUME NEW a \in 1 .. n
        PROVE f[a] = f[a - 1] + s[a] /\ s[a] \in Nat /\ f[a - 1] \in Nat /\ f[a] \in Nat
    <2>1. a \in 0 .. n /\ a - 1 \in 0 .. n
      OBVIOUS
    <2> QED BY <2>1 DEF Sums, Adding
  <1>3. /\ f[i - 1] \in Nat /\ f[j - 1] \in Nat /\ s[i] \in Nat /\ s[j] \in Nat
        /\ f[i] = f[i - 1] + s[i] /\ f[j] = f[j - 1] + s[j]
    BY <1>2
  <1>4. k \in 1 .. s[i] /\ q \in 1 .. s[j] /\ f[i - 1] + k = f[j - 1] + q
    OBVIOUS
  <1>5. ~(i < j)
    <2>1. i < j => f[i - 1] + s[i] <= f[j - 1]
      BY <1>1, <1>3
    <2> QED BY <1>3, <1>4, <2>1, StepsApart, Zenon
  <1>6. ~(j < i)
    <2>1. j < i => f[j - 1] + s[j] <= f[i - 1]
      BY <1>1, <1>3
    <2>2. f[j - 1] + q = f[i - 1] + k
      BY <1>4
    <2> QED BY <1>3, <1>4, <2>1, <2>2, StepsApart, Zenon
  <1>7. i = j
    BY <1>5, <1>6
  <1> QED BY <1>2, <1>7

LEMMA SumsAt ==
  ASSUME NEW n \in Nat, NEW s \in [1 .. n -> Nat], NEW f, Sums(f, s, n), NEW i \in 1 .. n, NEW k \in 1 .. s[i]
  PROVE  f[i - 1] + k \in 1 .. f[n] /\ f[i - 1] \in Nat
  <1>1. i \in 0 .. n /\ i - 1 \in 0 .. n /\ n \in 0 .. n /\ i <= n
    OBVIOUS
  <1>2. f[i] <= f[n] /\ f[i] \in Nat /\ f[n] \in Nat
    BY <1>1, SumsRise
  <1>3. f[i] = f[i - 1] + s[i] /\ f[i - 1] \in Nat /\ s[i] \in Nat
    BY <1>1 DEF Sums, Adding
  <1> QED BY <1>2, <1>3

(* Where the elements of sequences are when these are joined.              *)
Lengths(parts) == [i \in DOMAIN parts |-> Len(parts[i])]

Placed(whole, parts, off, n) ==
  /\ Len(whole) = off[n] /\ off[n] \in Nat
  /\ \A i \in 1 .. n : \A k \in 1 .. Len(parts[i]) :
       off[i - 1] + k \in 1 .. off[n] /\ whole[off[i - 1] + k] = parts[i][k]
  /\ \A p \in 1 .. off[n] : \E i \in 1 .. n : \E k \in 1 .. Len(parts[i]) : p = off[i - 1] + k

LEMMA JoinedAt ==
  ASSUME NEW E, NEW n \in Nat, NEW parts \in [1 .. n -> Seq(E)], NEW off, Sums(off, Lengths(parts), n)
  PROVE  FlattenSeq(parts) \in Seq(E) /\ Placed(FlattenSeq(parts), parts, off, n)
  <1> DEFINE lens == Lengths(parts)
             whole == FlattenSeq(parts)
  <1>1. lens \in [1 .. n -> Nat] /\ \A i \in 1 .. n : lens[i] = Len(parts[i])
    BY DEF Lengths
  <1>2. whole \in Seq(E) /\ Len(parts) = n /\ \E g : Offsets(g, parts, whole)
    BY Flattened
  <1> HIDE DEF whole, lens
  <1>3. PICK g : Offsets(g, parts, whole)
    BY <1>2
  <1>4. Sums(g, lens, n)
    BY <1>1, <1>2, <1>3 DEF Offsets, Sums, Adding
  <1>5. ASSUME NEW j \in 0 .. n PROVE g[j] = off[j]
    <2>1. Adding(g, lens, j) /\ Adding(off, lens, j) /\ j \in Nat
      BY <1>4 DEF Sums, Adding, lens
    <2> QED BY <2>1, SumsAreOne
  <1>6. Len(whole) = off[n] /\ off[n] \in Nat
    BY <1>2, <1>3, <1>5 DEF Offsets
  <1>7. ASSUME NEW i \in 1 .. n, NEW k \in 1 .. Len(parts[i])
        PROVE  off[i - 1] + k \in 1 .. off[n] /\ whole[off[i - 1] + k] = parts[i][k]
    <2>1. whole[g[i - 1] + k] = parts[i][k]
      BY <1>2, <1>3 DEF Offsets
    <2>2. i - 1 \in 0 .. n
      OBVIOUS
    <2>3. off[i - 1] + k \in 1 .. off[n]
      BY <1>1, SumsAt DEF lens
    <2> QED BY <1>5, <2>1, <2>2, <2>3
  <1>8. ASSUME NEW p \in 1 .. off[n]
        PROVE  \E i \in 1 .. n : \E k \in 1 .. Len(parts[i]) : p = off[i - 1] + k
    <2>1. Sums(off, lens, n)
      BY DEF lens
    <2>2. Located(p, off, lens, n)
      BY <1>1, <2>1, SumsLocate, Zenon
    <2> QED BY <1>1, <2>2 DEF Located
  <1>9. Placed(whole, parts, off, n)
    BY <1>6, <1>7, <1>8 DEF Placed
  <1> QED BY <1>2, <1>9 DEF whole

(* Joined, sequences add up to what they add up to one by one.             *)
LEMMA TotalPlaced ==
  ASSUME NEW n \in Nat, NEW parts \in [1 .. n -> Seq(Nat)], NEW off, Sums(off, Lengths(parts), n),
         NEW whole \in Seq(Nat), Placed(whole, parts, off, n)
  PROVE  Total(whole) = Total([i \in 1 .. n |-> Total(parts[i])])
  <1> DEFINE lens == Lengths(parts)
             totals == [i \in 1 .. n |-> Total(parts[i])]
             N == off[n]
  <1>1. lens \in [1 .. n -> Nat] /\ \A i \in 1 .. n : lens[i] = Len(parts[i])
    BY DEF Lengths
  <1>2. Sums(off, lens, n)
    OBVIOUS
  <1>3. /\ Len(whole) = N /\ N \in Nat
        /\ \A i \in 1 .. n : \A k \in 1 .. Len(parts[i]) :
             off[i - 1] + k \in 1 .. off[n] /\ whole[off[i - 1] + k] = parts[i][k]
    BY DEF Placed
  <1>4. whole \in [1 .. N -> Nat]
    BY <1>3
  <1>5. PICK g : Sums(g, whole, N) /\ Total(whole) = g[N]
    BY <1>3, <1>4, TotalIs
  <1>6. ASSUME NEW i \in 1 .. n PROVE parts[i] \in [1 .. lens[i] -> Nat] /\ Total(parts[i]) \in Nat
    <2>1. parts[i] \in Seq(Nat) /\ lens[i] = Len(parts[i]) /\ lens[i] \in Nat
      BY <1>1
    <2> HIDE DEF lens
    <2>2. parts[i] \in [1 .. lens[i] -> Nat]
      BY <2>1
    <2> QED BY <2>1, <2>2, TotalIs
  <1>7. totals \in [1 .. n -> Nat]
    BY <1>6
  <1>8. PICK h : Sums(h, totals, n) /\ Total(totals) = h[n]
    <2> HIDE DEF totals
    <2> QED BY <1>7, TotalIs
  <1> DEFINE f == [i \in 0 .. n |-> g[off[i]]]
  <1>9. ASSUME NEW i \in 1 .. n PROVE g[off[i]] = g[off[i - 1]] + Total(parts[i])
    <2> DEFINE m == lens[i]
               base == off[i - 1]
               q == [k \in 0 .. m |-> g[base + k] - g[base]]
    <2>0. i - 1 \in 0 .. n /\ i \in 0 .. n
      OBVIOUS
    <2>1. m \in Nat /\ m = Len(parts[i]) /\ base \in Nat /\ off[i] = base + m /\ off[i] \in Nat
      <3> HIDE DEF lens
      <3> QED BY <1>1, <1>2, <2>0 DEF Sums, Adding
    <2>2. base + m <= N
      <3>1. off[i] <= off[n]
        <4> HIDE DEF lens
        <4>1. n \in 0 .. n /\ i <= n
          OBVIOUS
        <4> QED BY <1>1, <1>2, <2>0, <4>1, SumsRise
      <3> QED BY <2>1, <3>1
    <2> HIDE DEF m, base, N, lens
    <2>3. ASSUME NEW k \in 0 .. m PROVE g[base + k] \in Nat
      <3>1. base + k \in 0 .. N
        BY <1>3, <2>1, <2>2
      <3> QED BY <1>5, <3>1 DEF Sums
    <2>4. ASSUME NEW k \in 1 .. m PROVE g[base + k] = g[base + k - 1] + parts[i][k]
      <3>1. base + k \in 1 .. N /\ whole[base + k] = parts[i][k]
        BY <1>3, <2>1 DEF base, N
      <3>2. Adding(g, whole, N)
        BY <1>5 DEF Sums
      <3>3. g[base + k] = g[(base + k) - 1] + whole[base + k]
        BY <3>1, <3>2, Zenon DEF Adding
      <3>4. (base + k) - 1 = base + k - 1
        BY <2>1
      <3> QED BY <3>1, <3>3, <3>4, Zenon
    <2>5. q[0] = 0
      <3>1. q[0] = g[base + 0] - g[base] /\ base + 0 = base /\ g[base + 0] \in Nat
        BY <2>1, <2>3
      <3> QED BY <3>1
    <2>6. ASSUME NEW k \in 1 .. m PROVE q[k] = q[k - 1] + parts[i][k]
      <3>1. k \in 0 .. m /\ k - 1 \in 0 .. m /\ base + k - 1 = base + (k - 1) /\ 0 \in 0 .. m
        BY <2>1
      <3>2. q[k] = g[base + k] - g[base] /\ q[k - 1] = g[base + (k - 1)] - g[base]
        BY <3>1
      <3>3. parts[i][k] \in Nat
        BY <2>1
      <3>6. base + 0 = base
        BY <2>1
      <3>4. g[base + k] \in Nat /\ g[base + (k - 1)] \in Nat /\ g[base + 0] \in Nat /\ base + 0 = base
        <4> HIDE DEF q
        <4> QED BY <2>3, <3>1, <3>6
      <3>5. g[base + k] = g[base + (k - 1)] + parts[i][k]
        BY <2>4, <3>1
      <3> HIDE DEF q
      <3> QED BY <3>2, <3>3, <3>4, <3>5
    <2>7. Adding(q, parts[i], m)
      <3> HIDE DEF q
      <3> QED BY <2>5, <2>6 DEF Adding
    <2>8. PICK p : Sums(p, parts[i], m) /\ Total(parts[i]) = p[m]
      BY <1>6, <2>1, TotalIs DEF m
    <2>9. q[m] = p[m]
      <3> HIDE DEF q
      <3> QED BY <2>1, <2>7, <2>8, SumsAreOne DEF Sums
    <2>10. q[m] = g[base + m] - g[base] /\ g[base + m] \in Nat /\ g[base + 0] \in Nat /\ base + 0 = base
      BY <2>1, <2>3
    <2> HIDE DEF q
    <2>11. p[m] \in Nat
      <3>1. m \in 0 .. m /\ p \in [0 .. m -> Nat]
        BY <2>1, <2>8 DEF Sums
      <3> QED BY <3>1
    <2>12. g[base + m] = g[base] + Total(parts[i])
      BY <2>8, <2>9, <2>10, <2>11
    <2> QED BY <2>1, <2>12 DEF base
  <1>10. Adding(f, totals, n)
    <2>1. f[0] = 0
      <3>1. off[0] = 0
        BY <1>2 DEF Sums, Adding
      <3>2. g[0] = 0
        BY <1>5 DEF Sums, Adding
      <3>3. f[0] = g[off[0]]
        OBVIOUS
      <3> QED BY <3>1, <3>2, <3>3
    <2>2. ASSUME NEW i \in 1 .. n PROVE f[i] = f[i - 1] + totals[i]
      <3>1. f[i] = g[off[i]] /\ f[i - 1] = g[off[i - 1]] /\ totals[i] = Total(parts[i])
        OBVIOUS
      <3> HIDE DEF f, totals
      <3> QED BY <1>9, <3>1
    <2> HIDE DEF f, totals
    <2> QED BY <2>1, <2>2 DEF Adding
  <1>11. f[n] = g[N]
    OBVIOUS
  <1> HIDE DEF f, totals
  <1>12. f[n] = h[n]
    BY <1>8, <1>10, SumsAreOne DEF Sums
  <1> QED BY <1>5, <1>8, <1>11, <1>12 DEF totals

LEMMA TotalJoined ==
  ASSUME NEW n \in Nat, NEW parts \in [1 .. n -> Seq(Nat)]
  PROVE  Total(FlattenSeq(parts)) = Total([i \in 1 .. n |-> Total(parts[i])])
  <1>1. Lengths(parts) \in [1 .. n -> Nat]
    BY DEF Lengths
  <1>2. PICK off : Sums(off, Lengths(parts), n)
    BY <1>1, SumsExist
  <1>3. FlattenSeq(parts) \in Seq(Nat) /\ Placed(FlattenSeq(parts), parts, off, n)
    BY <1>2, JoinedAt, Zenon
  <1> QED BY <1>2, <1>3, TotalPlaced, Zenon

(* A sequence that rises lists its members.                                *)
LEMMA ListedAs ==
  ASSUME NEW n \in Nat, NEW a \in [1 .. n -> Nat], \A i, j \in 1 .. n : i < j => a[i] < a[j],
         NEW S, S = {a[i] : i \in 1 .. n}
  PROVE  IsFiniteSet(S) /\ Cardinality(S) = n /\ Ascending(S) = a
  <1>1. S \in SUBSET Nat
    OBVIOUS
  <1>2. a \in Bijection(1 .. n, S)
    <2>1. a \in Injection(1 .. n, S)
      <3>1. a \in [1 .. n -> S]
        OBVIOUS
      <3>2. ASSUME NEW i \in 1 .. n, NEW j \in 1 .. n, a[i] = a[j] PROVE i = j
        <4>1. ~(i < j) /\ ~(j < i)
          BY <3>2
        <4> QED BY <4>1
      <3> QED BY <3>1, <3>2 DEF Injection, IsInjective
    <2>2. \A x \in S : \E i \in 1 .. n : a[i] = x
      OBVIOUS
    <2> QED BY <2>1, <2>2 DEF Bijection, Surjection, Injection
  <1>3. IsFiniteSet(1 .. n) /\ Cardinality(1 .. n) = n
    <2>1. 0 \in Int /\ 1 \in Int /\ n \in Int
      OBVIOUS
    <2>2. IsFiniteSet(1 .. n) /\ Cardinality(1 .. n) = IF 1 > n THEN 0 ELSE n - 1 + 1
      BY <2>1, FS_Interval
    <2> QED BY <2>2
  <1>4. IsFiniteSet(S) /\ Cardinality(S) = n
    BY <1>2, <1>3, FS_Bijection DEF ExistsBijection
  <1>5. Lists(a, S)
    <2>1. a \in [1 .. n -> S] /\ \A x \in S : \E i \in 1 .. n : a[i] = x
      OBVIOUS
    <2> QED BY <1>4, <2>1 DEF Lists
  <1>6. Lists(Ascending(S), S)
    BY <1>1, <1>4, AscendingLists
  <1> QED BY <1>1, <1>4, <1>5, <1>6, OneList

(* The numbers to n, listed.                                               *)
LEMMA CountingTo ==
  ASSUME NEW n \in Nat
  PROVE  Cardinality(1 .. n) = n /\ Ascending(1 .. n) = [i \in 1 .. n |-> i]
  <1> DEFINE a == [i \in 1 .. n |-> i]
  <1>1. a \in [1 .. n -> Nat] /\ \A i, j \in 1 .. n : i < j => a[i] < a[j]
    OBVIOUS
  <1>2. 1 .. n = {a[i] : i \in 1 .. n}
    OBVIOUS
  <1> HIDE DEF a
  <1>3. Cardinality(1 .. n) = n /\ Ascending(1 .. n) = a
    BY <1>1, <1>2, ListedAs
  <1> QED BY <1>3 DEF a

(***************************************************************************)
(* A segment file, box by box.                                             *)
(***************************************************************************)
(* How many fragments a segment has.                                       *)
FragmentsIn(d) == IF Partial = 0 THEN 1 ELSE CeilDiv(d, Partial)

LEMMA FragmentsType ==
  ASSUME NEW d \in Nat \ {0}
  PROVE  FragmentsIn(d) \in Nat \ {0} /\ FragmentsIn(d) <= d
  <1>1. Partial \in Nat
    BY SegmentAssumption
  <1>2. CASE Partial = 0
    BY <1>2 DEF FragmentsIn
  <1>3. CASE Partial # 0
    <2> DEFINE e == d + Partial - 1
               q == e \div Partial
               r == e % Partial
    <2>1. e \in Nat /\ Partial \in Nat \ {0}
      BY <1>1, <1>3
    <2>2. q \in Nat /\ r \in 0 .. Partial - 1 /\ e = Partial * q + r
      <3> HIDE DEF e
      <3> QED BY <2>1, Division
    <2>3. FragmentsIn(d) = q
      BY <1>3 DEF FragmentsIn, CeilDiv
    <2> HIDE DEF q, r
    <2>4. q # 0
      <3>1. q = 0 => Partial * q = 0
        BY <2>1
      <3> QED BY <2>1, <2>2, <3>1
    <2>5. q <= d
      <3> SUFFICES ASSUME q >= d + 1 PROVE FALSE
        BY <2>2
      <3>1. PICK x \in Nat : q = d + 1 + x
        <4>1. q - (d + 1) \in Nat /\ q = d + 1 + (q - (d + 1))
          BY <2>2
        <4> QED BY <4>1
      <3>2. PICK y \in Nat : Partial = 1 + y
        <4>1. Partial - 1 \in Nat /\ Partial = 1 + (Partial - 1)
          BY <2>1
        <4> QED BY <4>1
      <3>3. PICK z \in Nat : Partial * q = Partial + d + z
        <4>1. (1 + y) * (d + 1 + x) = (1 + y) + d + (x + y * d + y * x)
          OBVIOUS
        <4>2. x + y * d + y * x \in Nat
          OBVIOUS
        <4> QED BY <3>1, <3>2, <4>1, <4>2
      <3> QED BY <2>1, <2>2, <3>3
    <2> QED BY <2>2, <2>3, <2>4, <2>5
  <1> QED BY <1>2, <1>3

(* The boxes of a file of m fragments.                                     *)
Boxed(boxes, m) ==
  /\ DOMAIN boxes = 1 .. 2 * m + 1 /\ Len(boxes) = 2 * m + 1
  /\ boxes[1].type = "styp" /\ boxes[1].size = 1
  /\ \A k \in 1 .. m : /\ boxes[2 * k].type = "moof" /\ boxes[2 * k].size = 1
                       /\ boxes[2 * k + 1].type = "mdat" /\ boxes[2 * k + 1].size = 2
  /\ m # 0 => boxes[2].first = "sync"

LEMMA EveryBox ==
  ASSUME NEW m \in Nat, NEW b \in 1 .. 2 * m + 1
  PROVE  b = 1 \/ \E k \in 1 .. m : b = 2 * k \/ b = 2 * k + 1
  <1>1. b = 2 * (b \div 2) + (b % 2) /\ b \div 2 \in Nat /\ b % 2 \in 0 .. 1
    OBVIOUS
  <1>2. CASE b \div 2 = 0
    BY <1>1, <1>2
  <1>3. CASE b \div 2 # 0
    <2>1. b \div 2 \in 1 .. m
      BY <1>1, <1>3
    <2> QED BY <1>1, <2>1
  <1> QED BY <1>2, <1>3

LEMMA FileBoxed ==
  ASSUME NEW d \in Nat \ {0}, NEW r
  PROVE  Boxed(SegmentFile(d, r).boxes, FragmentsIn(d)) /\ SegmentFile(d, r).run = r
  <1> DEFINE m == FragmentsIn(d)
             boxes == SegmentFile(d, r).boxes
             Moof(k) == [type |-> "moof", size |-> 1, default |-> "nonsync",
                         first |-> IF (k * Partial) % Gop = 0 THEN "sync" ELSE "absent"]
             Box(b) == IF b = 1 THEN [type |-> "styp", size |-> 1]
                       ELSE IF b % 2 = 0 THEN Moof(b \div 2 - 1)
                       ELSE [type |-> "mdat", size |-> 2]
  <1>1. SegmentFile(d, r).run = r /\ boxes = [b \in 1 .. 2 * m + 1 |-> Box(b)]
    BY DEF SegmentFile, FragmentsIn
  <1>2. m \in Nat \ {0}
    BY FragmentsType
  <1> HIDE DEF m, boxes
  <1>3. boxes[1] = [type |-> "styp", size |-> 1]
    <2>1. 1 \in 1 .. 2 * m + 1
      BY <1>2
    <2> QED BY <1>1, <2>1
  <1>4. ASSUME NEW k \in 1 .. m
        PROVE  boxes[2 * k] = Moof(k - 1) /\ boxes[2 * k + 1] = [type |-> "mdat", size |-> 2]
    <2>1. 2 * k \in 1 .. 2 * m + 1 /\ 2 * k # 1 /\ (2 * k) % 2 = 0 /\ (2 * k) \div 2 - 1 = k - 1
      BY <1>2
    <2>2. 2 * k + 1 \in 1 .. 2 * m + 1 /\ 2 * k + 1 # 1 /\ (2 * k + 1) % 2 # 0
      BY <1>2
    <2> HIDE DEF Moof
    <2> QED BY <1>1, <2>1, <2>2
  <1>5. Moof(0).first = "sync"
    <2>1. 0 * Partial = 0 /\ 0 % Gop = 0
      BY SegmentAssumption
    <2> QED BY <2>1
  <1>6. Len(boxes) = 2 * m + 1 /\ DOMAIN boxes = 1 .. 2 * m + 1
    BY <1>1, <1>2
  <1>7. boxes[2].first = "sync"
    <2>1. 1 \in 1 .. m /\ 2 * 1 = 2 /\ 1 - 1 = 0
      BY <1>2
    <2>2. boxes[2 * 1] = Moof(1 - 1)
      BY <1>4, <2>1, Zenon
    <2> QED BY <1>5, <2>1, <2>2
  <1>10. \A k : Moof(k).type = "moof" /\ Moof(k).size = 1
    OBVIOUS
  <1> HIDE DEF Moof
  <1>8. \A k \in 1 .. m : /\ boxes[2 * k].type = "moof" /\ boxes[2 * k].size = 1
                          /\ boxes[2 * k + 1].type = "mdat" /\ boxes[2 * k + 1].size = 2
    BY <1>4, <1>10
  <1>9. Boxed(boxes, m)
    BY <1>3, <1>6, <1>7, <1>8 DEF Boxed
  <1> QED BY <1>1, <1>9 DEF boxes, m

(* Where the boxes of a file begin.                                        *)
Bytes(b) == IF b = 0 THEN 0 ELSE IF b % 2 = 0 THEN 3 * (b \div 2) - 1 ELSE 3 * (b \div 2) + 1

LEMMA BytesAre ==
  ASSUME NEW k \in Nat \ {0}
  PROVE  Bytes(2 * k) = 3 * k - 1 /\ Bytes(2 * k + 1) = 3 * k + 1 /\ Bytes(2 * k - 1) = 3 * k - 2
  <1>1. (2 * k) % 2 = 0 /\ (2 * k) \div 2 = k /\ 2 * k # 0
    OBVIOUS
  <1>2. (2 * k + 1) % 2 = 1 /\ (2 * k + 1) \div 2 = k /\ 2 * k + 1 # 0
    OBVIOUS
  <1>3. (2 * k - 1) % 2 = 1 /\ (2 * k - 1) \div 2 = k - 1 /\ 2 * k - 1 # 0
    OBVIOUS
  <1> QED BY <1>1, <1>2, <1>3 DEF Bytes

LEMMA BoxesBefore ==
  ASSUME NEW boxes, NEW m \in Nat, Boxed(boxes, m), NEW n \in 0 .. 2 * m + 1
  PROVE  Total([j \in 1 .. n |-> boxes[j].size]) = Bytes(n)
  <1> DEFINE s == [j \in 1 .. n |-> boxes[j].size]
             f == [b \in 0 .. n |-> Bytes(b)]
  <1>1. ASSUME NEW b \in 1 .. n
        PROVE  /\ s[b] \in Nat /\ Bytes(b) \in Nat /\ Bytes(b - 1) \in Nat
               /\ Bytes(b) = Bytes(b - 1) + s[b]
    <2>1. b \in 1 .. 2 * m + 1 /\ s[b] = boxes[b].size
      OBVIOUS
    <2> HIDE DEF s
    <2>2. CASE b = 1
      <3>1. Bytes(1) = 1 /\ Bytes(0) = 0
        BY DEF Bytes
      <3> QED BY <2>1, <2>2, <3>1 DEF Boxed
    <2>3. CASE \E k \in 1 .. m : b = 2 * k
      <3>1. PICK k \in 1 .. m : b = 2 * k
        BY <2>3
      <3>2. k \in Nat \ {0}
        OBVIOUS
      <3>3. boxes[b].size = 1
        BY <3>1 DEF Boxed
      <3>4. Bytes(b) = 3 * k - 1 /\ Bytes(b - 1) = 3 * k - 2
        BY <3>1, <3>2, BytesAre
      <3> QED BY <2>1, <3>2, <3>3, <3>4
    <2>4. CASE \E k \in 1 .. m : b = 2 * k + 1
      <3>1. PICK k \in 1 .. m : b = 2 * k + 1
        BY <2>4
      <3>2. k \in Nat \ {0} /\ b - 1 = 2 * k
        BY <3>1
      <3>3. boxes[b].size = 2
        BY <3>1 DEF Boxed
      <3>4. Bytes(b) = 3 * k + 1 /\ Bytes(b - 1) = 3 * k - 1
        BY <3>1, <3>2, BytesAre
      <3> QED BY <2>1, <3>2, <3>3, <3>4
    <2> QED BY <2>1, <2>2, <2>3, <2>4, EveryBox
  <1>2. s \in [1 .. n -> Nat]
    <2>1. \A b \in 1 .. n : boxes[b].size \in Nat
      BY <1>1
    <2> QED BY <2>1
  <1>3. f[0] = 0 /\ f \in [0 .. n -> Nat]
    <2>1. Bytes(0) = 0
      BY DEF Bytes
    <2>2. \A b \in 0 .. n : Bytes(b) \in Nat
      <3> TAKE b \in 0 .. n
      <3>1. b = 0 \/ b \in 1 .. n
        OBVIOUS
      <3> HIDE DEF s
      <3> QED BY <1>1, <2>1, <3>1
    <2> QED BY <2>1, <2>2
  <1>4. \A b \in 1 .. n : f[b] = f[b - 1] + s[b]
    <2> TAKE b \in 1 .. n
    <2>1. f[b] = Bytes(b) /\ f[b - 1] = Bytes(b - 1)
      OBVIOUS
    <2> HIDE DEF f, s
    <2> QED BY <1>1, <2>1
  <1>5. f[n] = Bytes(n)
    OBVIOUS
  <1> HIDE DEF f, s
  <1>6. Sums(f, s, n)
    BY <1>3, <1>4 DEF Sums, Adding
  <1>7. Total(s) = f[n]
    BY <1>2, <1>6, TotalBy
  <1> QED BY <1>5, <1>7 DEF s

(* What the parser makes of a file: its fragments, end to end.             *)
Parsed(parts, m) ==
  /\ DOMAIN parts = 1 .. m /\ Len(parts) = m
  /\ \A k \in 1 .. m : parts[k].offset = 3 * k - 2 /\ parts[k].length = 3
  /\ parts # <<>> /\ parts[1].independent

LEMMA SegmentParsed ==
  ASSUME NEW d \in Nat \ {0}, NEW r, NEW audio
  PROVE  Parsed(ParseSegment(SegmentFile(d, r), audio), FragmentsIn(d))
  <1> DEFINE m == FragmentsIn(d)
             boxes == SegmentFile(d, r).boxes
             S == {i \in DOMAIN boxes : boxes[i].type = "moof"}
             a == [k \in 1 .. m |-> 2 * k]
             Fragment(i) ==
               [offset |-> Total([j \in 1 .. (i - 1) |-> boxes[j].size]),
                length |-> boxes[i].size + (IF i < Len(boxes) /\ boxes[i + 1].type = "mdat"
                                              THEN boxes[i + 1].size ELSE 0),
                independent |-> Independent(boxes[i], audio)]
             parts == ParseSegment(SegmentFile(d, r), audio)
  <1>1. m \in Nat \ {0} /\ Boxed(boxes, m)
    BY FragmentsType, FileBoxed
  <1>2. parts = [k \in DOMAIN Ascending(S) |-> Fragment(Ascending(S)[k])]
    BY DEF ParseSegment
  <1> HIDE DEF parts, m, boxes, Fragment
  <1>3. Ascending(S) = a
    <2>1. a \in [1 .. m -> Nat] /\ \A i, j \in 1 .. m : i < j => a[i] < a[j]
      BY <1>1
    <2>2. ASSUME NEW i \in S PROVE \E k \in 1 .. m : i = a[k]
      <3>1. i \in 1 .. 2 * m + 1 /\ boxes[i].type = "moof"
        BY <1>1 DEF Boxed
      <3>2. i # 1
        BY <1>1, <3>1 DEF Boxed
      <3>3. ~\E k \in 1 .. m : i = 2 * k + 1
        BY <1>1, <3>1 DEF Boxed
      <3>4. \E k \in 1 .. m : i = 2 * k
        BY <1>1, <3>1, <3>2, <3>3, EveryBox
      <3> QED BY <3>4
    <2>3. ASSUME NEW k \in 1 .. m PROVE a[k] \in S
      <3>1. 2 * k \in 1 .. 2 * m + 1
        BY <1>1
      <3> QED BY <1>1, <3>1 DEF Boxed
    <2>4. S = {a[k] : k \in 1 .. m}
      <3> HIDE DEF S, a
      <3> QED BY <2>2, <2>3
    <2> HIDE DEF S, a
    <2> QED BY <1>1, <2>1, <2>4, ListedAs
  <1>4. parts = [k \in 1 .. m |-> Fragment(2 * k)]
    <2>1. DOMAIN a = 1 .. m /\ \A k \in 1 .. m : a[k] = 2 * k
      OBVIOUS
    <2> HIDE DEF a, S
    <2> QED BY <1>2, <1>3, <2>1
  <1>5. ASSUME NEW k \in 1 .. m
        PROVE  Fragment(2 * k).offset = 3 * k - 2 /\ Fragment(2 * k).length = 3
    <2>1. k \in Nat \ {0} /\ 2 * k - 1 \in 0 .. 2 * m + 1
      BY <1>1
    <2>2. Total([j \in 1 .. (2 * k - 1) |-> boxes[j].size]) = 3 * k - 2
      BY <1>1, <2>1, BoxesBefore, BytesAre
    <2>3. /\ boxes[2 * k].size = 1 /\ boxes[2 * k + 1].type = "mdat" /\ boxes[2 * k + 1].size = 2
          /\ 2 * k < Len(boxes)
      BY <1>1, <2>1 DEF Boxed
    <2> QED BY <2>2, <2>3 DEF Fragment
  <1>6. parts[1].independent
    <2>1. 1 \in 1 .. m /\ 2 * 1 = 2
      BY <1>1
    <2>2. boxes[2].first = "sync"
      BY <1>1 DEF Boxed
    <2>3. parts[1].independent = Independent(boxes[2], audio)
      BY <1>4, <2>1 DEF Fragment
    <2>4. Independent(boxes[2], audio) = TRUE
      BY <2>2 DEF Independent
    <2> QED BY <2>3, <2>4
  <1>7. DOMAIN parts = 1 .. m /\ Len(parts) = m /\ parts # <<>>
    BY <1>1, <1>4
  <1>8. Parsed(parts, m)
    BY <1>4, <1>5, <1>6, <1>7 DEF Parsed
  <1> QED BY <1>8 DEF parts, m

(* Sums of nothing, and of one number among noughts.                       *)
LEMMA TotalNought ==
  ASSUME NEW n \in Nat
  PROVE  Total([j \in 1 .. n |-> 0]) = 0
  <1> DEFINE s == [j \in 1 .. n |-> 0]
             f == [j \in 0 .. n |-> 0]
  <1>1. s \in [1 .. n -> Nat] /\ f \in [0 .. n -> Nat] /\ f[0] = 0 /\ f[n] = 0
    OBVIOUS
  <1>2. \A j \in 1 .. n : f[j] = f[j - 1] + s[j]
    OBVIOUS
  <1> HIDE DEF f, s
  <1>3. Sums(f, s, n)
    BY <1>1, <1>2 DEF Sums, Adding
  <1>4. Total(s) = f[n]
    BY <1>1, <1>3, TotalBy
  <1> QED BY <1>1, <1>4 DEF s

LEMMA TotalOfOne ==
  ASSUME NEW n \in Nat, NEW i \in 1 .. n, NEW t \in Nat
  PROVE  Total([j \in 1 .. n |-> IF j = i THEN t ELSE 0]) = t
  <1> DEFINE s == [j \in 1 .. n |-> IF j = i THEN t ELSE 0]
             f == [j \in 0 .. n |-> IF j < i THEN 0 ELSE t]
  <1>1. s \in [1 .. n -> Nat] /\ f \in [0 .. n -> Nat] /\ f[0] = 0 /\ f[n] = t
    OBVIOUS
  <1>2. \A j \in 1 .. n : f[j] = f[j - 1] + s[j]
    OBVIOUS
  <1> HIDE DEF f, s
  <1>3. Sums(f, s, n)
    BY <1>1, <1>2 DEF Sums, Adding
  <1>4. Total(s) = f[n]
    BY <1>1, <1>3, TotalBy
  <1> QED BY <1>1, <1>4 DEF s

(* The numbers of the segments, one for each of their fragments.           *)
Tags(lens, n) == [i \in 1 .. n |-> [k \in 1 .. lens[i] |-> i]]

Tagged(tags, lens, off, n) == Placed(tags, Tags(lens, n), off, n) /\ DOMAIN tags = 1 .. off[n]

(* The entries under one tag.                                              *)
Masked(tags, whole, f) == [x \in DOMAIN tags |-> IF tags[x] = f /\ x \in DOMAIN whole THEN whole[x] ELSE 0]

Collects(tags, whole, parts, f) == Total(Masked(tags, whole, f)) = Total(parts[f])

(* What a collapse by file adds up is what that file's fragments add up to.*)
LEMMA MaskedTotal ==
  ASSUME NEW n \in Nat, NEW parts \in [1 .. n -> Seq(Nat)], NEW off, Sums(off, Lengths(parts), n),
         NEW whole \in Seq(Nat), Placed(whole, parts, off, n),
         NEW tags, Tagged(tags, Lengths(parts), off, n),
         NEW f \in 1 .. n
  PROVE  Collects(tags, whole, parts, f)
  <1> DEFINE N == off[n]
             w == [x \in 1 .. N |-> IF tags[x] = f /\ x \in DOMAIN whole THEN whole[x] ELSE 0]
             nought(i) == [k \in 1 .. Len(parts[i]) |-> 0]
             hidden == [i \in 1 .. n |-> IF i = f THEN parts[i] ELSE nought(i)]
             totals == [i \in 1 .. n |-> Total(hidden[i])]
  <1>0. Placed(tags, Tags(Lengths(parts), n), off, n) /\ DOMAIN tags = 1 .. off[n]
    BY DEF Tagged
  <1>1. N \in Nat /\ Len(whole) = N /\ DOMAIN whole = 1 .. N
    BY DEF Placed
  <1>2. \A x \in 1 .. N : whole[x] \in Nat
    BY <1>1
  <1>3. w \in [1 .. N -> Nat] /\ \A x \in 1 .. N : w[x] = IF tags[x] = f THEN whole[x] ELSE 0
    BY <1>0, <1>1, <1>2
  <1>4. w \in Seq(Nat) /\ Len(w) = N
    <2> HIDE DEF w, N
    <2> QED BY <1>1, <1>3
  <1>5. ASSUME NEW i \in 1 .. n
        PROVE  /\ hidden[i] \in Seq(Nat) /\ Len(hidden[i]) = Len(parts[i])
               /\ i = f => hidden[i] = parts[i]
               /\ i # f => hidden[i] = nought(i)
    <2>1. parts[i] \in Seq(Nat) /\ Len(parts[i]) \in Nat
      OBVIOUS
    <2>2. nought(i) \in Seq(Nat) /\ Len(nought(i)) = Len(parts[i])
      BY <2>1
    <2> QED BY <2>1, <2>2
  <1>6. hidden \in [1 .. n -> Seq(Nat)] /\ DOMAIN hidden = 1 .. n
    BY <1>5
  <1>7. Lengths(hidden) = Lengths(parts)
    <2>1. DOMAIN parts = 1 .. n
      OBVIOUS
    <2> HIDE DEF hidden
    <2> QED BY <1>5, <1>6, <2>1 DEF Lengths
  <1>8. Placed(w, hidden, off, n)
    <2>1. ASSUME NEW i \in 1 .. n, NEW k \in 1 .. Len(hidden[i])
          PROVE  off[i - 1] + k \in 1 .. off[n] /\ w[off[i - 1] + k] = hidden[i][k]
      <3> DEFINE x == off[i - 1] + k
      <3>1. k \in 1 .. Len(parts[i])
        BY <1>5
      <3>2. x \in 1 .. off[n] /\ whole[x] = parts[i][k]
        BY <3>1 DEF Placed
      <3>3. tags[x] = i
        <4>1. Lengths(parts)[i] = Len(parts[i])
          BY DEF Lengths
        <4>2. Tags(Lengths(parts), n)[i] = [z \in 1 .. Len(parts[i]) |-> i]
          BY <4>1 DEF Tags
        <4>3. k \in 1 .. Len(Tags(Lengths(parts), n)[i])
          BY <3>1, <4>2
        <4>4. tags[x] = Tags(Lengths(parts), n)[i][k]
          BY <1>0, <4>3 DEF Placed
        <4> QED BY <3>1, <4>2, <4>4
      <3>4. w[x] = IF i = f THEN parts[i][k] ELSE 0
        <4> HIDE DEF x, w
        <4> QED BY <1>3, <3>2, <3>3
      <3>5. i # f => hidden[i][k] = 0
        <4>1. i # f => hidden[i] = nought(i)
          BY <1>5
        <4> HIDE DEF hidden
        <4> QED BY <3>1, <4>1
      <3> HIDE DEF w, hidden
      <3> QED BY <1>5, <3>2, <3>4, <3>5
    <2>2. ASSUME NEW p \in 1 .. off[n]
          PROVE  \E i \in 1 .. n : \E k \in 1 .. Len(hidden[i]) : p = off[i - 1] + k
      <3>1. PICK i \in 1 .. n : \E k \in 1 .. Len(parts[i]) : p = off[i - 1] + k
        BY DEF Placed
      <3> HIDE DEF hidden
      <3> QED BY <1>5, <3>1
    <2> HIDE DEF w, hidden
    <2> QED BY <1>1, <1>4, <2>1, <2>2 DEF Placed
  <1>9. Total(w) = Total(totals)
    <2>1. Sums(off, Lengths(hidden), n)
      BY <1>7
    <2> HIDE DEF w, hidden
    <2> QED BY <1>4, <1>6, <1>8, <2>1, TotalPlaced, Zenon
  <1>10. Total(parts[f]) \in Nat
    <2>1. parts[f] \in [1 .. Len(parts[f]) -> Nat] /\ Len(parts[f]) \in Nat
      OBVIOUS
    <2> QED BY <2>1, TotalIs
  <1>11. totals = [i \in 1 .. n |-> IF i = f THEN Total(parts[f]) ELSE 0]
    <2>1. ASSUME NEW i \in 1 .. n PROVE Total(hidden[i]) = IF i = f THEN Total(parts[f]) ELSE 0
      <3>1. CASE i = f
        BY <1>5, <3>1
      <3>2. CASE i # f
        <4>1. hidden[i] = nought(i)
          BY <1>5, <3>2
        <4>2. Len(parts[i]) \in Nat
          OBVIOUS
        <4>3. Total(nought(i)) = 0
          BY <4>2, TotalNought
        <4> HIDE DEF hidden, nought
        <4> QED BY <3>2, <4>1, <4>3
      <3> QED BY <3>1, <3>2
    <2> HIDE DEF hidden
    <2> QED BY <2>1
  <1>12. Total(totals) = Total(parts[f])
    <2> HIDE DEF totals
    <2> QED BY <1>10, <1>11, TotalOfOne
  <1>13. Masked(tags, whole, f) = w
    BY <1>0 DEF Masked
  <1> HIDE DEF w, totals
  <1> QED BY <1>9, <1>12, <1>13 DEF Collects

(***************************************************************************)
(* A representation by fragments.                                          *)
(***************************************************************************)
Counts(durs) == [i \in DOMAIN durs |-> FragmentsIn(durs[i])]
Splits(durs) == [i \in DOMAIN durs |-> FragmentDurations(durs[i], FragmentsIn(durs[i]))]
Spans(lens, n) == [i \in 1 .. n |-> [k \in 1 .. lens[i] |-> [offset |-> 3 * k - 2, length |-> 3]]]

Expansion(rep, durs, n, off) ==
  /\ Sums(off, Counts(durs), n)
  /\ rep.durs \in Seq(Nat) /\ Placed(rep.durs, Splits(durs), off, n)
  /\ rep.urls \in Seq(Nat) /\ Placed(rep.urls, Tags(Counts(durs), n), off, n)
  /\ Placed(rep.ranges, Spans(Counts(durs), n), off, n)

LEMMA SharesType ==
  ASSUME NEW n \in Nat, NEW durs \in [1 .. n -> Nat \ {0}]
  PROVE  /\ Counts(durs) \in [1 .. n -> Nat \ {0}]
         /\ Splits(durs) \in [1 .. n -> Seq(Nat)] /\ Lengths(Splits(durs)) = Counts(durs)
         /\ \A i \in 1 .. n : Len(Splits(durs)[i]) = Counts(durs)[i] /\ Total(Splits(durs)[i]) = durs[i]
         /\ Tags(Counts(durs), n) \in [1 .. n -> Seq(Nat)] /\ Lengths(Tags(Counts(durs), n)) = Counts(durs)
         /\ \A i \in 1 .. n : Len(Tags(Counts(durs), n)[i]) = Counts(durs)[i]
         /\ \A E : (\A k \in Nat : [offset |-> 3 * k - 2, length |-> 3] \in E) =>
                     Spans(Counts(durs), n) \in [1 .. n -> Seq(E)]
         /\ Lengths(Spans(Counts(durs), n)) = Counts(durs)
         /\ \A i \in 1 .. n : Len(Spans(Counts(durs), n)[i]) = Counts(durs)[i]
  <1> DEFINE C == Counts(durs)
  <1>0. DOMAIN durs = 1 .. n /\ \A i \in 1 .. n : durs[i] \in Nat \ {0}
    OBVIOUS
  <1>1. ASSUME NEW i \in 1 .. n
        PROVE  /\ FragmentsIn(durs[i]) \in Nat \ {0}
               /\ FragmentDurations(durs[i], FragmentsIn(durs[i])) \in Seq(Nat)
               /\ Len(FragmentDurations(durs[i], FragmentsIn(durs[i]))) = FragmentsIn(durs[i])
               /\ Total(FragmentDurations(durs[i], FragmentsIn(durs[i]))) = durs[i]
    <2> DEFINE d == durs[i]
               m == FragmentsIn(d)
    <2>1. d \in Nat \ {0}
      BY <1>0
    <2> HIDE DEF d
    <2>2. m \in Nat \ {0} /\ m <= d
      BY <2>1, FragmentsType
    <2> HIDE DEF m
    <2>3. /\ FragmentDurations(d, m) \in Seq(Nat) /\ Len(FragmentDurations(d, m)) = m
          /\ Total(FragmentDurations(d, m)) = d
      BY <2>1, <2>2, TotalShares
    <2> QED BY <2>2, <2>3 DEF d, m
  <1>2. C \in [1 .. n -> Nat \ {0}] /\ \A i \in 1 .. n : C[i] = FragmentsIn(durs[i])
    BY <1>0, <1>1 DEF Counts
  <1>3. /\ Splits(durs) \in [1 .. n -> Seq(Nat)]
        /\ \A i \in 1 .. n : Len(Splits(durs)[i]) = C[i] /\ Total(Splits(durs)[i]) = durs[i]
    BY <1>0, <1>1, <1>2 DEF Splits
  <1> HIDE DEF C
  <1>4. ASSUME NEW i \in 1 .. n
        PROVE  /\ [k \in 1 .. C[i] |-> i] \in Seq(Nat) /\ Len([k \in 1 .. C[i] |-> i]) = C[i]
               /\ Len([k \in 1 .. C[i] |-> [offset |-> 3 * k - 2, length |-> 3]]) = C[i]
               /\ \A E : (\A k \in Nat : [offset |-> 3 * k - 2, length |-> 3] \in E) =>
                           [k \in 1 .. C[i] |-> [offset |-> 3 * k - 2, length |-> 3]] \in Seq(E)
    <2>1. C[i] \in Nat
      BY <1>2
    <2> QED BY <2>1
  <1>5. /\ Tags(C, n) \in [1 .. n -> Seq(Nat)] /\ \A i \in 1 .. n : Len(Tags(C, n)[i]) = C[i]
    BY <1>4 DEF Tags
  <1>6. /\ DOMAIN Spans(C, n) = 1 .. n /\ \A i \in 1 .. n : Len(Spans(C, n)[i]) = C[i]
        /\ \A E : (\A k \in Nat : [offset |-> 3 * k - 2, length |-> 3] \in E) =>
                     Spans(C, n) \in [1 .. n -> Seq(E)]
    BY <1>4 DEF Spans
  <1>7. C = [i \in 1 .. n |-> C[i]]
    BY <1>2
  <1>8. Lengths(Splits(durs)) = C
    BY <1>3, <1>7 DEF Lengths
  <1>9. Lengths(Tags(C, n)) = C
    BY <1>5, <1>7 DEF Lengths
  <1>10. Lengths(Spans(C, n)) = C
    BY <1>6, <1>7 DEF Lengths
  <1> QED BY <1>2, <1>3, <1>5, <1>6, <1>8, <1>9, <1>10 DEF C

(* The segment files of this run, and no other.                            *)
Segmented(files, l, durs, n, r) ==
  /\ n \in Nat /\ durs \in [1 .. n -> Nat \ {0}]
  /\ files[l] = [k \in 1 .. n |-> SegmentFile(durs[k], r)]

ByFragments(rep, l, durs, n) == rep.label = l /\ \E off : Expansion(rep, durs, n, off)

(* What a list by segments says.                                           *)
Listed(rep, l, durs, n) ==
  rep = [label |-> l, durs |-> durs, urls |-> [k \in 1 .. n |-> k], ranges |-> <<>>]

LEMMA ExpandedIs ==
  ASSUME NEW n, NEW durs, NEW r, NEW files, NEW l, Segmented(files, l, durs, n, r),
         NEW rep, Listed(rep, l, durs, n)
  PROVE  ByFragments(Expanded(rep, files), l, durs, n)
  <1> DEFINE Fragment(i) == ParseSegment(files[rep.label][rep.urls[i]], rep.label = Audio)
             ds == [i \in DOMAIN rep.urls |-> FragmentDurations(rep.durs[i], Len(Fragment(i)))]
             us == [i \in DOMAIN rep.urls |-> [k \in DOMAIN Fragment(i) |-> rep.urls[i]]]
             rs == [i \in DOMAIN rep.urls |->
                      [k \in DOMAIN Fragment(i) |->
                         [offset |-> Fragment(i)[k].offset, length |-> Fragment(i)[k].length]]]
             new == Expanded(rep, files)
             C == Counts(durs)
             E == {[offset |-> 3 * k - 2, length |-> 3] : k \in Nat}
  <1>0. /\ n \in Nat /\ durs \in [1 .. n -> Nat \ {0}]
        /\ \A k \in 1 .. n : files[l][k] = SegmentFile(durs[k], r)
    BY DEF Segmented
  <1>1. /\ rep.label = l /\ rep.durs = durs /\ DOMAIN rep.urls = 1 .. n /\ rep.ranges = <<>>
        /\ \A i \in 1 .. n : rep.urls[i] = i
        /\ Len(rep.durs) = n /\ Len(rep.urls) = n
    BY <1>0 DEF Listed
  <1>2. new.label = l /\ new.durs = FlattenSeq(ds) /\ new.urls = FlattenSeq(us) /\ new.ranges = FlattenSeq(rs)
    <2>1. new = [rep EXCEPT !.durs = FlattenSeq(ds), !.urls = FlattenSeq(us), !.ranges = FlattenSeq(rs)]
      BY <1>1 DEF Expanded
    <2> HIDE DEF ds, us, rs, new
    <2> QED BY <2>1 DEF Listed
  <1>3. ASSUME NEW i \in 1 .. n PROVE Parsed(Fragment(i), C[i]) /\ C[i] = FragmentsIn(durs[i])
    <2>1. rep.urls[i] = i /\ files[rep.label][i] = SegmentFile(durs[i], r)
      BY <1>0, <1>1
    <2>2. Fragment(i) = ParseSegment(SegmentFile(durs[i], r), rep.label = Audio)
      BY <2>1
    <2>3. durs[i] \in Nat \ {0} /\ C[i] = FragmentsIn(durs[i])
      BY <1>0 DEF Counts
    <2> HIDE DEF Fragment, C
    <2> QED BY <2>2, <2>3, SegmentParsed
  <1> HIDE DEF Fragment, C
  <1>4. ds = Splits(durs)
    <2>1. \A i \in 1 .. n : rep.durs[i] = durs[i] /\ Len(Fragment(i)) = FragmentsIn(durs[i])
      BY <1>1, <1>3 DEF Parsed
    <2>2. ds = [i \in 1 .. n |-> FragmentDurations(durs[i], FragmentsIn(durs[i]))]
      BY <1>1, <2>1
    <2> HIDE DEF ds
    <2> QED BY <1>0, <2>2 DEF Splits
  <1>5. us = Tags(C, n)
    <2>1. \A i \in 1 .. n : DOMAIN Fragment(i) = 1 .. C[i] /\ rep.urls[i] = i
      BY <1>1, <1>3 DEF Parsed
    <2>2. us = [i \in 1 .. n |-> [k \in 1 .. C[i] |-> i]]
      BY <1>1, <2>1
    <2> HIDE DEF us
    <2> QED BY <2>2 DEF Tags
  <1>6. rs = Spans(C, n)
    <2>1. ASSUME NEW i \in 1 .. n
          PROVE  [k \in DOMAIN Fragment(i) |-> [offset |-> Fragment(i)[k].offset, length |-> Fragment(i)[k].length]]
                   = [k \in 1 .. C[i] |-> [offset |-> 3 * k - 2, length |-> 3]]
      BY <1>3 DEF Parsed
    <2>2. rs = [i \in 1 .. n |-> [k \in 1 .. C[i] |-> [offset |-> 3 * k - 2, length |-> 3]]]
      BY <1>1, <2>1
    <2> HIDE DEF rs
    <2> QED BY <2>2 DEF Spans
  <1> HIDE DEF ds, us, rs
  <1>7. /\ C \in [1 .. n -> Nat]
        /\ Splits(durs) \in [1 .. n -> Seq(Nat)] /\ Lengths(Splits(durs)) = C
        /\ Tags(C, n) \in [1 .. n -> Seq(Nat)] /\ Lengths(Tags(C, n)) = C
        /\ Spans(C, n) \in [1 .. n -> Seq(E)] /\ Lengths(Spans(C, n)) = C
    <2>1. \A k \in Nat : [offset |-> 3 * k - 2, length |-> 3] \in E
      OBVIOUS
    <2> HIDE DEF E
    <2>2. Spans(Counts(durs), n) \in [1 .. n -> Seq(E)]
      BY <1>0, <2>1, SharesType, Zenon
    <2>3. /\ Counts(durs) \in [1 .. n -> Nat \ {0}]
          /\ Splits(durs) \in [1 .. n -> Seq(Nat)] /\ Lengths(Splits(durs)) = Counts(durs)
          /\ Tags(Counts(durs), n) \in [1 .. n -> Seq(Nat)] /\ Lengths(Tags(Counts(durs), n)) = Counts(durs)
          /\ Lengths(Spans(Counts(durs), n)) = Counts(durs)
      BY <1>0, SharesType, Zenon
    <2> QED BY <2>2, <2>3 DEF C
  <1> HIDE DEF E, new
  <1>8. PICK off : Sums(off, C, n)
    BY <1>0, <1>7, SumsExist
  <1>9. FlattenSeq(Splits(durs)) \in Seq(Nat) /\ Placed(FlattenSeq(Splits(durs)), Splits(durs), off, n)
    BY <1>0, <1>7, <1>8, JoinedAt
  <1>10. FlattenSeq(Tags(C, n)) \in Seq(Nat) /\ Placed(FlattenSeq(Tags(C, n)), Tags(C, n), off, n)
    BY <1>0, <1>7, <1>8, JoinedAt
  <1>11. Placed(FlattenSeq(Spans(C, n)), Spans(C, n), off, n)
    BY <1>0, <1>7, <1>8, JoinedAt
  <1>12. Expansion(new, durs, n, off)
    BY <1>2, <1>4, <1>5, <1>6, <1>8, <1>9, <1>10, <1>11 DEF Expansion, C
  <1> QED BY <1>2, <1>12 DEF new, ByFragments

Laid(rep, counts, off, n) ==
  /\ off[n] \in Nat /\ DOMAIN rep.urls = 1 .. off[n]
  /\ \A i \in 1 .. n : \A k \in 1 .. counts[i] :
       /\ off[i - 1] + k \in 1 .. off[n]
       /\ rep.urls[off[i - 1] + k] = i
       /\ rep.ranges[off[i - 1] + k] = [offset |-> 3 * k - 2, length |-> 3]
  /\ \A p \in 1 .. off[n] : \E i \in 1 .. n : \E k \in 1 .. counts[i] : p = off[i - 1] + k

LEMMA ExpansionAt ==
  ASSUME NEW n \in Nat, NEW durs \in [1 .. n -> Nat \ {0}], NEW rep, NEW off, Expansion(rep, durs, n, off)
  PROVE  /\ Laid(rep, Counts(durs), off, n)
         /\ \A i \in 1 .. n : Counts(durs)[i] \in Nat \ {0} /\ Counts(durs)[i] = FragmentsIn(durs[i])
  <1> DEFINE C == Counts(durs)
  <1>1. \A i \in 1 .. n : C[i] \in Nat \ {0} /\ C[i] = FragmentsIn(durs[i])
    BY FragmentsType DEF Counts
  <1>2. /\ \A i \in 1 .. n : Len(Tags(C, n)[i]) = C[i]
        /\ \A i \in 1 .. n : Len(Spans(C, n)[i]) = C[i]
    BY SharesType, Zenon
  <1> HIDE DEF C
  <1>3. /\ \A i \in 1 .. n : \A k \in 1 .. C[i] : Tags(C, n)[i][k] = i
        /\ \A i \in 1 .. n : \A k \in 1 .. C[i] : Spans(C, n)[i][k] = [offset |-> 3 * k - 2, length |-> 3]
    BY DEF Tags, Spans
  <1>4. Placed(rep.urls, Tags(C, n), off, n) /\ Placed(rep.ranges, Spans(C, n), off, n) /\ rep.urls \in Seq(Nat)
    BY DEF Expansion, C
  <1>5. off[n] \in Nat /\ DOMAIN rep.urls = 1 .. off[n]
    BY <1>4 DEF Placed
  <1>6. ASSUME NEW i \in 1 .. n, NEW k \in 1 .. C[i]
        PROVE  /\ off[i - 1] + k \in 1 .. off[n] /\ rep.urls[off[i - 1] + k] = i
               /\ rep.ranges[off[i - 1] + k] = [offset |-> 3 * k - 2, length |-> 3]
    <2>1. k \in 1 .. Len(Tags(C, n)[i]) /\ k \in 1 .. Len(Spans(C, n)[i])
      BY <1>2
    <2>2. off[i - 1] + k \in 1 .. off[n] /\ rep.urls[off[i - 1] + k] = Tags(C, n)[i][k]
      BY <1>4, <2>1, Zenon DEF Placed
    <2>3. rep.ranges[off[i - 1] + k] = Spans(C, n)[i][k]
      BY <1>4, <2>1, Zenon DEF Placed
    <2> QED BY <1>3, <2>2, <2>3
  <1>7. \A p \in 1 .. off[n] : \E i \in 1 .. n : \E k \in 1 .. C[i] : p = off[i - 1] + k
    <2>1. \A p \in 1 .. off[n] : \E i \in 1 .. n : \E k \in 1 .. Len(Tags(C, n)[i]) : p = off[i - 1] + k
      BY <1>4, Zenon DEF Placed
    <2> QED BY <1>2, <2>1, Zenon
  <1> QED BY <1>1, <1>5, <1>6, <1>7 DEF Laid, C

(* The fragments of a file whose range takes in a byte.                    *)
Covering(rep, k, at) ==
  {i \in {x \in DOMAIN rep.urls : rep.urls[x] = k} :
     rep.ranges[i].offset <= at /\ at < rep.ranges[i].offset + rep.ranges[i].length}

LEMMA ExpansionCovers ==
  ASSUME NEW n \in Nat, NEW durs \in [1 .. n -> Nat \ {0}], NEW rep, NEW off, Expansion(rep, durs, n, off),
         NEW k \in 1 .. n, NEW j \in 1 .. FragmentsIn(durs[k])
  PROVE  Cardinality(Covering(rep, k, 3 * j - 1)) = 1
  <1> DEFINE y == off[k - 1] + j
             C == Counts(durs)
  <1>0. Laid(rep, C, off, n) /\ j \in 1 .. C[k] /\ C[k] \in Nat \ {0}
    BY ExpansionAt
  <1> HIDE DEF C
  <1>1. /\ y \in DOMAIN rep.urls /\ rep.urls[y] = k /\ rep.ranges[y] = [offset |-> 3 * j - 2, length |-> 3]
        /\ j \in Nat \ {0}
    BY <1>0 DEF Laid
  <1> HIDE DEF y
  <1>2. y \in Covering(rep, k, 3 * j - 1)
    BY <1>1 DEF Covering
  <1>3. ASSUME NEW x \in Covering(rep, k, 3 * j - 1) PROVE x = y
    <2>1. /\ x \in DOMAIN rep.urls /\ rep.urls[x] = k
          /\ rep.ranges[x].offset <= 3 * j - 1 /\ 3 * j - 1 < rep.ranges[x].offset + rep.ranges[x].length
      BY DEF Covering
    <2>0. PICK i \in 1 .. n : \E q \in 1 .. C[i] : x = off[i - 1] + q
      BY <1>0, <2>1 DEF Laid
    <2>2. PICK q \in 1 .. C[i] : x = off[i - 1] + q
      BY <2>0
    <2>3. rep.urls[x] = i /\ rep.ranges[x] = [offset |-> 3 * q - 2, length |-> 3]
      BY <1>0, <2>2 DEF Laid
    <2>4. i = k /\ q \in Nat
      BY <2>1, <2>2, <2>3
    <2>5. 3 * q - 2 <= 3 * j - 1 /\ 3 * j - 1 < 3 * q - 2 + 3
      BY <2>1, <2>3
    <2>6. q = j
      BY <1>1, <2>4, <2>5
    <2> QED BY <2>2, <2>4, <2>6 DEF y
  <1>4. Covering(rep, k, 3 * j - 1) = {y}
    BY <1>2, <1>3
  <1> QED BY <1>4, FS_Singleton

LEMMA ExpansionUrls ==
  ASSUME NEW n \in Nat, NEW durs \in [1 .. n -> Nat \ {0}], NEW rep, NEW off, Expansion(rep, durs, n, off)
  PROVE  Range(rep.urls) = 1 .. n
  <1> DEFINE C == Counts(durs)
  <1>0. Laid(rep, C, off, n) /\ \A i \in 1 .. n : C[i] \in Nat \ {0}
    BY ExpansionAt
  <1> HIDE DEF C
  <1>1. ASSUME NEW p \in DOMAIN rep.urls PROVE rep.urls[p] \in 1 .. n
    <2>1. PICK i \in 1 .. n : \E q \in 1 .. C[i] : p = off[i - 1] + q
      BY <1>0 DEF Laid
    <2>2. PICK q \in 1 .. C[i] : p = off[i - 1] + q
      BY <2>1
    <2>3. rep.urls[p] = i
      BY <1>0, <2>2 DEF Laid
    <2> QED BY <2>3
  <1>2. ASSUME NEW i \in 1 .. n PROVE \E p \in DOMAIN rep.urls : rep.urls[p] = i
    <2>1. 1 \in 1 .. C[i]
      BY <1>0
    <2>2. off[i - 1] + 1 \in DOMAIN rep.urls /\ rep.urls[off[i - 1] + 1] = i
      BY <1>0, <2>1 DEF Laid
    <2> QED BY <2>2
  <1> QED BY <1>1, <1>2 DEF Range

LEMMA ExpansionTotal ==
  ASSUME NEW n \in Nat, NEW durs \in [1 .. n -> Nat \ {0}], NEW rep, NEW off, Expansion(rep, durs, n, off)
  PROVE  Total(rep.durs) = Total(durs)
  <1> DEFINE parts == Splits(durs)
  <1>1. /\ parts \in [1 .. n -> Seq(Nat)] /\ Lengths(parts) = Counts(durs)
        /\ \A i \in 1 .. n : Total(parts[i]) = durs[i]
    BY SharesType, Zenon
  <1> HIDE DEF parts
  <1>2. Sums(off, Lengths(parts), n) /\ rep.durs \in Seq(Nat) /\ Placed(rep.durs, parts, off, n)
    BY <1>1 DEF Expansion, parts
  <1>3. Total(rep.durs) = Total([i \in 1 .. n |-> Total(parts[i])])
    BY <1>1, <1>2, TotalPlaced, Zenon
  <1>4. durs = [i \in 1 .. n |-> durs[i]]
    OBVIOUS
  <1>5. [i \in 1 .. n |-> Total(parts[i])] = [i \in 1 .. n |-> durs[i]]
    BY <1>1, Zenon
  <1> QED BY <1>3, <1>4, <1>5, Zenon

(* Collapsed by file, the fragments are the segments again.                *)
LEMMA ExpansionExtract ==
  ASSUME NEW n \in Nat, NEW durs \in [1 .. n -> Nat \ {0}], NEW rep, NEW off, Expansion(rep, durs, n, off)
  PROVE  ExtractSegments(rep) = [k \in 1 .. n |-> [url |-> k, duration |-> durs[k]]]
  <1> DEFINE parts == Splits(durs)
             Sum(f) == Total([i \in DOMAIN rep.urls |->
                              IF rep.urls[i] = f /\ i \in DOMAIN rep.durs THEN rep.durs[i] ELSE 0])
             a == Ascending(Range(rep.urls))
  <1>1. /\ parts \in [1 .. n -> Seq(Nat)] /\ Lengths(parts) = Counts(durs)
        /\ \A i \in 1 .. n : Total(parts[i]) = durs[i]
    BY SharesType, Zenon
  <1>2. a = [k \in 1 .. n |-> k]
    BY ExpansionUrls, CountingTo
  <1> HIDE DEF parts, Sum, a
  <1>3. /\ Sums(off, Lengths(parts), n) /\ rep.durs \in Seq(Nat) /\ Placed(rep.durs, parts, off, n)
        /\ Placed(rep.urls, Tags(Lengths(parts), n), off, n) /\ DOMAIN rep.urls = 1 .. off[n]
    <2>1. Laid(rep, Counts(durs), off, n)
      BY ExpansionAt
    <2>2. DOMAIN rep.urls = 1 .. off[n]
      BY <2>1 DEF Laid
    <2> QED BY <1>1, <2>2 DEF Expansion, parts
  <1>4. ASSUME NEW f \in 1 .. n PROVE Sum(f) = durs[f] /\ durs[f] # 0
    <2> DEFINE urls == rep.urls
               dur == rep.durs
    <2>2. /\ Sums(off, Lengths(parts), n) /\ dur \in Seq(Nat) /\ Placed(dur, parts, off, n)
          /\ Tagged(urls, Lengths(parts), off, n)
          /\ parts \in [1 .. n -> Seq(Nat)]
      BY <1>1, <1>3 DEF Tagged
    <2> HIDE DEF urls, dur
    <2>3. Collects(urls, dur, parts, f)
      BY <2>2, MaskedTotal, Zenon
    <2>0. Total(Masked(rep.urls, rep.durs, f)) = Total(parts[f])
      BY <2>3 DEF urls, dur, Collects
    <2>1. Sum(f) = Total(parts[f])
      BY <2>0 DEF Sum, Masked
    <2> QED BY <1>1, <2>1
  <1>5. ExtractSegments(rep)
          = [k \in DOMAIN a |-> [url |-> a[k], duration |-> IF Sum(a[k]) = 0 THEN DefaultSegment ELSE Sum(a[k])]]
    BY DEF ExtractSegments, a, Sum
  <1>6. DOMAIN a = 1 .. n /\ \A k \in 1 .. n : a[k] = k
    BY <1>2
  <1> QED BY <1>4, <1>5, <1>6

(***************************************************************************)
(* What a package leaves in its directory agrees with itself.              *)
(***************************************************************************)
LEMMA RepresentationsType ==
  ASSUME TypeInv, NEW c
  PROVE  \E m \in Nat : DOMAIN Representations(c) = 1 .. m
  <1> DEFINE b == IF opt.mode = "full" THEN Info(opt).audio ELSE IsComplete(store[Where], AudioFile)
             seen == Packaged(c)
             last == IF b THEN <<Audio>> ELSE <<>>
  <1>1. Representations(c) = seen \o last
    BY DEF Representations
  <1>2. \E E : seen \in Seq(E)
    <2>1. CASE opt.mode = "resume"
      BY <2>1, ResumePackages
    <2>2. CASE opt.mode # "resume"
      <3>1. seen = [i \in DOMAIN RungsOf(opt, c) |-> RungsOf(opt, c)[i].label]
        BY <2>2 DEF Packaged, LabelsOf
      <3>2. PICK n \in Nat : DOMAIN RungsOf(opt, c) = 1 .. n
        BY RungsApart, AskedIsValid DEF TypeInv, Apart
      <3> HIDE DEF seen
      <3>3. seen \in [1 .. n -> Range(seen)]
        BY <3>1, <3>2 DEF Range
      <3>4. seen \in Seq(Range(seen))
        BY <3>2, <3>3
      <3> QED BY <3>4
    <2> QED BY <2>1, <2>2
  <1>3. last \in Seq({Audio})
    OBVIOUS
  <1> HIDE DEF seen, last
  <1>4. PICK E : seen \in Seq(E)
    BY <1>2
  <1>5. Len(seen) \in Nat /\ Len(last) \in Nat
    BY <1>3, <1>4
  <1>6. DOMAIN (seen \o last) = 1 .. Len(seen) + Len(last)
    BY <1>3, <1>4
  <1> QED BY <1>1, <1>5, <1>6

LEMMA NothingStays ==
  ASSUME NEW E, NEW old \in Seq(E), NEW new \in Seq(E), ~(Len(old) > Len(new))
  PROVE  Overwritten(old, new) = new
  <1>1. Len(old) \in Nat /\ Len(new) \in Nat /\ Len(new) + 1 > Len(old)
    OBVIOUS
  <1>2. SubSeq(old, Len(new) + 1, Len(old)) = <<>>
    BY <1>1
  <1>3. new \o <<>> = new
    OBVIOUS
  <1> QED BY <1>2, <1>3 DEF Overwritten

LEMMA PackageSegments ==
  ASSUME TypeInv, WholeInv, OutFiles, pc = "package", NEW c \in ToPackage,
         NEW l \in Range(Representations(c)), ~(Len(OldFiles(c, l)) > Len(NewFiles(c, l)))
  PROVE  /\ Segmented(Directory(c).files, l, Cut(LengthOf(c, l), opt.seg), Len(Cut(LengthOf(c, l), opt.seg)), run)
         /\ Total(Cut(LengthOf(c, l), opt.seg)) = LengthOf(c, l)
  <1> DEFINE len == LengthOf(c, l)
             durs == Cut(len, opt.seg)
             n == Len(durs)
             old == OldFiles(c, l)
             new == NewFiles(c, l)
             S == SegFiles(run)
  <1>1. len \in Nat /\ opt.seg \in Nat \ {0}
    BY LengthType, AskedIsValid DEF TypeInv, Valid
  <1> HIDE DEF len
  <1>2. n \in Nat /\ durs \in [1 .. n -> Nat \ {0}] /\ Total(durs) = len
    BY <1>1, CutType, TotalCut
  <1>3. old \in Seq(S) /\ new \in Seq(S) /\ Directory(c).files[l] = Overwritten(old, new)
    BY FilesOfDirectory
  <1>4. new = [k \in DOMAIN durs |-> SegmentFile(durs[k], run)]
    BY DEF NewFiles, len
  <1>5. ~(Len(old) > Len(new))
    OBVIOUS
  <1> HIDE DEF durs, n, old, new, S
  <1>6. Overwritten(old, new) = new
    BY <1>3, <1>5, NothingStays
  <1>7. new = [k \in 1 .. n |-> SegmentFile(durs[k], run)]
    BY <1>2, <1>4
  <1>8. Segmented(Directory(c).files, l, durs, n, run)
    BY <1>2, <1>3, <1>6, <1>7 DEF Segmented
  <1> QED BY <1>2, <1>8 DEF durs, n, len

(* A representation is listed by segments, or by their fragments.          *)
Told(rep, l, durs, n) ==
  \/ Listed(rep, l, durs, n)
  \/ ByFragments(rep, l, durs, n)

ByParts == OnFarm(opt) \/ opt.fmp4

LEMMA PackageList ==
  ASSUME TypeInv, WholeInv, OutFiles, pc = "package", NEW c \in ToPackage,
         \A l \in Range(Representations(c)) : ~(Len(OldFiles(c, l)) > Len(NewFiles(c, l)))
  PROVE  /\ DOMAIN Directory(c).mpd = DOMAIN Representations(c)
         /\ \A i \in DOMAIN Representations(c) :
              LET l == Representations(c)[i]
                  durs == Cut(LengthOf(c, l), opt.seg)
                  rep == Directory(c).mpd[i]
              IN  /\ rep.label = l /\ Told(rep, l, durs, Len(durs))
                  /\ ByParts => ByFragments(rep, l, durs, Len(durs))
  <1> DEFINE all == Representations(c)
             now == Directory(c).files
             lengths == [l \in Range(all) |-> Cut(LengthOf(c, l), opt.seg)]
             list == ConvertSegmentlist(all, lengths, now)
             mpd == Directory(c).mpd
  <1>1. mpd = IF ByParts THEN WriteFragmentedMpd(list, now) ELSE list
    BY DEF Directory, ByParts
  <1>2. DOMAIN list = DOMAIN all
        /\ \A i \in DOMAIN all : list[i] = [label |-> all[i], durs |-> lengths[all[i]],
                                            urls |-> [k \in DOMAIN now[all[i]] |-> k], ranges |-> <<>>]
    BY DEF ConvertSegmentlist
  <1> HIDE DEF list, mpd, now
  <1>3. WriteFragmentedMpd(list, now) = [i \in DOMAIN all |-> Expanded(list[i], now)]
    <2>2. ASSUME NEW i \in DOMAIN list PROVE list[i].ranges = <<>>
      <3> DEFINE us == [k \in DOMAIN now[all[i]] |-> k]
                 ds == lengths[all[i]]
                 x == all[i]
      <3>1. list[i] = [label |-> x, durs |-> ds, urls |-> us, ranges |-> <<>>]
        BY <1>2
      <3> HIDE DEF us, ds, x
      <3> QED BY <3>1
    <2>1. ~(\E i \in DOMAIN list : list[i].ranges # <<>>)
      BY <2>2
    <2> QED BY <1>2, <2>1 DEF WriteFragmentedMpd
  <1>4. ASSUME NEW i \in DOMAIN all
        PROVE  LET l == all[i]
                   durs == Cut(LengthOf(c, l), opt.seg)
               IN  /\ Listed(list[i], l, durs, Len(durs)) /\ list[i].label = l
                   /\ ByFragments(Expanded(list[i], now), l, durs, Len(durs))
    <2> DEFINE l == all[i]
               durs == Cut(LengthOf(c, l), opt.seg)
               n == Len(durs)
    <2>1. l \in Range(all)
      BY DEF Range
    <2>2. Segmented(now, l, durs, n, run)
      BY <2>1, PackageSegments DEF now
    <2>3. lengths[l] = durs
      BY <2>1
    <2> HIDE DEF lengths, durs, n
    <2>4. DOMAIN now[l] = 1 .. n
      BY <2>2 DEF Segmented
    <2>5. list[i] = [label |-> l, durs |-> durs, urls |-> [k \in 1 .. n |-> k], ranges |-> <<>>]
      BY <1>2, <2>3, <2>4
    <2> HIDE DEF l, all
    <2>6. Listed(list[i], l, durs, n) /\ list[i].label = l
      BY <2>5 DEF Listed
    <2>8. ByFragments(Expanded(list[i], now), l, durs, n)
      BY <2>2, <2>6, ExpandedIs
    <2> QED BY <2>6, <2>8 DEF l, durs, n
  <1> HIDE DEF lengths
  <1>5. DOMAIN mpd = DOMAIN all
    BY <1>1, <1>2, <1>3
  <1>6. \A i \in DOMAIN all : mpd[i] = IF ByParts THEN Expanded(list[i], now) ELSE list[i]
    BY <1>1, <1>3
  <1>7. ASSUME NEW i \in DOMAIN all
        PROVE  LET l == all[i]
                   durs == Cut(LengthOf(c, l), opt.seg)
               IN  /\ mpd[i].label = l /\ Told(mpd[i], l, durs, Len(durs))
                   /\ ByParts => ByFragments(mpd[i], l, durs, Len(durs))
    <2> HIDE DEF all
    <2>1. CASE ByParts
      <3>1. mpd[i] = Expanded(list[i], now)
        BY <1>6, <2>1
      <3> QED BY <1>4, <3>1 DEF Told, ByFragments
    <2>2. CASE ~ByParts
      <3>1. mpd[i] = list[i]
        BY <1>6, <2>2
      <3> QED BY <1>4, <2>2, <3>1 DEF Told
    <2> QED BY <2>1, <2>2
  <1> QED BY <1>5, <1>7 DEF mpd

LEMMA SegmentsCounted ==
  ASSUME NEW files, NEW l, NEW durs, NEW n, NEW r, Segmented(files, l, durs, n, r)
  PROVE  /\ Cardinality({k \in DOMAIN files[l] : files[l][k].run = r}) = n
         /\ \A k \in 1 .. n : Boxed(files[l][k].boxes, FragmentsIn(durs[k]))
  <1>1. n \in Nat /\ durs \in [1 .. n -> Nat \ {0}] /\ files[l] = [k \in 1 .. n |-> SegmentFile(durs[k], r)]
    BY DEF Segmented
  <1>2. ASSUME NEW k \in 1 .. n
        PROVE  files[l][k].run = r /\ Boxed(files[l][k].boxes, FragmentsIn(durs[k]))
    <2>1. durs[k] \in Nat \ {0} /\ files[l][k] = SegmentFile(durs[k], r)
      BY <1>1
    <2> QED BY <2>1, FileBoxed
  <1>3. {k \in DOMAIN files[l] : files[l][k].run = r} = 1 .. n
    <2>1. DOMAIN files[l] = 1 .. n
      BY <1>1
    <2> QED BY <1>2, <2>1
  <1> QED BY <1>1, <1>2, <1>3, CountingTo

(* A list by segments is what was packaged.                                *)
LEMMA ListedAgrees ==
  ASSUME NEW rep, NEW l, NEW n \in Nat, NEW durs \in [1 .. n -> Nat \ {0}], Listed(rep, l, durs, n)
  PROVE  Range(rep.urls) = 1 .. n /\ rep.durs = durs /\ rep.ranges = <<>> /\ rep.label = l
  <1>1. rep.urls = [k \in 1 .. n |-> k] /\ rep.durs = durs /\ rep.ranges = <<>> /\ rep.label = l
    BY DEF Listed
  <1> QED BY <1>1 DEF Range

(* Each piece of media of a segment begins in one of its ranges.           *)
RangesCover(boxes, rep, k) ==
  \A b \in DOMAIN boxes :
    boxes[b].type = "mdat" =>
      Cardinality(Covering(rep, k, Total([j \in 1 .. (b - 1) |-> boxes[j].size]))) = 1

LEMMA ExpansionCoversAll ==
  ASSUME NEW n \in Nat, NEW durs \in [1 .. n -> Nat \ {0}], NEW rep, NEW off, Expansion(rep, durs, n, off),
         NEW k \in 1 .. n, NEW boxes, Boxed(boxes, FragmentsIn(durs[k]))
  PROVE  RangesCover(boxes, rep, k)
  <1> DEFINE m == FragmentsIn(durs[k])
  <1>1. m \in Nat \ {0}
    <2>1. durs[k] \in Nat \ {0}
      OBVIOUS
    <2> QED BY <2>1, FragmentsType
  <1>2. \A j \in 1 .. m : Cardinality(Covering(rep, k, 3 * j - 1)) = 1
    BY ExpansionCovers
  <1>3. Boxed(boxes, m)
    OBVIOUS
  <1> HIDE DEF m
  <1> SUFFICES ASSUME NEW b \in DOMAIN boxes, boxes[b].type = "mdat"
               PROVE  Cardinality(Covering(rep, k, Total([j \in 1 .. (b - 1) |-> boxes[j].size]))) = 1
    BY DEF RangesCover
  <1>4. b \in 1 .. 2 * m + 1
    BY <1>3 DEF Boxed
  <1>5. PICK j \in 1 .. m : b = 2 * j + 1
    <2>1. b # 1
      BY <1>3 DEF Boxed
    <2>2. ~\E j \in 1 .. m : b = 2 * j
      BY <1>3 DEF Boxed
    <2> QED BY <1>1, <1>4, <2>1, <2>2, EveryBox
  <1>6. j \in Nat \ {0} /\ b - 1 = 2 * j /\ b - 1 \in 0 .. 2 * m + 1
    BY <1>1, <1>5
  <1>7. Total([i \in 1 .. (b - 1) |-> boxes[i].size]) = Bytes(b - 1)
    BY <1>1, <1>3, <1>6, BoxesBefore
  <1>8. Bytes(b - 1) = 3 * j - 1
    BY <1>6, BytesAre
  <1> QED BY <1>2, <1>7, <1>8

LEMMA Agreement ==
  ASSUME NEW dir, NEW l, NEW durs, NEW n, Segmented(dir.files, l, durs, n, run),
         NEW rep, Told(rep, l, durs, n), Total(durs) \in Nat,
         l # Audio => Len(dir.media[l]) * Period = Total(durs)
  PROVE  RepresentationAgrees(dir, rep) /\ Total(rep.durs) = Total(durs)
  <1> DEFINE files == dir.files[l]
             Covered(k) == RangesCover(files[k].boxes, rep, k)
  <1>1. n \in Nat /\ durs \in [1 .. n -> Nat \ {0}]
    BY DEF Segmented
  <1>2. /\ Cardinality({k \in DOMAIN files : files[k].run = run}) = n
        /\ \A k \in 1 .. n : Boxed(files[k].boxes, FragmentsIn(durs[k]))
    BY SegmentsCounted
  <1> HIDE DEF files
  <1>3. /\ Range(rep.urls) = 1 .. n /\ Total(rep.durs) = Total(durs) /\ rep.label = l
        /\ rep.ranges # <<>> => \A k \in 1 .. n : Covered(k)
    <2>1. CASE Listed(rep, l, durs, n)
      BY <1>1, <2>1, ListedAgrees
    <2>2. CASE ByFragments(rep, l, durs, n)
      <3>1. PICK off : Expansion(rep, durs, n, off)
        BY <2>2 DEF ByFragments
      <3>2. Range(rep.urls) = 1 .. n /\ Total(rep.durs) = Total(durs)
        BY <1>1, <3>1, ExpansionUrls, ExpansionTotal
      <3>3. ASSUME NEW k \in 1 .. n PROVE Covered(k)
        BY <1>1, <1>2, <3>1, ExpansionCoversAll
      <3> HIDE DEF Covered
      <3> QED BY <2>2, <3>2, <3>3 DEF ByFragments
    <2> QED BY <2>1, <2>2 DEF Told
  <1>4. Total(rep.durs) = IF l = Audio THEN Total(rep.durs) ELSE Len(dir.media[l]) * Period
    BY <1>3
  <1>5. RepresentationAgrees(dir, rep)
    <2> DEFINE f == dir.files[rep.label]
               N == Cardinality({k \in DOMAIN f : f[k].run = run})
    <2>1. f = files /\ N = n
      BY <1>2, <1>3 DEF files
    <2>2. Total(rep.durs) = IF rep.label = Audio THEN Total(rep.durs) ELSE Len(dir.media[rep.label]) * Period
      BY <1>3, <1>4
    <2>3. rep.ranges # <<>> =>
            \A k \in 1 .. N : RangesCover(f[k].boxes, rep, k)
      <3> HIDE DEF f, N
      <3> QED BY <1>3, <2>1
    <2>4. Range(rep.urls) = 1 .. N
      BY <1>3, <2>1
    <2> QED BY <2>2, <2>3, <2>4 DEF RepresentationAgrees, RangesCover, Covering
  <1> QED BY <1>3, <1>5

(***************************************************************************)
(* The playlist of a representation by fragments.                          *)
(***************************************************************************)
LEMMA ExtractedAgree ==
  ASSUME NEW dir, NEW l, NEW durs, NEW n, NEW r, Segmented(dir.files, l, durs, n, r),
         NEW rep, ByFragments(rep, l, durs, n), ResolutionName(l) = l,
         dir.hls[ResolutionName(l)] = VariantPlaylist(rep, dir.files)
  PROVE  PlaylistAgrees(dir, rep)
  <1> DEFINE segs == dir.hls[ResolutionName(rep.label)]
             extracted == ExtractSegments(rep)
             parts(k) == ParseSegment(dir.files[l][k], l = Audio)
  <1>1. n \in Nat /\ durs \in [1 .. n -> Nat \ {0}]
        /\ dir.files[l] = [k \in 1 .. n |-> SegmentFile(durs[k], r)]
    BY DEF Segmented
  <1>2. rep.label = l
    BY DEF ByFragments
  <1>3. PICK off : Expansion(rep, durs, n, off)
    BY DEF ByFragments
  <1>4. extracted = [k \in 1 .. n |-> [url |-> k, duration |-> durs[k]]]
    BY <1>1, <1>3, ExpansionExtract
  <1>5. segs = [k \in DOMAIN extracted |->
                  [url |-> extracted[k].url, duration |-> extracted[k].duration,
                   parts |-> ParseSegment(dir.files[rep.label][extracted[k].url], rep.label = Audio)]]
    BY <1>2 DEF VariantPlaylist
  <1> HIDE DEF segs, extracted
  <1>6. segs = [k \in 1 .. n |-> [url |-> k, duration |-> durs[k], parts |-> parts(k)]]
    BY <1>2, <1>4, <1>5
  <1>7. ASSUME NEW k \in 1 .. n
        PROVE  segs[k].url = k /\ segs[k].duration = durs[k] /\ segs[k].parts = parts(k)
    <2> HIDE DEF parts
    <2> QED BY <1>6
  <1>8. DOMAIN segs = 1 .. n
    BY <1>6
  <1>9. Range(rep.urls) = 1 .. n /\ Total(rep.durs) = Total(durs) /\ Cardinality(1 .. n) = n
    BY <1>1, <1>3, ExpansionUrls, ExpansionTotal, CountingTo
  <1>10. ASSUME NEW k \in 1 .. n PROVE parts(k) # <<>> /\ parts(k)[1].independent
    <2>1. durs[k] \in Nat \ {0} /\ dir.files[l][k] = SegmentFile(durs[k], r)
      BY <1>1
    <2>2. Parsed(parts(k), FragmentsIn(durs[k]))
      <3> DEFINE audio == l = Audio
      <3> HIDE DEF audio
      <3>1. Parsed(ParseSegment(SegmentFile(durs[k], r), audio), FragmentsIn(durs[k]))
        BY <2>1, SegmentParsed
      <3> QED BY <2>1, <3>1 DEF audio
    <2> HIDE DEF parts
    <2> QED BY <2>2 DEF Parsed
  <1> HIDE DEF parts
  <1>11. [k \in DOMAIN segs |-> segs[k].url] = [k \in 1 .. Cardinality(Range(rep.urls)) |-> k]
    BY <1>7, <1>8, <1>9
  <1>12. Total([k \in DOMAIN segs |-> segs[k].duration]) = Total(rep.durs)
    <2>1. [k \in DOMAIN segs |-> segs[k].duration] = durs
      BY <1>1, <1>7, <1>8
    <2> QED BY <1>9, <2>1
  <1>13. \A k \in DOMAIN segs : segs[k].parts # <<>> /\ segs[k].parts[1].independent
    BY <1>7, <1>8, <1>10
  <1>14. ResolutionName(rep.label) = rep.label
    BY <1>2
  <1> QED BY <1>11, <1>12, <1>13, <1>14 DEF PlaylistAgrees, segs

LEMMA PlaylistOfOne ==
  ASSUME NEW mpd, NEW files, NEW old, NEW m \in Nat, DOMAIN mpd = 1 .. m, NEW i \in 1 .. m,
         \A j \in DOMAIN mpd \ {i} : ResolutionName(mpd[j].label) # ResolutionName(mpd[i].label)
  PROVE  HlsFromDash(mpd, files, old)[ResolutionName(mpd[i].label)] = VariantPlaylist(mpd[i], files)
  <1> DEFINE d == ResolutionName(mpd[i].label)
             those == {j \in DOMAIN mpd : ResolutionName(mpd[j].label) = d}
             new == [x \in {ResolutionName(mpd[j].label) : j \in DOMAIN mpd} |->
                       VariantPlaylist(Writer(mpd, x), files)]
  <1>1. those = {i}
    OBVIOUS
  <1>2. Max(those) = i
    <2>1. i \in Nat /\ {i} \in SUBSET Nat
      OBVIOUS
    <2>2. IsFiniteSet({i})
      BY FS_Singleton
    <2> HIDE DEF those
    <2>3. Max({i}) \in {i}
      BY <2>1, <2>2, MaxIsIn
    <2> QED BY <1>1, <2>3
  <1>3. Writer(mpd, d) = mpd[i]
    BY <1>2 DEF Writer
  <1>4. d \in DOMAIN new /\ new[d] = VariantPlaylist(mpd[i], files)
    BY <1>3
  <1>5. HlsFromDash(mpd, files, old) = Over(new, old)
    BY DEF HlsFromDash
  <1> HIDE DEF new, d
  <1> QED BY <1>4, <1>5 DEF Over, d

Agrees(dir) ==
  \A i \in DOMAIN dir.mpd :
    LET rep == dir.mpd[i]
    IN  /\ ~OnFarm(opt) /\ opt.ts => Total(dir.ts[rep.label]) = Total(rep.durs)
        /\ RepresentationAgrees(dir, rep)
        /\ ByParts =>
             \/ rep.label[2] # 0
             \/ \E j \in DOMAIN dir.mpd \ {i} :
                  ResolutionName(dir.mpd[j].label) = ResolutionName(rep.label)
             \/ PlaylistAgrees(dir, rep)

LEMMA PackageMediaLength ==
  ASSUME TypeInv, WholeInv, pc = "package", NEW c \in ToPackage, NEW l \in Range(Representations(c))
  PROVE  /\ LengthOf(c, l) \in Nat
         /\ l # Audio => Len(Directory(c).media[l]) * Period = LengthOf(c, l)
         /\ l[2] = 0 => ResolutionName(l) = l
  <1>1. /\ LengthOf(c, l) \in Nat /\ (l = Audio \/ l \in Range(Packaged(c)))
        /\ l # Audio => LengthOf(c, l) = Len(store[Where][Name(c, l, 0)].content) * Period
    BY LengthType
  <1>2. l \in Range(Packaged(c)) => Directory(c).media[l] = store[Where][Name(c, l, 0)].content
    BY DEF Directory
  <1>3. l = <<l[1], l[2]>>
    <2>1. l \in Range(Packaged(c)) => l \in Label
      BY PackagedWhole
    <2>2. l \in Label => l = <<l[1], l[2]>>
      BY DEF Label
    <2>3. l = Audio => l = <<l[1], l[2]>>
      BY DEF Audio
    <2> QED BY <1>1, <2>1, <2>2, <2>3
  <1> QED BY <1>1, <1>2, <1>3 DEF ResolutionName

LEMMA DirectoryAgrees ==
  ASSUME TypeInv, WholeInv, OutFiles, pc = "package", NEW c \in ToPackage,
         \A l \in Range(Representations(c)) : ~(Len(OldFiles(c, l)) > Len(NewFiles(c, l)))
  PROVE  Agrees(Directory(c))
  <1> DEFINE dir == Directory(c)
             all == Representations(c)
             durs(l) == Cut(LengthOf(c, l), opt.seg)
  <1>1. PICK m \in Nat : DOMAIN all = 1 .. m
    BY RepresentationsType
  <1>2. DOMAIN dir.mpd = 1 .. m
    BY <1>1, PackageList
  <1>3. ASSUME NEW i \in 1 .. m
        PROVE  /\ all[i] \in Range(all)
               /\ dir.mpd[i].label = all[i] /\ Told(dir.mpd[i], all[i], durs(all[i]), Len(durs(all[i])))
               /\ ByParts => ByFragments(dir.mpd[i], all[i], durs(all[i]), Len(durs(all[i])))
               /\ Segmented(dir.files, all[i], durs(all[i]), Len(durs(all[i])), run)
               /\ Total(durs(all[i])) = LengthOf(c, all[i]) /\ LengthOf(c, all[i]) \in Nat
               /\ all[i] # Audio => Len(dir.media[all[i]]) * Period = LengthOf(c, all[i])
               /\ all[i][2] = 0 => ResolutionName(all[i]) = all[i]
    <2>1. all[i] \in Range(all)
      BY <1>1 DEF Range
    <2>2. /\ dir.mpd[i].label = all[i] /\ Told(dir.mpd[i], all[i], durs(all[i]), Len(durs(all[i])))
          /\ ByParts => ByFragments(dir.mpd[i], all[i], durs(all[i]), Len(durs(all[i])))
      BY <1>1, PackageList
    <2> DEFINE l == all[i]
    <2>3. l \in Range(all) /\ ~(Len(OldFiles(c, l)) > Len(NewFiles(c, l)))
      BY <2>1
    <2> HIDE DEF l
    <2>4. /\ Segmented(dir.files, l, durs(l), Len(durs(l)), run) /\ Total(durs(l)) = LengthOf(c, l)
      BY <2>3, PackageSegments
    <2>5. /\ LengthOf(c, l) \in Nat /\ (l # Audio => Len(dir.media[l]) * Period = LengthOf(c, l))
          /\ (l[2] = 0 => ResolutionName(l) = l)
      BY <2>3, PackageMediaLength
    <2> QED BY <2>2, <2>3, <2>4, <2>5 DEF l
  <1>4. ~OnFarm(opt) /\ opt.ts => \A l \in Range(all) : dir.ts[l] = durs(l)
    <2> SUFFICES ASSUME ~OnFarm(opt) /\ opt.ts, NEW l \in Range(all) PROVE dir.ts[l] = durs(l)
      OBVIOUS
    <2> DEFINE lengths == [x \in Range(all) |-> LengthOf(c, x)]
    <2>1. dir.ts = GenerateTsHls(Range(all), lengths, opt.seg)
      BY DEF Directory
    <2>2. l \in DOMAIN lengths /\ lengths[l] = LengthOf(c, l)
      OBVIOUS
    <2> HIDE DEF lengths, dir
    <2> QED BY <2>1, <2>2 DEF GenerateTsHls
  <1>5. ByParts => dir.hls = HlsFromDash(dir.mpd, dir.files, Held(c).hls)
    BY DEF Directory, ByParts
  <1> HIDE DEF dir, all, durs
  <1>6. ASSUME NEW i \in 1 .. m
        PROVE  /\ ~OnFarm(opt) /\ opt.ts => Total(dir.ts[dir.mpd[i].label]) = Total(dir.mpd[i].durs)
               /\ RepresentationAgrees(dir, dir.mpd[i])
               /\ ByParts =>
                    \/ dir.mpd[i].label[2] # 0
                    \/ \E j \in DOMAIN dir.mpd \ {i} :
                         ResolutionName(dir.mpd[j].label) = ResolutionName(dir.mpd[i].label)
                    \/ PlaylistAgrees(dir, dir.mpd[i])
    <2> DEFINE l == all[i]
               cut == durs(l)
               n == Len(cut)
               rep == dir.mpd[i]
    <2>1. /\ l \in Range(all) /\ rep.label = l /\ Told(rep, l, cut, n)
          /\ Segmented(dir.files, l, cut, n, run)
          /\ Total(cut) \in Nat /\ (l # Audio => Len(dir.media[l]) * Period = Total(cut))
          /\ (ByParts => ByFragments(rep, l, cut, n)) /\ (l[2] = 0 => ResolutionName(l) = l)
      BY <1>3
    <2>2. ~OnFarm(opt) /\ opt.ts => dir.ts[l] = cut
      BY <1>4, <2>1
    <2>3. dir.hls = HlsFromDash(dir.mpd, dir.files, Held(c).hls) /\ rep.label = l
            /\ (\A j \in DOMAIN dir.mpd \ {i} : ResolutionName(dir.mpd[j].label) # ResolutionName(rep.label))
            => dir.hls[ResolutionName(l)] = VariantPlaylist(rep, dir.files)
      BY <1>2, PlaylistOfOne
    <2> HIDE DEF l, cut, n, rep
    <2>4. RepresentationAgrees(dir, rep) /\ Total(rep.durs) = Total(cut)
      BY <2>1, Agreement
    <2>5. ByParts /\ l[2] = 0 /\ dir.hls[ResolutionName(l)] = VariantPlaylist(rep, dir.files)
            => PlaylistAgrees(dir, rep)
      BY <2>1, ExtractedAgree
    <2>6. ~OnFarm(opt) /\ opt.ts => Total(dir.ts[rep.label]) = Total(rep.durs)
      BY <2>1, <2>2, <2>4
    <2>7. ByParts =>
            \/ rep.label[2] # 0
            \/ \E j \in DOMAIN dir.mpd \ {i} : ResolutionName(dir.mpd[j].label) = ResolutionName(rep.label)
            \/ PlaylistAgrees(dir, rep)
      BY <1>5, <2>1, <2>3, <2>5
    <2> QED BY <2>4, <2>6, <2>7 DEF rep
  <1> QED BY <1>2, <1>6 DEF Agrees, dir

AgreeInv == pc \in {"package", "done"} /\ "stale" \notin excuse => \A c \in Fresh : Agrees(out[c])

LEMMA AgreesKept ==
  ASSUME opt' = opt, run' = run, NEW d, Agrees(out'[d])
  PROVE  (Agrees(out[d]))'
  <1>1. PICK dir : dir = out'[d]
    OBVIOUS
  <1>2. Agrees(dir)
    BY <1>1
  <1>3. ASSUME NEW rep, RepresentationAgrees(dir, rep) PROVE RepresentationAgrees(dir, rep)'
    <2>1. {k \in DOMAIN dir.files[rep.label] : dir.files[rep.label][k].run = run'}
            = {k \in DOMAIN dir.files[rep.label] : dir.files[rep.label][k].run = run}
      OBVIOUS
    <2> QED BY <1>3, <2>1 DEF RepresentationAgrees
  <1>4. Agrees(dir)'
    <2> SUFFICES ASSUME NEW i \in DOMAIN dir.mpd
                 PROVE  LET rep == dir.mpd[i]
                        IN  /\ ~OnFarm(opt') /\ opt'.ts => Total(dir.ts[rep.label]) = Total(rep.durs)
                            /\ RepresentationAgrees(dir, rep)'
                            /\ OnFarm(opt') \/ opt'.fmp4 =>
                                 \/ rep.label[2] # 0
                                 \/ \E j \in DOMAIN dir.mpd \ {i} :
                                      ResolutionName(dir.mpd[j].label) = ResolutionName(rep.label)
                                 \/ PlaylistAgrees(dir, rep)
      BY DEF Agrees, ByParts
    <2> QED BY <1>2, <1>3 DEF Agrees, ByParts
  <1> QED BY <1>1, <1>4

LEMMA PackageAgrees ==
  ASSUME TypeInv, WholeInv, OutFiles, AgreeInv, NEW c \in todo, Package(c)
  PROVE  AgreeInv'
  <1>1. /\ pc = "package" /\ UNCHANGED <<opt, run, store, made>> /\ c \in ToPackage
        /\ excuse \subseteq excuse'
        /\ \/ out' = out
           \/ /\ DOMAIN out' = DOMAIN out \cup {c} /\ out'[c] = Directory(c)
              /\ \A d \in DOMAIN out : d # c => out'[d] = out[d]
              /\ "stale" \notin excuse' =>
                   \A l \in Range(Representations(c)) : ~(Len(OldFiles(c, l)) > Len(NewFiles(c, l)))
    BY PackageWrites
  <1> SUFFICES ASSUME "stale" \notin excuse', NEW d \in Fresh' PROVE (Agrees(out[d]))'
    BY DEF AgreeInv
  <1>2. SUFFICES Agrees(out'[d])
    BY <1>1, AgreesKept
  <1>3. CASE out' = out \/ d # c
    <2>1. d \in DOMAIN out /\ out'[d] = out[d]
      BY <1>1, <1>3 DEF Fresh
    <2>2. d \in Fresh
      BY <1>1, <2>1 DEF Fresh
    <2> QED BY <1>1, <2>1, <2>2 DEF AgreeInv
  <1>4. CASE out' # out /\ d = c
    BY <1>1, <1>4, DirectoryAgrees
  <1> QED BY <1>3, <1>4

LEMMA NextAgree ==
  ASSUME TypeInv, WholeInv, OutFiles, NoneYet, AgreeInv, [Next]_vars
  PROVE  AgreeInv'
  <1>1. CASE Fresh' = {}
    BY <1>1 DEF AgreeInv
  <1>2. CASE run' = run /\ out' = out /\ pc \notin {"package", "done", "failed"}
    BY <1>1, <1>2, FreshKept DEF NoneYet
  <1>3. CASE run' = run + 1 /\ out' = out
    BY <1>1, <1>3, NoneFresh DEF TypeInv
  <1>4. CASE \E c \in todo : Package(c)
    BY <1>4, PackageAgrees
  <1>5. CASE run' = run /\ out' = out /\ (Finish \/ UNCHANGED vars)
    <2>1. /\ UNCHANGED <<opt, excuse>>
          /\ pc' \in {"package", "done"} => pc \in {"package", "done"}
      BY <1>5 DEF Finish, vars
    <2>2. Fresh' = Fresh
      BY <1>5, FreshKept
    <2> SUFFICES ASSUME pc' \in {"package", "done"}, "stale" \notin excuse', NEW c \in Fresh'
                 PROVE  (Agrees(out[c]))'
      BY DEF AgreeInv
    <2>3. Agrees(out'[c])
      BY <1>5, <2>1, <2>2 DEF AgreeInv
    <2> QED BY <1>5, <2>1, <2>3, AgreesKept
  <1>6. CASE Kill
    <2>1. pc' = "failed"
      BY <1>6 DEF Kill
    <2> QED BY <2>1 DEF AgreeInv
  <1> QED BY <1>2, <1>3, <1>4, <1>5, <1>6, NextOut

(* After a run the manifest lists the segment files that run wrote and no  *)
(* other, for as long as the media lasts, its byte ranges take in each     *)
(* piece of media once, and the playlists derived from it say the same,    *)
(* unless a longer package of the same name was there.                     *)
THEOREM ManifestsDoAgree == Spec => []ManifestsAgree
  <1>1. Init => AgreeInv
    BY DEF Init, AgreeInv
  <1>2. TypeInv /\ FrameInv /\ AgreeInv /\ [Next]_vars => AgreeInv'
    BY NextAgree DEF FrameInv
  <1>3. AgreeInv => ManifestsAgree
    BY DEF AgreeInv, ManifestsAgree, Agrees, ByParts
  <1> QED BY <1>1, <1>2, <1>3, FramesInduct, Typed, PTL DEF Spec
=============================================================================
