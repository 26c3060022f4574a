--------------------------- MODULE DistEncodeProofs ---------------------------
(***************************************************************************)
(* The three safety properties of a job on the farm, whatever its bands    *)
(* and grids, the slots, the retries, the runs and the faults: success is  *)
(* a whole ladder, packaging finds all it needs after a workflow that      *)
(* completed, and the orphan guard of run_temporal leaves no workflow that *)
(* goes on.  The first two follow from one inductive invariant, Sound.     *)
(***************************************************************************)
EXTENDS DistEncode, SequenceTheorems, FiniteSetTheorems, TLAPS

-----------------------------------------------------------------------------
(* Numbers, bands and the objects of an encode.                            *)
BandOf(rung) == CHOOSE b \in Band : rung \in ToSet(b)

(* The objects of an encode on the grid g, and what each is then.          *)
Due(g) ==
  {Audio} \cup UNION {{Chunk(b[k], i) : k \in DOMAIN b, i \in 0 .. g[b] - 1} : b \in Band}
Made(o, g) == IF o = Audio THEN 1 ELSE g[BandOf(o[1])]
Fits(f, g) == \A o \in Object : f[o] # Nothing => o \in Due(g) /\ f[o] = Made(o, g)

(* The activities of an encode on the grid g.                              *)
Encoding(g) == {Audio} \cup Enc(g)

Before == {p \in Nat \X Nat : p[1] < p[2]}

(* The well-founded order of the naturals, as the provers can use it.      *)
LEMMA Least ==
  ASSUME NEW T, T \subseteq Nat, T # {}
  PROVE  \E n \in T : \A m \in T : n <= m
  <1>1. IsWellFoundedOn(Before, Nat)
    BY NatLessThanWellFounded, Zenon DEF OpToRel, Before
  <1>2. \E n \in T : \A m \in T : ~(<<m, n>> \in Before)
    BY <1>1, WFMin, Zenon
  <1>3. PICK n \in T : \A m \in T : ~(<<m, n>> \in Before)
    BY <1>2
  <1>4. ASSUME NEW m \in T PROVE n <= m
    <2>1. m \in Nat /\ n \in Nat /\ <<m, n>> \notin Before
      BY <1>3
    <2>2. ~(m < n)
      BY <2>1 DEF Before
    <2> QED BY <2>1, <2>2
  <1> QED BY <1>4

(* A finite sequence of naturals has a greatest: the least prefix without  *)
(* one would be one longer than a prefix that has one.                     *)
LEMMA Greatest ==
  ASSUME NEW n \in Nat \ {0}, NEW v \in [1 .. n -> Nat]
  PROVE  \E k \in 1 .. n : \A i \in 1 .. n : v[i] <= v[k]
  <1> DEFINE Tops(j) == \E k \in 1 .. j : \A i \in 1 .. j : v[i] <= v[k]
             T == {j \in 1 .. n : ~Tops(j)}
  <1>1. SUFFICES ASSUME T # {} PROVE FALSE
    <2>1. n \in 1 .. n
      OBVIOUS
    <2> QED BY <2>1
  <1>2. PICK j \in T : \A m \in T : j <= m
    <2>1. T \subseteq Nat
      OBVIOUS
    <2> HIDE DEF T
    <2> QED BY <1>1, <2>1, Least
  <1>3. j \in 1 .. n /\ ~Tops(j) /\ j # 1
    BY <1>2
  <1>4. j - 1 \in 1 .. n /\ ~(j <= j - 1)
    BY <1>3
  <1>5. Tops(j - 1)
    BY <1>2, <1>4
  <1>6. PICK k \in 1 .. j - 1 : \A i \in 1 .. j - 1 : v[i] <= v[k]
    BY <1>5
  <1>7. k \in 1 .. j /\ j \in 1 .. j /\ \A i \in 1 .. j : i \in 1 .. j - 1 \/ i = j
    BY <1>3, <1>6
  <1>8. CASE v[j] <= v[k]
    <2>1. \A i \in 1 .. j : v[i] <= v[k]
      BY <1>6, <1>7, <1>8
    <2> QED BY <2>1, <1>7, <1>3
  <1>9. CASE ~(v[j] <= v[k])
    <2>1. \A i \in 1 .. j : v[i] <= v[j]
      BY <1>3, <1>6, <1>7, <1>9
    <2> QED BY <2>1, <1>7, <1>3
  <1> QED BY <1>8, <1>9

(* A band has a widest grid.                                               *)
LEMMA WidestBounds ==
  ASSUME NEW b \in Band, NEW g \in Grids
  PROVE  Widest(b) \in Nat /\ g[b] \in Nat \ {0} /\ g[b] <= Widest(b)
  <1>0. \A h \in Grids : h[b] \in Nat \ {0}
    BY DistAssumption
  <1>1. PICK n \in Nat : ExistsSurjection(1 .. n, Grids)
    BY FS_NatSurjection, DistAssumption
  <1>2. PICK s \in Surjection(1 .. n, Grids) : TRUE
    BY <1>1 DEF ExistsSurjection
  <1>3. s \in [1 .. n -> Grids] /\ \A h \in Grids : \E i \in 1 .. n : s[i] = h
    BY <1>2 DEF Surjection
  <1>4. n # 0
    BY <1>3
  <1> DEFINE v == [i \in 1 .. n |-> s[i][b]]
  <1>5. v \in [1 .. n -> Nat] /\ \A i \in 1 .. n : v[i] = s[i][b]
    BY <1>0, <1>3
  <1>6. \E k \in 1 .. n : \A i \in 1 .. n : v[i] <= v[k]
    <2> HIDE DEF v
    <2> QED BY <1>4, <1>5, Greatest
  <1>7. PICK k \in 1 .. n : \A i \in 1 .. n : s[i][b] <= s[k][b]
    BY <1>5, <1>6
  <1>8. s[k][b] \in {h[b] : h \in Grids} /\ \A h \in Grids : h[b] <= s[k][b]
    BY <1>3, <1>7
  <1>9. Widest(b) \in {h[b] : h \in Grids} /\ \A h \in Grids : h[b] <= Widest(b)
    BY <1>8 DEF Widest
  <1> QED BY <1>9, <1>0

(* A rung is in one band.                                                  *)
LEMMA OneBand ==
  ASSUME NEW b \in Band, NEW k \in DOMAIN b
  PROVE  BandOf(b[k]) = b
  BY DistAssumption DEF BandOf, ToSet

(* No activity and no object is taken for another.                         *)
LEMMA Shapes ==
  /\ Audio \notin Encode /\ Audio \notin Package
  /\ Encode \cap Package = {}
  /\ \A r, i : Chunk(r, i) # Audio /\ Chunk(r, i)[1] = r
  BY DEF Audio, Encode, Package, Chunk

LEMMA EncodeShape ==
  ASSUME NEW a \in Encode
  PROVE  /\ a[2] \in Band /\ a[3] \in 0 .. Widest(a[2]) - 1
         /\ a = <<"enc", a[2], a[3]>>
  BY DEF Encode

LEMMA OutputsOfEncode ==
  ASSUME NEW a \in Encode
  PROVE  /\ DOMAIN a[2] = 1 .. Len(a[2]) /\ Len(a[2]) \in Nat \ {0}
         /\ DOMAIN Outputs(a) = DOMAIN a[2]
         /\ Len(Outputs(a)) = Len(a[2])
         /\ \A k \in DOMAIN a[2] : Outputs(a)[k] = Chunk(a[2][k], a[3])
  <1>1. a[2] \in Band /\ a[2] \in Seq(ToSet(a[2])) /\ Len(a[2]) > 0
    BY EncodeShape, DistAssumption
  <1>2. Outputs(a) = [k \in DOMAIN a[2] |-> Chunk(a[2][k], a[3])]
    BY Shapes DEF Outputs
  <1>3. DOMAIN a[2] = 1 .. Len(a[2]) /\ Len(a[2]) \in Nat \ {0}
    BY <1>1
  <1>4. DOMAIN Outputs(a) = 1 .. Len(a[2])
    BY <1>2, <1>3
  <1>5. Outputs(a) \in Seq(Range(Outputs(a)))
    BY <1>2, <1>3 DEF Range
  <1>6. Len(Outputs(a)) = Len(a[2])
    BY <1>4, <1>5, <1>3
  <1> QED BY <1>2, <1>3, <1>4, <1>6

LEMMA OutputsOfAudio ==
  /\ Outputs(Audio) = <<Audio>> /\ DOMAIN Outputs(Audio) = {1} /\ Len(Outputs(Audio)) = 1
  /\ Outputs(Audio)[1] = Audio
  <1>1. Outputs(Audio) = <<Audio>>
    BY Shapes DEF Outputs
  <1> QED BY <1>1

(* An activity of the encode puts objects of the encode, and as they       *)
(* should be.                                                              *)
LEMMA OutputsAreDue ==
  ASSUME NEW g \in Grids, NEW a \in Encoding(g), NEW k \in DOMAIN Outputs(a)
  PROVE  /\ Outputs(a)[k] \in Due(g) \cap Object
         /\ Content(a, g) = Made(Outputs(a)[k], g)
         /\ Content(a, g) \in Nat \ {0}
         /\ DOMAIN Outputs(a) = 1 .. Len(Outputs(a)) /\ Len(Outputs(a)) \in Nat \ {0}
  <1>1. CASE a = Audio
    BY <1>1, OutputsOfAudio, Shapes DEF Due, Object, Content, Made
  <1>2. CASE a \in Enc(g)
    <2>1. a \in Encode /\ a[3] < g[a[2]]
      BY <1>2 DEF Enc
    <2>2. a[2] \in Band /\ a[3] \in 0 .. Widest(a[2]) - 1 /\ k \in DOMAIN a[2]
      BY <2>1, EncodeShape, OutputsOfEncode
    <2>3. Outputs(a)[k] = Chunk(a[2][k], a[3])
      BY <2>1, <2>2, OutputsOfEncode
    <2>4. g[a[2]] \in Nat \ {0} /\ Widest(a[2]) \in Nat
      BY <2>2, WidestBounds
    <2>5. a[3] \in 0 .. g[a[2]] - 1
      BY <2>1, <2>2, <2>4
    <2>6. Outputs(a)[k] \in Due(g)
      BY <2>2, <2>3, <2>5 DEF Due
    <2>7. Outputs(a)[k] \in Object
      BY <2>2, <2>3 DEF Object, ChunksOf
    <2>8. Content(a, g) = g[a[2]]
      BY <2>1 DEF Content
    <2>9. Made(Outputs(a)[k], g) = g[a[2]]
      BY <2>2, <2>3, OneBand, Shapes DEF Made
    <2> QED BY <2>1, <2>2, <2>4, <2>6, <2>7, <2>8, <2>9, OutputsOfEncode
  <1> QED BY <1>1, <1>2 DEF Encoding

(* Staging that fits stays so when an attempt of the encode puts more.     *)
LEMMA PutFits ==
  ASSUME NEW g \in Grids, NEW a \in Encoding(g), NEW n, NEW puts,
         store \in [Object -> Nat], done \in [Object -> Nat],
         Fits(store, g), Fits(done, g), Put(a, g, n, puts)
  PROVE  /\ store' \in [Object -> Nat] /\ done' \in [Object -> Nat]
         /\ Fits(store', g) /\ Fits(done', g)
         /\ \A o \in Object : store[o] # Nothing => store'[o] = store[o]
         /\ \A o \in Object : done[o] # Nothing => done'[o] = done[o]
  <1> DEFINE wrote(o, k) == Outputs(a)[k] = o /\ 2 * k - 1 \in puts
             marked(o, k) == Outputs(a)[k] = o /\ 2 * k \in puts
  <1>1. /\ store' = [o \in Object |->
              IF \E k \in DOMAIN Outputs(a) : wrote(o, k) THEN Content(a, g) ELSE store[o]]
        /\ done' = [o \in Object |->
              IF \E k \in DOMAIN Outputs(a) : marked(o, k) THEN Content(a, g) ELSE done[o]]
    BY DEF Put
  <1>2. \A o \in Object :
          (\E k \in DOMAIN Outputs(a) : wrote(o, k) \/ marked(o, k)) =>
            o \in Due(g) /\ Content(a, g) = Made(o, g) /\ Content(a, g) \in Nat \ {0}
    BY OutputsAreDue
  <1> HIDE DEF wrote, marked
  <1>3. \A o \in Object :
          /\ (store'[o] = Made(o, g) /\ o \in Due(g) /\ store'[o] \in Nat) \/ store'[o] = store[o]
          /\ (done'[o] = Made(o, g) /\ o \in Due(g) /\ done'[o] \in Nat) \/ done'[o] = done[o]
    BY <1>1, <1>2
  <1> QED BY <1>1, <1>3 DEF Fits

(* A whole attempt leaves all its outputs there.                           *)
LEMMA PutAll ==
  ASSUME NEW g \in Grids, NEW a \in Encoding(g), NEW n, Put(a, g, n, 1 .. AllPuts(a))
  PROVE  AllThere(a, g)'
  <1>1. /\ store' = [o \in Object |->
              IF \E k \in DOMAIN Outputs(a) : Outputs(a)[k] = o /\ 2 * k - 1 \in 1 .. AllPuts(a)
              THEN Content(a, g) ELSE store[o]]
        /\ done' = [o \in Object |->
              IF \E k \in DOMAIN Outputs(a) : Outputs(a)[k] = o /\ 2 * k \in 1 .. AllPuts(a)
              THEN Content(a, g) ELSE done[o]]
    BY DEF Put
  <1>2. ASSUME NEW k \in DOMAIN Outputs(a)
        PROVE  /\ store'[Outputs(a)[k]] = Content(a, g)
               /\ done'[Outputs(a)[k]] = Content(a, g)
    <2>1. k \in 1 .. Len(Outputs(a)) /\ Len(Outputs(a)) \in Nat /\ Outputs(a)[k] \in Object
      BY OutputsAreDue
    <2>2. 2 * k - 1 \in 1 .. AllPuts(a) /\ 2 * k \in 1 .. AllPuts(a)
      BY <2>1 DEF AllPuts
    <2> QED BY <1>1, <2>1, <2>2
  <1> QED BY <1>2 DEF AllThere

(* What is all there stays so while the staging only grows.                *)
LEMMA AllThereStays ==
  ASSUME NEW g \in Grids, NEW a \in Encoding(g), AllThere(a, g),
         \A o \in Object : store[o] # Nothing => store'[o] = store[o],
         \A o \in Object : done[o] # Nothing => done'[o] = done[o]
  PROVE  AllThere(a, g)'
  <1>1. ASSUME NEW k \in DOMAIN Outputs(a)
        PROVE  /\ store'[Outputs(a)[k]] = Content(a, g)
               /\ done'[Outputs(a)[k]] = store'[Outputs(a)[k]]
    <2>1. Outputs(a)[k] \in Object /\ Content(a, g) # Nothing
      BY OutputsAreDue DEF Nothing
    <2>2. store[Outputs(a)[k]] = Content(a, g) /\ done[Outputs(a)[k]] = Content(a, g)
      BY DEF AllThere
    <2> QED BY <2>1, <2>2
  <1> QED BY <1>1 DEF AllThere

(* When all the activities of an encode left their outputs, and nothing    *)
(* else is in the staging, packaging joins what it needs; it finds it      *)
(* unless an object is at odds with its .done.                             *)
LEMMA PackagesWhole ==
  ASSUME NEW g \in Grids, NEW c \in Codec,
         store \in [Object -> Nat], done \in [Object -> Nat], fetched \in [Object -> Nat],
         Fits(store, g), Fits(fetched, g),
         \A a \in Encoding(g) : AllThere(a, g)
  PROVE  /\ (\A o \in Inputs(c) : ~AtOdds(o)) => Packable(c)
         /\ ~AtOdds(Audio) => Joined(c) = "whole"
  <1>1. ASSUME NEW b \in Band, NEW k \in DOMAIN b
        PROVE  /\ Listed(b[k]) = 0 .. g[b] - 1 /\ Wanted(b[k]) = 0 .. g[b] - 1
               /\ \A i \in 0 .. g[b] - 1 :
                    /\ AtOdds(Chunk(b[k], i)) \/ Complete(Chunk(b[k], i))
                    /\ Read(Chunk(b[k], i)) = g[b]
               /\ \A i \in Indices(b[k]) : Chunk(b[k], i) \in ChunksOf(b)
               /\ Wanted(b[k]) \subseteq Indices(b[k])
               /\ g[b] \in Nat \ {0}
    <2>1. Widest(b) \in Nat /\ g[b] \in Nat \ {0} /\ g[b] <= Widest(b)
      BY WidestBounds
    <2>2. Indices(b[k]) = 0 .. Widest(b) - 1
      BY OneBand DEF Indices, BandOf
    <2>3. \A i \in Indices(b[k]) : Chunk(b[k], i) \in Object /\ Made(Chunk(b[k], i), g) = g[b]
      BY <2>2, OneBand, Shapes DEF Object, ChunksOf, Made
    <2>4. ASSUME NEW i \in 0 .. g[b] - 1
          PROVE  store[Chunk(b[k], i)] = g[b] /\ done[Chunk(b[k], i)] = g[b]
      <3> DEFINE a == <<"enc", b, i>>
      <3>1. a \in Encode /\ a[2] = b /\ a[3] = i
        BY <2>1 DEF Encode
      <3>2. a \in Enc(g)
        BY <2>1, <3>1 DEF Enc
      <3>3. AllThere(a, g)
        BY <3>2 DEF Encoding
      <3>4. Content(a, g) = g[b]
        BY <3>1 DEF Content
      <3> HIDE DEF a
      <3>5. k \in DOMAIN Outputs(a) /\ Outputs(a)[k] = Chunk(b[k], i)
        BY <3>1, OutputsOfEncode
      <3> QED BY <3>3, <3>4, <3>5 DEF AllThere
    <2>5. ASSUME NEW i \in Indices(b[k]), Staged(Chunk(b[k], i))
          PROVE  i \in 0 .. g[b] - 1
      <3>1. Chunk(b[k], i) \in Due(g)
        BY <2>3, <2>5 DEF Fits, Staged
      <3>2. PICK d \in Band :
              \E j \in DOMAIN d, n \in 0 .. g[d] - 1 : Chunk(b[k], i) = Chunk(d[j], n)
        BY <3>1, Shapes DEF Due
      <3>3. PICK j \in DOMAIN d : b[k] = d[j] /\ i \in 0 .. g[d] - 1
        BY <3>2 DEF Chunk
      <3>4. b = d
        BY <3>3, OneBand
      <3> QED BY <3>3, <3>4
    <2>6. 0 .. g[b] - 1 \subseteq Indices(b[k])
      BY <2>1, <2>2
    <2>7. Listed(b[k]) = 0 .. g[b] - 1
      BY <2>1, <2>4, <2>5, <2>6 DEF Listed, Staged, Nothing
    <2>8. Wanted(b[k]) = 0 .. g[b] - 1
      <3>1. \A i \in Indices(b[k]) : (\E last \in 0 .. g[b] - 1 : i <= last) <=> i \in 0 .. g[b] - 1
        BY <2>1, <2>2
      <3> QED BY <2>6, <2>7, <3>1 DEF Wanted
    <2>9. ASSUME NEW i \in 0 .. g[b] - 1
          PROVE  /\ AtOdds(Chunk(b[k], i)) \/ Complete(Chunk(b[k], i))
                 /\ Read(Chunk(b[k], i)) = g[b]
      <3>1. AtOdds(Chunk(b[k], i)) \/ Complete(Chunk(b[k], i))
        BY <2>1, <2>4 DEF AtOdds, Staged, Nothing
      <3>2. CASE Prefetched(Chunk(b[k], i))
        BY <3>1, <3>2, <2>3, <2>6 DEF Prefetched, Fits, Read
      <3>3. CASE ~Prefetched(Chunk(b[k], i))
        BY <3>1, <3>3, <2>4 DEF Read
      <3> QED BY <3>1, <3>2, <3>3
    <2>10. \A i \in Indices(b[k]) : Chunk(b[k], i) \in ChunksOf(b)
      BY <2>2 DEF ChunksOf
    <2> QED BY <2>1, <2>6, <2>7, <2>8, <2>9, <2>10
  <1>2. \A rung \in RungsOf(c) : \E b \in Band : CodecOf[b] = c /\ \E k \in DOMAIN b : rung = b[k]
    BY DEF RungsOf, ToSet
  <1>3. \E rung \in RungsOf(c) : Listed(rung) # {}
    <2>1. PICK b \in Band : CodecOf[b] = c
      BY DEF Codec
    <2>2. 1 \in DOMAIN b
      BY DistAssumption
    <2>3. b[1] \in RungsOf(c)
      BY <2>1, <2>2 DEF RungsOf, ToSet
    <2>4. 0 \in Listed(b[1])
      BY <1>1, <2>2
    <2> QED BY <2>3, <2>4
  <1>4. ASSUME \A o \in Inputs(c) : ~AtOdds(o) PROVE Packable(c)
    <2>1. ASSUME NEW rung \in RungsOf(c), NEW i \in Wanted(rung)
          PROVE  Complete(Chunk(rung, i))
      <3>1. PICK b \in Band : CodecOf[b] = c /\ \E k \in DOMAIN b : rung = b[k]
        BY <1>2
      <3>2. PICK k \in DOMAIN b : rung = b[k]
        BY <3>1
      <3>3. i \in 0 .. g[b] - 1 /\ Chunk(rung, i) \in ChunksOf(b)
        BY <1>1, <2>1, <3>2
      <3>4. Chunk(rung, i) \in Inputs(c)
        BY <3>1, <3>3 DEF Inputs
      <3>5. AtOdds(Chunk(rung, i)) \/ Complete(Chunk(rung, i))
        BY <1>1, <3>2, <3>3
      <3> QED BY <1>4, <3>4, <3>5
    <2> QED BY <1>3, <2>1 DEF Packable
  <1>5. ASSUME ~AtOdds(Audio) PROVE Complete(Audio)
    <2>1. AllThere(Audio, g) /\ Content(Audio, g) # Nothing
      BY Shapes DEF Encoding, Content, Nothing
    <2>2. store[Audio] # Nothing /\ done[Audio] = store[Audio]
      BY <2>1, OutputsOfAudio DEF AllThere
    <2> QED BY <1>5, <2>2 DEF AtOdds, Staged
  <1>6. ASSUME NEW rung \in RungsOf(c)
        PROVE  /\ Wanted(rung) # {}
               /\ \A i \in Wanted(rung) : Read(Chunk(rung, i)) = Cardinality(Wanted(rung))
    <2>0. PICK b \in Band : \E k \in DOMAIN b : rung = b[k]
      BY <1>2
    <2>1. PICK k \in DOMAIN b : rung = b[k]
      BY <2>0
    <2>2. g[b] \in Nat \ {0} /\ Wanted(rung) = 0 .. g[b] - 1
      BY <1>1, <2>1
    <2>3. Cardinality(0 .. g[b] - 1) = g[b]
      BY <2>2, FS_Interval
    <2>4. 0 \in 0 .. g[b] - 1
      BY <2>2
    <2> QED BY <1>1, <2>1, <2>2, <2>3, <2>4
  <1> QED BY <1>4, <1>5, <1>6 DEF Joined

-----------------------------------------------------------------------------
(* The inductive invariant, as long as no cause is on record.              *)

Attending == orch \in {"waiting", "guarding", "packaging"}

Typed ==
  /\ plan \in Grids
  /\ act \in [Act -> {"waiting", "running", "done"}]
  /\ store \in [Object -> Nat] /\ done \in [Object -> Nat] /\ fetched \in [Object -> Nat]
  /\ outs \in [Codec -> {"none", "whole", "wrong"}]
  /\ delivered \in [Codec -> {"none", "whole", "wrong", "nothing"}]

(* Every attempt, also one that no longer counts, encodes on one grid.     *)
OnePlan ==
  /\ wfplan = plan
  /\ ghosts \subseteq [act : Encoding(plan), plan : {plan}, puts : Nat, size : Nat]

AllFit == Fits(store, plan) /\ Fits(done, plan) /\ Fits(fetched, plan)

(* Packaging begins when all encodes are done, and only in a worker's plan.*)
InOrder ==
  \A a \in Act : act[a] # "waiting" =>
    /\ a \in Encode => a \in Enc(plan)
    /\ a \in Package => ~hosted /\ \A e \in Encoding(plan) : act[e] = "done"

(* While an orchestrator attends, what is done is in the staging.          *)
WholeOnceDone ==
  Attending =>
    /\ \A a \in Encoding(plan) : act[a] = "done" \/ a \in reusing => AllThere(a, plan)
    /\ \A c \in Codec : act[<<"pkg", c>>] = "done" => outs[c] = "whole"

ClosedWhenDone ==
  wf = "completed" => Running = {} /\ \A a \in Planned : act[a] = "done"

(* The orchestrator knows the result that the workflow had.                *)
OutcomeIsTrue ==
  /\ outcome \in {"none", "result", "failed", "cancelled"}
  /\ orch \in {"planning", "starting", "waiting"} => outcome = "none"
  /\ orch = "packaging" => outcome = "result"
  /\ orch \in {"guarding", "packaging"} /\ outcome = "result" => wf = "completed"
  /\ ~(orch = "failed" /\ outcome = "result")

DeliveredSoFar ==
  /\ orch \notin Gone => \A c \in Codec : delivered[c] \in {"none", "whole"}
  /\ orch = "done" => \A c \in Codec : delivered[c] = "whole"

Sound ==
  /\ Typed /\ OnePlan /\ AllFit /\ InOrder /\ WholeOnceDone
  /\ ClosedWhenDone /\ OutcomeIsTrue /\ DeliveredSoFar

SoundWithoutCause == cause = "none" => Sound

LEMMA EmptyFits == Empty \in [Object -> Nat] /\ \A g : Fits(Empty, g)
  BY DEF Empty, Fits, Nothing

LEMMA InitSound == Init => SoundWithoutCause
  <1> SUFFICES ASSUME Init PROVE Sound
    BY DEF SoundWithoutCause
  <1>1. Typed
    BY EmptyFits DEF Init, Typed
  <1>2. OnePlan /\ AllFit
    BY EmptyFits DEF Init, OnePlan, AllFit
  <1>3. InOrder /\ WholeOnceDone /\ ClosedWhenDone
    BY DEF Init, InOrder, WholeOnceDone, ClosedWhenDone, Attending
  <1>4. OutcomeIsTrue /\ DeliveredSoFar
    BY DEF Init, OutcomeIsTrue, DeliveredSoFar, Gone
  <1> QED BY <1>1, <1>2, <1>3, <1>4 DEF Sound

(* A step of the orchestrator alone.                                       *)
LEMMA OrchestratorMoves ==
  ASSUME Sound,
         UNCHANGED <<hosted, plan, wfplan, act, reusing, ghosts, store, done, outs>>,
         UNCHANGED <<fetched, delivered>>,
         Attending' => Attending, wf' = "completed" => wf = "completed",
         OutcomeIsTrue', DeliveredSoFar'
  PROVE  Sound'
  <1>1. Typed' /\ OnePlan' /\ AllFit' /\ InOrder'
    BY DEF Sound, Typed, OnePlan, AllFit, Fits, InOrder
  <1>2. WholeOnceDone'
    BY DEF Sound, WholeOnceDone, AllThere
  <1>3. ClosedWhenDone'
    BY DEF Sound, ClosedWhenDone, Running, Planned
  <1> QED BY <1>1, <1>2, <1>3 DEF Sound

(* A step of the workflow, of an attempt or of the engine.                 *)
LEMMA EngineMoves ==
  ASSUME Sound, UNCHANGED client, Typed', OnePlan',
         Fits(store, plan)', Fits(done, plan)',
         InOrder', WholeOnceDone', ClosedWhenDone',
         wf = "completed" => wf' = "completed"
  PROVE  Sound'
  <1>1. AllFit'
    BY DEF Sound, AllFit, Fits, client
  <1>2. OutcomeIsTrue' /\ DeliveredSoFar'
    BY DEF Sound, OutcomeIsTrue, DeliveredSoFar, client
  <1> QED BY <1>1, <1>2 DEF Sound

(* An activity that began, and does not package, is one of the encode.     *)
LEMMA BegunIsEncoding ==
  ASSUME InOrder, NEW a \in Act \ Package, act[a] # "waiting"
  PROVE  a \in Encoding(plan)
  BY DEF InOrder, Act, Encoding

(* No workflow that completed has an attempt.                              *)
LEMMA RunningIsOpen ==
  ASSUME Sound, NEW a \in Running
  PROVE  wf # "completed" /\ a \in Act /\ act[a] = "running"
  BY DEF Sound, ClosedWhenDone, Running

(* What an attempt that ends its activity leaves of the invariant.         *)
LEMMA CompletedKeeps ==
  ASSUME Sound, NEW a \in Running, Completed(a)
  PROVE  /\ act' \in [Act -> {"waiting", "running", "done"}]
         /\ act'[a] = "done" /\ \A b \in Act \ {a} : act'[b] = act[b]
         /\ OnePlan' /\ InOrder' /\ ClosedWhenDone'
  <1>1. wf # "completed" /\ a \in Act /\ act[a] = "running"
    BY RunningIsOpen
  <1>2. /\ act' \in [Act -> {"waiting", "running", "done"}]
        /\ act'[a] = "done" /\ \A b \in Act \ {a} : act'[b] = act[b]
    BY <1>1 DEF Completed, Sound, Typed
  <1>3. OnePlan'
    BY DEF Sound, OnePlan, Completed, client
  <1>4. InOrder'
    <2>1. plan' = plan /\ hosted' = hosted
      BY DEF Completed, client
    <2>2. Encoding(plan) \subseteq Act
      BY DEF Encoding, Enc, Act
    <2>3. \A b \in Act : act'[b] # "waiting" => act[b] # "waiting"
      BY <1>1, <1>2
    <2>4. \A b \in Act : act[b] = "done" => act'[b] = "done"
      BY <1>1, <1>2
    <2> QED BY <2>1, <2>2, <2>3, <2>4 DEF Sound, InOrder
  <1>5. ClosedWhenDone'
    BY <1>1 DEF ClosedWhenDone, Completed
  <1> QED BY <1>2, <1>3, <1>4, <1>5

(* What becomes of an attempt that failed: its activity waits again, or    *)
(* the workflow is closed.                                                 *)
LEMMA GhostsOfOnePlan ==
  ASSUME Sound, UNCHANGED <<plan, wfplan>>, NEW S \in SUBSET (Running \ Package),
         ghosts' = ghosts \cup {Ghost(x) : x \in S}
  PROVE  OnePlan'
  <1>1. \A x \in S : Ghost(x) \in [act : Encoding(plan), plan : {plan}, puts : Nat, size : Nat]
    <2>1. TAKE x \in S
    <2>2. x \in Encoding(plan)
      BY BegunIsEncoding DEF Running, Sound
    <2> QED BY <2>2 DEF Ghost, Sound, OnePlan, Nothing
  <1> QED BY <1>1 DEF Sound, OnePlan

LEMMA CloseKeeps ==
  ASSUME Sound, NEW status \in {"failed", "cancelled"}, NEW ended,
         Close(status, ended), UNCHANGED <<client, wfplan>>
  PROVE  /\ act' = [a \in Act |-> "waiting"] /\ reusing' = {}
         /\ OnePlan' /\ InOrder' /\ ClosedWhenDone'
  <1>1. act' = [a \in Act |-> "waiting"] /\ reusing' = {} /\ wf' # "completed"
    BY DEF Close
  <1>2. OnePlan'
    BY GhostsOfOnePlan DEF Close, client
  <1> QED BY <1>1, <1>2 DEF InOrder, ClosedWhenDone

LEMMA AgainKeeps ==
  ASSUME Sound, NEW a \in Running, NEW ended, Again(a, ended), UNCHANGED <<client, wfplan>>
  PROVE  /\ act' \in [Act -> {"waiting", "running", "done"}]
         /\ \A b \in Act : act'[b] = "done" => act[b] = "done"
         /\ reusing' \subseteq reusing
         /\ OnePlan' /\ InOrder' /\ ClosedWhenDone'
  <1>1. wf # "completed" /\ a \in Act /\ act[a] = "running"
    BY RunningIsOpen
  <1>2. CASE failures'[a] < MaxAttempts
    <2>1. /\ act' = [act EXCEPT ![a] = "waiting"]
          /\ ghosts' = ghosts \cup {Ghost(x) : x \in {a} \ (Package \cup reusing \cup ended)}
          /\ wf' = wf /\ reusing' = reusing
      BY <1>2 DEF Again
    <2>2. /\ act' \in [Act -> {"waiting", "running", "done"}]
          /\ act'[a] = "waiting" /\ \A b \in Act \ {a} : act'[b] = act[b]
      BY <1>1, <2>1 DEF Sound, Typed
    <2>3. OnePlan'
      BY <2>1, GhostsOfOnePlan DEF client
    <2>4. InOrder'
      <3>1. plan' = plan /\ hosted' = hosted
        BY DEF client
      <3>2. Encoding(plan) \subseteq Act
        BY DEF Encoding, Enc, Act
      <3>3. \A b \in Act : act'[b] # "waiting" => b # a /\ act[b] # "waiting"
        BY <1>1, <2>2
      <3>4. \A b \in Act : act[b] = "done" => act'[b] = "done"
        BY <1>1, <2>2
      <3> QED BY <3>1, <3>2, <3>3, <3>4 DEF Sound, InOrder
    <2>5. ClosedWhenDone'
      BY <1>1, <2>1 DEF ClosedWhenDone
    <2> QED BY <1>1, <2>1, <2>2, <2>3, <2>4, <2>5
  <1>3. CASE ~(failures'[a] < MaxAttempts)
    <2>1. Close("failed", ended)
      BY <1>3 DEF Again
    <2> QED BY <2>1, CloseKeeps
  <1> QED BY <1>2, <1>3

(* An attempt that fails, or no longer counts, puts what fits.             *)
LEMMA PutsKeepWhole ==
  ASSUME Sound, NEW a \in Encoding(plan), NEW n, NEW puts, Put(a, plan, n, puts), UNCHANGED plan
  PROVE  /\ store' \in [Object -> Nat] /\ done' \in [Object -> Nat]
         /\ Fits(store, plan)' /\ Fits(done, plan)' /\ outs' = outs
         /\ \A b \in Encoding(plan) : AllThere(b, plan) => AllThere(b, plan)'
  <1>1. /\ plan \in Grids /\ store \in [Object -> Nat] /\ done \in [Object -> Nat]
        /\ Fits(store, plan) /\ Fits(done, plan)
    BY DEF Sound, Typed, AllFit
  <1> DEFINE g == plan
  <1>2. /\ store' \in [Object -> Nat] /\ done' \in [Object -> Nat]
        /\ Fits(store', plan) /\ Fits(done', plan)
        /\ \A o \in Object : store[o] # Nothing => store'[o] = store[o]
        /\ \A o \in Object : done[o] # Nothing => done'[o] = done[o]
    BY <1>1, PutFits
  <1>3. Fits(store, plan)' /\ Fits(done, plan)'
    BY <1>2 DEF Fits
  <1>4. ASSUME NEW b \in Encoding(plan), AllThere(b, plan) PROVE AllThere(b, plan)'
    <2>1. ASSUME NEW h, h = plan PROVE AllThere(b, h)'
      BY <1>1, <1>2, <1>4, <2>1, AllThereStays
    <2>2. PICK h : h = plan
      OBVIOUS
    <2> QED BY <2>1, <2>2 DEF AllThere
  <1> QED BY <1>2, <1>3, <1>4 DEF Put

(* An attempt begins: its output, if it is there, is all there.            *)
LEMMA StartKeeps ==
  ASSUME Sound, cause = "none", cause' = "none", NEW a \in Act, Start(a)
  PROVE  Sound'
  <1>1. /\ act' = [act EXCEPT ![a] = "running"] /\ act[a] = "waiting" /\ Ready(a)
        /\ UNCHANGED <<wf, wfplan, ghosts, client, staging>> /\ wf = "running"
    BY DEF Start
  <1>2. plan' = plan /\ hosted' = hosted /\ orch' = orch /\ wfplan = plan
    BY <1>1 DEF client, Sound, OnePlan
  <1>3. /\ act' \in [Act -> {"waiting", "running", "done"}]
        /\ act'[a] = "running" /\ \A b \in Act \ {a} : act'[b] = act[b]
    BY <1>1 DEF Sound, Typed
  <1>4. store' = store /\ done' = done /\ outs' = outs /\ fetched' = fetched /\ delivered' = delivered
    BY <1>1 DEF staging, client
  <1>5. Typed' /\ OnePlan' /\ Fits(store, plan)' /\ Fits(done, plan)'
    BY <1>1, <1>2, <1>3, <1>4 DEF Sound, Typed, OnePlan, AllFit, Fits
  <1>6. Encoding(plan) \subseteq Act /\ Encoding(plan) \cap Package = {}
    BY Shapes DEF Encoding, Enc, Act
  <1>7. InOrder'
    <2>1. \A b \in Act : act[b] = "done" => act'[b] = "done"
      BY <1>1, <1>3
    <2>2. ASSUME NEW b \in Act, act'[b] # "waiting"
          PROVE  /\ b \in Encode => b \in Enc(plan)
                 /\ b \in Package => ~hosted /\ \A e \in Encoding(plan) : act[e] = "done"
      <3>1. CASE b = a
        BY <3>1, <1>1, <1>2, Shapes DEF Ready, Encoding
      <3>2. CASE b # a
        BY <3>2, <2>2, <1>3 DEF Sound, InOrder
      <3> QED BY <3>1, <3>2
    <2> QED BY <1>2, <1>6, <2>1, <2>2 DEF InOrder
  <1>8. WholeOnceDone'
    <2>1. ASSUME NEW b \in Encoding(plan), Attending, act'[b] = "done" \/ b \in reusing'
          PROVE  AllThere(b, plan)
      <3>1. CASE b = a /\ b \in reusing'
        <4>1. a \notin Package /\ Reusable(a)
          BY <3>1 DEF Start
        <4>2. AllThere(a, wfplan)
          BY <4>1 DEF Start, Blame
        <4> QED BY <3>1, <4>2, <1>2
      <3>2. CASE b # a \/ b \notin reusing'
        <4>1. act[b] = "done" \/ b \in reusing
          BY <2>1, <3>2, <1>3, <1>6 DEF Start
        <4> QED BY <4>1, <2>1 DEF Sound, WholeOnceDone
      <3> QED BY <3>1, <3>2
    <2>2. ASSUME NEW c \in Codec, Attending, act'[<<"pkg", c>>] = "done" PROVE outs[c] = "whole"
      <3>1. <<"pkg", c>> \in Act
        BY DEF Act, Package
      <3>2. act[<<"pkg", c>>] = "done"
        BY <2>2, <3>1, <1>3
      <3> QED BY <3>2, <2>2 DEF Sound, WholeOnceDone
    <2> QED BY <1>2, <1>4, <2>1, <2>2 DEF WholeOnceDone, Attending, AllThere
  <1>9. ClosedWhenDone'
    BY <1>1 DEF ClosedWhenDone
  <1> QED BY <1>1, <1>5, <1>7, <1>8, <1>9, EngineMoves

LEMMA SucceedKeeps ==
  ASSUME Sound, NEW a \in Act, Succeed(a)
  PROVE  Sound'
  <1>1. a \in Running \ Package /\ Completed(a)
    BY DEF Succeed
  <1>2. /\ act' \in [Act -> {"waiting", "running", "done"}]
        /\ act'[a] = "done" /\ \A b \in Act \ {a} : act'[b] = act[b]
        /\ OnePlan' /\ InOrder' /\ ClosedWhenDone'
    BY <1>1, CompletedKeeps
  <1>3. UNCHANGED client /\ reusing' = reusing \ {a} /\ wf' = wf
    BY <1>1 DEF Completed
  <1>4. a \in Encoding(plan) /\ plan \in Grids
    BY <1>1, BegunIsEncoding DEF Running, Sound, Typed
  <1>5. plan' = plan /\ wfplan = plan /\ orch' = orch
    BY <1>3 DEF client, Sound, OnePlan
  <1>6. /\ store' \in [Object -> Nat] /\ done' \in [Object -> Nat]
        /\ Fits(store, plan)' /\ Fits(done, plan)' /\ outs' = outs
        /\ \A b \in Encoding(plan) : AllThere(b, plan) => AllThere(b, plan)'
        /\ Attending => AllThere(a, plan)'
    <2>1. CASE a \in reusing
      <3>1. UNCHANGED staging
        BY <2>1 DEF Succeed
      <3> QED BY <2>1, <3>1, <1>4, <1>5
              DEF Sound, Typed, AllFit, Fits, WholeOnceDone, AllThere, staging
    <2>2. CASE a \notin reusing
      <3>1. PICK n \in Size : Put(a, plan, n, 1 .. AllPuts(a))
        BY <2>2, <1>5 DEF Succeed
      <3>2. AllThere(a, plan)'
        <4>1. ASSUME NEW h, h = plan PROVE AllThere(a, h)'
          BY <1>4, <3>1, <4>1, PutAll
        <4>2. PICK h : h = plan
          OBVIOUS
        <4> QED BY <4>1, <4>2, <1>5 DEF AllThere
      <3> QED BY <3>1, <3>2, <1>4, <1>5, PutsKeepWhole
    <2> QED BY <2>1, <2>2
  <1>7. Typed'
    BY <1>2, <1>3, <1>6 DEF Sound, Typed, client
  <1>8. WholeOnceDone'
    <2>1. ASSUME Attending, NEW b \in Encoding(plan), act'[b] = "done" \/ b \in reusing'
          PROVE  AllThere(b, plan)'
      <3>1. CASE b = a
        BY <2>1, <3>1, <1>6
      <3>2. CASE b # a
        <4>1. b \in Act
          BY DEF Encoding, Enc, Act
        <4>2. act[b] = "done" \/ b \in reusing
          BY <2>1, <3>2, <4>1, <1>2, <1>3
        <4> QED BY <4>2, <2>1, <1>6 DEF Sound, WholeOnceDone
      <3> QED BY <3>1, <3>2
    <2>2. ASSUME Attending, NEW c \in Codec, act'[<<"pkg", c>>] = "done" PROVE outs[c] = "whole"
      <3>1. <<"pkg", c>> \in Act /\ <<"pkg", c>> # a
        BY <1>1 DEF Act, Package
      <3>2. act[<<"pkg", c>>] = "done"
        BY <2>2, <3>1, <1>2
      <3> QED BY <3>2, <2>2 DEF Sound, WholeOnceDone
    <2> QED BY <2>1, <2>2, <1>5, <1>6 DEF WholeOnceDone, Attending
  <1> QED BY <1>2, <1>3, <1>6, <1>7, <1>8, EngineMoves

(* A worker packages when all encodes are done, and so finds all.          *)
LEMMA PackageInWorkerKeeps ==
  ASSUME Sound, cause = "none", cause' = "none", NEW a \in Act, PackageInWorker(a)
  PROVE  Sound'
  <1>1. /\ a \in Running /\ a \in Package /\ Completed(a)
        /\ outs' = [outs EXCEPT ![a[2]] = Joined(a[2])]
        /\ UNCHANGED <<store, done>> /\ ~AtOdds(Audio)
    BY DEF PackageInWorker, Blame
  <1>2. /\ act' \in [Act -> {"waiting", "running", "done"}]
        /\ act'[a] = "done" /\ \A b \in Act \ {a} : act'[b] = act[b]
        /\ OnePlan' /\ InOrder' /\ ClosedWhenDone'
    BY <1>1, CompletedKeeps
  <1>3. UNCHANGED client /\ reusing' = reusing \ {a} /\ wf' = wf
    BY <1>1 DEF Completed
  <1>4. plan' = plan /\ orch' = orch
    BY <1>3 DEF client
  <1>5. PICK d \in Codec : a = <<"pkg", d>>
    BY <1>1 DEF Package
  <1>6. \A e \in Encoding(plan) : act[e] = "done"
    BY <1>1 DEF Running, Sound, InOrder
  <1>7. Joined(d) \in {"whole", "wrong"} /\ (Attending => Joined(d) = "whole")
    <2>1. Joined(d) \in {"whole", "wrong"}
      BY DEF Joined
    <2>2. ASSUME Attending PROVE Joined(d) = "whole"
      <3>1. \A e \in Encoding(plan) : AllThere(e, plan)
        BY <2>2, <1>6 DEF Sound, WholeOnceDone
      <3> QED BY <1>1, <3>1, PackagesWhole DEF Sound, Typed, AllFit
    <2> QED BY <2>1, <2>2
  <1>8. outs' \in [Codec -> {"none", "whole", "wrong"}]
        /\ outs'[d] = Joined(d) /\ \A c \in Codec \ {d} : outs'[c] = outs[c]
    BY <1>1, <1>5, <1>7 DEF Sound, Typed
  <1>9. Typed' /\ Fits(store, plan)' /\ Fits(done, plan)'
    BY <1>1, <1>2, <1>3, <1>8 DEF Sound, Typed, AllFit, Fits, client
  <1>10. WholeOnceDone'
    <2>1. ASSUME Attending, NEW b \in Encoding(plan), act'[b] = "done" \/ b \in reusing'
          PROVE  AllThere(b, plan)
      BY <2>1, <1>6 DEF Sound, WholeOnceDone
    <2>2. ASSUME Attending, NEW c \in Codec, act'[<<"pkg", c>>] = "done" PROVE outs'[c] = "whole"
      <3>1. CASE c = d
        BY <2>2, <3>1, <1>7, <1>8
      <3>2. CASE c # d
        <4>1. <<"pkg", c>> \in Act /\ <<"pkg", c>> # a
          BY <1>5, <3>2 DEF Act, Package
        <4>2. act[<<"pkg", c>>] = "done"
          BY <2>2, <4>1, <1>2
        <4> QED BY <2>2, <3>2, <4>2, <1>8 DEF Sound, WholeOnceDone
      <3> QED BY <3>1, <3>2
    <2> QED BY <2>1, <2>2, <1>1, <1>4 DEF WholeOnceDone, Attending, AllThere
  <1> QED BY <1>2, <1>3, <1>9, <1>10, EngineMoves

(* An attempt that fails may have put some of its outputs.                 *)
LEMMA FailureKeeps ==
  ASSUME Sound, NEW a \in Running, NEW ended, Again(a, ended), UNCHANGED <<client, wfplan>>,
         \/ UNCHANGED staging
         \/ a \notin Package /\ \E n \in Size, last \in 0 .. AllPuts(a) : Put(a, wfplan, n, 1 .. last)
  PROVE  Sound'
  <1>1. /\ act' \in [Act -> {"waiting", "running", "done"}]
        /\ \A b \in Act : act'[b] = "done" => act[b] = "done"
        /\ reusing' \subseteq reusing
        /\ OnePlan' /\ InOrder' /\ ClosedWhenDone'
    BY AgainKeeps
  <1>2. plan' = plan /\ wfplan = plan /\ orch' = orch
    BY DEF client, Sound, OnePlan
  <1>3. /\ store' \in [Object -> Nat] /\ done' \in [Object -> Nat]
        /\ Fits(store, plan)' /\ Fits(done, plan)' /\ outs' = outs
        /\ \A b \in Encoding(plan) : AllThere(b, plan) => AllThere(b, plan)'
    <2>1. CASE UNCHANGED staging
      BY <2>1, <1>2 DEF Sound, Typed, AllFit, Fits, AllThere, staging
    <2>2. CASE a \notin Package /\ \E n \in Size, last \in 0 .. AllPuts(a) : Put(a, wfplan, n, 1 .. last)
      <3>1. a \in Encoding(plan)
        BY <2>2, BegunIsEncoding DEF Running, Sound
      <3>2. PICK n \in Size, last \in 0 .. AllPuts(a) : Put(a, plan, n, 1 .. last)
        BY <2>2, <1>2
      <3> QED BY <3>1, <3>2, <1>2, PutsKeepWhole
    <2> QED BY <2>1, <2>2
  <1>4. Typed'
    BY <1>1, <1>3 DEF Sound, Typed, client
  <1>5. WholeOnceDone'
    <2>1. Encoding(plan) \subseteq Act /\ \A c \in Codec : <<"pkg", c>> \in Act
      BY DEF Encoding, Enc, Act, Package
    <2>2. \A b \in Encoding(plan) : act'[b] = "done" \/ b \in reusing' =>
            act[b] = "done" \/ b \in reusing
      BY <1>1, <2>1
    <2>3. \A c \in Codec : act'[<<"pkg", c>>] = "done" => act[<<"pkg", c>>] = "done"
      BY <1>1, <2>1
    <2> QED BY <1>2, <1>3, <2>2, <2>3 DEF Sound, WholeOnceDone, Attending
  <1>6. wf # "completed"
    BY RunningIsOpen
  <1> QED BY <1>1, <1>3, <1>4, <1>5, <1>6, EngineMoves

LEMMA FinishKeeps ==
  ASSUME Sound, Finish
  PROVE  Sound'
  <1>1. /\ wf' = "completed" /\ \A a \in Planned : act[a] = "done"
        /\ UNCHANGED <<wfplan, act, reusing, ghosts, client, staging>>
    BY DEF Finish
  <1>2. Typed' /\ OnePlan' /\ Fits(store, plan)' /\ Fits(done, plan)' /\ InOrder' /\ WholeOnceDone'
    BY <1>1 DEF Sound, Typed, OnePlan, AllFit, Fits, InOrder, WholeOnceDone, Attending, AllThere,
                client, staging
  <1>3. ClosedWhenDone'
    <2>1. \A a \in Act : act[a] # "waiting" => a \in Planned
      <3>1. TAKE a \in Act
      <3>2. CASE a \in Package
        BY <3>2 DEF Sound, InOrder, Planned
      <3>3. CASE a \notin Package
        BY <3>3, BegunIsEncoding DEF Sound, OnePlan, Encoding, Planned
      <3> QED BY <3>2, <3>3
    <2>2. Running = {}
      BY <1>1, <2>1 DEF Running
    <2> QED BY <1>1, <2>2 DEF ClosedWhenDone, Running, Planned, client
  <1> QED BY <1>1, <1>2, <1>3, EngineMoves

LEMMA CancelledKeeps ==
  ASSUME Sound, Cancelled
  PROVE  Sound'
  <1>1. Close("cancelled", {}) /\ UNCHANGED <<wfplan, client, staging>> /\ wf = "cancelling"
    BY DEF Cancelled
  <1>2. /\ act' = [a \in Act |-> "waiting"] /\ reusing' = {}
        /\ OnePlan' /\ InOrder' /\ ClosedWhenDone'
    BY <1>1, CloseKeeps
  <1>3. Typed' /\ Fits(store, plan)' /\ Fits(done, plan)'
    BY <1>1, <1>2 DEF Sound, Typed, AllFit, Fits, client, staging
  <1>4. WholeOnceDone'
    <2>1. Encoding(plan') \subseteq Act /\ \A c \in Codec : <<"pkg", c>> \in Act
      BY DEF Encoding, Enc, Act, Package
    <2> QED BY <1>2, <2>1 DEF WholeOnceDone
  <1> QED BY <1>1, <1>2, <1>3, <1>4, EngineMoves

LEMMA GhostKeeps ==
  ASSUME Sound, NEW x \in ghosts, GhostUploads(x) \/ GhostEnds(x)
  PROVE  Sound'
  <1>1. UNCHANGED <<wf, wfplan, act, reusing, client>>
    BY DEF GhostUploads, GhostEnds
  <1>2. x \in [act : Encoding(plan), plan : {plan}, puts : Nat, size : Nat]
    BY DEF Sound, OnePlan
  <1>3. plan' = plan /\ hosted' = hosted /\ orch' = orch
    BY <1>1 DEF client
  <1>4. OnePlan'
    <2>1. \/ ghosts' \subseteq ghosts
          \/ \E n \in LateSize \cup {x.size} :
               ghosts' \subseteq ghosts \cup {Further(x, n)}
      BY DEF GhostUploads, GhostEnds
    <2>2. ASSUME NEW n \in LateSize \cup {x.size}
          PROVE  Further(x, n)
                   \in [act : Encoding(plan), plan : {plan}, puts : Nat, size : Nat]
      <3>1. n \in Nat
        BY <1>2, <2>2, DistAssumption
      <3> QED BY <1>2, <3>1 DEF Further
    <2> QED BY <1>1, <1>3, <2>1, <2>2 DEF Sound, OnePlan
  <1>5. /\ store' \in [Object -> Nat] /\ done' \in [Object -> Nat]
        /\ Fits(store, plan)' /\ Fits(done, plan)' /\ outs' = outs
        /\ \A b \in Encoding(plan) : AllThere(b, plan) => AllThere(b, plan)'
    <2>1. CASE GhostUploads(x)
      <3>1. x.act \in Encoding(plan) /\ \E n : Put(x.act, plan, n, {x.puts + 1})
        BY <2>1, <1>2 DEF GhostUploads
      <3> QED BY <3>1, <1>3, PutsKeepWhole
    <2>2. CASE GhostEnds(x)
      BY <2>2, <1>3 DEF GhostEnds, Sound, Typed, AllFit, Fits, AllThere, staging
    <2> QED BY <2>1, <2>2
  <1>6. Typed'
    BY <1>1, <1>5 DEF Sound, Typed, client
  <1>7. InOrder' /\ ClosedWhenDone'
    BY <1>1, <1>3 DEF Sound, InOrder, ClosedWhenDone, Running, Planned
  <1>8. WholeOnceDone'
    BY <1>1, <1>3, <1>5 DEF Sound, WholeOnceDone, Attending
  <1> QED BY <1>1, <1>4, <1>5, <1>6, <1>7, <1>8, EngineMoves

LEMMA EngineKeepsSound ==
  ASSUME Sound, cause = "none", cause' = "none",
         \/ \E a \in Act : Start(a) \/ Succeed(a) \/ PackageInWorker(a)
         \/ \E a \in Act : AttemptFails(a) \/ Silence(a)
         \/ Finish \/ Cancelled
         \/ \E x \in ghosts : GhostUploads(x) \/ GhostEnds(x)
  PROVE  Sound'
  <1>1. ASSUME NEW a \in Act, AttemptFails(a) PROVE Sound'
    <2>1. /\ a \in Running /\ Again(a, {a}) /\ UNCHANGED <<client, wfplan>>
          /\ \/ UNCHANGED staging
             \/ a \notin Package /\ \E n \in Size, last \in 0 .. AllPuts(a) : Put(a, wfplan, n, 1 .. last)
      BY <1>1 DEF AttemptFails
    <2> QED BY <2>1, FailureKeeps
  <1>2. ASSUME NEW a \in Act, Silence(a) PROVE Sound'
    <2>1. a \in Running /\ Again(a, {}) /\ UNCHANGED <<client, wfplan, staging>>
      BY <1>2 DEF Silence
    <2> QED BY <2>1, FailureKeeps
  <1> QED BY <1>1, <1>2, StartKeeps, SucceedKeeps, PackageInWorkerKeeps, FinishKeeps,
             CancelledKeeps, GhostKeeps

(* Up to the start of the workflow, and when the orchestrator is killed.   *)
LEMMA PreparingKeeps ==
  ASSUME Sound, ReuseMezzanine \/ BuildMezzanine \/ BuildFails \/ Kill
  PROVE  Sound'
  <1>1. UNCHANGED <<hosted, plan, wfplan, act, reusing, ghosts, store, done, outs>>
        /\ UNCHANGED <<fetched, delivered, wf, outcome>>
    BY DEF ReuseMezzanine, BuildMezzanine, BuildFails, Kill, engine, staging
  <1>2. \/ orch = "planning" /\ orch' \in {"starting", "failed"}
        \/ orch \notin Gone /\ orch' = "killed"
    BY DEF ReuseMezzanine, BuildMezzanine, BuildFails, Kill
  <1>3. ~Attending' /\ OutcomeIsTrue' /\ DeliveredSoFar'
    BY <1>1, <1>2 DEF Sound, Attending, OutcomeIsTrue, DeliveredSoFar, Gone
  <1> QED BY <1>1, <1>3, OrchestratorMoves

LEMMA StartWorkflowKeeps ==
  ASSUME Sound, StartWorkflow
  PROVE  Sound'
  <1>1. orch = "starting" /\ UNCHANGED <<hosted, outcome, plan, fetched, delivered, staging>>
    BY DEF StartWorkflow
  <1>2. CASE wf \in {"running", "cancelling"}
    <2>1. orch' = "failed" /\ UNCHANGED engine
      BY <1>2 DEF StartWorkflow
    <2>2. ~Attending' /\ OutcomeIsTrue' /\ DeliveredSoFar'
      BY <1>1, <2>1 DEF Sound, Attending, OutcomeIsTrue, DeliveredSoFar, Gone
    <2> QED BY <1>1, <2>1, <2>2, OrchestratorMoves DEF engine, staging
  <1>3. CASE wf \notin {"running", "cancelling"}
    <2>1. /\ orch' = "waiting" /\ wf' = "running" /\ wfplan' = plan
          /\ act' = [a \in Act |-> "waiting"] /\ reusing' = {} /\ ghosts' = ghosts
      BY <1>3 DEF StartWorkflow
    <2>2. Typed' /\ OnePlan' /\ AllFit' /\ InOrder'
      BY <1>1, <2>1 DEF Sound, Typed, OnePlan, AllFit, Fits, InOrder, staging
    <2>3. WholeOnceDone'
      <3>1. Encoding(plan') \subseteq Act /\ \A c \in Codec : <<"pkg", c>> \in Act
        BY DEF Encoding, Enc, Act, Package
      <3> QED BY <2>1, <3>1 DEF WholeOnceDone
    <2>4. ClosedWhenDone' /\ OutcomeIsTrue' /\ DeliveredSoFar'
      BY <1>1, <2>1 DEF Sound, ClosedWhenDone, OutcomeIsTrue, DeliveredSoFar, Gone
    <2> QED BY <2>2, <2>3, <2>4 DEF Sound
  <1> QED BY <1>2, <1>3

(* The end of the wait, and the guard.                                     *)
LEMMA LeavingKeeps ==
  ASSUME Sound, Result \/ Cancel \/ LoopRaises \/ Guard
  PROVE  Sound'
  <1>1. UNCHANGED <<hosted, plan, wfplan, act, reusing, ghosts, store, done, outs>>
        /\ UNCHANGED <<fetched, delivered>>
    BY DEF Result, Cancel, LoopRaises, Guard, Leave, engine, staging
  <1>2. Attending /\ orch \notin Gone
    BY DEF Result, Cancel, LoopRaises, Guard, Leave, Attending, Gone
  <1>3. wf' = wf \/ (wf' = "cancelling" /\ wf = "running")
    BY DEF Result, Cancel, LoopRaises, Guard, Guarded, engine
  <1>4. \/ /\ orch = "waiting" /\ orch' = "guarding"
           /\ outcome' \in {"failed", "cancelled"} \/ (outcome' = "result" /\ wf' = "completed")
        \/ /\ orch = "guarding" /\ outcome' = outcome
           /\ orch' = IF outcome = "result" THEN "packaging" ELSE outcome
    BY DEF Result, Cancel, LoopRaises, Guard, Leave, After, engine
  <1>5. OutcomeIsTrue'
    BY <1>3, <1>4 DEF Sound, OutcomeIsTrue
  <1>6. DeliveredSoFar'
    BY <1>1, <1>2, <1>4 DEF Sound, DeliveredSoFar, OutcomeIsTrue
  <1> QED BY <1>1, <1>2, <1>3, <1>5, <1>6, OrchestratorMoves

LEMMA PrefetchKeeps ==
  ASSUME Sound, NEW a \in Encode, Prefetch(a)
  PROVE  Sound'
  <1>1. fetched' = [fetched EXCEPT ![Outputs(a)[1]] = store[Outputs(a)[1]]]
    BY DEF Prefetch
  <1>2. UNCHANGED <<hosted, plan, wfplan, act, reusing, ghosts, store, done, outs>>
        /\ UNCHANGED <<delivered, wf, orch, outcome>>
    BY DEF Prefetch, engine, staging
  <1>3. fetched' \in [Object -> Nat] /\ Fits(fetched', plan)
    <2>1. \A o \in Object : fetched'[o] = fetched[o] \/ fetched'[o] = store[o]
      BY <1>1 DEF Sound, Typed
    <2> QED BY <1>1, <2>1 DEF Sound, Typed, AllFit, Fits
  <1>4. Typed' /\ OnePlan' /\ AllFit' /\ InOrder'
    BY <1>2, <1>3 DEF Sound, Typed, OnePlan, AllFit, Fits, InOrder
  <1>5. WholeOnceDone'
    BY <1>2 DEF Sound, WholeOnceDone, Attending, AllThere
  <1>6. ClosedWhenDone' /\ OutcomeIsTrue' /\ DeliveredSoFar'
    BY <1>2 DEF Sound, ClosedWhenDone, Running, Planned, OutcomeIsTrue, DeliveredSoFar
  <1> QED BY <1>4, <1>5, <1>6 DEF Sound

(* When the orchestrator packages, the workflow left all it needs.         *)
LEMMA AllIsThere ==
  ASSUME Sound, orch = "packaging", NEW c \in Codec
  PROVE  /\ (\A o \in Inputs(c) : ~AtOdds(o)) => Packable(c) /\ Joined(c) = "whole"
         /\ ~hosted => outs[c] = "whole"
  <1>1. Attending /\ wf = "completed"
    BY DEF Sound, OutcomeIsTrue, Attending
  <1>2. \A a \in Planned : act[a] = "done"
    BY <1>1 DEF Sound, ClosedWhenDone
  <1>3. \A a \in Encoding(plan) : AllThere(a, plan)
    BY <1>1, <1>2 DEF Sound, OnePlan, WholeOnceDone, Encoding, Planned
  <1>4. ~hosted => outs[c] = "whole"
    BY <1>1, <1>2 DEF Sound, WholeOnceDone, Planned, Package
  <1>5. Audio \in Inputs(c)
    BY DEF Inputs
  <1> QED BY <1>3, <1>4, <1>5, PackagesWhole DEF Sound, Typed, AllFit

LEMMA PackagingKeeps ==
  ASSUME Sound, cause = "none", cause' = "none", NEW c \in Codec, PackageOnHost(c) \/ Download(c)
  PROVE  Sound'
  <1>1. /\ orch = "packaging" /\ (~hosted => outs[c] = "whole")
        /\ PackageOnHost(c) => Packable(c) /\ Joined(c) = "whole"
    BY AllIsThere DEF PackageOnHost, Download, Blame
  <1>2. /\ delivered' = [delivered EXCEPT ![c] = "whole"] /\ orch' = orch
        /\ UNCHANGED <<hosted, plan, wfplan, act, reusing, ghosts, store, done, outs, wf, outcome>>
    BY <1>1 DEF PackageOnHost, Download, engine, staging
  <1>3. fetched' \in [Object -> Nat] /\ \A o \in Object : fetched'[o] \in {Nothing, fetched[o]}
    <2>1. CASE Download(c)
      BY <2>1 DEF Download, Sound, Typed
    <2>2. CASE PackageOnHost(c)
      <3>1. fetched' = [o \in Object |->
              IF \E rung \in RungsOf(c) : o[1] = rung THEN Nothing ELSE fetched[o]]
        BY <2>2 DEF PackageOnHost
      <3> QED BY <3>1 DEF Sound, Typed, Nothing
    <2> QED BY <2>1, <2>2
  <1>4. AllFit'
    BY <1>2, <1>3 DEF Sound, AllFit, Fits
  <1>5. Typed' /\ OnePlan' /\ InOrder'
    BY <1>2, <1>3 DEF Sound, Typed, OnePlan, InOrder
  <1>6. WholeOnceDone'
    BY <1>2 DEF Sound, WholeOnceDone, Attending, AllThere
  <1>7. ClosedWhenDone' /\ OutcomeIsTrue'
    BY <1>2 DEF Sound, ClosedWhenDone, Running, Planned, OutcomeIsTrue
  <1>8. DeliveredSoFar'
    BY <1>1, <1>2 DEF Sound, Typed, DeliveredSoFar, Gone
  <1> QED BY <1>4, <1>5, <1>6, <1>7, <1>8 DEF Sound

(* The staging is emptied when nobody attends any more.                    *)
LEMMA EmptyingKeeps ==
  ASSUME Sound, UNCHANGED <<engine, hosted, plan, fetched, delivered, outcome>>,
         orch' \in Gone, OutcomeIsTrue', DeliveredSoFar',
         \/ UNCHANGED staging
         \/ store' = Empty /\ done' = Empty /\ outs' = [c \in Codec |-> "none"]
  PROVE  Sound'
  <1>1. Typed' /\ AllFit'
    <2>1. CASE UNCHANGED staging
      BY <2>1 DEF Sound, Typed, AllFit, Fits, engine, staging
    <2>2. CASE store' = Empty /\ done' = Empty /\ outs' = [c \in Codec |-> "none"]
      <3>1. Typed'
        BY <2>2, EmptyFits DEF Sound, Typed, engine
      <3>2. Fits(store, plan)' /\ Fits(done, plan)'
        BY <2>2 DEF Fits, Empty, Nothing
      <3>3. Fits(fetched, plan)'
        BY DEF Sound, AllFit, Fits
      <3> QED BY <3>1, <3>2, <3>3 DEF AllFit
    <2> QED BY <2>1, <2>2
  <1>2. OnePlan' /\ InOrder'
    BY DEF Sound, OnePlan, InOrder, engine
  <1>3. WholeOnceDone' /\ ClosedWhenDone'
    BY DEF Sound, WholeOnceDone, Attending, Gone, ClosedWhenDone, Running, Planned, engine
  <1> QED BY <1>1, <1>2, <1>3 DEF Sound

LEMMA OthersKeepSound ==
  ASSUME Sound, cause = "none", cause' = "none",
         Reclaim \/ Resume \/ SweepLists \/ SweepDeletes
  PROVE  Sound'
  <1>1. CASE Reclaim
    <2>1. /\ orch = "packaging" /\ orch' = "done" /\ Undelivered = {}
          /\ UNCHANGED <<engine, hosted, plan, fetched, delivered, outcome>>
          /\ \/ UNCHANGED staging
             \/ store' = Empty /\ done' = Empty /\ outs' = [c \in Codec |-> "none"]
      BY <1>1 DEF Reclaim
    <2>2. OutcomeIsTrue' /\ DeliveredSoFar' /\ orch' \in Gone
      BY <2>1 DEF Sound, OutcomeIsTrue, DeliveredSoFar, Gone, Undelivered, engine
    <2> QED BY <2>1, <2>2, EmptyingKeeps
  <1>2. CASE Resume
    <2>1. /\ plan' = plan /\ orch' = "planning" /\ outcome' = "none"
          /\ fetched' = Empty /\ delivered' = [c \in Codec |-> "none"]
          /\ UNCHANGED <<hosted, engine, staging>>
      BY <1>2 DEF Resume, Blame
    <2>2. Typed' /\ OnePlan' /\ AllFit' /\ InOrder'
      BY <2>1, EmptyFits
         DEF Sound, Typed, OnePlan, AllFit, Fits, InOrder, engine, staging, Empty, Nothing
    <2>3. WholeOnceDone' /\ ClosedWhenDone'
      BY <2>1 DEF Sound, WholeOnceDone, Attending, ClosedWhenDone, Running, Planned, engine
    <2>4. OutcomeIsTrue' /\ DeliveredSoFar'
      BY <2>1 DEF OutcomeIsTrue, DeliveredSoFar
    <2> QED BY <2>2, <2>3, <2>4 DEF Sound
  <1>3. CASE SweepLists
    <2>1. UNCHANGED <<engine, client, staging>>
      BY <1>3 DEF SweepLists
    <2>2. OutcomeIsTrue' /\ DeliveredSoFar'
      BY <2>1 DEF Sound, OutcomeIsTrue, DeliveredSoFar, engine, client
    <2>3. Attending' => Attending
      BY <2>1 DEF Attending, client
    <2> QED BY <2>1, <2>2, <2>3, OrchestratorMoves DEF engine, client, staging
  <1>4. CASE SweepDeletes
    <2>1. /\ UNCHANGED <<engine, client>> /\ orch \in Gone
          /\ store' = Empty /\ done' = Empty /\ outs' = [c \in Codec |-> "none"]
      BY <1>4 DEF SweepDeletes, Blame
    <2>2. OutcomeIsTrue' /\ DeliveredSoFar'
      BY <2>1 DEF Sound, OutcomeIsTrue, DeliveredSoFar, engine, client
    <2> QED BY <2>1, <2>2, EmptyingKeeps DEF client
  <1> QED BY <1>1, <1>2, <1>3, <1>4

(* A cause on record is never taken back.                                  *)
LEMMA CauseStays ==
  ASSUME Next, cause' = "none"
  PROVE  cause = "none"
  <1> DEFINE Keeps == cause' = cause \/ \E what \in {"reuse", "plan", "sweep", "rival"} : Blame(what)
  <1>0. SUFFICES Keeps
    BY DEF Blame
  <1>1. ASSUME NEW a \in Act, Start(a) \/ Succeed(a) \/ PackageInWorker(a) PROVE Keeps
    BY <1>1 DEF Start, Succeed, PackageInWorker, Completed, history
  <1>2. ASSUME NEW a \in Act, AttemptFails(a) \/ Silence(a) PROVE Keeps
    BY <1>2 DEF AttemptFails, Silence, history
  <1>3. ASSUME NEW x \in ghosts, GhostUploads(x) \/ GhostEnds(x) PROVE Keeps
    BY <1>3 DEF GhostUploads, GhostEnds, history
  <1>4. ASSUME NEW c \in Codec, PackageOnHost(c) \/ Download(c) PROVE Keeps
    BY <1>4 DEF PackageOnHost, Download, history
  <1>5. ASSUME NEW a \in Encode, Prefetch(a) PROVE Keeps
    BY <1>5 DEF Prefetch, history
  <1>6. CASE Finish \/ Cancelled \/ SweepLists \/ SweepDeletes
    BY <1>6 DEF Finish, Cancelled, SweepLists, SweepDeletes, history
  <1>7. CASE ReuseMezzanine \/ BuildMezzanine \/ BuildFails \/ StartWorkflow \/ Kill
    BY <1>7 DEF ReuseMezzanine, BuildMezzanine, BuildFails, StartWorkflow, Kill, history
  <1>8. CASE Result \/ Cancel \/ LoopRaises \/ Guard \/ Reclaim \/ Resume
    BY <1>8 DEF Result, Cancel, LoopRaises, Guard, Reclaim, Resume, history
  <1> QED BY <1>1, <1>2, <1>3, <1>4, <1>5, <1>6, <1>7, <1>8 DEF Next

LEMMA NextSound == SoundWithoutCause /\ [Next]_vars => SoundWithoutCause'
  <1> SUFFICES ASSUME SoundWithoutCause, [Next]_vars, cause' = "none" PROVE Sound'
    BY DEF SoundWithoutCause
  <1>1. CASE UNCHANGED vars
    <2>1. Sound /\ UNCHANGED <<engine, client, staging>>
      BY <1>1 DEF SoundWithoutCause, vars, history
    <2>2. OutcomeIsTrue' /\ DeliveredSoFar' /\ (Attending' => Attending)
      BY <2>1 DEF Sound, OutcomeIsTrue, DeliveredSoFar, Attending, engine, client
    <2> QED BY <2>1, <2>2, OrchestratorMoves DEF engine, client, staging
  <1>2. CASE Next
    <2>1. Sound /\ cause = "none"
      BY <1>2, CauseStays DEF SoundWithoutCause
    <2> QED BY <1>2, <2>1, EngineKeepsSound, PreparingKeeps, StartWorkflowKeeps, LeavingKeeps,
               PrefetchKeeps, PackagingKeeps, OthersKeepSound DEF Next
  <1> QED BY <1>1, <1>2

(* An orchestrator that reports success delivered every codec whole, or    *)
(* one of the four causes is on record (run_temporal's exit code 0).      *)
THEOREM SuccessIsWhole == Spec => []DeliversWhole
  <1>1. SoundWithoutCause => DeliversWhole
    BY DEF SoundWithoutCause, Sound, DeliveredSoFar, DeliversWhole
  <1> QED BY InitSound, NextSound, <1>1, PTL DEF Spec

(* Whatever was retried, reclaimed, cancelled or fetched ahead, packaging  *)
(* after a completed workflow fails for one of the four causes only.       *)
THEOREM PackagingFindsAll == Spec => []PackagingFailsForCause
  <1>1. SoundWithoutCause => PackagingFailsForCause
    BY DEF SoundWithoutCause, Sound, OutcomeIsTrue, PackagingFailsForCause
  <1> QED BY InitSound, NextSound, <1>1, PTL DEF Spec

-----------------------------------------------------------------------------
(* The orphan guard.                                                       *)

(* LeavesNoOrphan speaks of the moment the orchestrator has left; what is  *)
(* inductive says who attends the workflow at every moment before: it runs *)
(* only while an orchestrator waits for it or is in the guard, unless some *)
(* earlier run abandoned it.                                               *)
Attended ==
  wf = "running" /\ ~abandoned => orch \in {"waiting", "guarding"}

(* Init starts no workflow.                                                *)
LEMMA InitAttended == Init => Attended
  BY DEF Init, Attended

(* After a failed attempt the workflow goes on as it was, or is closed.    *)
LEMMA AgainNeverStarts ==
  ASSUME NEW a, NEW ended, Again(a, ended)
  PROVE  wf' = wf \/ wf' = "failed"
  <1>1. CASE failures'[a] < MaxAttempts
    BY <1>1 DEF Again
  <1>2. CASE ~(failures'[a] < MaxAttempts)
    BY <1>2 DEF Again, Close
  <1> QED BY <1>1, <1>2

(* What workers and the engine do leaves the orchestrator where it is and  *)
(* starts no workflow.                                                     *)
LEMMA WorkersKeepAttended ==
  ASSUME Attended,
         \/ \E a \in Act : Start(a) \/ Succeed(a) \/ PackageInWorker(a)
         \/ \E a \in Act : AttemptFails(a) \/ Silence(a)
         \/ Finish \/ Cancelled
         \/ \E x \in ghosts : GhostUploads(x) \/ GhostEnds(x)
  PROVE  Attended'
  <1> DEFINE Quiet == /\ orch' = orch /\ abandoned' = abandoned
                      /\ wf' = "running" => wf = "running"
  <1>0. SUFFICES Quiet
    BY DEF Attended
  <1>1. ASSUME NEW a \in Act, Start(a) PROVE Quiet
    BY <1>1 DEF Start, client
  <1>2. ASSUME NEW a \in Act, Succeed(a) PROVE Quiet
    BY <1>2 DEF Succeed, Completed, client, history
  <1>3. ASSUME NEW a \in Act, PackageInWorker(a) PROVE Quiet
    BY <1>3 DEF PackageInWorker, Completed, client, history
  <1>4. ASSUME NEW a \in Act, AttemptFails(a) PROVE Quiet
    <2>1. Again(a, {a}) /\ UNCHANGED <<client, history>>
      BY <1>4 DEF AttemptFails
    <2> QED BY <2>1, AgainNeverStarts DEF client, history
  <1>5. ASSUME NEW a \in Act, Silence(a) PROVE Quiet
    <2>1. Again(a, {}) /\ UNCHANGED <<client, history>>
      BY <1>5 DEF Silence
    <2> QED BY <2>1, AgainNeverStarts DEF client, history
  <1>6. CASE Finish
    BY <1>6 DEF Finish, client, history
  <1>7. CASE Cancelled
    BY <1>7 DEF Cancelled, Close, client, history
  <1>8. ASSUME NEW x \in ghosts, GhostUploads(x) PROVE Quiet
    BY <1>8 DEF GhostUploads, client, history
  <1>9. ASSUME NEW x \in ghosts, GhostEnds(x) PROVE Quiet
    BY <1>9 DEF GhostEnds, client, history
  <1> QED BY <1>1, <1>2, <1>3, <1>4, <1>5, <1>6, <1>7, <1>8, <1>9

(* The sweep, the prefetcher and the steps of the orchestrator that come   *)
(* before its workflow or after the guard find no workflow to attend.      *)
LEMMA OthersKeepAttended ==
  ASSUME Attended,
         \/ ReuseMezzanine \/ BuildMezzanine \/ BuildFails
         \/ Kill \/ Reclaim \/ Resume
         \/ \E c \in Codec : PackageOnHost(c) \/ Download(c)
         \/ \E a \in Encode : Prefetch(a)
         \/ SweepLists \/ SweepDeletes
  PROVE  Attended'
  <1>1. CASE ReuseMezzanine
    BY <1>1 DEF Attended, ReuseMezzanine, engine, history
  <1>2. CASE BuildMezzanine
    BY <1>2 DEF Attended, BuildMezzanine, engine, history
  <1>3. CASE BuildFails
    BY <1>3 DEF Attended, BuildFails, engine, history
  <1>4. CASE Kill
    BY <1>4 DEF Attended, Kill
  <1>5. CASE Reclaim
    BY <1>5 DEF Attended, Reclaim, engine, history
  <1>6. CASE Resume
    BY <1>6 DEF Attended, Resume, engine, Gone
  <1>7. ASSUME NEW c \in Codec, PackageOnHost(c) PROVE Attended'
    BY <1>7 DEF Attended, PackageOnHost, engine, history
  <1>8. ASSUME NEW c \in Codec, Download(c) PROVE Attended'
    BY <1>8 DEF Attended, Download, engine, history
  <1>9. ASSUME NEW a \in Encode, Prefetch(a) PROVE Attended'
    BY <1>9 DEF Attended, Prefetch, engine, history
  <1>10. CASE SweepLists
    BY <1>10 DEF Attended, SweepLists, engine, client, history
  <1>11. CASE SweepDeletes
    BY <1>11 DEF Attended, SweepDeletes, engine, client
  <1> QED BY <1>1, <1>2, <1>3, <1>4, <1>5, <1>6, <1>7, <1>8, <1>9, <1>10, <1>11

(* The orchestrator starts its workflow, and stops waiting for it.         *)
LEMMA WaitKeepsAttended ==
  ASSUME Attended, StartWorkflow \/ Result \/ Cancel \/ LoopRaises \/ Guard
  PROVE  Attended'
  <1>1. CASE StartWorkflow
    <2>1. CASE wf \in {"running", "cancelling"}
      BY <1>1, <2>1 DEF Attended, StartWorkflow, engine, history
    <2>2. CASE wf \notin {"running", "cancelling"}
      BY <1>1, <2>2 DEF Attended, StartWorkflow
    <2> QED BY <2>1, <2>2
  <1>2. CASE Result
    BY <1>2 DEF Attended, Result, Leave
  <1>3. CASE Cancel
    BY <1>3 DEF Attended, Cancel, Leave
  <1>4. CASE LoopRaises
    BY <1>4 DEF Attended, LoopRaises, Leave
  <1>5. CASE Guard
    <2>1. CASE wf' = Guarded(wf)
      BY <2>1 DEF Attended, Guarded
    <2>2. CASE abandoned' = (abandoned \/ wf = "running") /\ wf' = wf
      BY <2>2 DEF Attended
    <2> QED BY <1>5, <2>1, <2>2 DEF Guard
  <1> QED BY <1>1, <1>2, <1>3, <1>4, <1>5

LEMMA NextAttended == Attended /\ [Next]_vars => Attended'
  <1> SUFFICES ASSUME Attended, [Next]_vars PROVE Attended'
    OBVIOUS
  <1>1. CASE UNCHANGED vars
    BY <1>1 DEF Attended, vars, engine, client, history
  <1>2. CASE Next
    BY <1>2, WorkersKeepAttended, OthersKeepAttended, WaitKeepsAttended DEF Next
  <1> QED BY <1>1, <1>2

(* No run of the orchestrator that could still act leaves an orphan: its   *)
(* workflow is over, or is being cancelled (the guard of run_temporal).    *)
THEOREM NoOrphanLeft == Spec => []LeavesNoOrphan
  <1>1. Attended => LeavesNoOrphan
    BY DEF Attended, LeavesNoOrphan, Gone
  <1> QED BY InitAttended, NextAttended, <1>1, PTL DEF Spec
=============================================================================
