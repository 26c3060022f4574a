------------------------------ MODULE HostProofs ------------------------------
(***************************************************************************)
(* What the containers of one machine share: the order that the arrival    *)
(* ranks of their jobs give them, and the cache of large artifacts.        *)
(*                                                                         *)
(* Ranks.  They ascend with the job IDs, for any set of jobs and any cap,  *)
(* as long as jobs reach their first file in order.  That a job's rank is  *)
(* above the ranks of its elders is not inductive: an elder is ranked      *)
(* again at each of its files.  The invariant adds that a rank below the   *)
(* cap is at least the number of active elders, which is what keeps an     *)
(* elder's next rank below it, and that every active elder of a ranked job *)
(* is ranked.                                                              *)
(*                                                                         *)
(* Locks.  While no eviction has unlinked a lock file that a process had   *)
(* open, a lock file is one inode, and whoever writes or reads an artifact *)
(* is alone or finds it whole: for any number of processes and sources,    *)
(* any room and any evictions.                                             *)
(***************************************************************************)
EXTENDS LocalRank, BoxCache, FiniteSetTheorems, TLAPS

LEMMA RankCapped ==
  ASSUME NEW j \in Job, NEW behind \in Behind(j), TypeOK
  PROVE  /\ LocalJobRank(j, behind) \in Rank
         /\ Cardinality(Older(j)) \in Nat
         /\ behind \in Rank \cup {None}
<1>1. IsFiniteSet(Older(j))
  BY FS_Subset, RankAssumption DEF Older
<1>2. Cardinality(Older(j)) \in Nat
  BY <1>1, FS_CardinalityType
<1>3. behind \in Rank \cup {None}
  BY DEF Behind, Older, TypeOK
<1> QED
  BY <1>2, <1>3, RankAssumption
     DEF LocalJobRank, Smaller, Bigger, Rank, None

LEMMA TypePreserved == TypeOK /\ [RankNext]_rankVars => TypeOK'
<1> SUFFICES ASSUME TypeOK, [RankNext]_rankVars PROVE TypeOK'
  OBVIOUS
<1> USE DEF TypeOK
<1>1. ASSUME NEW j \in Job, Submit(j) PROVE TypeOK'
  BY <1>1 DEF Submit, Active
<1>2. ASSUME NEW j \in Job, Start(j) PROVE TypeOK'
  BY <1>2 DEF Start, Active
<1>3. ASSUME NEW j \in Job, EncodeFile(j) PROVE TypeOK'
  <2>1. PICK behind \in Behind(j) :
          /\ distRanks' = [distRanks EXCEPT ![j] = LocalJobRank(j, behind)]
          /\ worker' = [worker EXCEPT ![j] = IF @ = None THEN LocalJobRank(j, behind)
                                                         ELSE @]
    BY <1>3 DEF EncodeFile
  <2>2. LocalJobRank(j, behind) \in Rank
    BY RankCapped
  <2> QED
    BY <1>3, <2>1, <2>2 DEF EncodeFile
<1>4. ASSUME NEW j \in Job, WorkerExits(j) PROVE TypeOK'
  BY <1>4 DEF WorkerExits
<1>5. ASSUME NEW j \in Job, End(j) PROVE TypeOK'
  BY <1>5 DEF End
<1>6. ASSUME NEW j \in Job, Resume(j) PROVE TypeOK'
  <2>1. /\ inOrder' \in BOOLEAN
        /\ resumes' = resumes + 1
        /\ UNCHANGED <<waiting, distRanks, worker, restarts>>
    BY <1>6 DEF Resume
  <2>2. status' \in [Job -> {"absent", "ended"} \cup Active]
    BY <1>6 DEF Resume, Active
  <2> QED
    BY <2>1, <2>2
<1>7. CASE Restart
  BY <1>7 DEF Restart, Active
<1>8. CASE UNCHANGED rankVars
  BY <1>8 DEF rankVars
<1> QED
  BY <1>1, <1>2, <1>3, <1>4, <1>5, <1>6, <1>7, <1>8 DEF RankNext, JobStep

(* Type correctness: above all, no rank exceeds maxLocalJobRank, whatever  *)
(* the number of jobs, so the priority a worker derives from it is legal.  *)
THEOREM TypeCorrect == RankSpec => []TypeOK
<1>1. RankInit => TypeOK
  BY DEF RankInit, TypeOK, Active
<1> QED
  BY <1>1, TypePreserved, PTL DEF RankSpec

-----------------------------------------------------------------------------
Ranked(j) == status[j] \in Active /\ distRanks[j] # None

(* What is true of a job that has a rank and is active.                    *)
Settled(j) ==
  /\ status[j] = "running"
  /\ \A i \in Older(j) : distRanks[i] # None
  /\ \/ distRanks[j] = MaxRank
     \/ /\ Cardinality(Older(j)) <= distRanks[j]
        /\ \A i \in Older(j) : distRanks[i] < distRanks[j]

RInv ==
  /\ TypeOK
  /\ \A j \in waiting : Ranked(j)
  /\ \A j \in Job : status[j] = "absent" => distRanks[j] = None
  /\ \A j \in Job : Ranked(j) => Settled(j)

LEMMA Monotone ==
  ASSUME NEW S, NEW T, IsFiniteSet(T), S \subseteq T
  PROVE  /\ Cardinality(S) \in Nat
         /\ Cardinality(T) \in Nat
         /\ Cardinality(S) <= Cardinality(T)
         /\ S # T => Cardinality(S) < Cardinality(T)
<1>1. IsFiniteSet(S) /\ Cardinality(S) <= Cardinality(T)
  BY FS_Subset
<1>2. Cardinality(S) = Cardinality(T) => S = T
  BY FS_Subset
<1>3. Cardinality(S) \in Nat /\ Cardinality(T) \in Nat
  BY <1>1, FS_CardinalityType
<1> QED
  BY <1>1, <1>2, <1>3

LEMMA Order ==
  \A i, j, k \in Job : /\ i < j /\ j < k => i < k
                      /\ ~(j < j)
                      /\ ~(i < j /\ j < i)
BY RankAssumption

LEMMA OlderFinite == \A j \in Job : IsFiniteSet(Older(j))
BY FS_Subset, RankAssumption DEF Older

(* A step that ranks nobody and gives a ranked job no new elder keeps it   *)
(* settled.                                                                *)
LEMMA StaysSettled ==
  ASSUME RInv, TypeOK', NEW j \in Job, Ranked(j), status'[j] = "running",
         distRanks' = distRanks, Older(j)' \subseteq Older(j)
  PROVE  Settled(j)'
<1>1. Settled(j)
  BY DEF RInv
<1>2. /\ Cardinality(Older(j)') <= Cardinality(Older(j))
      /\ Cardinality(Older(j)') \in Nat
      /\ Cardinality(Older(j)) \in Nat
  BY OlderFinite, Monotone
<1>3. distRanks[j] \in Rank
  BY DEF RInv, TypeOK, Ranked
<1> QED
  BY <1>1, <1>2, <1>3, RankAssumption DEF Settled, Rank

(* The step that matters: j gets a rank above its elders' and, if it had   *)
(* one already, still below those of the younger jobs that are ranked.     *)
LEMMA RankStep ==
  ASSUME RInv, NEW j \in Job, EncodeFile(j), inOrder'
  PROVE  RInv'
<1> DEFINE n == Cardinality(Older(j))
<1>1. TypeOK /\ TypeOK'
  BY TypePreserved DEF RInv, RankNext, JobStep
<1>2. PICK behind \in Behind(j) :
        distRanks' = [distRanks EXCEPT ![j] = LocalJobRank(j, behind)]
  BY DEF EncodeFile
<1>3. /\ LocalJobRank(j, behind) \in Rank
      /\ n \in Nat
      /\ behind \in Rank \cup {None}
  BY <1>1, <1>2, RankCapped
<1>3a. None \notin Rank
  BY RankAssumption DEF Rank, None
<1>4. /\ status' = status
      /\ waiting' = waiting \cup {j}
      /\ status[j] = "running"
      /\ \A i \in Older(j) : distRanks[i] # None
  BY DEF EncodeFile
<1>5. \A i \in Job : Older(i)' = Older(i)
  BY <1>4 DEF Older
<1>6. /\ distRanks'[j] = LocalJobRank(j, behind)
      /\ \A i \in Job : i # j => distRanks'[i] = distRanks[i]
  BY <1>1, <1>2 DEF TypeOK
<1>7. \A i \in Older(j) : i \in Job /\ i # j /\ Ranked(i) /\ status[i] = "running"
                          /\ distRanks[i] \in Rank /\ distRanks[i] <= behind
  <2>1. ASSUME NEW i \in Older(j)
        PROVE  i \in Job /\ i # j /\ Ranked(i)
    BY <1>4, RankAssumption DEF Older, Ranked
  <2>2. ASSUME NEW i \in Older(j)
        PROVE  status[i] = "running" /\ distRanks[i] \in Rank
    BY <1>1, <2>1 DEF RInv, Settled, Ranked, TypeOK
  <2> QED
    BY <2>1, <2>2 DEF Behind
<1>8. Settled(j)'
  <2>1. \A i \in Older(j) : distRanks'[i] # None
    BY <1>4, <1>6, <1>7
  <2>2. CASE LocalJobRank(j, behind) = MaxRank
    BY <1>4, <1>5, <1>6, <2>1, <2>2 DEF Settled
  <2>3. CASE LocalJobRank(j, behind) # MaxRank
    <3>1. n <= LocalJobRank(j, behind) /\ behind < LocalJobRank(j, behind)
      BY <1>3, <2>3, RankAssumption
         DEF LocalJobRank, Smaller, Bigger, Rank, None
    <3>2. \A i \in Older(j) : distRanks'[i] < LocalJobRank(j, behind)
      <4>1. ASSUME NEW i \in Older(j)
            PROVE  distRanks'[i] < LocalJobRank(j, behind)
        <5>1. distRanks'[i] = distRanks[i] /\ distRanks[i] \in Rank
              /\ distRanks[i] <= behind
          BY <1>6, <1>7
        <5> QED
          BY <1>3, <3>1, <5>1, RankAssumption DEF Rank, None
      <4> QED
        BY <4>1
    <3> QED
      BY <1>4, <1>5, <1>6, <2>1, <3>1, <3>2 DEF Settled
  <2> QED
    BY <2>2, <2>3
<1>9. ASSUME NEW k \in Job, k # j, Ranked(k) PROVE Settled(k)'
  <2>1. Settled(k) /\ distRanks[k] \in Rank /\ distRanks'[k] = distRanks[k]
    BY <1>1, <1>6, <1>9 DEF RInv, TypeOK, Ranked
  <2>2. \A i \in Older(k) : i \in Job
    BY DEF Older
  <2>3. \A i \in Older(k) : distRanks'[i] # None
    BY <1>3, <1>3a, <1>6, <2>1, <2>2 DEF Settled
  <2>4. ASSUME distRanks[k] # MaxRank, j \in Older(k)
        PROVE  LocalJobRank(j, behind) < distRanks[k]
    <3>1. Older(j) \subseteq Older(k) /\ Older(j) # Older(k)
      <4>1. j < k /\ j \in Older(k)
        BY <2>4 DEF Older
      <4>2. \A i \in Older(j) : i \in Older(k)
        BY <4>1, Order DEF Older
      <4>3. j \notin Older(j)
        BY Order DEF Older
      <4> QED
        BY <4>1, <4>2, <4>3
    <3>2. n < Cardinality(Older(k)) /\ Cardinality(Older(k)) \in Nat
      BY <3>1, OlderFinite, Monotone
    <3>3. Cardinality(Older(k)) <= distRanks[k]
      BY <2>1, <2>4 DEF Settled
    <3>4. distRanks[j] \in Rank /\ distRanks[j] < distRanks[k]
      BY <1>1, <2>1, <2>4 DEF Settled, TypeOK, Rank
    <3>5. Settled(j)
      BY <1>4, <3>4, RankAssumption DEF RInv, Ranked, Active, Rank, None
    <3>6. \A i \in Older(j) : distRanks[i] < distRanks[j]
      BY <2>1, <3>4, <3>5, RankAssumption DEF Settled, Rank
    <3>7. behind + 1 <= distRanks[j]
      <4>1. CASE behind = None
        BY <3>4, <4>1, RankAssumption DEF Rank, None
      <4>2. CASE behind # None
        <5>1. PICK i \in Older(j) : behind = distRanks[i]
          BY <1>2, <4>2 DEF Behind
        <5> QED
          BY <1>3, <3>4, <3>6, <4>2, <5>1, RankAssumption DEF Rank
      <4> QED
        BY <4>1, <4>2
    <3> QED
      BY <1>3, <2>1, <3>2, <3>3, <3>4, <3>7, RankAssumption
         DEF LocalJobRank, Smaller, Bigger, Rank, None
  <2>5. \/ distRanks[k] = MaxRank
        \/ \A i \in Older(k) : distRanks'[i] < distRanks[k]
    BY <1>6, <2>1, <2>2, <2>4 DEF Settled
  <2> QED
    BY <1>4, <1>5, <2>1, <2>3, <2>5 DEF Settled
<1>10. \A k \in Job : Ranked(k)' => k = j \/ Ranked(k)
  BY <1>4, <1>6 DEF Ranked
<1>11. Ranked(j)'
  BY <1>3, <1>4, <1>6, RankAssumption DEF Ranked, Active, Rank, None
<1>12. \A k \in waiting' : Ranked(k)'
  BY <1>1, <1>4, <1>6, <1>11 DEF RInv, Ranked, TypeOK
<1>13. \A k \in Job : status'[k] = "absent" => distRanks'[k] = None
  BY <1>4, <1>6 DEF RInv
<1> QED
  BY <1>1, <1>8, <1>9, <1>10, <1>12, <1>13 DEF RInv

LEMMA RanksPreserved ==
  ASSUME RInv, [RankNext]_rankVars, inOrder'
  PROVE  RInv'
<1>0. TypeOK /\ TypeOK'
  BY TypePreserved DEF RInv
<1>1. ASSUME NEW k \in Job, Submit(k) PROVE RInv'
  <2>1. distRanks' = distRanks /\ waiting' = waiting /\ status[k] = "absent"
    BY <1>1, RankAssumption DEF Submit
  <2>2. \A j \in Job : Ranked(j) => j < k
    BY <1>1, RankAssumption DEF Submit, Ranked, Active
  <2>3. /\ \A j \in Job : j # k => status'[j] = status[j]
        /\ status'[k] = "queued"
    BY <1>0, <1>1 DEF Submit, TypeOK
  <2>4. ASSUME NEW j \in Job, Ranked(j) PROVE Settled(j)'
    <3>1. Older(j)' \subseteq Older(j)
      BY <2>2, <2>3, <2>4, Order DEF Older
    <3>2. status'[j] = "running"
      BY <2>2, <2>3, <2>4, Order DEF RInv, Settled
    <3> QED
      BY <1>0, <2>1, <2>4, <3>1, <3>2, StaysSettled
  <2>5. \A j \in Job : Ranked(j)' => Ranked(j)
    BY <2>1, <2>3 DEF RInv, Ranked
  <2>6. \A j \in waiting' : Ranked(j)'
    BY <1>0, <2>1, <2>3 DEF RInv, Ranked, Active, TypeOK
  <2> QED
    BY <1>0, <2>1, <2>3, <2>4, <2>5, <2>6 DEF RInv
<1>2. ASSUME NEW k \in Job, Start(k) PROVE RInv'
  <2>1. /\ distRanks' = distRanks
        /\ waiting' = waiting
        /\ \A j \in Job : j # k => status'[j] = status[j]
        /\ status[k] = "queued"
        /\ status'[k] = "running"
    BY <1>0, <1>2 DEF Start, TypeOK
  <2>2. \A j \in Job : /\ Ranked(j)' <=> Ranked(j)
                       /\ Older(j)' = Older(j)
    BY <2>1 DEF Ranked, Older, Active
  <2>3. ASSUME NEW j \in Job, Ranked(j) PROVE Settled(j)'
    <3>1. status'[j] = "running"
      BY <2>1, <2>3 DEF RInv, Settled
    <3> QED
      BY <1>0, <2>1, <2>2, <2>3, <3>1, StaysSettled
  <2>4. \A j \in Job : status'[j] = "absent" => distRanks'[j] = None
    BY <2>1 DEF RInv
  <2> QED
    BY <1>0, <2>1, <2>2, <2>3, <2>4 DEF RInv, TypeOK
<1>3. ASSUME NEW k \in Job, EncodeFile(k) PROVE RInv'
  BY <1>3, RankStep
<1>4. ASSUME NEW k \in Job, WorkerExits(k) PROVE RInv'
  <2>1. distRanks' = distRanks /\ status' = status /\ waiting' \subseteq waiting
    BY <1>4 DEF WorkerExits
  <2> QED
    BY <1>0, <2>1 DEF RInv, Ranked, Settled, Older
<1>5. ASSUME NEW k \in Job, End(k) PROVE RInv'
  <2>1. /\ distRanks' = distRanks
        /\ waiting' = waiting
        /\ k \notin waiting
        /\ \A j \in Job : j # k => status'[j] = status[j]
        /\ status'[k] = "ended"
    BY <1>0, <1>5 DEF End, TypeOK
  <2>2. \A j \in Job : Ranked(j)' <=> j # k /\ Ranked(j)
    BY <2>1 DEF Ranked, Active
  <2>3. ASSUME NEW j \in Job, Ranked(j), j # k PROVE Settled(j)'
    <3>1. Older(j)' \subseteq Older(j)
      BY <2>1 DEF Older, Active
    <3>2. status'[j] = "running"
      BY <2>1, <2>3 DEF RInv, Settled
    <3> QED
      BY <1>0, <2>1, <2>3, <3>1, <3>2, StaysSettled
  <2>4. \A j \in Job : status'[j] = "absent" => distRanks'[j] = None
    BY <2>1 DEF RInv
  <2>5. \A j \in waiting' : Ranked(j)'
    BY <1>0, <2>1, <2>2 DEF RInv, TypeOK
  <2> QED
    BY <1>0, <2>2, <2>3, <2>4, <2>5 DEF RInv
<1>6. ASSUME NEW k \in Job, Resume(k) PROVE RInv'
  BY <1>6 DEF Resume
<1>7. CASE Restart
  <2>1. \A j \in Job : distRanks'[j] = None
    BY <1>7 DEF Restart
  <2>2. waiting' = {}
    BY <1>7 DEF Restart
  <2> QED
    BY <1>0, <2>1, <2>2 DEF RInv, Ranked
<1>8. CASE UNCHANGED rankVars
  BY <1>0, <1>8 DEF rankVars, RInv, Ranked, Settled, Older
<1> QED
  BY <1>1, <1>2, <1>3, <1>4, <1>5, <1>6, <1>7, <1>8 DEF RankNext, JobStep

LEMMA RanksInitially == RankInit => RInv
BY DEF RankInit, RInv, TypeOK, Ranked, Active

(* A restart puts the ranks in order again: there are none.                *)
WhileInOrder == TypeOK /\ (inOrder => RInv)

LEMMA StaysInOrder ==
  ASSUME TypeOK, [RankNext]_rankVars, inOrder', ~Restart
  PROVE  inOrder
BY DEF RankNext, JobStep, Submit, Start, EncodeFile, WorkerExits, End, Resume, rankVars

LEMMA InOrderPreserved == WhileInOrder /\ [RankNext]_rankVars => WhileInOrder'
<1> SUFFICES ASSUME WhileInOrder, [RankNext]_rankVars PROVE WhileInOrder'
  OBVIOUS
<1>1. TypeOK /\ TypeOK'
  BY TypePreserved DEF WhileInOrder
<1>2. CASE ~inOrder'
  BY <1>1, <1>2 DEF WhileInOrder
<1>3. CASE inOrder' /\ Restart
  <2>1. (\A j \in Job : distRanks'[j] = None) /\ waiting' = {}
    BY <1>3 DEF Restart
  <2> QED
    BY <1>1, <2>1 DEF WhileInOrder, RInv, Ranked
<1>4. CASE inOrder' /\ ~Restart
  <2>1. inOrder
    BY <1>1, <1>4, StaysInOrder
  <2> QED
    BY <1>1, <1>4, <2>1, RanksPreserved DEF WhileInOrder
<1> QED
  BY <1>2, <1>3, <1>4

(* The ranks that the server goes by ascend with the job IDs, across any   *)
(* number of restarts, when jobs reach their first file in order.          *)
THEOREM RanksOrdered == RankSpec => []RanksAscend
<1>1. WhileInOrder => RanksAscend
  BY RankAssumption
     DEF WhileInOrder, RInv, RanksAscend, Ranked, Settled, Older, TypeOK
<1>2. RankInit => WhileInOrder
  BY RanksInitially DEF WhileInOrder, RInv
<1> QED
  BY <1>1, <1>2, InOrderPreserved, PTL DEF RankSpec

-----------------------------------------------------------------------------
(* Without a restart, a live worker has its job's present rank.            *)
WInv ==
  /\ RInv
  /\ \A j \in Job : worker[j] # None => j \in waiting /\ worker[j] = distRanks[j]

LEMMA WorkersPreserved ==
  ASSUME WInv, [RankNext]_rankVars, inOrder', restarts' = 0
  PROVE  WInv'
<1>0. TypeOK /\ RInv /\ RInv'
  BY RanksPreserved DEF WInv, RInv
<1>1. ASSUME NEW k \in Job, Submit(k) PROVE WInv'
  BY <1>0, <1>1 DEF Submit, WInv
<1>2. ASSUME NEW k \in Job, Start(k) PROVE WInv'
  BY <1>0, <1>2 DEF Start, WInv
<1>3. ASSUME NEW k \in Job, EncodeFile(k) PROVE WInv'
  <2>1. PICK behind \in Behind(k) :
          /\ distRanks' = [distRanks EXCEPT ![k] = LocalJobRank(k, behind)]
          /\ worker' = [worker EXCEPT ![k] = IF @ = None THEN LocalJobRank(k, behind)
                                                         ELSE @]
    BY <1>3 DEF EncodeFile
  <2>2. k \notin waiting /\ waiting' = waiting \cup {k}
    BY <1>3 DEF EncodeFile
  <2>3. worker[k] = None
    BY <2>2 DEF WInv
  <2> QED
    BY <1>0, <2>1, <2>2, <2>3 DEF WInv, TypeOK
<1>4. ASSUME NEW k \in Job, WorkerExits(k) PROVE WInv'
  BY <1>0, <1>4 DEF WorkerExits, WInv, TypeOK
<1>5. ASSUME NEW k \in Job, End(k) PROVE WInv'
  BY <1>0, <1>5 DEF End, WInv
<1>6. ASSUME NEW k \in Job, Resume(k) PROVE WInv'
  BY <1>6 DEF Resume
<1>7. CASE Restart
  BY <1>0, <1>7 DEF Restart, TypeOK
<1>8. CASE UNCHANGED rankVars
  BY <1>0, <1>8 DEF rankVars, WInv
<1> QED
  BY <1>1, <1>2, <1>3, <1>4, <1>5, <1>6, <1>7, <1>8 DEF RankNext, JobStep

WhileUnrestarted == TypeOK /\ (inOrder /\ restarts = 0 => WInv)

(* All of an older job's chunks outrank a younger job's: of two live       *)
(* workers the younger job's was launched with the higher rank, or with    *)
(* the lowest priority there is.                                           *)
THEOREM OldestFirst == RankSpec => []OlderFirst
<1>1. WhileUnrestarted => OlderFirst
  BY RankAssumption
     DEF WhileUnrestarted, WInv, RInv, OlderFirst, OlderOutranks, Ranked,
         Settled, Older, TypeOK
<1>2. RankInit => WhileUnrestarted
  BY RanksInitially DEF RankInit, WInv, WhileUnrestarted, RInv
<1>3. ASSUME WhileUnrestarted, [RankNext]_rankVars PROVE WhileUnrestarted'
  <2>1. TypeOK /\ TypeOK'
    BY <1>3, TypePreserved DEF WhileUnrestarted
  <2>2. ASSUME inOrder', restarts' = 0 PROVE WInv'
    <3>1. ~Restart
      <4>1. restarts \in Nat
        BY <2>1 DEF TypeOK
      <4> QED
        BY <2>2, <4>1 DEF Restart
    <3>2. restarts = 0
      BY <1>3, <2>2, <3>1 DEF RankNext, JobStep, Submit, Start, EncodeFile,
                              WorkerExits, End, Resume, rankVars
    <3>3. inOrder
      BY <1>3, <2>1, <2>2, <3>1, StaysInOrder
    <3> QED
      BY <1>3, <2>2, <3>2, <3>3, WorkersPreserved DEF WhileUnrestarted
  <2> QED
    BY <2>1, <2>2 DEF WhileUnrestarted
<1> QED
  BY <1>1, <1>2, <1>3, PTL DEF RankSpec

-----------------------------------------------------------------------------
(* The locks of the host cache.                                            *)
Holding == {"locked", "writing", "sealing", "pruning"}

Types ==
  /\ want \in [Process -> Key]
  /\ fd \in [Process -> Inode \cup {NoFile}]
  /\ locked \subseteq Process
  /\ lockfile \in [Key -> Inode \cup {NoFile}]
  /\ DOMAIN pc = Process /\ DOMAIN building = Key /\ DOMAIN writers = Key

(* A process has a lock file open exactly from open() on, and holds its    *)
(* lock where it acts on the artifact; beside a private download it may.   *)
OpenWhere ==
  /\ \A p \in Process : fd[p] # NoFile <=> pc[p] \in Holding \cup {"waiting", "private"}
  /\ \A p \in Process : pc[p] \in Holding => p \in locked
  /\ \A p \in locked : pc[p] \in Holding \cup {"private"}

(* flock excludes on inodes.                                               *)
Excludes == \A p, q \in locked : fd[p] = fd[q] => p = q

(* An inode is, or was, the lock file of one artifact.                     *)
OneArtifact ==
  /\ \A p, q \in Process : fd[p] # NoFile /\ fd[p] = fd[q] => want[p] = want[q]
  /\ \A p \in Process, k \in Key : fd[p] # NoFile /\ fd[p] = lockfile[k] => want[p] = k
  /\ \A j, k \in Key : lockfile[k] # NoFile /\ lockfile[k] = lockfile[j] => j = k

(* What excludes by inode excludes by artifact, as long as the inode is    *)
(* the one under the artifact's name.                                      *)
Named ==
  \A p \in Process :
    Bound(p) /\ want[p] \notin orphaned => fd[p] = lockfile[want[p]]

LockInv == Types /\ OpenWhere /\ Excludes /\ OneArtifact /\ Named

(* A build in progress is its builder's alone, unless its .building file   *)
(* was evicted; a finished artifact has no writer.                         *)
Alone ==
  /\ \A k \in Key : ~IsRef(k) => building[k] = NoBuild
  /\ \A p \in Process :
       pc[p] = "writing" /\ IsRef(want[p]) /\ want[p] \notin orphaned
         => building[want[p]] \in {NoBuild, {p}}
  /\ \A k \in Key \ orphaned : writers[k] = {}

-----------------------------------------------------------------------------
(* There are as many inodes as processes and artifacts, so that one is     *)
(* free for the process that opens a lock file which is not there.         *)
LEMMA KeysFinite == IsFiniteSet(Key)
  <1>1. IsFiniteSet({"mezz", "ref"})
    <2>1. IsFiniteSet({"mezz"} \cup {"ref"})
      BY FS_Singleton, FS_Union
    <2>2. {"mezz"} \cup {"ref"} = {"mezz", "ref"}
      OBVIOUS
    <2> QED BY <2>1, <2>2
  <1> QED BY <1>1, BoxAssumption, FS_Product DEF Key

LEMMA FreshExists ==
  ASSUME Types, NEW p \in Process, NEW k \in Key,
         fd[p] = NoFile, lockfile[k] = NoFile
  PROVE  /\ FreshInode \in Inode
         /\ \A q \in Process, j \in Key : fd[q] # FreshInode /\ lockfile[j] # FreshInode
  <1> DEFINE P == Process \ {p}
             K == Key \ {k}
             FD == {fd[q] : q \in P}
             LF == {lockfile[j] : j \in K}
             n == Cardinality(Process)
             m == Cardinality(Key)
  <1>1. /\ IsFiniteSet(P) /\ Cardinality(P) = n - 1 /\ n \in Nat
        /\ IsFiniteSet(K) /\ Cardinality(K) = m - 1 /\ m \in Nat
    BY BoxAssumption, KeysFinite, FS_RemoveElement, FS_CardinalityType
  <1>2. IsFiniteSet(FD) /\ Cardinality(FD) <= n - 1 /\ Cardinality(FD) \in Nat
    <2> DEFINE f == [q \in P |-> fd[q]]
    <2>1. f \in Surjection(P, FD)
      BY DEF Surjection
    <2> HIDE DEF P, FD, f
    <2> QED BY <1>1, <2>1, FS_Surjection, FS_CardinalityType
  <1>3. IsFiniteSet(LF) /\ Cardinality(LF) <= m - 1 /\ Cardinality(LF) \in Nat
    <2> DEFINE f == [j \in K |-> lockfile[j]]
    <2>1. f \in Surjection(K, LF)
      BY DEF Surjection
    <2> HIDE DEF K, LF, f
    <2> QED BY <1>1, <2>1, FS_Surjection, FS_CardinalityType
  <1>4. IsFiniteSet(FD \cup LF) /\ Cardinality(FD \cup LF) <= n + m - 2
    <2>1. Cardinality(FD \cap LF) \in Nat
      BY <1>2, FS_Intersection, FS_CardinalityType
    <2> HIDE DEF FD, LF, n, m, P, K
    <2>2. /\ IsFiniteSet(FD \cup LF)
          /\ Cardinality(FD \cup LF) = Cardinality(FD) + Cardinality(LF) - Cardinality(FD \cap LF)
      BY <1>2, <1>3, FS_Union
    <2> QED BY <1>1, <1>2, <1>3, <2>1, <2>2
  <1>5. IsFiniteSet(Inode) /\ Cardinality(Inode) = n + m
    <2> DEFINE N == n + m
    <2>1. Inode = 1 .. N /\ N \in Nat
      BY <1>1 DEF Inode
    <2> SUFFICES IsFiniteSet(1 .. N) /\ Cardinality(1 .. N) = N
      BY <2>1
    <2> HIDE DEF N
    <2> QED BY <2>1, FS_Interval
  <1>6. PICK i \in Inode : i \notin FD \cup LF
    <2> SUFFICES ASSUME Inode \subseteq FD \cup LF PROVE FALSE
      OBVIOUS
    <2>1. Cardinality(Inode) <= Cardinality(FD \cup LF)
      BY <1>4, FS_Subset
    <2> HIDE DEF FD, LF, n, m
    <2> QED BY <1>1, <1>4, <1>5, <2>1, FS_CardinalityType
  <1>7. i # NoFile
    BY <1>6, <1>1 DEF Inode, NoFile
  <1>8. \A q \in Process, j \in Key : fd[q] # i /\ lockfile[j] # i
    BY <1>6, <1>7
  <1> QED BY <1>6, <1>8 DEF FreshInode

LEMMA NoFileIsNone == NoFile \notin Inode
  <1>1. Cardinality(Process) \in Nat /\ Cardinality(Key) \in Nat
    BY BoxAssumption, KeysFinite, FS_CardinalityType
  <1> QED BY <1>1 DEF NoFile, Inode
-----------------------------------------------------------------------------
(* Init opens nothing.                                                     *)
LEMMA InitLockInv == Init => LockInv
  <1> SUFFICES ASSUME Init PROVE LockInv
    OBVIOUS
  <1> USE DEF Init
  <1>1. Types
    BY BoxAssumption DEF Types, Key
  <1>2. OpenWhere
    BY DEF OpenWhere, Holding
  <1>3. Excludes /\ OneArtifact /\ Named
    BY DEF Excludes, OneArtifact, Named, Bound
  <1> QED BY <1>1, <1>2, <1>3 DEF LockInv

(* open() and the lock.                                                    *)
LEMMA OpenKeepsLockInv ==
  ASSUME LockInv, NEW p \in Process, OpenLock(p)
  PROVE  LockInv'
  <1> DEFINE k == want[p]
             inode == IF lockfile[k] = NoFile THEN FreshInode ELSE lockfile[k]
  <1>1. /\ pc[p] = "open" /\ pc' = [pc EXCEPT ![p] = "waiting"]
        /\ fd' = [fd EXCEPT ![p] = inode]
        /\ lockfile' = [lockfile EXCEPT ![k] = inode]
        /\ UNCHANGED <<want, locked, building, writers, orphaned>>
    BY DEF OpenLock, Goto
  <1>2. k \in Key /\ fd[p] = NoFile /\ p \notin locked
    BY <1>1 DEF LockInv, Types, OpenWhere, Holding
  <1>3. inode \in Inode /\ inode # NoFile
    BY <1>2, FreshExists, NoFileIsNone DEF LockInv, Types
  <1>4. \/ lockfile[k] = inode
        \/ /\ lockfile[k] = NoFile
           /\ \A q \in Process, j \in Key : fd[q] # inode /\ lockfile[j] # inode
    BY <1>2, FreshExists DEF LockInv
  <1> HIDE DEF inode
  <1>5. Types'
    BY <1>1, <1>2, <1>3 DEF LockInv, Types
  <1>6. OpenWhere'
    BY <1>1, <1>2, <1>3 DEF LockInv, Types, OpenWhere, Holding
  <1>7. Excludes'
    BY <1>1, <1>2 DEF LockInv, Types, Excludes
  <1>8. OneArtifact'
    BY <1>1, <1>2, <1>3, <1>4 DEF LockInv, Types, OneArtifact
  <1>9. Named'
    BY <1>1, <1>2, <1>3, <1>4 DEF LockInv, Types, Named, Bound
  <1> QED BY <1>5, <1>6, <1>7, <1>8, <1>9 DEF LockInv

LEMMA LockKeepsLockInv ==
  ASSUME LockInv, NEW p \in Process, Lock(p)
  PROVE  LockInv'
  <1>1. /\ pc[p] = "waiting" /\ pc' = [pc EXCEPT ![p] = "locked"]
        /\ locked' = locked \cup {p}
        /\ \A q \in locked : fd[q] # fd[p]
        /\ UNCHANGED <<want, fd, lockfile, building, writers, orphaned>>
    BY DEF Lock, Goto, Free, disk
  <1>2. Types' /\ OpenWhere'
    BY <1>1 DEF LockInv, Types, OpenWhere, Holding
  <1>3. Excludes'
    BY <1>1 DEF LockInv, Types, Excludes
  <1>4. OneArtifact' /\ Named'
    BY <1>1 DEF LockInv, Types, OneArtifact, Named, Bound
  <1> QED BY <1>2, <1>3, <1>4 DEF LockInv

(* A process closes its file, and with it leaves the lock.                 *)
LEMMA CloseKeepsLockInv ==
  ASSUME LockInv, NEW p \in Process, NEW there,
         there \notin Holding \cup {"waiting", "private"},
         pc' = [pc EXCEPT ![p] = there],
         fd' = [fd EXCEPT ![p] = NoFile],
         locked' = locked \ {p},
         UNCHANGED <<want, lockfile, orphaned>>,
         DOMAIN building' = Key, DOMAIN writers' = Key
  PROVE  LockInv'
  <1>1. Types'
    BY DEF LockInv, Types
  <1>2. OpenWhere'
    BY DEF LockInv, Types, OpenWhere
  <1>3. Excludes'
    BY DEF LockInv, Types, Excludes
  <1>4. OneArtifact' /\ Named'
    BY DEF LockInv, Types, OneArtifact, Named, Bound
  <1> QED BY <1>1, <1>2, <1>3, <1>4 DEF LockInv

(* It turns to a private download, with its file open.                     *)
LEMMA PrivateKeepsLockInv ==
  ASSUME LockInv, NEW p \in Process, pc[p] \in {"waiting", "locked"},
         pc' = [pc EXCEPT ![p] = "private"],
         UNCHANGED <<want, fd, locked, lockfile, orphaned, building, writers>>
  PROVE  LockInv'
  <1>1. Types'
    BY DEF LockInv, Types
  <1>2. OpenWhere'
    BY DEF LockInv, Types, OpenWhere, Holding
  <1>3. Excludes' /\ OneArtifact'
    BY DEF LockInv, Excludes, OneArtifact
  <1>4. Named'
    BY DEF LockInv, Types, Named, Bound
  <1> QED BY <1>1, <1>2, <1>3, <1>4 DEF LockInv

(* A process goes on under the lock it holds, or without one; then it may  *)
(* turn to its next artifact.                                              *)
LEMMA MoveKeepsLockInv ==
  ASSUME LockInv, NEW p \in Process, NEW there,
         there \in Holding <=> pc[p] \in Holding,
         {there, pc[p]} \cap {"waiting", "private"} = {},
         pc' = [pc EXCEPT ![p] = there],
         want' \in [Process -> Key],
         \A q \in Process : q # p \/ pc[p] \in Holding => want'[q] = want[q],
         UNCHANGED <<fd, locked, lockfile, orphaned>>,
         DOMAIN building' = Key, DOMAIN writers' = Key
  PROVE  LockInv'
  <1>1. Types'
    BY DEF LockInv, Types
  <1>2. OpenWhere'
    BY DEF LockInv, Types, OpenWhere
  <1>3. Excludes'
    BY DEF LockInv, Excludes
  <1>4. \A q \in Process : fd[q] # NoFile => want'[q] = want[q]
    BY DEF LockInv, OpenWhere
  <1>5. OneArtifact'
    BY <1>4 DEF LockInv, Types, OneArtifact
  <1>6. \A q \in Process : Bound(q)' => Bound(q)
    BY DEF LockInv, Types, Bound
  <1>7. Named'
    BY <1>4, <1>6 DEF LockInv, Types, Named, Bound
  <1> QED BY <1>1, <1>2, <1>3, <1>5, <1>7 DEF LockInv

(* An eviction by whoever: the lock file of an artifact may go.            *)
LEMMA EvictKeepsLockInv ==
  ASSUME LockInv, NEW p \in Process, EvictStep(p)
  PROVE  LockInv'
  <1> DEFINE k == Head(victims[p])[1]
  <1>1. /\ UNCHANGED <<pc, want, fd, locked>>
        /\ DOMAIN building' = Key /\ DOMAIN writers' = Key
        /\ \/ UNCHANGED <<lockfile, orphaned>>
           \/ /\ lockfile' = [lockfile EXCEPT ![k] = NoFile]
              /\ orphaned' = IF \E q \in Process : Bound(q) /\ fd[q] = lockfile[k]
                               THEN orphaned \cup {k} ELSE orphaned
    BY DEF EvictStep, LockInv, Types
  <1> HIDE DEF k
  <1>2. Types' /\ OpenWhere' /\ Excludes'
    BY <1>1 DEF LockInv, Types, OpenWhere, Excludes
  <1>3. OneArtifact'
    BY <1>1 DEF LockInv, Types, OneArtifact
  <1>4. Named'
    BY <1>1 DEF LockInv, Types, Named, Bound
  <1> QED BY <1>2, <1>3, <1>4 DEF LockInv

LEMMA NextLockInv == LockInv /\ [Next]_vars => LockInv'
  <1> SUFFICES ASSUME LockInv, [Next]_vars PROVE LockInv'
    OBVIOUS
  <1>1. CASE UNCHANGED vars
    BY <1>1 DEF LockInv, Types, OpenWhere, Excludes, OneArtifact, Named, Bound, vars
  <1>2. ASSUME NEW p \in Process,
               Wait(p) \/ Work(p) \/ Ends(p) \/ Kill(p)
        PROVE  LockInv'
    <2> DEFINE k == want[p]
    <2>0. /\ want \in [Process -> Key] /\ k \in Key
          /\ DOMAIN building = Key /\ DOMAIN writers = Key
      BY DEF LockInv, Types
    <2> USE <2>0
    <2>1. CASE Lock(p)
      BY <2>1, LockKeepsLockInv
    <2>2. CASE LockTimeout(p)
      BY <2>2, PrivateKeepsLockInv DEF LockTimeout, Impatient, Goto, disk
    <2>3. CASE OpenLock(p)
      BY <2>3, OpenKeepsLockInv
    <2>4. CASE Hit(p)
      BY <2>4, CloseKeepsLockInv DEF Hit, Unlock, Goto, disk, Holding
    <2>5. CASE MakeRoom(p)
      <3>1. CASE Goto(p, "private")
        BY <2>5, <3>1, PrivateKeepsLockInv DEF MakeRoom, Goto, disk
      <3>2. CASE UNCHANGED pc
        BY <2>5, <3>2 DEF MakeRoom, disk, LockInv, Types, OpenWhere, Excludes, OneArtifact, Named,
                          Bound
      <3> QED BY <2>5, <3>1, <3>2 DEF MakeRoom
    <2>6. CASE Download(p)
      BY <2>6, MoveKeepsLockInv DEF Download, Goto, disk, Holding
    <2>7. CASE Build(p)
      BY <2>7, MoveKeepsLockInv DEF Build, Goto, Holding
    <2>8. CASE EvictStep(p)
      BY <2>8, EvictKeepsLockInv
    <2>9. CASE Seal(p)
      <3>1. CASE want[p] \in Stored
        BY <2>9, <3>1, MoveKeepsLockInv DEF Seal, Goto, Holding
      <3>2. CASE want[p] \notin Stored
        <4> DEFINE there == IF IsRef(k) THEN "ended" ELSE "failed"
        <4>1. there \notin Holding \cup {"waiting", "private"}
          BY DEF Holding
        <4>2. Unlock(p, there) /\ UNCHANGED <<want, lockfile, order, writers, building, orphaned, faults>>
          BY <2>9, <3>2 DEF Seal
        <4> HIDE DEF there
        <4> QED BY <4>1, <4>2, CloseKeepsLockInv DEF Unlock, Goto
      <3> QED BY <3>1, <3>2
    <2>10. CASE Leave(p)
      BY <2>10, CloseKeepsLockInv DEF Leave, Unlock, Goto, disk, Holding
    <2>11. CASE Use(p)
      <3> DEFINE there == IF k \notin Stored THEN IF IsRef(k) THEN "ended" ELSE "failed" ELSE "reading"
      <3>1. there \notin Holding \cup {"waiting", "private"}
        BY DEF Holding
      <3>2. pc[p] = "using" /\ Goto(p, there) /\ UNCHANGED <<want, fd, locked, victims, disk, faults>>
        BY <2>11 DEF Use
      <3> HIDE DEF there
      <3> QED BY <3>1, <3>2, MoveKeepsLockInv DEF Goto, disk, Holding
    <2>12. CASE Encoded(p)
      <3>1. <<"ref", SourceOf[p]>> \in Key
        BY BoxAssumption DEF Key
      <3>2. CASE p \in Audits
        BY <2>12, <3>1, <3>2, MoveKeepsLockInv DEF Encoded, Goto, disk, Holding
      <3>3. CASE p \notin Audits
        BY <2>12, <3>3, MoveKeepsLockInv DEF Encoded, Goto, disk, Holding
      <3> QED BY <3>2, <3>3
    <2>13. CASE Measured(p)
      BY <2>13, MoveKeepsLockInv DEF Measured, Goto, disk, Holding
    <2>14. CASE Place(p)
      <3>1. CASE IsRef(k) /\ building[k] = NoBuild
        BY <2>14, <3>1, CloseKeepsLockInv DEF Place, Unlock, Goto, Holding
      <3>2. CASE ~(IsRef(k) /\ building[k] = NoBuild)
        <4>1. /\ pc[p] = "writing" /\ pc' = [pc EXCEPT ![p] = "sealing"]
              /\ UNCHANGED <<want, fd, locked, lockfile, orphaned>>
              /\ DOMAIN building' = Key /\ DOMAIN writers' = Key
          BY <2>14, <3>2 DEF Place, Goto
        <4> QED BY <4>1, MoveKeepsLockInv DEF Holding
      <3> QED BY <3>1, <3>2
    <2>15. CASE WriteFails(p)
      <3> DEFINE there == IF IsRef(k) THEN "ended" ELSE "failed"
      <3>1. there \notin Holding \cup {"waiting", "private"}
        BY DEF Holding
      <3>2. Unlock(p, there) /\ UNCHANGED <<want, victims, disk>>
        BY <2>15 DEF WriteFails
      <3> HIDE DEF there
      <3> QED BY <3>1, <3>2, CloseKeepsLockInv DEF Unlock, Goto, disk
    <2>16. CASE PrivateDownload(p)
      <3>1. PICK there \in {"alone", "failed"} : Unlock(p, there)
        BY <2>16 DEF PrivateDownload
      <3> QED BY <2>16, <3>1, CloseKeepsLockInv DEF PrivateDownload, Unlock, Goto, disk, Holding
    <2>17. CASE Kill(p)
      BY <2>17, CloseKeepsLockInv DEF Kill, Unlock, Goto, disk, Holding
    <2> QED BY <1>2, <2>1, <2>2, <2>3, <2>4, <2>5, <2>6, <2>7, <2>8, <2>9, <2>10,
               <2>11, <2>12, <2>13, <2>14, <2>15, <2>16, <2>17 DEF Wait, Work, Ends
  <1> QED BY <1>1, <1>2 DEF Next

(* An artifact has one writer while its lock file is the one that was      *)
(* opened.                                                                 *)
LEMMA LockExcludes == LockInv => OneWriter
  <1> SUFFICES ASSUME LockInv, NEW p \in Process, NEW q \in Process, p # q,
                      {pc[p], pc[q]} \subseteq {"writing", "sealing"}, want[p] = want[q],
                      want[p] \notin orphaned
               PROVE  FALSE
    BY DEF OneWriter
  <1>1. {p, q} \subseteq locked /\ fd[p] # NoFile /\ fd[q] # NoFile
    BY DEF LockInv, OpenWhere, Holding
  <1>2. fd[p] = fd[q]
    BY <1>1 DEF LockInv, Named, Bound
  <1> QED BY <1>1, <1>2 DEF LockInv, Excludes

(* The lock of the cache is never lost but by an eviction (_lock_with_     *)
(* timeout, _evict_cache_entry): two processes do not write one artifact.  *)
THEOREM NoTwoWriters == Spec => []OneWriter
  BY InitLockInv, NextLockInv, LockExcludes, PTL DEF Spec

-----------------------------------------------------------------------------
LEMMA InitAlone == Init => Alone
  BY DEF Init, Alone

(* Steps that neither write a file nor begin to.                           *)
LEMMA QuietKeepsAlone ==
  ASSUME Alone, UNCHANGED <<building, writers, orphaned>>,
         \A q \in Process : pc'[q] = "writing" /\ IsRef(want'[q]) =>
           pc[q] = "writing" /\ want'[q] = want[q]
  PROVE  Alone'
  BY DEF Alone

LEMMA BuildKeepsAlone ==
  ASSUME LockInv, Alone, NEW p \in Process, Build(p)
  PROVE  Alone'
  <1> DEFINE k == want[p]
             other == {q \in building[k] : q \in Process /\ pc[q] = "writing" /\ want[q] = k}
  <1>1. /\ IsRef(k) /\ pc[p] = "locked" /\ pc' = [pc EXCEPT ![p] = "writing"]
        /\ building' = [building EXCEPT ![k] = other \cup {p}]
        /\ UNCHANGED <<want, writers, orphaned>>
    BY DEF Build, Goto, LockInv, Types
  <1>2. k \in Key /\ p \in locked /\ fd[p] # NoFile /\ DOMAIN building = Key /\ DOMAIN pc = Process
    BY <1>1 DEF LockInv, Types, OpenWhere, Holding
  <1>3. ASSUME NEW q \in Process, q # p, pc[q] = "writing", want[q] = k, k \notin orphaned
        PROVE  FALSE
    <2>1. q \in locked /\ fd[q] # NoFile
      BY <1>3 DEF LockInv, OpenWhere, Holding
    <2>2. fd[q] = fd[p]
      BY <1>1, <1>2, <1>3, <2>1 DEF LockInv, Named, Bound
    <2> QED BY <1>2, <1>3, <2>1, <2>2 DEF LockInv, Excludes
  <1>4. k \notin orphaned => other = {}
    BY <1>1, <1>3
  <1> HIDE DEF other, k
  <1>5. \A j \in Key : ~IsRef(j) => building'[j] = NoBuild
    BY <1>1, <1>2 DEF Alone
  <1>6. ASSUME NEW q \in Process, pc'[q] = "writing", IsRef(want'[q]), want'[q] \notin orphaned'
        PROVE  building'[want'[q]] \in {NoBuild, {q}}
    <2>1. CASE q = p
      <3>1. want[q] = k
        BY <2>1 DEF k
      <3> QED BY <1>1, <1>2, <1>4, <1>6, <2>1, <3>1
    <2>2. CASE q # p
      <3>1. pc[q] = "writing" /\ want[q] # k /\ want'[q] = want[q] /\ want[q] \notin orphaned
        BY <1>1, <1>2, <1>3, <1>6, <2>2
      <3>2. building'[want[q]] = building[want[q]]
        BY <1>1, <1>2, <3>1 DEF LockInv, Types
      <3> QED BY <1>1, <1>6, <3>1, <3>2 DEF Alone
    <2> QED BY <2>1, <2>2
  <1>7. \A j \in Key \ orphaned' : writers'[j] = {}
    BY <1>1 DEF Alone
  <1> QED BY <1>5, <1>6, <1>7 DEF Alone

LEMMA PlaceKeepsAlone ==
  ASSUME LockInv, Alone, NEW p \in Process, Place(p)
  PROVE  Alone'
  <1> DEFINE k == want[p]
  <1>1. k \in Key /\ DOMAIN building = Key /\ DOMAIN writers = Key /\ DOMAIN pc = Process
    BY DEF LockInv, Types
  <1>2. /\ UNCHANGED <<want, orphaned>>
        /\ pc[p] = "writing" /\ pc' \in {[pc EXCEPT ![p] = "ended"], [pc EXCEPT ![p] = "sealing"]}
        /\ building' \in {building, [building EXCEPT ![k] = NoBuild]}
        /\ \/ writers' = [writers EXCEPT ![k] = @ \ {p}]
           \/ writers' = [writers EXCEPT ![k] = building[k] \ {0, p}]
    BY DEF Place, Unlock, Goto
  <1>3. k \notin orphaned => building[k] \ {0, p} = {} /\ writers[k] \ {p} = {}
    BY <1>1, <1>2 DEF Alone, NoBuild
  <1> HIDE DEF k
  <1>4. \A j \in Key : ~IsRef(j) => building'[j] = NoBuild
    BY <1>1, <1>2 DEF Alone
  <1>5. ASSUME NEW q \in Process, pc'[q] = "writing", IsRef(want'[q]), want'[q] \notin orphaned'
        PROVE  building'[want'[q]] \in {NoBuild, {q}}
    <2>1. pc[q] = "writing" /\ want'[q] = want[q] /\ want[q] \in Key /\ want[q] \notin orphaned
      BY <1>1, <1>2, <1>5 DEF LockInv, Types
    <2>2. building[want[q]] \in {NoBuild, {q}}
      BY <1>5, <2>1 DEF Alone
    <2> QED BY <1>1, <1>2, <2>1, <2>2
  <1>6. \A j \in Key \ orphaned' : writers'[j] = {}
    BY <1>1, <1>2, <1>3 DEF Alone
  <1> QED BY <1>4, <1>5, <1>6 DEF Alone

LEMMA EvictKeepsAlone ==
  ASSUME LockInv, Alone, NEW p \in Process, EvictStep(p)
  PROVE  Alone'
  <1> DEFINE k == Head(victims[p])[1]
  <1>1. /\ UNCHANGED <<pc, want>> /\ orphaned \subseteq orphaned'
        /\ building' \in {building, [building EXCEPT ![k] = NoBuild]}
        /\ writers' \in {writers, [writers EXCEPT ![k] = {}]}
    BY DEF EvictStep
  <1>2. DOMAIN building = Key /\ DOMAIN writers = Key /\ want \in [Process -> Key]
    BY DEF LockInv, Types
  <1> HIDE DEF k
  <1>3. \A j \in Key : building'[j] \in {building[j], NoBuild} /\ writers'[j] \in {writers[j], {}}
    BY <1>1, <1>2
  <1> QED BY <1>1, <1>2, <1>3 DEF Alone

LEMMA NextAlone == LockInv /\ Alone /\ [Next]_vars => Alone'
  <1> SUFFICES ASSUME LockInv, Alone, [Next]_vars PROVE Alone'
    OBVIOUS
  <1>0. DOMAIN pc = Process
    BY DEF LockInv, Types
  <1>1. CASE UNCHANGED vars
    BY <1>1 DEF Alone, vars
  <1>2. ASSUME NEW p \in Process,
               Wait(p) \/ Work(p) \/ Ends(p) \/ Kill(p)
        PROVE  Alone'
    <2>1. CASE Wait(p)
      BY <1>0, <2>1, QuietKeepsAlone DEF Wait, Lock, LockTimeout, Goto, disk
    <2>2. CASE OpenLock(p) \/ Hit(p) \/ MakeRoom(p) \/ Leave(p) \/ PrivateDownload(p) \/ Kill(p)
      BY <1>0, <2>2, QuietKeepsAlone
         DEF OpenLock, Hit, MakeRoom, Leave, PrivateDownload, Kill, Unlock, Goto, disk
    <2>3. CASE Download(p)
      BY <1>0, <2>3, QuietKeepsAlone DEF Download, Goto, disk
    <2>4. CASE Build(p)
      BY <2>4, BuildKeepsAlone
    <2>5. CASE EvictStep(p)
      BY <2>5, EvictKeepsAlone
    <2>6. CASE Seal(p) \/ WriteFails(p)
      BY <1>0, <2>6, QuietKeepsAlone DEF Seal, WriteFails, Unlock, Goto, disk
    <2>7. CASE Use(p) \/ Measured(p)
      BY <1>0, <2>7, QuietKeepsAlone DEF Use, Measured, Goto, disk
    <2>8. CASE Encoded(p)
      <3>1. \A q \in Process : q # p => want'[q] = want[q]
        BY <2>8 DEF Encoded, LockInv, Types
      <3> QED BY <1>0, <2>8, <3>1, QuietKeepsAlone DEF Encoded, Goto, disk
    <2>9. CASE Place(p)
      BY <2>9, PlaceKeepsAlone
    <2> QED BY <1>2, <2>1, <2>2, <2>3, <2>4, <2>5, <2>6, <2>7, <2>8, <2>9 DEF Work, Ends
  <1> QED BY <1>1, <1>2 DEF Next

(* Nobody reads an artifact that somebody still writes, whatever evictions *)
(* and kills leave behind, unless its lock file was unlinked while open    *)
(* (_fetch_mezz_cached, _get_or_build_prescaled_ref).                      *)
THEOREM ReadsAreWhole == Spec => []ReadsWhole
  <1>1. LockInv /\ Alone => ReadsWhole
    BY DEF LockInv, Types, Alone, ReadsWhole
  <1> QED BY InitLockInv, NextLockInv, InitAlone, NextAlone, <1>1, PTL DEF Spec
===============================================================================
