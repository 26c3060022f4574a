-------------------------- MODULE OutputMoveProofs --------------------------
(***************************************************************************)
(* The delivery to OUTPUT_DIR for any number of jobs, directories, files,  *)
(* resumes and restarts, when one job at a time is past the semaphore: a   *)
(* complete output is never destroyed, and a job that is done has complete *)
(* ones, wherever no move was cut short.                                   *)
(***************************************************************************)
EXTENDS OutputMove, TLAPS

Moving == {"stat", "archive", "move", "copy", "remove"}
Labels == Moving \cup {"idle", "slot", "encode", "list", "next"}

Types ==
  /\ status \in [Job -> {"absent", "active", "failed", "done"}]
  /\ pc \in [Job -> Labels]
  /\ entries \in [Job -> SUBSET Dir]
  /\ copied \in [Job -> SUBSET Piece]
  /\ tmp \in [Job -> [Dir -> SUBSET Piece]]
  /\ live \in [Dir -> [Piece -> Job \cup {NoJob}]]
  /\ torn \subseteq Dir
  /\ resumes \in Nat /\ restarts \in Nat

Solo == \A j, k \in Job : Working(j) /\ Working(k) => j = k

(* A job that moves a directory has one to move, and finds in its place    *)
(* nothing but what it has put there itself.                               *)
AtDir(j) == pc[j] \in Moving => entries[j] # {}

Cleared(j) ==
  /\ pc[j] = "move" => live[Current(j)] = Nothing
  /\ pc[j] = "copy" =>
       \A p \in Piece : live[Current(j)][p] = IF p \in copied[j] THEN j ELSE NoJob
  /\ pc[j] # "copy" => copied[j] = {}

AtRest(j) == status[j] # "active" => pc[j] = "idle"

MoveInv == Types /\ Solo /\ \A j \in Job : AtDir(j) /\ Cleared(j) /\ AtRest(j)

(* No step of a job touches what another one keeps.                        *)
Others(j) ==
  \A k \in Job \ {j} :
    /\ status'[k] = status[k] /\ pc'[k] = pc[k]
    /\ entries'[k] = entries[k] /\ copied'[k] = copied[k] /\ tmp'[k] = tmp[k]

-----------------------------------------------------------------------------
LEMMA CurrentIn == ASSUME NEW j \in Job, Types, entries[j] # {} PROVE Current(j) \in entries[j] /\ Current(j) \in Dir
  <1>1. \E d \in entries[j] : TRUE
    OBVIOUS
  <1>2. Current(j) \in entries[j]
    BY <1>1 DEF Current
  <1> QED BY <1>2 DEF Types

LEMMA SameCurrent == ASSUME NEW j \in Job, entries'[j] = entries[j] PROVE Current(j)' = Current(j)
  BY DEF Current

LEMMA NothingWhole ==
  /\ Nothing \in [Piece -> Job \cup {NoJob}]
  /\ \A j \in Job : Whole(j) \in [Piece -> Job \cup {NoJob}] /\ Whole(j) # Nothing
  /\ \A j, k \in Job : Whole(j) = Whole(k) => j = k
  <1>1. PICK p \in Piece : TRUE
    BY MoveAssumption
  <1>2. Nothing[p] = NoJob /\ \A j \in Job : Whole(j)[p] = j
    BY DEF Nothing, Whole
  <1>3. NoJob \notin Job
    BY MoveAssumption
  <1>4. \A j \in Job : Whole(j) # Nothing
    BY <1>2, <1>3
  <1>5. \A j, k \in Job : Whole(j) = Whole(k) => j = k
    BY <1>2
  <1> QED BY <1>4, <1>5 DEF Nothing, Whole

LEMMA FailTypes ==
  ASSUME Types, NEW j \in Job, Fail(j)
  PROVE  /\ status' \in [Job -> {"absent", "active", "failed", "done"}]
         /\ pc' \in [Job -> Labels] /\ entries' \in [Job -> SUBSET Dir]
         /\ copied' \in [Job -> SUBSET Piece] /\ tmp' \in [Job -> [Dir -> SUBSET Piece]]
         /\ Others(j)
         /\ pc'[j] = "idle" /\ entries'[j] = {} /\ copied'[j] = {}
         /\ tmp'[j] = [d \in Dir |-> {}]
  <1> USE DEF Fail, Goto, Types
  <1>1. status' \in [Job -> {"absent", "active", "failed", "done"}]
    OBVIOUS
  <1>2. pc' \in [Job -> Labels] /\ pc'[j] = "idle"
    BY DEF Labels
  <1>3. entries' \in [Job -> SUBSET Dir] /\ entries'[j] = {}
    OBVIOUS
  <1>4. copied' \in [Job -> SUBSET Piece] /\ copied'[j] = {}
    OBVIOUS
  <1>5. tmp' \in [Job -> [Dir -> SUBSET Piece]] /\ tmp'[j] = [d \in Dir |-> {}]
    OBVIOUS
  <1>6. Others(j)
    BY DEF Others
  <1> QED BY <1>1, <1>2, <1>3, <1>4, <1>5, <1>6

LEMMA StepTypes ==
  ASSUME Types, NEW j \in Job, AtDir(j), JobStep(j) \/ Resume(j)
  PROVE  Types' /\ Others(j)
  <1> USE DEF Goto, Labels, Moving
  <1> DEFINE Typed == Types' /\ Others(j)
  <1>0. pc[j] \in Moving => Current(j) \in Dir
    BY CurrentIn DEF AtDir
  <1>1. CASE Submit(j)
    BY <1>1 DEF Types, Others, Submit
  <1>14. CASE Resume(j)
    <2>1. resumes' \in Nat
      BY <1>14 DEF Types, Resume
    <2>2. status' \in [Job -> {"absent", "active", "failed", "done"}] /\ pc' \in [Job -> Labels]
      BY <1>14 DEF Types, Resume
    <2> QED BY <1>14, <2>1, <2>2 DEF Types, Others, Resume
  <1>2. CASE Acquire(j) \/ RenameFails(j)
    BY <1>2 DEF Types, Others, Acquire, RenameFails
  <1>3. CASE Encode(j)
    <2>1. PICK w \in {Missing, Dir} :
            tmp' = [tmp EXCEPT ![j] = [d \in Dir |-> IF d \in w THEN Piece ELSE @[d]]]
      BY <1>3 DEF Encode
    <2>2. tmp' \in [Job -> [Dir -> SUBSET Piece]] /\ \A k \in Job \ {j} : tmp'[k] = tmp[k]
      BY <2>1 DEF Types
    <2> QED BY <1>3, <2>2 DEF Types, Others, Encode
  <1>4. CASE EncodeFails(j)
    BY <1>4, FailTypes DEF Types, EncodeFails
  <1>5. CASE List(j)
    <2>1. Staged(j) \subseteq Dir
      BY DEF Staged
    <2> QED BY <1>5, <2>1 DEF Types, Others, List
  <1>6. CASE NextEntry(j)
    BY <1>6 DEF Types, Others, NextEntry
  <1>7. CASE Stat(j)
    BY <1>7 DEF Types, Others, Stat
  <1>8. CASE Archive(j)
    BY <1>8, NothingWhole DEF Types, Others, Archive
  <1>9. CASE Rename(j)
    <2> DEFINE d == Current(j)
    <2>1. d \in Dir /\ [p \in Piece |-> IF p \in tmp[j][d] THEN j ELSE NoJob] \in [Piece -> Job \cup {NoJob}]
      BY <1>0, <1>9 DEF Rename
    <2>2. /\ live' = [live EXCEPT ![d] = [p \in Piece |-> IF p \in tmp[j][d] THEN j ELSE NoJob]]
          /\ tmp' = [tmp EXCEPT ![j][d] = {}]
          /\ entries' = [entries EXCEPT ![j] = @ \ {d}]
          /\ pc' = [pc EXCEPT ![j] = "next"]
          /\ UNCHANGED <<status, copied, archive, torn, resumes, restarts>>
      BY <1>9 DEF Rename
    <2> HIDE DEF d
    <2>3. live' \in [Dir -> [Piece -> Job \cup {NoJob}]]
      BY <2>1, <2>2 DEF Types
    <2>4. tmp' \in [Job -> [Dir -> SUBSET Piece]] /\ \A k \in Job \ {j} : tmp'[k] = tmp[k]
      BY <2>1, <2>2 DEF Types
    <2>5. entries' \in [Job -> SUBSET Dir] /\ \A k \in Job \ {j} : entries'[k] = entries[k]
      BY <2>2 DEF Types
    <2> QED BY <2>2, <2>3, <2>4, <2>5 DEF Types, Others
  <1>10. CASE CopyFile(j)
    <2>2. Current(j) \in Dir
      BY <1>0, <1>10 DEF CopyFile
    <2>5. ToCopy(j) \subseteq Piece
      BY <2>2 DEF ToCopy, Types
    <2>1. PICK p \in Piece : /\ live' = [live EXCEPT ![Current(j)][p] = j]
                             /\ copied' = [copied EXCEPT ![j] = @ \cup {p}]
      BY <1>10, <2>5 DEF CopyFile
    <2>3. live' \in [Dir -> [Piece -> Job \cup {NoJob}]]
      BY <2>1, <2>2 DEF Types
    <2>4. copied' \in [Job -> SUBSET Piece] /\ \A k \in Job \ {j} : copied'[k] = copied[k]
      BY <2>1 DEF Types
    <2> QED BY <1>10, <2>3, <2>4 DEF Types, Others, CopyFile
  <1>11. CASE CopyError(j)
    <2>1. torn' \subseteq Dir
      BY <1>0, <1>11 DEF Types, CopyError
    <2>2. Fail(j) /\ UNCHANGED <<live, resumes, restarts>>
      BY <1>11 DEF CopyError
    <2> QED BY <2>1, <2>2, FailTypes DEF Types
  <1>12. CASE CopyEnds(j)
    BY <1>12 DEF Types, Others, CopyEnds
  <1>13. CASE RemoveFile(j)
    <2> DEFINE d == Current(j)
    <2>1. d \in Dir
      BY <1>0, <1>13 DEF RemoveFile
    <2>2. CASE /\ \E p \in tmp[j][d] : tmp' = [tmp EXCEPT ![j][d] = @ \ {p}]
               /\ UNCHANGED <<pc, entries>>
      <3>1. PICK p \in tmp[j][d] : tmp' = [tmp EXCEPT ![j][d] = @ \ {p}]
        BY <2>2
      <3> HIDE DEF d
      <3>2. tmp' \in [Job -> [Dir -> SUBSET Piece]] /\ \A k \in Job \ {j} : tmp'[k] = tmp[k]
        BY <2>1, <3>1 DEF Types
      <3> QED BY <1>13, <2>2, <3>2 DEF Types, Others, RemoveFile
    <2>3. CASE /\ entries' = [entries EXCEPT ![j] = @ \ {d}]
               /\ Goto(j, "next") /\ UNCHANGED tmp
      BY <1>13, <2>3 DEF Types, Others, RemoveFile
    <2> QED BY <1>13, <2>2, <2>3 DEF RemoveFile
  <1> QED BY <1>1, <1>2, <1>3, <1>4, <1>5, <1>6, <1>7, <1>8, <1>9, <1>10, <1>11, <1>12, <1>13, <1>14 DEF JobStep

-----------------------------------------------------------------------------
(* Only who works on a directory changes what is in OUTPUT_DIR, and only   *)
(* while it has it.                                                        *)
LEMMA LiveChange ==
  ASSUME Types, NEW j \in Job, AtDir(j), JobStep(j) \/ Resume(j)
  PROVE  \/ live' = live
         \/ /\ Working(j)
            /\ Current(j) \in Dir
            /\ \A d \in Dir \ {Current(j)} : live'[d] = live[d]
  <1>1. pc[j] \in Moving => Current(j) \in Dir
    BY CurrentIn DEF AtDir
  <1> USE DEF Moving, Working, Types
  <1>2. CASE Archive(j)
    BY <1>1, <1>2 DEF Archive
  <1>3. CASE Rename(j)
    BY <1>1, <1>3 DEF Rename
  <1>4. CASE CopyFile(j)
    BY <1>1, <1>4 DEF CopyFile
  <1>5. CASE Submit(j) \/ Resume(j) \/ Acquire(j) \/ Encode(j) \/ EncodeFails(j) \/ List(j) \/ NextEntry(j)
    BY <1>5 DEF Submit, Resume, Acquire, Encode, EncodeFails, List, NextEntry
  <1>6. CASE Stat(j) \/ RenameFails(j) \/ CopyError(j) \/ CopyEnds(j) \/ RemoveFile(j)
    BY <1>6 DEF Stat, RenameFails, CopyError, CopyEnds, RemoveFile
  <1> QED BY <1>2, <1>3, <1>4, <1>5, <1>6 DEF JobStep

LEMMA SoloStep ==
  ASSUME OneMover, MoveInv, NEW j \in Job, JobStep(j) \/ Resume(j), Types', Others(j)
  PROVE  Solo'
  <1>1. Working(j)' => Working(j) \/ \A k \in Job : ~Working(k)
    <2> USE DEF Working, Goto, MoveInv, Types
    <2>1. CASE Acquire(j)
      BY <2>1 DEF Acquire
    <2>2. CASE Submit(j) \/ Resume(j)
      BY <2>2 DEF Submit, Resume
    <2>3. CASE Encode(j) \/ EncodeFails(j) \/ List(j) \/ NextEntry(j) \/ Stat(j) \/ Archive(j) \/ Rename(j)
      BY <2>3 DEF Encode, EncodeFails, List, NextEntry, Stat, Archive, Rename
    <2>4. CASE RenameFails(j) \/ CopyFile(j) \/ CopyError(j) \/ CopyEnds(j) \/ RemoveFile(j)
      BY <2>4 DEF RenameFails, CopyFile, CopyError, CopyEnds, RemoveFile
    <2> QED BY <2>1, <2>2, <2>3, <2>4 DEF JobStep
  <1>2. \A k \in Job \ {j} : Working(k)' <=> Working(k)
    BY DEF Others, Working
  <1> QED BY <1>1, <1>2 DEF MoveInv, Solo

(* What the job that steps has of its directory.                           *)
LEMMA DirStep ==
  ASSUME MoveInv, NEW j \in Job, JobStep(j) \/ Resume(j)
  PROVE  AtDir(j)' /\ Cleared(j)'
  <1> USE DEF Goto, Moving
  <1>0. Types /\ AtDir(j) /\ Cleared(j) /\ (pc[j] \in Moving => Current(j) \in Dir)
    BY CurrentIn DEF MoveInv, AtDir
  <1>1. CASE Submit(j) \/ Resume(j)
    <2>1. pc[j] = "idle" /\ copied' = copied
      BY <1>1 DEF MoveInv, AtRest, Submit, Resume
    <2>2. pc'[j] = "slot"
      BY <1>0, <1>1 DEF Types, Submit, Resume
    <2> QED BY <1>0, <2>1, <2>2 DEF AtDir, Cleared
  <1>2. CASE Acquire(j)
    BY <1>0, <1>2 DEF Types, AtDir, Cleared, Acquire
  <1>3. CASE Encode(j)
    BY <1>0, <1>3 DEF Types, AtDir, Cleared, Encode
  <1>4. CASE EncodeFails(j)
    <2>1. pc'[j] = "idle" /\ copied'[j] = {}
      BY <1>0, <1>4, FailTypes DEF EncodeFails
    <2> QED BY <2>1 DEF AtDir, Cleared
  <1>5. CASE List(j)
    BY <1>0, <1>5 DEF Types, AtDir, Cleared, List
  <1>6. CASE NextEntry(j)
    BY <1>0, <1>6 DEF Types, AtDir, Cleared, NextEntry
  <1>7. CASE Stat(j)
    <2>1. Current(j)' = Current(j)
      BY <1>7, SameCurrent DEF Stat
    <2>2. pc'[j] = IF Present(Current(j)) THEN "archive" ELSE "move"
      BY <1>0, <1>7 DEF Types, Stat
    <2>3. live' = live /\ entries' = entries /\ copied' = copied
      BY <1>7 DEF Stat
    <2> QED BY <1>0, <1>7, <2>1, <2>2, <2>3 DEF AtDir, Cleared, Present, Stat
  <1>8. CASE Archive(j)
    <2>1. Current(j)' = Current(j)
      BY <1>8, SameCurrent DEF Archive
    <2>2. pc'[j] = "move" /\ live'[Current(j)] = Nothing
      BY <1>0, <1>8 DEF Types, Archive
    <2>3. entries' = entries /\ copied' = copied
      BY <1>8 DEF Archive
    <2> QED BY <1>0, <1>8, <2>1, <2>2, <2>3 DEF AtDir, Cleared, Archive
  <1>9. CASE Rename(j)
    <2>1. pc'[j] = "next" /\ copied' = copied /\ pc[j] = "move"
      BY <1>0, <1>9 DEF Types, Rename
    <2> QED BY <1>0, <2>1 DEF AtDir, Cleared
  <1>10. CASE RenameFails(j)
    <2>1. Current(j)' = Current(j)
      BY <1>10, SameCurrent DEF RenameFails
    <2>2. pc'[j] = "copy" /\ pc[j] = "move" /\ UNCHANGED <<live, entries, copied>>
      BY <1>0, <1>10 DEF Types, RenameFails
    <2>3. copied[j] = {} /\ live[Current(j)] = Nothing
      BY <1>0, <2>2 DEF Cleared
    <2> QED BY <1>0, <2>1, <2>2, <2>3 DEF AtDir, Cleared, Nothing
  <1>11. CASE CopyFile(j)
    <2>1. Current(j)' = Current(j)
      BY <1>11, SameCurrent DEF CopyFile
    <2>2. pc' = pc /\ pc[j] = "copy" /\ entries' = entries /\ Current(j) \in Dir
      BY <1>0, <1>11 DEF CopyFile
    <2>3. PICK p : /\ live' = [live EXCEPT ![Current(j)][p] = j]
                   /\ copied' = [copied EXCEPT ![j] = @ \cup {p}]
      BY <1>11 DEF CopyFile
    <2>4. \A q \in Piece : live'[Current(j)][q] = IF q = p THEN j ELSE live[Current(j)][q]
      BY <1>0, <2>2, <2>3 DEF Types
    <2>5. copied'[j] = copied[j] \cup {p}
      BY <1>0, <2>3 DEF Types
    <2> QED BY <1>0, <2>1, <2>2, <2>4, <2>5 DEF AtDir, Cleared
  <1>12. CASE CopyError(j)
    <2>1. pc'[j] = "idle" /\ copied'[j] = {}
      BY <1>0, <1>12, FailTypes DEF CopyError
    <2> QED BY <2>1 DEF AtDir, Cleared
  <1>13. CASE CopyEnds(j)
    <2>1. pc'[j] = "remove" /\ pc[j] = "copy" /\ copied'[j] = {} /\ entries' = entries
      BY <1>0, <1>13 DEF Types, CopyEnds
    <2> QED BY <1>0, <2>1 DEF AtDir, Cleared
  <1>14. CASE RemoveFile(j)
    <2>1. pc[j] = "remove" /\ copied' = copied
      BY <1>14 DEF RemoveFile
    <2>2. \/ pc' = pc /\ entries' = entries
          \/ pc' = [pc EXCEPT ![j] = "next"]
      BY <1>14 DEF RemoveFile
    <2> QED BY <1>0, <2>1, <2>2 DEF Types, AtDir, Cleared
  <1> QED BY <1>1, <1>2, <1>3, <1>4, <1>5, <1>6, <1>7, <1>8, <1>9, <1>10, <1>11, <1>12, <1>13,
             <1>14 DEF JobStep

LEMMA RestStep ==
  ASSUME Types, NEW j \in Job, AtRest(j), JobStep(j) \/ Resume(j)
  PROVE  AtRest(j)'
  <1> USE DEF AtRest, Goto, Types
  <1>1. CASE Submit(j) \/ Resume(j)
    BY <1>1 DEF Submit, Resume
  <1>2. CASE NextEntry(j)
    BY <1>2 DEF NextEntry
  <1>3. CASE EncodeFails(j) \/ CopyError(j)
    BY <1>3, FailTypes DEF EncodeFails, CopyError
  <1>4. CASE Acquire(j) \/ Encode(j) \/ List(j) \/ Stat(j) \/ Archive(j) \/ Rename(j)
    BY <1>4 DEF Acquire, Encode, List, Stat, Archive, Rename
  <1>5. CASE RenameFails(j) \/ CopyFile(j) \/ CopyEnds(j) \/ RemoveFile(j)
    BY <1>5 DEF RenameFails, CopyFile, CopyEnds, RemoveFile
  <1> QED BY <1>1, <1>2, <1>3, <1>4, <1>5 DEF JobStep

LEMMA MoveStep ==
  ASSUME OneMover, MoveInv, NEW j \in Job, JobStep(j) \/ Resume(j)
  PROVE  MoveInv' /\ Others(j)
  <1>1. Types' /\ Others(j)
    BY StepTypes DEF MoveInv
  <1>2. Solo' /\ AtDir(j)' /\ Cleared(j)' /\ AtRest(j)'
    BY <1>1, SoloStep, DirStep, RestStep DEF MoveInv
  <1>3. ASSUME NEW k \in Job \ {j} PROVE AtDir(k)' /\ Cleared(k)' /\ AtRest(k)'
    <2>1. Current(k)' = Current(k) /\ AtDir(k) /\ Cleared(k) /\ AtRest(k)
      BY <1>1, SameCurrent DEF Others, MoveInv
    <2>2. CASE live' = live
      BY <1>1, <2>1, <2>2 DEF Others, AtDir, Cleared, AtRest
    <2>3. CASE Working(j)
      <3>1. pc[k] \in {"idle", "slot"}
        BY <2>3 DEF MoveInv, Solo, Working
      <3> QED BY <1>1, <2>1, <3>1 DEF Others, AtDir, Cleared, AtRest, Moving
    <2> QED BY <2>2, <2>3, LiveChange DEF MoveInv
  <1> QED BY <1>1, <1>2, <1>3 DEF MoveInv

LEMMA MoveRestart == MoveInv /\ Restart => MoveInv'
  <1> SUFFICES ASSUME MoveInv, Restart PROVE MoveInv'
    OBVIOUS
  <1>1. torn' \subseteq Dir
    <2>1. \A j \in Job : pc[j] \in {"copy", "remove"} => Current(j) \in Dir
      BY CurrentIn DEF MoveInv, AtDir, Moving
    <2> QED BY <2>1 DEF Restart, MoveInv, Types
  <1>2. pc' \in [Job -> Labels] /\ \A j \in Job : pc'[j] \in {"slot", "idle"} /\ copied'[j] = {}
    BY DEF Restart, Labels
  <1>3. Types'
    BY <1>1, <1>2 DEF Restart, MoveInv, Types
  <1>4. \A j \in Job : AtRest(j)'
    BY DEF Restart, AtRest
  <1> QED BY <1>2, <1>3, <1>4 DEF MoveInv, Solo, Working, AtDir, Cleared, Moving

LEMMA MoveInit == Init => MoveInv
  <1> SUFFICES ASSUME Init PROVE MoveInv
    OBVIOUS
  <1>1. Types
    BY NothingWhole DEF Init, Types, Labels
  <1> QED BY <1>1 DEF Init, MoveInv, Solo, Working, AtDir, Cleared, AtRest, Moving

LEMMA MoveNext == OneMover /\ MoveInv /\ [Next]_vars => MoveInv'
  <1> SUFFICES ASSUME OneMover, MoveInv, [Next]_vars PROVE MoveInv'
    OBVIOUS
  <1>1. ASSUME NEW j \in Job, JobStep(j) \/ Resume(j) PROVE MoveInv'
    BY <1>1, MoveStep
  <1>2. CASE UNCHANGED vars
    BY <1>2 DEF MoveInv, Types, Solo, Working, AtDir, Cleared, AtRest, Current, vars
  <1> QED BY <1>1, <1>2, MoveRestart DEF Next

-----------------------------------------------------------------------------
(* Preserved: what was in OUTPUT_DIR and complete is there or archived.    *)
Preserved ==
  /\ archive \subseteq archive'
  /\ \A d \in Dir, j \in Job :
       live[d] = Whole(j) => \/ live'[d] = Whole(j)
                             \/ [dir |-> d, content |-> Whole(j)] \in archive'

LEMMA StepPreserves ==
  ASSUME OneMover, MoveInv, NEW j \in Job, JobStep(j) \/ Resume(j)
  PROVE  Preserved
  <1>0. Types /\ AtDir(j) /\ Cleared(j) /\ (pc[j] \in Moving => Current(j) \in Dir)
    BY CurrentIn DEF MoveInv, AtDir
  <1> USE DEF Moving
  <1>1. CASE Archive(j)
    <2>1. archive' = archive \cup Superseded(Current(j)) /\ live' = [live EXCEPT ![Current(j)] = Nothing]
      BY <1>1 DEF Archive, Archived
    <2>2. Current(j) \in Dir
      BY <1>0, <1>1 DEF Archive
    <2>3. ASSUME NEW k \in Job, live[Current(j)] = Whole(k)
          PROVE  [dir |-> Current(j), content |-> Whole(k)] \in archive'
      BY <2>1, <2>3, NothingWhole DEF Superseded
    <2>4. \A d \in Dir \ {Current(j)} : live'[d] = live[d]
      BY <1>0, <2>1 DEF Types
    <2> QED BY <2>1, <2>3, <2>4 DEF Preserved
  <1>2. CASE Rename(j)
    <2>1. archive' = archive /\ live[Current(j)] = Nothing
      BY <1>2 DEF Rename, Present
    <2>2. \A d \in Dir \ {Current(j)} : live'[d] = live[d]
      BY <1>0, <1>2 DEF Types, Rename
    <2> QED BY <2>1, <2>2, NothingWhole DEF Preserved
  <1>3. CASE CopyFile(j)
    <2>1. PICK p : live' = [live EXCEPT ![Current(j)][p] = j]
      BY <1>3 DEF CopyFile
    <2>2. archive' = archive /\ pc[j] = "copy" /\ Current(j) \in Dir
      BY <1>0, <1>3 DEF CopyFile
    <2>3. ASSUME NEW k \in Job, live[Current(j)] = Whole(k)
          PROVE  live'[Current(j)] = Whole(k)
      <3>1. PICK q \in Piece : TRUE
        BY MoveAssumption
      <3>2. live[Current(j)][q] \in {j, NoJob} /\ live[Current(j)][q] = k
        BY <1>0, <2>2, <2>3 DEF Cleared, Whole
      <3>3. k = j
        BY <3>2, MoveAssumption
      <3>4. live'[Current(j)] = [live[Current(j)] EXCEPT ![p] = j]
        BY <1>0, <2>1, <2>2 DEF Types
      <3> QED BY <2>3, <3>3, <3>4 DEF Whole
    <2>4. \A d \in Dir \ {Current(j)} : live'[d] = live[d]
      BY <1>0, <2>1 DEF Types
    <2> QED BY <2>2, <2>3, <2>4 DEF Preserved
  <1>4. CASE Submit(j) \/ Resume(j) \/ Acquire(j) \/ Encode(j) \/ EncodeFails(j) \/ List(j) \/ NextEntry(j)
    BY <1>4 DEF Preserved, Submit, Resume, Acquire, Encode, EncodeFails, List, NextEntry
  <1>5. CASE Stat(j) \/ RenameFails(j) \/ CopyError(j) \/ CopyEnds(j) \/ RemoveFile(j)
    BY <1>5 DEF Preserved, Stat, RenameFails, CopyError, CopyEnds, RemoveFile
  <1> QED BY <1>1, <1>2, <1>3, <1>4, <1>5 DEF JobStep

(* With one job at a time past the semaphore, a complete directory of      *)
(* OUTPUT_DIR is never destroyed: "a re-encode never destroys the previous *)
(* output" (archiveExisting, copyDir).                                     *)
THEOREM OutputsSurvive == ASSUME OneMover PROVE Spec => PreservesOutputs
  <1>1. MoveInv /\ [Next]_vars => [Preserved]_vars
    <2> SUFFICES ASSUME MoveInv, Next PROVE Preserved
      OBVIOUS
    <2>1. CASE Restart
      BY <2>1 DEF Restart, Preserved
    <2>2. CASE \E j \in Job : JobStep(j) \/ Resume(j)
      BY <2>2, StepPreserves
    <2> QED BY <2>1, <2>2 DEF Next
  <1>2. [Preserved]_vars <=> [/\ archive \subseteq archive'
                             /\ \A d \in Dir, j \in Job :
                                  live[d] = Whole(j) =>
                                    \/ live'[d] = Whole(j)
                                    \/ [dir |-> d, content |-> Whole(j)] \in archive']_vars
    BY DEF Preserved
  <1> QED BY <1>1, <1>2, MoveInit, MoveNext, PTL DEF Spec, PreservesOutputs

-----------------------------------------------------------------------------
(* What is in OUTPUT_DIR and in the staging directories, but for torn      *)
(* directories: nothing, something complete, or what a job is copying or   *)
(* removing right now.                                                     *)
IsWhole(d) == \E k \in Job : live[d] = Whole(k)

Half(d) == \E j \in Job : pc[j] = "copy" /\ Current(j) = d

Outputs == \A d \in Dir \ torn : live[d] = Nothing \/ IsWhole(d) \/ Half(d)

Staging(j) ==
  \A d \in Dir \ torn : tmp[j][d] \in {{}, Piece} \/ (pc[j] = "remove" /\ d = Current(j))

(* What the job at work has still to deliver is complete in its staging    *)
(* directory; the rest is complete in OUTPUT_DIR.                          *)
ToList(j) == pc[j] = "list" => \A d \in Dir \ torn : IsWhole(d) \/ tmp[j][d] = Piece

ToMove(j) ==
  pc[j] \in {"next"} \cup Moving =>
    /\ \A d \in Dir \ torn : IsWhole(d) \/ d \in entries[j]
    /\ \A d \in entries[j] \ torn : tmp[j][d] = Piece \/ (pc[j] = "remove" /\ d = Current(j))

Moved(j) == pc[j] = "remove" /\ Current(j) \notin torn => live[Current(j)] = Whole(j)

WholeInv == Outputs /\ \A j \in Job : Staging(j) /\ ToList(j) /\ ToMove(j) /\ Moved(j)

Work(j) == Staging(j) /\ ToList(j) /\ ToMove(j) /\ Moved(j)

(* A step that leaves OUTPUT_DIR alone, and no copy behind.                *)
LEMMA OutputsKept ==
  ASSUME Outputs, NEW j \in Job, Others(j), live' = live, torn \subseteq torn',
         pc[j] = "copy" => \/ pc'[j] = "copy" /\ entries'[j] = entries[j]
                           \/ Current(j) \in torn' \/ IsWhole(Current(j))
  PROVE  Outputs'
  <1> SUFFICES ASSUME NEW d \in Dir \ torn' PROVE live'[d] = Nothing \/ IsWhole(d)' \/ Half(d)'
    BY DEF Outputs
  <1>1. live[d] = Nothing \/ IsWhole(d) \/ Half(d)
    BY DEF Outputs
  <1>2. IsWhole(d) => IsWhole(d)'
    BY DEF IsWhole
  <1>3. ASSUME Half(d) PROVE IsWhole(d) \/ Half(d)'
    <2>1. PICK i \in Job : pc[i] = "copy" /\ Current(i) = d
      BY <1>3 DEF Half
    <2>2. CASE i # j
      BY <2>1, <2>2, SameCurrent DEF Others, Half
    <2>3. CASE i = j
      BY <2>1, <2>3, SameCurrent DEF Half
    <2> QED BY <2>2, <2>3
  <1> QED BY <1>1, <1>2, <1>3

(* The steps before and between the moves.                                 *)
LEMMA IdleWork ==
  ASSUME Types, NEW j \in Job, Staging(j), pc[j] # "remove", tmp'[j] = tmp[j], torn' = torn,
         pc'[j] \in {"idle", "slot", "encode"}
  PROVE  Work(j)'
  BY DEF Work, Staging, ToList, ToMove, Moved, Moving

LEMMA EncodeWork ==
  ASSUME OneMover, MoveInv, WholeInv, NEW j \in Job, Encode(j)
  PROVE  Work(j)'
  <1>1. PICK w \in {Missing, Dir} :
          tmp' = [tmp EXCEPT ![j] = [d \in Dir |-> IF d \in w THEN Piece ELSE @[d]]]
    BY DEF Encode
  <1>2. /\ pc[j] = "encode" /\ live' = live /\ torn' = torn
        /\ pc' = [pc EXCEPT ![j] = "list"]
    BY DEF Encode, Goto
  <1>3. pc'[j] = "list"
    BY <1>2 DEF MoveInv, Types
  <1>4. \A d \in Dir : tmp'[j][d] = IF d \in w THEN Piece ELSE tmp[j][d]
    BY <1>1 DEF MoveInv, Types
  <1>5. ASSUME NEW d \in Dir \ torn, d \notin w PROVE IsWhole(d)'
    <2>1. live[d] # Nothing
      BY <1>5 DEF Missing
    <2>2. ~Half(d)
      BY <1>2 DEF Half, MoveInv, Solo, Working
    <2>3. IsWhole(d)
      BY <2>1, <2>2 DEF WholeInv, Outputs
    <2> QED BY <1>2, <2>3 DEF IsWhole
  <1>6. \A d \in Dir \ torn : tmp[j][d] \in {{}, Piece}
    BY <1>2 DEF WholeInv, Staging
  <1>7. Staging(j)'
    BY <1>2, <1>4, <1>6 DEF Staging
  <1>8. ToList(j)'
    BY <1>2, <1>4, <1>5 DEF ToList
  <1> QED BY <1>3, <1>7, <1>8 DEF Work, ToMove, Moved, Moving

LEMMA ListWork ==
  ASSUME MoveInv, WholeInv, NEW j \in Job, List(j)
  PROVE  Work(j)'
  <1>1. /\ pc[j] = "list" /\ pc'[j] = "next" /\ entries'[j] = Staged(j)
        /\ UNCHANGED <<tmp, live, torn>>
    BY DEF List, Goto, MoveInv, Types
  <1>2. \A d \in Dir \ torn : tmp[j][d] \in {{}, Piece} /\ (IsWhole(d) \/ tmp[j][d] = Piece)
    BY <1>1 DEF WholeInv, Staging, ToList
  <1>3. Piece # {}
    BY MoveAssumption
  <1>4. \A d \in Dir : IsWhole(d) => IsWhole(d)'
    BY <1>1 DEF IsWhole
  <1>5. Staging(j)'
    BY <1>1, <1>2 DEF Staging
  <1>6. ToMove(j)'
    BY <1>1, <1>2, <1>3, <1>4 DEF ToMove, Staged
  <1> QED BY <1>1, <1>5, <1>6 DEF Work, ToList, Moved

(* From one place among the moves to another, with nothing moved.          *)
LEMMA SameWork ==
  ASSUME MoveInv, WholeInv, NEW j \in Job, pc[j] \in ({"next"} \cup Moving) \ {"remove"},
         pc'[j] \in Moving \ {"remove"}, entries'[j] = entries[j], tmp'[j] = tmp[j],
         torn' = torn, \A d \in Dir \ entries[j] : live'[d] = live[d]
  PROVE  Work(j)'
  <1>1. /\ \A d \in Dir \ torn : tmp[j][d] \in {{}, Piece} /\ (IsWhole(d) \/ d \in entries[j])
        /\ \A d \in entries[j] \ torn : tmp[j][d] = Piece
    BY DEF WholeInv, Staging, ToMove
  <1>2. \A d \in Dir \ entries[j] : IsWhole(d) => IsWhole(d)'
    BY DEF IsWhole
  <1>3. Staging(j)'
    BY <1>1 DEF Staging
  <1>4. ToMove(j)'
    BY <1>1, <1>2 DEF ToMove
  <1> QED BY <1>3, <1>4 DEF Work, ToList, Moved, Moving

LEMMA RenameWork ==
  ASSUME MoveInv, WholeInv, NEW j \in Job, Rename(j)
  PROVE  Work(j)' /\ (Current(j) \notin torn => live'[Current(j)] = Whole(j))
  <1> DEFINE c == Current(j)
  <1>1. pc[j] = "move" /\ c \in Dir /\ c \in entries[j] /\ torn' = torn
    BY CurrentIn DEF Rename, MoveInv, AtDir, Moving
  <1>2. /\ live' = [live EXCEPT ![c] = [p \in Piece |-> IF p \in tmp[j][c] THEN j ELSE NoJob]]
        /\ tmp' = [tmp EXCEPT ![j][c] = {}]
        /\ entries' = [entries EXCEPT ![j] = @ \ {c}]
        /\ pc' = [pc EXCEPT ![j] = "next"]
    BY DEF Rename, Goto
  <1> HIDE DEF c
  <1>3. /\ live'[c] = [p \in Piece |-> IF p \in tmp[j][c] THEN j ELSE NoJob]
        /\ \A d \in Dir \ {c} : live'[d] = live[d] /\ tmp'[j][d] = tmp[j][d]
        /\ tmp'[j][c] = {} /\ entries'[j] = entries[j] \ {c} /\ pc'[j] = "next"
    BY <1>1, <1>2 DEF MoveInv, Types
  <1>4. /\ \A d \in Dir \ torn : tmp[j][d] \in {{}, Piece} /\ (IsWhole(d) \/ d \in entries[j])
        /\ \A d \in entries[j] \ torn : tmp[j][d] = Piece
    BY <1>1 DEF WholeInv, Staging, ToMove, Moving
  <1>5. c \notin torn => live'[c] = Whole(j)
    BY <1>1, <1>3, <1>4 DEF Whole
  <1>6. /\ \A d \in Dir \ {c} : IsWhole(d) => IsWhole(d)'
        /\ \A d \in Dir : d = c /\ d \notin torn => IsWhole(d)'
    BY <1>3, <1>5 DEF IsWhole
  <1>7. Staging(j)'
    BY <1>1, <1>3, <1>4 DEF Staging
  <1>8. ToMove(j)'
    <2>1. \A d \in Dir \ torn : IsWhole(d)' \/ d \in entries'[j]
      BY <1>1, <1>3, <1>4, <1>6
    <2>2. \A d \in entries'[j] \ torn : tmp'[j][d] = Piece
      BY <1>1, <1>3, <1>4 DEF MoveInv, Types
    <2> QED BY <1>1, <2>1, <2>2 DEF ToMove
  <1>9. Work(j)'
    BY <1>3, <1>7, <1>8 DEF Work, ToList, Moved
  <1> QED BY <1>5, <1>9 DEF c

LEMMA CopyEndsWork ==
  ASSUME MoveInv, WholeInv, NEW j \in Job, CopyEnds(j)
  PROVE  Work(j)' /\ (Current(j) \in torn \/ live[Current(j)] = Whole(j))
  <1> DEFINE c == Current(j)
  <1>1. /\ pc[j] = "copy" /\ pc'[j] = "remove" /\ UNCHANGED <<tmp, live, torn, entries>>
        /\ tmp[j][c] \ copied[j] = {}
    BY DEF CopyEnds, Goto, Copied, ToCopy, MoveInv, Types
  <1>2. c \in Dir /\ c \in entries[j] /\ Current(j)' = c
    BY <1>1, CurrentIn, SameCurrent DEF MoveInv, AtDir, Moving
  <1>3. \A p \in Piece : live[c][p] = IF p \in copied[j] THEN j ELSE NoJob
    BY <1>1 DEF MoveInv, Cleared
  <1> HIDE DEF c
  <1>4. /\ \A d \in Dir \ torn : tmp[j][d] \in {{}, Piece} /\ (IsWhole(d) \/ d \in entries[j])
        /\ \A d \in entries[j] \ torn : tmp[j][d] = Piece
    BY <1>1 DEF WholeInv, Staging, ToMove, Moving
  <1>5. ASSUME c \notin torn PROVE live[c] = Whole(j)
    <2>1. \A p \in Piece : live[c][p] = j
      BY <1>1, <1>2, <1>3, <1>4, <1>5
    <2>2. live[c] \in [Piece -> Job \cup {NoJob}]
      BY <1>2 DEF MoveInv, Types
    <2> QED BY <2>1, <2>2 DEF Whole
  <1>6. \A d \in Dir : IsWhole(d) => IsWhole(d)'
    BY <1>1 DEF IsWhole
  <1>7. Staging(j)'
    BY <1>1, <1>4 DEF Staging
  <1>8. ToMove(j)'
    BY <1>1, <1>4, <1>6 DEF ToMove
  <1>9. Moved(j)'
    BY <1>1, <1>2, <1>5 DEF Moved
  <1> QED BY <1>1, <1>5, <1>7, <1>8, <1>9 DEF Work, ToList, c

LEMMA RemoveWork ==
  ASSUME MoveInv, WholeInv, NEW j \in Job, RemoveFile(j)
  PROVE  Work(j)'
  <1> DEFINE c == Current(j)
  <1>1. pc[j] = "remove" /\ c \in Dir /\ UNCHANGED <<live, torn>>
    BY CurrentIn DEF RemoveFile, MoveInv, AtDir, Moving
  <1>2. \/ /\ \E p \in tmp[j][c] : tmp' = [tmp EXCEPT ![j][c] = @ \ {p}]
           /\ UNCHANGED <<pc, entries>>
        \/ /\ tmp[j][c] = {}
           /\ entries' = [entries EXCEPT ![j] = @ \ {c}]
           /\ pc' = [pc EXCEPT ![j] = "next"]
           /\ UNCHANGED tmp
    BY DEF RemoveFile, Goto
  <1>3. /\ \A d \in Dir \ torn : tmp[j][d] \in {{}, Piece} \/ d = c
        /\ \A d \in Dir \ torn : IsWhole(d) \/ d \in entries[j]
        /\ \A d \in entries[j] \ torn : tmp[j][d] = Piece \/ d = c
        /\ c \notin torn => live[c] = Whole(j)
    BY <1>1 DEF WholeInv, Staging, ToMove, Moved, Moving
  <1>4. /\ \A d \in Dir : IsWhole(d) => IsWhole(d)'
        /\ c \notin torn => \A d \in Dir : d = c => IsWhole(d)'
    BY <1>1, <1>3 DEF IsWhole
  <1>5. CASE UNCHANGED <<pc, entries>> /\ \E p \in tmp[j][c] : tmp' = [tmp EXCEPT ![j][c] = @ \ {p}]
    <2>1. Current(j)' = c
      BY <1>5, SameCurrent
    <2> HIDE DEF c
    <2>2. \A d \in Dir \ {c} : tmp'[j][d] = tmp[j][d]
      BY <1>1, <1>5 DEF MoveInv, Types
    <2>3. Staging(j)'
      BY <1>1, <1>3, <1>5, <2>1, <2>2 DEF Staging
    <2>4. ToMove(j)'
      BY <1>1, <1>3, <1>4, <1>5, <2>1, <2>2 DEF ToMove, MoveInv, Types
    <2>5. Moved(j)'
      BY <1>1, <1>3, <1>5, <2>1 DEF Moved
    <2> QED BY <1>1, <1>5, <2>3, <2>4, <2>5 DEF Work, ToList
  <1>6. CASE /\ tmp[j][c] = {}
             /\ entries' = [entries EXCEPT ![j] = @ \ {c}]
             /\ pc' = [pc EXCEPT ![j] = "next"]
             /\ UNCHANGED tmp
    <2> HIDE DEF c
    <2>1. entries'[j] = entries[j] \ {c} /\ pc'[j] = "next"
      BY <1>6 DEF MoveInv, Types
    <2>2. Staging(j)'
      BY <1>1, <1>3, <1>6, <2>1 DEF Staging
    <2>3. ToMove(j)'
      BY <1>1, <1>3, <1>4, <1>6, <2>1 DEF ToMove
    <2> QED BY <2>1, <2>2, <2>3 DEF Work, ToList, Moved
  <1> QED BY <1>2, <1>5, <1>6

LEMMA FailWork ==
  ASSUME Types, NEW j \in Job, Fail(j)
  PROVE  Work(j)' /\ pc'[j] = "idle"
  <1>1. pc'[j] = "idle" /\ tmp'[j] = [d \in Dir |-> {}]
    BY FailTypes
  <1> QED BY <1>1 DEF Work, Staging, ToList, ToMove, Moved, Moving

LEMMA OthersWork ==
  ASSUME MoveInv, WholeInv, NEW j \in Job, Others(j), torn \subseteq torn',
         live' = live \/ Working(j), NEW k \in Job \ {j}
  PROVE  Work(k)'
  <1>1. /\ pc'[k] = pc[k] /\ tmp'[k] = tmp[k] /\ entries'[k] = entries[k]
        /\ Current(k)' = Current(k)
    BY SameCurrent DEF Others
  <1>2. Staging(k) /\ ToList(k) /\ ToMove(k) /\ Moved(k)
    BY DEF WholeInv
  <1>3. Staging(k)'
    BY <1>1, <1>2 DEF Staging
  <1>4. CASE live' = live
    <2>1. \A d : IsWhole(d) => IsWhole(d)'
      BY <1>4 DEF IsWhole
    <2>2. ToList(k)'
      BY <1>1, <1>2, <2>1 DEF ToList
    <2>3. ToMove(k)'
      BY <1>1, <1>2, <2>1 DEF ToMove
    <2>4. Moved(k)'
      BY <1>1, <1>2, <1>4 DEF Moved
    <2> QED BY <1>3, <2>2, <2>3, <2>4 DEF Work
  <1>5. CASE Working(j)
    <2>1. pc[k] \in {"idle", "slot"}
      BY <1>5 DEF MoveInv, Solo, Working
    <2> QED BY <1>1, <1>3, <2>1 DEF Work, ToList, ToMove, Moved, Moving
  <1> QED BY <1>4, <1>5

(* A step that changes one directory of OUTPUT_DIR, to nothing, to         *)
(* something complete or to a copy under way.                              *)
LEMMA OutputsChanged ==
  ASSUME Outputs, NEW j \in Job, Others(j), torn' = torn, NEW c \in Dir,
         \A d \in Dir \ {c} : live'[d] = live[d],
         c \in torn \/ live'[c] = Nothing \/ IsWhole(c)' \/ Half(c)',
         pc[j] = "copy" => Current(j) = c
  PROVE  Outputs'
  <1> SUFFICES ASSUME NEW d \in Dir \ torn', d # c
               PROVE  live'[d] = Nothing \/ IsWhole(d)' \/ Half(d)'
    BY DEF Outputs
  <1>1. live[d] = Nothing \/ IsWhole(d) \/ Half(d)
    BY DEF Outputs
  <1>2. IsWhole(d) => IsWhole(d)'
    BY DEF IsWhole
  <1>3. ASSUME Half(d) PROVE Half(d)'
    <2>1. PICK i \in Job : pc[i] = "copy" /\ Current(i) = d
      BY <1>3 DEF Half
    <2>2. i # j
      BY <2>1
    <2> QED BY <2>1, <2>2, SameCurrent DEF Others, Half
  <1> QED BY <1>1, <1>2, <1>3

LEMMA WholeStep ==
  ASSUME OneMover, MoveInv, WholeInv, NEW j \in Job, JobStep(j) \/ Resume(j)
  PROVE  WholeInv'
  <1> USE DEF Goto
  <1>0. /\ Types /\ AtDir(j) /\ Outputs /\ Staging(j) /\ Others(j)
        /\ pc[j] \in Moving => Current(j) \in Dir /\ Current(j) \in entries[j]
    BY MoveStep, CurrentIn DEF MoveInv, WholeInv, AtDir
  <1>1. torn \subseteq torn' /\ (live' = live \/ Working(j))
    <2>1. live' = live \/ Working(j)
      BY <1>0, LiveChange
    <2>2. torn \subseteq torn'
      BY DEF JobStep, Submit, Acquire, Encode, EncodeFails, List, NextEntry, Stat, Archive, Rename,
             RenameFails, CopyFile, CopyError, CopyEnds, RemoveFile, Resume
    <2> QED BY <2>1, <2>2
  <1>2. SUFFICES Outputs' /\ Work(j)'
    BY <1>0, <1>1, OthersWork DEF WholeInv, Work
  <1>3. CASE Submit(j) \/ Resume(j)
    <2>1. pc[j] = "idle" /\ pc'[j] = "slot" /\ UNCHANGED <<live, torn, tmp>>
      BY <1>3 DEF MoveInv, Types, AtRest, Submit, Resume
    <2> QED BY <1>0, <2>1, IdleWork, OutputsKept
  <1>4. CASE Acquire(j)
    <2>1. pc[j] = "slot" /\ pc'[j] = "encode" /\ UNCHANGED <<live, torn, tmp>>
      BY <1>0, <1>4 DEF Types, Acquire
    <2> QED BY <1>0, <2>1, IdleWork, OutputsKept
  <1>5. CASE Encode(j)
    <2>1. pc[j] = "encode" /\ UNCHANGED <<live, torn>>
      BY <1>5 DEF Encode
    <2> QED BY <1>0, <1>5, <2>1, EncodeWork, OutputsKept
  <1>6. CASE EncodeFails(j)
    <2>1. pc[j] = "encode" /\ UNCHANGED <<live, torn>> /\ Fail(j)
      BY <1>6 DEF EncodeFails
    <2> QED BY <1>0, <2>1, FailWork, OutputsKept
  <1>7. CASE List(j)
    <2>1. pc[j] = "list" /\ UNCHANGED <<live, torn>>
      BY <1>7 DEF List
    <2> QED BY <1>0, <1>7, <2>1, ListWork, OutputsKept
  <1>8. CASE NextEntry(j)
    <2>1. pc[j] = "next" /\ UNCHANGED <<live, torn, tmp, entries>> /\ pc'[j] \in {"idle", "stat"}
      BY <1>0, <1>8 DEF Types, NextEntry
    <2>2. CASE pc'[j] = "idle"
      BY <1>0, <2>1, <2>2, IdleWork, OutputsKept
    <2>3. CASE pc'[j] = "stat"
      <3>1. Work(j)'
        BY <2>1, <2>3, SameWork DEF Moving
      <3> QED BY <1>0, <2>1, <3>1, OutputsKept
    <2> QED BY <2>1, <2>2, <2>3
  <1>9. CASE Stat(j) \/ RenameFails(j)
    <2>1. /\ pc[j] \in {"stat", "move"} /\ UNCHANGED <<live, torn, tmp, entries>>
          /\ pc'[j] \in {"archive", "move", "copy"}
      BY <1>0, <1>9 DEF Types, Stat, RenameFails
    <2>2. Work(j)'
      BY <2>1, SameWork DEF Moving
    <2> QED BY <1>0, <2>1, <2>2, OutputsKept
  <1>10. CASE Archive(j)
    <2>1. /\ pc[j] = "archive" /\ pc'[j] = "move" /\ UNCHANGED <<torn, tmp, entries>>
          /\ live'[Current(j)] = Nothing /\ \A d \in Dir \ {Current(j)} : live'[d] = live[d]
          /\ Current(j) \in Dir /\ Current(j) \in entries[j]
      BY <1>0, <1>10 DEF Types, Archive, Moving
    <2>2. Work(j)'
      BY <2>1, SameWork DEF Moving
    <2> QED BY <1>0, <2>1, <2>2, OutputsChanged
  <1>11. CASE Rename(j)
    <2>1. /\ pc[j] = "move" /\ torn' = torn /\ Current(j) \in Dir
          /\ \A d \in Dir \ {Current(j)} : live'[d] = live[d]
      BY <1>0, <1>11 DEF Types, Rename, Moving
    <2>2. Work(j)' /\ (Current(j) \notin torn => live'[Current(j)] = Whole(j))
      BY <1>11, RenameWork
    <2>3. PICK c \in Dir : c = Current(j)
      BY <2>1
    <2>4. c \in torn \/ IsWhole(c)'
      BY <2>2, <2>3 DEF IsWhole
    <2>5. Outputs'
      BY <1>0, <2>1, <2>3, <2>4, OutputsChanged
    <2> QED BY <2>2, <2>5
  <1>12. CASE CopyFile(j)
    <2>1. /\ pc[j] = "copy" /\ pc'[j] = "copy" /\ UNCHANGED <<torn, tmp, entries>>
          /\ \A d \in Dir \ {Current(j)} : live'[d] = live[d]
          /\ Current(j) \in Dir /\ Current(j) \in entries[j]
      BY <1>0, <1>12 DEF Types, CopyFile, Moving
    <2>2. Work(j)'
      BY <2>1, SameWork DEF Moving
    <2>3. PICK c \in Dir : c = Current(j)
      BY <2>1
    <2>4. Half(c)'
      BY <2>1, <2>3, SameCurrent DEF Half
    <2>5. Outputs'
      BY <1>0, <2>1, <2>3, <2>4, OutputsChanged
    <2> QED BY <2>2, <2>5
  <1>13. CASE CopyError(j)
    <2>1. live' = live /\ Current(j) \in torn' /\ Fail(j)
      BY <1>13 DEF CopyError
    <2> QED BY <1>0, <1>1, <2>1, FailWork, OutputsKept
  <1>14. CASE CopyEnds(j)
    <2>1. UNCHANGED <<live, torn>>
      BY <1>14 DEF CopyEnds
    <2>2. Work(j)' /\ (Current(j) \in torn \/ IsWhole(Current(j)))
      BY <1>14, CopyEndsWork DEF IsWhole
    <2> QED BY <1>0, <2>1, <2>2, OutputsKept
  <1>15. CASE RemoveFile(j)
    <2>1. pc[j] = "remove" /\ UNCHANGED <<live, torn>>
      BY <1>15 DEF RemoveFile
    <2> QED BY <1>0, <1>15, <2>1, RemoveWork, OutputsKept
  <1> QED BY <1>3, <1>4, <1>5, <1>6, <1>7, <1>8, <1>9, <1>10, <1>11, <1>12, <1>13, <1>14, <1>15
          DEF JobStep

LEMMA WholeRestart == MoveInv /\ WholeInv /\ Restart => WholeInv'
  <1> SUFFICES ASSUME MoveInv, WholeInv, Restart PROVE WholeInv'
    OBVIOUS
  <1>1. /\ torn \subseteq torn' /\ UNCHANGED <<live, tmp>>
        /\ \A j \in Job : pc'[j] \in {"slot", "idle"}
        /\ \A j \in Job : pc[j] \in {"copy", "remove"} => Current(j) \in torn'
    BY DEF Restart
  <1>2. Outputs'
    <2>1. \A d : IsWhole(d) => IsWhole(d)'
      BY <1>1 DEF IsWhole
    <2>2. \A d \in Dir \ torn' : ~Half(d)
      BY <1>1 DEF Half
    <2> QED BY <1>1, <2>1, <2>2 DEF WholeInv, Outputs
  <1>3. ASSUME NEW j \in Job PROVE Work(j)'
    <2>1. Staging(j)'
      BY <1>1 DEF WholeInv, Staging
    <2> QED BY <1>1, <2>1 DEF Work, ToList, ToMove, Moved, Moving
  <1> QED BY <1>2, <1>3 DEF WholeInv, Work

LEMMA WholeNext == OneMover /\ MoveInv /\ WholeInv /\ [Next]_vars => WholeInv'
  <1> SUFFICES ASSUME OneMover, MoveInv, WholeInv, [Next]_vars PROVE WholeInv'
    OBVIOUS
  <1>1. CASE UNCHANGED vars
    BY <1>1 DEF WholeInv, Outputs, IsWhole, Half, Staging, ToList, ToMove, Moved, Current, vars
  <1> QED BY <1>1, WholeStep, WholeRestart DEF Next

(* A job that says done has whole outputs at every directory whose own     *)
(* move was not cut short.                                                 *)
AllDone == \A d \in Dir \ torn : DoneWith(d)

LEMMA DoneStep == MoveInv /\ WholeInv /\ Next => AllDone
  <1> SUFFICES ASSUME MoveInv, WholeInv, Next, NEW d \in Dir \ torn,
                      NEW j \in Job, status[j] = "active", status'[j] = "done"
               PROVE  \E k \in Job : live'[d] = Whole(k)
    BY DEF AllDone, DoneWith
  <1>1. ~Restart
    BY DEF Restart
  <1>2. PICK i \in Job : JobStep(i) \/ Resume(i)
    BY <1>1 DEF Next
  <1>3. i = j
    <2>1. Types /\ AtDir(i)
      BY DEF MoveInv
    <2>2. Others(i)
      BY <1>2, <2>1, StepTypes
    <2> QED BY <2>2 DEF Others
  <1>4. NextEntry(j) /\ entries[j] = {}
    <2>1. CASE Fail(j)
      BY <2>1 DEF Fail, MoveInv, Types
    <2>2. CASE Submit(j) \/ Resume(j)
      BY <2>2 DEF Submit, Resume, MoveInv, Types
    <2>3. CASE NextEntry(j)
      BY <2>3 DEF NextEntry
    <2>4. status' # status
      OBVIOUS
    <2> QED BY <1>2, <1>3, <2>1, <2>2, <2>3, <2>4
            DEF JobStep, Acquire, Encode, EncodeFails, List, Stat, Archive, Rename, RenameFails,
                CopyFile, CopyError, CopyEnds, RemoveFile
  <1>5. IsWhole(d) /\ live' = live
    BY <1>4 DEF NextEntry, WholeInv, ToMove
  <1> QED BY <1>5 DEF IsWhole

(* With one job at a time past the semaphore, a job that is done has a     *)
(* complete directory for every codec, through resumes and restarts:       *)
(* "done: every file encoded and moved to OUTPUT_DIR", but for directories *)
(* whose own move was cut short (moveTmpToOutput, resolveCodec).           *)
THEOREM DoneDeliversWhole == ASSUME OneMover PROVE Spec => DoneIsWhole
  <1>1. Init => WholeInv
    BY DEF Init, WholeInv, Outputs, Staging, ToList, ToMove, Moved, Moving
  <1>2. MoveInv /\ WholeInv /\ [Next]_vars => [AllDone]_vars
    BY DoneStep
  <1>3. [AllDone]_vars <=> [\A d \in Dir \ torn : DoneWith(d)]_vars
    BY DEF AllDone
  <1> QED BY <1>1, <1>2, <1>3, MoveInit, MoveNext, WholeNext, PTL DEF Spec, DoneIsWhole
=============================================================================
