------------------------- MODULE DescriptionsProofs -------------------------
(***************************************************************************)
(* Theorems about module Descriptions, for any number of passes, hashes    *)
(* and models.                                                             *)
(*                                                                         *)
(* PairInv: whatever holds descriptions, a file, a cache in memory or a    *)
(* payload about to be written, has with each of them the producer it      *)
(* comes from.  It needs nothing about who writes when.                    *)
(*                                                                         *)
(* SaveInv: a save that nothing overlapped writes, through the temporary   *)
(* file it opened, at least what the cache file holds.                     *)
(***************************************************************************)
EXTENDS Descriptions, FiniteSetTheorems, TLAPS

PassPC == {"idle", "generate", "merge", "openTmp", "writeTmp", "replace", "ended", "failed"}

\* Control points at which a save holds the temporary file open.
Writing == {"writeTmp", "replace"}

DescTypeOK ==
    /\ disk = [i \in Inode |-> disk[i]]
    /\ path \in {NoInode} \union Inode
    /\ tmp \in {NoInode} \union Inode
    /\ pc \in [Job -> PassPC]
    /\ cache = [j \in Job |-> cache[j]]
    /\ merged = [j \in Job |-> merged[j]]
    /\ fd \in [Job -> {NoInode} \union Inode]
    /\ overlapped \in BOOLEAN

Producer(text) == IF text = Old THEN OldModel ELSE ModelOf[text]

\* Each description of c has its producer, and there are no other producers.
Paired(c) ==
    /\ DOMAIN c.producers = DOMAIN c.data
    /\ \A h \in DOMAIN c.data : c.producers[h] = Producer(c.data[h])

PairInv ==
    OldModel # Unknown =>
        /\ \A i \in Inode : Paired(disk[i])
        /\ \A j \in Job : Paired(cache[j]) /\ Paired(merged[j])

\* A file is open exactly while it is being written, and the temporary file is
\* not the cache file.
FilesApart ==
    /\ \A j \in Job : fd[j] \in Inode <=> pc[j] \in Writing
    /\ tmp \in Inode => tmp # path

\* A save that nothing overlapped.
AloneAt(j) ==
    /\ \A k \in Job : Saving(k) => k = j
    /\ DOMAIN OnDisk.data \subseteq DOMAIN merged[j].data
    /\ pc[j] \in Writing => tmp \in Inode /\ fd[j] = tmp
    /\ pc[j] = "writeTmp" => ~disk[tmp].whole
    /\ pc[j] = "replace" => disk[tmp].data = merged[j].data

SaveInv ==
    /\ DescTypeOK /\ FilesApart
    /\ ~overlapped => \A j \in Job : Saving(j) => AloneAt(j)

-----------------------------------------------------------------------------
USE DEF vars, NoInode

\* open() finds an inode that nobody uses.
LEMMA AnInodeIsFree ==
    ASSUME SaveInv, NEW j \in Job, pc[j] \notin Writing, tmp = NoInode
    PROVE  FreeInode \in Inode /\ FreeInode # path /\ \A k \in Job : fd[k] # FreeInode
<1> DEFINE User(i) == IF i = path THEN j ELSE CHOOSE k \in Job : fd[k] = i
           user == [i \in Inode |-> User(i)]
<1>1. /\ IsFiniteSet(Inode) /\ IsFiniteSet(Job)
      /\ Cardinality(Job) < Cardinality(Inode)
  <2>1. IsFiniteSet(Job) /\ Cardinality(Job) \in Nat
    BY TextAssumption, FS_CardinalityType
  <2>2. IsFiniteSet(Inode) /\ Cardinality(Inode) = Cardinality(Job) + 1
    BY <2>1, FS_Interval, 1 \in Int, Cardinality(Job) + 1 \in Int DEF Inode
  <2> QED BY <2>1, <2>2
<1>2. fd[j] \notin Inode
  BY DEF SaveInv, FilesApart
<1>3. ASSUME \A i \in Inode : i = path \/ \E k \in Job : fd[k] = i PROVE FALSE
  <2>1. \A i \in Inode : User(i) \in Job /\ (i # path => fd[User(i)] = i)
    BY <1>3
  <2>2. user \in [Inode -> Job]
    BY <2>1
  <2> HIDE DEF user
  <2>3. PICK x \in Inode, y \in Inode : x # y /\ user[x] = user[y]
    BY <1>1, <2>2, FS_PigeonHole
  <2>4. User(x) = User(y)
    BY <2>3 DEF user
  <2>5. (x = path => User(x) = j) /\ (y = path => User(y) = j)
    OBVIOUS
  <2> HIDE DEF User
  <2> QED BY <1>2, <2>1, <2>3, <2>4, <2>5
<1>4. \E i \in Inode : i # path /\ i # tmp /\ \A k \in Job : fd[k] # i
  BY <1>3 DEF Inode
<1> QED BY <1>4 DEF FreeInode

-----------------------------------------------------------------------------
(* Descriptions and producers.                                             *)

LEMMA NothingIsPaired == Paired(NoEntries) /\ Paired(Truncated)
BY DEF NoEntries, Truncated, Empty, Paired

LEMMA MergeIsPaired ==
    ASSUME NEW c, NEW d, NEW e, Paired(c), Paired(d),
           e.data = Updated(c.data, d.data),
           e.producers = Updated(c.producers, d.producers)
    PROVE  Paired(e)
BY DEF Paired, Updated

LEMMA PairInit == Init => PairInv
<1> SUFFICES ASSUME Init, OldModel # Unknown PROVE PairInv
  BY DEF PairInv
<1>1. ASSUME NEW i \in Inode PROVE Paired(disk[i])
  <2>1. PICK known \in SUBSET Hash :
          disk = [k \in Inode |->
                    IF k = 1 /\ known # {}
                    THEN [whole |-> TRUE, data |-> [h \in known |-> Old],
                          producers |-> IF OldModel = Unknown THEN Empty
                                        ELSE [h \in known |-> OldModel]]
                    ELSE Truncated]
    BY DEF Init
  <2>2. CASE i = 1 /\ known # {}
    <3>1. disk[i].data = [h \in known |-> Old] /\ disk[i].producers = [h \in known |-> OldModel]
      BY <2>1, <2>2
    <3> QED BY <3>1 DEF Paired, Producer
  <2>3. CASE ~(i = 1 /\ known # {})
    BY <2>1, <2>3, NothingIsPaired
  <2> QED BY <2>2, <2>3
<1>2. \A j \in Job : Paired(cache[j]) /\ Paired(merged[j])
  BY NothingIsPaired DEF Init
<1> QED BY <1>1, <1>2 DEF PairInv

LEMMA OnDiskIsPaired ==
    ASSUME DescTypeOK, PairInv, OldModel # Unknown
    PROVE  Paired(OnDisk)
<1>1. CASE path = NoInode
  BY <1>1, NothingIsPaired DEF OnDisk
<1>2. CASE path # NoInode
  <2>1. Paired(disk[path]) /\ OnDisk = Parsed(disk[path])
    BY <1>2 DEF DescTypeOK, PairInv, OnDisk
  <2> QED BY <2>1 DEF Parsed, Paired
<1> QED BY <1>1, <1>2

LEMMA PairStep == DescTypeOK /\ PairInv /\ [Next]_vars => PairInv'
<1> SUFFICES ASSUME DescTypeOK, PairInv, [Next]_vars, OldModel # Unknown PROVE PairInv'
  BY DEF PairInv
<1>0. /\ \A i \in Inode : Paired(disk[i])
      /\ \A j \in Job : Paired(cache[j]) /\ Paired(merged[j])
      /\ disk = [i \in Inode |-> disk[i]]
      /\ cache = [j \in Job |-> cache[j]] /\ merged = [j \in Job |-> merged[j]]
  BY DEF PairInv, DescTypeOK
<1> DEFINE Kept == UNCHANGED <<disk, cache, merged>>
<1>1. CASE Kept
  BY <1>0, <1>1 DEF PairInv
<1>2. ASSUME NEW j \in Job, Open(j) PROVE PairInv'
  <2>1. \A k \in Job : cache'[k] = IF k = j THEN OnDisk ELSE cache[k]
    BY <1>0, <1>2 DEF Open
  <2> QED BY <1>0, <1>2, <2>1, OnDiskIsPaired DEF PairInv, Open
<1>3. ASSUME NEW j \in Job, Generate(j) PROVE PairInv'
  <2>1. PICK done : cache' = [cache EXCEPT ![j] = Generated(cache[j], j, done)]
    BY <1>3 DEF Generate
  <2>2. Paired(Generated(cache[j], j, done))
    <3>1. Paired([data |-> [h \in done |-> j], producers |-> [h \in done |-> ModelOf[j]]])
      BY TextAssumption DEF Paired, Producer
    <3> QED BY <1>0, <3>1, MergeIsPaired DEF Generated
  <2>3. \A k \in Job : cache'[k] = IF k = j THEN Generated(cache[j], j, done) ELSE cache[k]
    BY <1>0, <2>1
  <2> QED BY <1>0, <1>3, <2>2, <2>3 DEF PairInv, Generate
<1>4. ASSUME NEW j \in Job, Merge(j) PROVE PairInv'
  <2> DEFINE both == [data |-> Updated(OnDisk.data, cache[j].data),
                      producers |-> Updated(OnDisk.producers, cache[j].producers)]
  <2>1. \A k \in Job : merged'[k] = IF k = j THEN both ELSE merged[k]
    BY <1>0, <1>4 DEF Merge
  <2>2. /\ both.data = Updated(OnDisk.data, cache[j].data)
       /\ both.producers = Updated(OnDisk.producers, cache[j].producers)
    OBVIOUS
  <2> HIDE DEF both
  <2>3. Paired(both)
    BY <1>0, <2>2, OnDiskIsPaired, MergeIsPaired
  <2> QED BY <1>0, <1>4, <2>1, <2>3 DEF PairInv, Merge
<1>5. ASSUME NEW j \in Job, OpenTmp(j) PROVE PairInv'
  <2>1. PICK i : disk' = [disk EXCEPT ![i] = Truncated]
    BY <1>5 DEF OpenTmp
  <2>2. \A k \in Inode : disk'[k] = IF k = i THEN Truncated ELSE disk[k]
    BY <1>0, <2>1
  <2> QED BY <1>0, <1>5, <2>2, NothingIsPaired DEF PairInv, OpenTmp
<1>6. ASSUME NEW j \in Job, WriteTmp(j) PROVE PairInv'
  <2>1. PICK p \in {Payload(merged[j]), Truncated} : disk' = [disk EXCEPT ![fd[j]] = p]
    BY <1>6 DEF WriteTmp
  <2>2. Paired(p)
    BY <1>0, NothingIsPaired DEF Payload, Paired
  <2>3. \A k \in Inode : disk'[k] = IF k = fd[j] THEN p ELSE disk[k]
    BY <1>0, <2>1
  <2> QED BY <1>0, <1>6, <2>2, <2>3 DEF PairInv, WriteTmp
<1>7. ASSUME NEW j \in Job, GenerateRaises(j) \/ Replace(j) PROVE PairInv'
  BY <1>1, <1>7 DEF GenerateRaises, Replace
<1>8. CASE Crash \/ UNCHANGED vars
  BY <1>1, <1>8 DEF Crash
<1> QED BY <1>2, <1>3, <1>4, <1>5, <1>6, <1>7, <1>8 DEF Next, Pass

-----------------------------------------------------------------------------
(* Saves that nothing overlaps.                                            *)

LEMMA SaveInit == Init => SaveInv
<1> SUFFICES ASSUME Init PROVE SaveInv
  OBVIOUS
<1>1. disk = [i \in Inode |-> disk[i]] /\ 1 \in Inode
  <2>1. Cardinality(Job) \in Nat
    BY TextAssumption, FS_CardinalityType
  <2> QED BY <2>1 DEF Init, Inode
<1>2. DescTypeOK
  BY <1>1 DEF Init, DescTypeOK, PassPC
<1>3. FilesApart
  BY DEF Init, FilesApart, Writing, Inode
<1> QED BY <1>2, <1>3 DEF Init, SaveInv, Saving

\* The steps before a save and those that end a pass leave every save alone.
LEMMA NotSaving ==
    ASSUME SaveInv, NEW ended \in SUBSET Job, UNCHANGED <<disk, path, tmp, merged, overlapped>>,
           cache' = [j \in Job |-> cache'[j]],
           pc' \in [Job -> PassPC], fd' \in [Job -> {NoInode} \union Inode],
           \A j \in Job \ ended : pc'[j] = pc[j] /\ fd'[j] = fd[j],
           \A j \in ended : fd'[j] \notin Inode
                            /\ pc'[j] \in {"idle", "generate", "merge", "ended", "failed"}
    PROVE  SaveInv'
<1>1. DescTypeOK'
  BY DEF SaveInv, DescTypeOK
<1>2. FilesApart'
  BY DEF SaveInv, FilesApart, Writing
<1>3. ASSUME ~overlapped', NEW j \in Job, Saving(j)' PROVE AloneAt(j)'
  <2>1. j \notin ended /\ Saving(j) /\ \A k \in Job : Saving(k)' => Saving(k)
    BY <1>3 DEF Saving
  <2>2. AloneAt(j)
    BY <1>3, <2>1 DEF SaveInv
  <2> QED BY <2>1, <2>2 DEF AloneAt, OnDisk, Parsed
<1> QED BY <1>1, <1>2, <1>3 DEF SaveInv

LEMMA MergeStep ==
    ASSUME SaveInv, NEW j \in Job, Merge(j)
    PROVE  SaveInv'
<1>0. DescTypeOK /\ FilesApart /\ pc[j] = "merge"
  BY DEF SaveInv, Merge, Goto
<1>1. DescTypeOK'
  <2>1. pc' \in [Job -> PassPC] /\ overlapped' \in BOOLEAN
    BY <1>0 DEF Merge, Goto, DescTypeOK, PassPC
  <2> QED BY <1>0, <2>1 DEF Merge, DescTypeOK
<1>2. FilesApart'
  BY <1>0 DEF Merge, Goto, DescTypeOK, FilesApart, Writing
<1>3. ASSUME ~overlapped', NEW k \in Job, Saving(k)' PROVE AloneAt(k)'
  <2>1. /\ \A i \in Job \ {j} : ~Saving(i) /\ ~Saving(i)'
        /\ pc'[j] = "openTmp"
    BY <1>0, <1>3 DEF Merge, Goto, DescTypeOK, Saving
  <2>2. k = j
    BY <1>3, <2>1
  <2>3. DOMAIN OnDisk.data \subseteq DOMAIN merged'[j].data /\ OnDisk' = OnDisk
    BY <1>0 DEF Merge, DescTypeOK, Updated, OnDisk, Parsed
  <2> QED BY <2>1, <2>2, <2>3 DEF AloneAt, Writing
<1> QED BY <1>1, <1>2, <1>3 DEF SaveInv

\* Only the job that saves moves, when nothing overlaps its save.
LEMMA OpenTmpStep ==
    ASSUME SaveInv, NEW j \in Job, OpenTmp(j)
    PROVE  SaveInv' /\ (~overlapped => OnDisk' = OnDisk)
<1> DEFINE i == IF tmp = NoInode THEN FreeInode ELSE tmp
<1>0. DescTypeOK /\ FilesApart /\ pc[j] = "openTmp"
  BY DEF SaveInv, OpenTmp, Goto
<1>1. i \in Inode /\ i # path
  BY <1>0, AnInodeIsFree DEF DescTypeOK, FilesApart, Writing
<1>2. /\ disk' = [disk EXCEPT ![i] = Truncated] /\ tmp' = i
      /\ pc' = [pc EXCEPT ![j] = "writeTmp"] /\ fd' = [fd EXCEPT ![j] = i]
      /\ UNCHANGED <<path, cache, fresh, merged, overlapped>>
  BY DEF OpenTmp, Goto
<1> HIDE DEF i
<1>3. /\ disk' = [k \in Inode |-> disk'[k]]
      /\ \A k \in Inode : disk'[k] = IF k = i THEN Truncated ELSE disk[k]
  BY <1>0, <1>2 DEF DescTypeOK
<1>4. OnDisk' = OnDisk
  BY <1>0, <1>1, <1>2, <1>3 DEF DescTypeOK, OnDisk
<1>5. DescTypeOK'
  BY <1>0, <1>1, <1>2, <1>3 DEF DescTypeOK, PassPC
<1>6. FilesApart'
  BY <1>0, <1>1, <1>2 DEF DescTypeOK, FilesApart, Writing
<1>7. ASSUME ~overlapped', NEW k \in Job, Saving(k)' PROVE AloneAt(k)'
  <2>1. AloneAt(j)
    BY <1>0, <1>2, <1>7 DEF SaveInv, Saving
  <2>2. k = j /\ \A l \in Job : Saving(l)' => l = j
    BY <1>0, <1>2, <1>7, <2>1 DEF DescTypeOK, AloneAt, Saving
  <2>3. pc'[j] = "writeTmp" /\ fd'[j] = i /\ ~disk'[i].whole
    BY <1>0, <1>1, <1>2, <1>3 DEF DescTypeOK, Truncated
  <2> QED BY <1>1, <1>2, <1>4, <2>1, <2>2, <2>3 DEF AloneAt
<1> QED BY <1>4, <1>5, <1>6, <1>7 DEF SaveInv

LEMMA WriteTmpStep ==
    ASSUME SaveInv, NEW j \in Job, WriteTmp(j)
    PROVE  SaveInv' /\ (~overlapped => OnDisk' = OnDisk)
<1>0. DescTypeOK /\ FilesApart /\ pc[j] = "writeTmp" /\ fd[j] \in Inode
  BY DEF SaveInv, FilesApart, Writing, WriteTmp, Goto
<1>1. PICK p \in {Payload(merged[j])} \union (IF disk[fd[j]].whole THEN {Truncated} ELSE {}) :
          disk' = [disk EXCEPT ![fd[j]] = p]
  BY DEF WriteTmp
<1>2. pc' = [pc EXCEPT ![j] = "replace"] /\ UNCHANGED <<path, tmp, cache, fresh, merged, fd, overlapped>>
  BY DEF WriteTmp, Goto
<1>3. /\ disk' = [k \in Inode |-> disk'[k]]
      /\ \A k \in Inode : disk'[k] = IF k = fd[j] THEN p ELSE disk[k]
  BY <1>0, <1>1 DEF DescTypeOK
<1>4. DescTypeOK'
  BY <1>0, <1>2, <1>3 DEF DescTypeOK, PassPC
<1>5. FilesApart'
  BY <1>0, <1>2 DEF DescTypeOK, FilesApart, Writing
<1>6. ASSUME ~overlapped
      PROVE  OnDisk' = OnDisk /\ \A k \in Job : Saving(k)' => AloneAt(k)'
  <2>1. AloneAt(j)
    BY <1>0, <1>6 DEF SaveInv, Saving
  <2>2. tmp \in Inode /\ fd[j] = tmp /\ tmp # path /\ ~disk[tmp].whole
    BY <1>0, <2>1 DEF AloneAt, FilesApart, Writing
  <2>3. OnDisk' = OnDisk
    BY <1>0, <1>2, <1>3, <2>2 DEF DescTypeOK, OnDisk
  <2>4. p = Payload(merged[j]) /\ disk'[tmp].data = merged[j].data
    BY <1>1, <1>3, <2>2 DEF Payload
  <2>5. pc'[j] = "replace" /\ \A l \in Job : Saving(l)' => l = j
    BY <1>0, <1>2, <2>1 DEF DescTypeOK, AloneAt, Saving
  <2> QED BY <1>2, <2>1, <2>2, <2>3, <2>4, <2>5 DEF AloneAt
<1> QED BY <1>2, <1>4, <1>5, <1>6 DEF SaveInv

LEMMA ReplaceStep ==
    ASSUME SaveInv, NEW j \in Job, Replace(j)
    PROVE  SaveInv' /\ (~overlapped => DOMAIN OnDisk.data \subseteq DOMAIN (OnDisk').data)
<1>0. DescTypeOK /\ FilesApart /\ pc[j] = "replace"
  BY DEF SaveInv, Replace, Goto
<1>1. /\ fd' = [fd EXCEPT ![j] = NoInode] /\ UNCHANGED <<disk, cache, fresh, merged, overlapped>>
      /\ pc' = [pc EXCEPT ![j] = IF tmp = NoInode THEN "failed" ELSE "ended"]
      /\ path' = IF tmp = NoInode THEN path ELSE tmp
      /\ tmp' = NoInode
  BY DEF Replace, Goto
<1>2. DescTypeOK'
  BY <1>0, <1>1 DEF DescTypeOK, PassPC
<1>3. FilesApart'
  <2>1. NoInode \notin Inode
    BY DEF Inode
  <2> QED BY <1>0, <1>1, <2>1 DEF DescTypeOK, FilesApart, Writing
<1>4. ASSUME ~overlapped
      PROVE  /\ \A k \in Job : ~Saving(k)'
             /\ DOMAIN OnDisk.data \subseteq DOMAIN (OnDisk').data
  <2>1. AloneAt(j)
    BY <1>0, <1>4 DEF SaveInv, Saving
  <2>2. \A k \in Job : ~Saving(k)'
    BY <1>0, <1>1, <2>1 DEF DescTypeOK, AloneAt, Saving
  <2>3. tmp # NoInode /\ disk[tmp].data = merged[j].data
    BY <1>0, <2>1 DEF AloneAt, Writing, Inode
  <2>4. (OnDisk').data = merged[j].data
    BY <1>1, <2>3 DEF OnDisk, Parsed
  <2> QED BY <2>1, <2>2, <2>4 DEF AloneAt
<1> QED BY <1>1, <1>2, <1>3, <1>4 DEF SaveInv

LEMMA SaveStep ==
    SaveInv /\ [Next]_vars =>
        SaveInv' /\ (~overlapped => DOMAIN OnDisk.data \subseteq DOMAIN (OnDisk').data)
<1> SUFFICES ASSUME SaveInv, [Next]_vars
             PROVE  SaveInv' /\ (~overlapped => DOMAIN OnDisk.data \subseteq DOMAIN (OnDisk').data)
  OBVIOUS
<1>0. DescTypeOK /\ FilesApart
  BY DEF SaveInv
<1>1. UNCHANGED <<disk, path>> => OnDisk' = OnDisk
  BY DEF OnDisk
<1>2. ASSUME NEW j \in Job, Open(j) \/ Generate(j) \/ GenerateRaises(j) PROVE SaveInv'
  <2>1. /\ UNCHANGED <<disk, path, tmp, merged, fd, overlapped>>
        /\ pc[j] \in {"idle", "generate"}
    BY <1>2 DEF Open, Generate, GenerateRaises, Goto
  <2>2. \E at \in {"generate", "merge", "ended", "failed"} : pc' = [pc EXCEPT ![j] = at]
    BY <1>2 DEF Open, Generate, GenerateRaises, Goto
  <2>3. cache' = [k \in Job |-> cache'[k]]
    BY <1>0, <1>2 DEF DescTypeOK, Open, Generate, GenerateRaises
  <2>4. fd[j] \notin Inode
    BY <1>0, <2>1 DEF FilesApart, Writing
  <2>5. pc' \in [Job -> PassPC] /\ pc'[j] \in {"generate", "merge", "ended", "failed"}
        /\ \A k \in Job \ {j} : pc'[k] = pc[k]
    BY <1>0, <2>2 DEF DescTypeOK, PassPC
  <2>6. fd' \in [Job -> {NoInode} \union Inode] /\ {j} \in SUBSET Job
    BY <1>0, <2>1 DEF DescTypeOK
  <2> QED BY <2>1, <2>3, <2>4, <2>5, <2>6, NotSaving
<1>3. CASE Crash
  <2>1. /\ pc' \in [Job -> PassPC] /\ fd' \in [Job -> {NoInode} \union Inode]
        /\ \A j \in Job : fd'[j] \notin Inode /\ pc'[j] \in {"idle", "failed"}
    BY <1>3 DEF Crash, PassPC, Inode
  <2>2. UNCHANGED <<disk, path, tmp, merged, overlapped>> /\ cache' = [j \in Job |-> cache'[j]]
    BY <1>0, <1>3 DEF Crash, DescTypeOK
  <2>3. SaveInv'
    BY <2>1, <2>2, NotSaving, Job \in SUBSET Job
  <2> QED BY <1>1, <2>2, <2>3
<1>4. CASE UNCHANGED vars
  <2>1. SaveInv'
    BY <1>4 DEF SaveInv, DescTypeOK, FilesApart, AloneAt, Saving, OnDisk, Parsed
  <2> QED BY <1>1, <1>4, <2>1
<1>5. ASSUME NEW j \in Job, Pass(j)
      PROVE  SaveInv' /\ (~overlapped => DOMAIN OnDisk.data \subseteq DOMAIN (OnDisk').data)
  <2>1. CASE Open(j) \/ Generate(j) \/ GenerateRaises(j)
    BY <1>1, <1>2, <2>1 DEF Open, Generate, GenerateRaises
  <2>2. CASE Merge(j)
    BY <1>1, <2>2, MergeStep DEF Merge
  <2>3. CASE OpenTmp(j) \/ WriteTmp(j)
    BY <2>3, OpenTmpStep, WriteTmpStep
  <2>4. CASE Replace(j)
    BY <2>4, ReplaceStep
  <2> QED BY <1>5, <2>1, <2>2, <2>3, <2>4 DEF Pass
<1> QED BY <1>3, <1>4, <1>5 DEF Next

LEMMA SaveInvariance == Spec => []SaveInv
BY SaveInit, SaveStep, PTL DEF Spec

-----------------------------------------------------------------------------
(* The theorems.                                                           *)

\* A description keeps the producer that made it, through every merge, overlap,
\* torn write and crash: where the producer of what was there before is known,
\* each description of the cache file has its own.
THEOREM ProducersAreTrue == Spec => []PairsAgree
<1>1. DescTypeOK /\ PairInv => PairsAgree
  <2> SUFFICES ASSUME DescTypeOK, PairInv, OldModel # Unknown PROVE PairsAgree
    BY DEF PairsAgree
  <2> QED BY OnDiskIsPaired DEF Paired, PairsAgree, Producer
<1>2. SaveInv => DescTypeOK
  BY DEF SaveInv
<1> QED BY <1>1, <1>2, SaveInvariance, PairInit, PairStep, PTL DEF Spec

\* A save that no other overlaps loses no entry, whatever other passes saved
\* since this one loaded the file, and wherever the process is killed.
THEOREM NoEntryIsLost == Spec => EntriesSurvive
<1>1. SaveInv /\ [Next]_vars =>
        [~overlapped => DOMAIN OnDisk.data \subseteq DOMAIN (OnDisk').data]_vars
  BY SaveStep
<1> QED BY <1>1, SaveInvariance, PTL DEF Spec, EntriesSurvive
=============================================================================
