---------------------------- MODULE Descriptions ----------------------------
(***************************************************************************)
(* The description pass of describe.py and the JSON file its cache lives   *)
(* in.  Jobs of different projects run the pass in threads of their own,   *)
(* each with a DescriptionCache it loaded when it began; all of them save  *)
(* to one path, through one temporary path, with no lock.                  *)
(*                                                                         *)
(* The texts are told apart by the job that generated them.  A directory   *)
(* entry (the cache path, the temporary path) names an inode, so that a    *)
(* writer can still hold a file that another has renamed.                  *)
(***************************************************************************)
EXTENDS Naturals, FiniteSets

CONSTANTS
    Job,          \* description passes; one id per pass
    Hash,         \* source hashes
    Model,        \* provider/model pairs
    ModelOf,      \* the one each pass is configured with
    OldModel,     \* the one recorded for what the file held before, or Unknown
    Unknown,      \* no producer recorded
    Old           \* the text of an entry that was in the file before

ASSUME ModelOfAssumption == ModelOf \in [Job -> Model]
ASSUME TextAssumption == IsFiniteSet(Job) /\ Old \notin Job

VARIABLES
    disk,       \* inode -> payload
    path,       \* the inode under the cache path, or NoInode
    tmp,        \* the inode under <cache>.json.tmp, or NoInode
    pc,         \* where the pass of each job is
    cache,      \* its DescriptionCache: [data, producers]
    fresh,      \* the hashes it generated
    merged,     \* save(): what it is about to write
    fd,         \* save(): the inode it has open
    overlapped  \* history: has a save begun while another was in progress?

vars == <<disk, path, tmp, pc, cache, fresh, merged, fd, overlapped>>

-----------------------------------------------------------------------------
Text  == Job \union {Old}
NoInode == 0
Inode == 1 .. (Cardinality(Job) + 1)

Empty == << >>

\* {**old, **new}
Updated(old, new) ==
    [h \in DOMAIN old \union DOMAIN new |-> IF h \in DOMAIN new THEN new[h] ELSE old[h]]

\* A payload, split into descriptions and the __models__ side-key.
NoEntries == [data |-> Empty, producers |-> Empty]
Payload(c) == [whole |-> TRUE, data |-> c.data, producers |-> c.producers]
Truncated  == [whole |-> FALSE, data |-> Empty, producers |-> Empty]

\* json.loads and _split_cache_payload; a file that does not parse is empty.
Parsed(payload) == [data |-> payload.data, producers |-> payload.producers]

OnDisk == IF path = NoInode THEN NoEntries ELSE Parsed(disk[path])

Saving(j) == pc[j] \in {"openTmp", "writeTmp", "replace"}

Init ==
    /\ \E known \in SUBSET Hash :
          disk = [i \in Inode |->
                    IF i = 1 /\ known # {}
                    THEN [whole |-> TRUE,
                          data |-> [h \in known |-> Old],
                          producers |-> IF OldModel = Unknown THEN Empty
                                        ELSE [h \in known |-> OldModel]]
                    ELSE Truncated]
    /\ path = IF disk[1].whole THEN 1 ELSE NoInode
    /\ tmp = NoInode
    /\ pc = [j \in Job |-> "idle"]
    /\ cache = [j \in Job |-> NoEntries]
    /\ fresh = [j \in Job |-> {}]
    /\ merged = [j \in Job |-> NoEntries]
    /\ fd = [j \in Job |-> NoInode]
    /\ overlapped = FALSE

Goto(j, from, to) == pc[j] = from /\ pc' = [pc EXCEPT ![j] = to]

-----------------------------------------------------------------------------
\* describe_chunks: DescriptionCache() reads the file.
Open(j) ==
    /\ Goto(j, "idle", "generate")
    /\ cache' = [cache EXCEPT ![j] = OnDisk]
    /\ UNCHANGED <<disk, path, tmp, fresh, merged, fd, overlapped>>

\* cache.set() of every description generated, with its producer.
Generated(c, j, done) ==
    [data      |-> Updated(c.data, [h \in done |-> j]),
     producers |-> Updated(c.producers, [h \in done |-> ModelOf[j]])]

\* The targets that are not served from the cache (all of them with force) are
\* generated; some may fail, and nothing is saved if all do.
Generate(j) ==
    /\ \E targets \in SUBSET Hash, force \in BOOLEAN :
          LET missing == IF force THEN targets ELSE targets \ DOMAIN cache[j].data IN
          \E done \in SUBSET missing :
             /\ fresh' = [fresh EXCEPT ![j] = done]
             /\ cache' = [cache EXCEPT ![j] = Generated(@, j, done)]
             /\ Goto(j, "generate", IF done = {} THEN "ended" ELSE "merge")
    /\ UNCHANGED <<disk, path, tmp, merged, fd, overlapped>>

\* The provider is unavailable and something was left to generate.
GenerateRaises(j) ==
    /\ Goto(j, "generate", "failed")
    /\ UNCHANGED <<disk, path, tmp, cache, fresh, merged, fd, overlapped>>

-----------------------------------------------------------------------------
(* DescriptionCache.save().                                                *)

\* Mutants: the file is overwritten without merging; the producers merge in
\* the other order.
MergeNothing(j) ==
    /\ Goto(j, "merge", "openTmp")
    /\ merged' = [merged EXCEPT ![j] = cache[j]]
    /\ overlapped' = (overlapped \/ \E k \in Job \ {j} : Saving(k))
    /\ UNCHANGED <<disk, path, tmp, cache, fresh, fd>>

MergeProducersSwapped(j) ==
    /\ Goto(j, "merge", "openTmp")
    /\ merged' = [merged EXCEPT ![j] = [data |-> Updated(OnDisk.data, cache[j].data),
                                        producers |-> Updated(cache[j].producers, OnDisk.producers)]]
    /\ overlapped' = (overlapped \/ \E k \in Job \ {j} : Saving(k))
    /\ UNCHANGED <<disk, path, tmp, cache, fresh, fd>>

\* {**on_disk, **self}, descriptions and producers independently.
Merge(j) ==
    /\ Goto(j, "merge", "openTmp")
    /\ merged' = [merged EXCEPT ![j] = [data |-> Updated(OnDisk.data, cache[j].data),
                                        producers |-> Updated(OnDisk.producers, cache[j].producers)]]
    /\ overlapped' = (overlapped \/ \E k \in Job \ {j} : Saving(k))
    /\ UNCHANGED <<disk, path, tmp, cache, fresh, fd>>

FreeInode == CHOOSE i \in Inode : i # path /\ i # tmp /\ \A j \in Job : fd[j] # i

\* tmp.write_text: open() creates the file, or truncates the one in place ...
OpenTmp(j) ==
    LET i == IF tmp = NoInode THEN FreeInode ELSE tmp IN
    /\ Goto(j, "openTmp", "writeTmp")
    /\ disk' = [disk EXCEPT ![i] = Truncated]
    /\ tmp' = i
    /\ fd' = [fd EXCEPT ![j] = i]
    /\ UNCHANGED <<path, cache, fresh, merged, overlapped>>

\* ... and write() puts the text at the start of it; over the text of another
\* writer, the longer tail of that one may remain.
WriteTmp(j) ==
    /\ Goto(j, "writeTmp", "replace")
    /\ \E p \in {Payload(merged[j])} \union
                (IF disk[fd[j]].whole THEN {Truncated} ELSE {}) :
          disk' = [disk EXCEPT ![fd[j]] = p]
    /\ UNCHANGED <<path, tmp, cache, fresh, merged, fd, overlapped>>

\* tmp.replace(path); without a temporary file it raises, and the job fails.
Replace(j) ==
    /\ fd' = [fd EXCEPT ![j] = NoInode]
    /\ IF tmp = NoInode
       THEN Goto(j, "replace", "failed") /\ UNCHANGED <<path, tmp>>
       ELSE /\ Goto(j, "replace", "ended")
            /\ path' = tmp /\ tmp' = NoInode
    /\ UNCHANGED <<disk, cache, fresh, merged, overlapped>>

Pass(j) ==
    \/ Open(j) \/ Generate(j) \/ GenerateRaises(j)
    \/ Merge(j) \/ OpenTmp(j) \/ WriteTmp(j) \/ Replace(j)

\* The server dies; the files stay as they are.
Crash ==
    /\ \E j \in Job : pc[j] \notin {"idle", "ended", "failed"}
    /\ pc' = [j \in Job |-> IF pc[j] = "idle" THEN "idle" ELSE "failed"]
    /\ fd' = [j \in Job |-> NoInode]
    /\ UNCHANGED <<disk, path, tmp, cache, fresh, merged, overlapped>>

Next == Crash \/ \E j \in Job : Pass(j)

Spec == Init /\ [][Next]_vars

-----------------------------------------------------------------------------
(* Properties.                                                             *)

\* No step makes a hash disappear from the cache file, whatever other passes
\* saved since this one loaded it and wherever the server is killed, as long as
\* no two saves overlap: nothing once paid for is generated again.
EntriesSurvive ==
    [][~overlapped => DOMAIN OnDisk.data \subseteq DOMAIN (OnDisk').data]_vars

\* In a file where every entry has a producer, the producer recorded for a
\* description is the one that generated it, even when saves overlap.
PairsAgree ==
    OldModel # Unknown =>
        \A h \in DOMAIN OnDisk.data :
            /\ h \in DOMAIN OnDisk.producers
            /\ OnDisk.producers[h] =
                  IF OnDisk.data[h] = Old THEN OldModel ELSE ModelOf[OnDisk.data[h]]

=============================================================================
