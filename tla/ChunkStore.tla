----------------------------- MODULE ChunkStore -----------------------------
(***************************************************************************)
(* What an ingestion and a description refresh do to the Weaviate          *)
(* collection: vectorize.process_and_store, vectorize.refresh_descriptions *)
(* and the helpers of weaviate_client.  All projects share one collection; *)
(* jobs of one project exclude each other, jobs of different projects do   *)
(* not.  Each call to Weaviate is an action, since jobs of other projects, *)
(* a failing call or a crash can come between any two.                     *)
(*                                                                         *)
(* A chunk text is told apart by the version of the source it was read     *)
(* from; a description by where it comes from and the version it is about. *)
(***************************************************************************)
EXTENDS Naturals, FiniteSets

CONSTANTS
    Job, Project,
    ProjectOf,     \* the project of each job
    Entity,        \* qualified names
    EntitiesOf,    \* those the repository of each project may have
    Documented,    \* the entities whose source carries a doc comment
    Resembles,     \* the projects whose names hold every token of a name
    Edited         \* bound: the <<project, entity>> whose source is edited, once

ASSUME ChunkStoreAssumption ==
    /\ ProjectOf \in [Job -> Project]
    /\ Documented \subseteq Entity
    /\ Resembles \in [Project -> SUBSET Project]
    /\ \A p \in Project : p \in Resembles[p]
    /\ EntitiesOf \in [Project -> SUBSET Entity]
    /\ Edited \subseteq Project \X Entity

VARIABLES
    source,     \* version of each entity in the repository of each project
    graph,      \* entities in the newest graph JSON of each project
    exists,     \* is there a collection?
    store,      \* its objects, by <<project, entity>> (uuid_for_entity)
    pc,         \* where the job is
    recreate,   \* job.recreate
    chunks,     \* entity -> text, what chunk_graph built for the job
    described,  \* the chunks of the job that got a generated description
    index,      \* fetch_project_chunk_index(), for a refresh
    todo,       \* what the loop the job is in has still to do
    failures,   \* has an object of the batch or of the purge failed?
    dropped,    \* history: has another job dropped the collection meanwhile?
    latest      \* history: the last ingestion of each project to start

vars == <<source, graph, exists, store, pc, recreate, chunks, described, index,
          todo, failures, dropped, latest>>

scratch == <<recreate, described, index, todo, failures>>
jobVars == <<chunks, scratch>>
history == <<dropped, latest>>

-----------------------------------------------------------------------------
None == [by |-> "nobody", of |-> 0]
Nobody == "nobody"
Version == {1, 2}     \* before and after the edit
Empty == << >>

Uuid(j, e) == <<ProjectOf[j], e>>

IngestSteps  == {"chunk", "describe", "exists", "drop", "create", "upsert",
                 "scan", "purge"}
RefreshSteps == {"rechunk", "fetch", "redescribe", "update"}
Active == IngestSteps \union RefreshSteps

Init ==
    /\ source = [p \in Project |-> [e \in EntitiesOf[p] |-> 1]]
    /\ graph = [p \in Project |-> {}]
    /\ exists = FALSE /\ store = Empty
    /\ pc = [j \in Job |-> "idle"]
    /\ recreate = [j \in Job |-> FALSE]
    /\ chunks = [j \in Job |-> Empty]
    /\ described = [j \in Job |-> {}]
    /\ index = [j \in Job |-> Empty]
    /\ todo = [j \in Job |-> {}]
    /\ failures = [j \in Job |-> FALSE]
    /\ dropped = [j \in Job |-> FALSE]
    /\ latest = [p \in Project |-> Nobody]

Goto(j, from, to) == pc[j] = from /\ pc' = [pc EXCEPT ![j] = to]

\* chunk.description or chunk.doc
Description(j, e) ==
    LET version == chunks[j][e] IN
    IF e \in described[j] THEN [by |-> "llm", of |-> version]
    ELSE IF e \in Documented THEN [by |-> "doc", of |-> version]
    ELSE None

\* What is stored for a chunk, and the store with it.
Object(j, e) == [text |-> chunks[j][e], run |-> j, description |-> Description(j, e)]

With(objects, key, object) ==
    [k \in DOMAIN objects \union {key} |-> IF k = key THEN object ELSE objects[k]]

-----------------------------------------------------------------------------
(* The world outside.                                                      *)

EditSource(p, e) ==
    /\ <<p, e>> \in Edited /\ source[p][e] = 1
    /\ source' = [source EXCEPT ![p][e] = 2]
    /\ UNCHANGED <<graph, exists, store, pc, jobVars, history>>

\* The locals of the jobs that end; of the others when the process dies.
Forget(ended) ==
    /\ recreate' = [j \in Job |-> recreate[j] /\ j \notin ended]
    /\ described' = [j \in Job |-> IF j \in ended THEN {} ELSE described[j]]
    /\ index' = [j \in Job |-> IF j \in ended THEN Empty ELSE index[j]]
    /\ todo' = [j \in Job |-> IF j \in ended THEN {} ELSE todo[j]]
    /\ failures' = [j \in Job |-> failures[j] /\ j \notin ended]

Abandon(jobs) ==
    /\ pc' = [j \in Job |-> IF j \in jobs THEN "failed" ELSE pc[j]]
    /\ chunks' = [j \in Job |-> IF j \in jobs THEN Empty ELSE chunks[j]]
    /\ dropped' = [j \in Job |-> dropped[j] /\ j \notin jobs]
    /\ Forget(jobs)
    /\ UNCHANGED <<source, graph, exists, store, latest>>

\* A call to Weaviate or to the LLM provider raises and ends the job.  It is
\* also the only way out where the code itself raises: failed objects, a
\* collection that is missing, or that create() finds in place.
Raise(j) == pc[j] \in Active /\ Abandon({j})

Crash ==
    LET active == {j \in Job : pc[j] \in Active} IN
    active # {} /\ Abandon(active)

-----------------------------------------------------------------------------
(* process_and_store.                                                      *)

ProjectIsFree(j) ==
    \A k \in Job : ProjectOf[k] = ProjectOf[j] => pc[k] \notin Active

\* A pipeline job is accepted and its graph builder has run.
StartIngest(j) ==
    /\ ProjectIsFree(j)
    /\ Goto(j, "idle", "chunk")
    /\ \E entities \in SUBSET EntitiesOf[ProjectOf[j]] :
          graph' = [graph EXCEPT ![ProjectOf[j]] = entities]
    /\ \E again \in BOOLEAN : recreate' = [recreate EXCEPT ![j] = again]
    /\ latest' = [latest EXCEPT ![ProjectOf[j]] = j]
    /\ UNCHANGED <<source, exists, store, chunks, described, index, todo,
                   failures, dropped>>

\* chunk_graph: one chunk per entity of the graph, with its source as it is now.
Chunk(j, from, to) ==
    /\ Goto(j, from, to)
    /\ chunks' = [chunks EXCEPT ![j] =
                    [e \in graph[ProjectOf[j]] |-> source[ProjectOf[j]][e]]]
    /\ UNCHANGED <<source, graph, exists, store, recreate, described, index,
                   todo, failures, history>>

\* describe_chunks: entities may be skipped, and a failing generation is
\* swallowed, so that any set of chunks may come back described.
Describe(j, from, candidates, to) ==
    /\ Goto(j, from, to)
    /\ \E lucky \in SUBSET candidates :
          described' = [described EXCEPT ![j] = lucky]
    /\ UNCHANGED <<source, graph, exists, store, recreate, chunks, index, todo,
                   failures, history>>

\* ensure_collection: client.collections.exists() ...
CheckExists(j) ==
    /\ Goto(j, "exists", IF ~exists THEN "create"
                         ELSE IF recreate[j] THEN "drop" ELSE "upsert")
    /\ todo' = [todo EXCEPT ![j] = DOMAIN chunks[j]]
    /\ UNCHANGED <<source, graph, exists, store, recreate, chunks, described,
                   index, failures, history>>

\* ... delete(), which drops the chunks of every project ...
DropCollection(j) ==
    /\ Goto(j, "drop", "create")
    /\ exists' = FALSE /\ store' = Empty
    /\ dropped' = [k \in Job |-> dropped[k] \/ (k # j /\ pc[k] \in Active \union {"done"})]
    /\ UNCHANGED <<source, graph, jobVars, latest>>

\* ... and create(), which raises if another job has created it meanwhile.
CreateCollection(j) ==
    /\ ~exists
    /\ Goto(j, "create", "upsert")
    /\ exists' = TRUE
    /\ UNCHANGED <<source, graph, store, jobVars, history>>

\* Mutant: the stale chunks are removed before the new ones are in.
UpsertWipesFirst(j) ==
    /\ pc[j] = "upsert"
    /\ \E e \in todo[j] :
          /\ todo' = [todo EXCEPT ![j] = @ \ {e}]
          /\ exists
          /\ store' = With([k \in {k \in DOMAIN store : k[1] = ProjectOf[j] =>
                                                      store[k].run = j} |-> store[k]],
                           Uuid(j, e), Object(j, e))
    /\ UNCHANGED <<source, graph, exists, pc, recreate, chunks, described, index,
                   failures, history>>

\* upsert_chunks: one object of the batch, which is inserted or overwritten, or
\* which fails without raising.
Upsert(j) ==
    /\ pc[j] = "upsert"
    /\ \E e \in todo[j], ok \in BOOLEAN :
          /\ todo' = [todo EXCEPT ![j] = @ \ {e}]
          /\ ok => exists
          /\ failures' = [failures EXCEPT ![j] = @ \/ ~ok]
          /\ store' = IF ok
                      THEN With(store, Uuid(j, e), Object(j, e))
                      ELSE store
    /\ UNCHANGED <<source, graph, exists, pc, recreate, chunks, described, index,
                   history>>

\* The end of the batch: nothing to do for no chunks, failures raise.
BatchEnds(j) ==
    /\ todo[j] = {} /\ ~failures[j]
    /\ Goto(j, "upsert", IF chunks[j] = Empty THEN "done" ELSE "scan")
    /\ UNCHANGED <<source, graph, exists, store, jobVars, history>>

\* Mutant: nothing is ever stale.
StaleOfNone(j) == {}

\* _uuids_matching: the project's objects that other ingestions left.
Stale(j) == {k \in DOMAIN store : k[1] = ProjectOf[j] /\ store[k].run # j}

ScanStale(j) ==
    /\ exists
    /\ Goto(j, "scan", "purge")
    /\ todo' = [todo EXCEPT ![j] = Stale(j)]
    /\ UNCHANGED <<source, graph, exists, store, recreate, chunks, described,
                   index, failures, history>>

\* _delete_by_uuids: batch by batch, counting what fails.
PurgeBatch(j) ==
    /\ pc[j] = "purge"
    /\ \E batch \in (SUBSET todo[j]) \ {{}} : \E gone \in SUBSET batch :
          /\ todo' = [todo EXCEPT ![j] = @ \ batch]
          /\ store' = [k \in DOMAIN store \ gone |-> store[k]]
          /\ failures' = [failures EXCEPT ![j] = @ \/ gone # batch]
    /\ UNCHANGED <<source, graph, exists, pc, recreate, chunks, described, index,
                   history>>

PurgeEnds(j) ==
    /\ todo[j] = {} /\ ~failures[j]
    /\ Goto(j, "purge", "done")
    /\ Forget({j})
    /\ UNCHANGED <<source, graph, exists, store, chunks, history>>

Ingest(j) ==
    \/ StartIngest(j) \/ Chunk(j, "chunk", "describe")
    \/ Describe(j, "describe", DOMAIN chunks[j], "exists")
    \/ CheckExists(j) \/ DropCollection(j) \/ CreateCollection(j)
    \/ Upsert(j) \/ BatchEnds(j)
    \/ ScanStale(j) \/ PurgeBatch(j) \/ PurgeEnds(j)

-----------------------------------------------------------------------------
(* refresh_descriptions.                                                   *)

\* The endpoint's pre-flight: project_has_chunks() asks with a text filter.
Preflight(j) ==
    /\ Goto(j, "idle", "admitted")
    /\ \E k \in DOMAIN store : k[1] \in Resembles[ProjectOf[j]]
    /\ UNCHANGED <<source, graph, exists, store, jobVars, history>>

StartRefresh(j) ==
    /\ ProjectIsFree(j)
    /\ Goto(j, "admitted", "rechunk")
    /\ UNCHANGED <<source, graph, exists, store, jobVars, history>>

\* Mutant: a chunk is described whether or not its text is the stored one.
EligibleWithoutGuard(j) ==
    {e \in DOMAIN chunks[j] : Uuid(j, e) \in DOMAIN store}

\* The chunks whose rebuilt text is byte-identical to the stored one.
Eligible(j) ==
    {e \in DOMAIN chunks[j] :
        Uuid(j, e) \in DOMAIN store /\ store[Uuid(j, e)].text = chunks[j][e]}

\* fetch_project_chunk_index, with the same text filter, and the eligible.
FetchIndex(j) ==
    /\ exists
    /\ Goto(j, "fetch", "redescribe")
    /\ index' = [index EXCEPT ![j] =
                   [k \in {k \in DOMAIN store : k[1] \in Resembles[ProjectOf[j]]}
                       |-> store[k].description]]
    /\ todo' = [todo EXCEPT ![j] = Eligible(j)]
    /\ UNCHANGED <<source, graph, exists, store, recreate, chunks, described,
                   failures, history>>

\* Is there a new description to write?  A chunk without one is preserved.
Changed(j, e) ==
    /\ Description(j, e) # None
    /\ Description(j, e) # index[j][Uuid(j, e)]

\* update_chunk_description of one eligible chunk.
Update(j) ==
    /\ pc[j] = "update"
    /\ \E e \in todo[j] :
          /\ todo' = [todo EXCEPT ![j] = @ \ {e}]
          /\ Changed(j, e) => Uuid(j, e) \in DOMAIN store
          /\ store' = IF Changed(j, e)
                      THEN [store EXCEPT ![Uuid(j, e)].description = Description(j, e)]
                      ELSE store
    /\ UNCHANGED <<source, graph, exists, pc, recreate, chunks, described, index,
                   failures, history>>

RefreshEnds(j) ==
    /\ todo[j] = {}
    /\ Goto(j, "update", "done")
    /\ chunks' = [chunks EXCEPT ![j] = Empty]
    /\ Forget({j})
    /\ UNCHANGED <<source, graph, exists, store, history>>

Refresh(j) ==
    \/ Preflight(j) \/ StartRefresh(j) \/ Chunk(j, "rechunk", "fetch")
    \/ FetchIndex(j) \/ Describe(j, "redescribe", todo[j], "update")
    \/ Update(j) \/ RefreshEnds(j)

Next ==
    \/ Crash
    \/ \E p \in Project : \E e \in EntitiesOf[p] : EditSource(p, e)
    \/ \E j \in Job : Raise(j) \/ Ingest(j) \/ Refresh(j)

Spec == Init /\ [][Next]_vars

-----------------------------------------------------------------------------
(* Properties.                                                             *)

\* A finished ingestion has replaced the project's data: what is stored is what
\* its graph has, with the texts it read, and nothing of earlier ingestions,
\* whatever failed or crashed before it.  Two exceptions are in the code: the
\* collection was dropped by a recreate of another project, and a graph
\* without entities removes nothing (vectorize.py:42, weaviate_client.py:408).
IngestReplaces ==
    \A j \in Job :
        LET p == ProjectOf[j] IN
        (pc[j] = "done" /\ latest[p] = j /\ ~dropped[j] /\ chunks[j] # Empty) =>
            /\ {k \in DOMAIN store : k[1] = p} = {Uuid(j, e) : e \in DOMAIN chunks[j]}
            /\ \A e \in DOMAIN chunks[j] : store[Uuid(j, e)].text = chunks[j][e]

\* No wipe-then-fail window (weaviate_client.py:410): unless the collection is
\* dropped, an object disappears only when the ingestion that removes it has
\* none for that entity and has all of its own objects in the store.
NoWipeWindow ==
    [][exists' => \A k \in DOMAIN store \ DOMAIN store' :
          \E j \in Job :
             /\ ProjectOf[j] = k[1] /\ pc[j] \in IngestSteps
             /\ k \notin {Uuid(j, e) : e \in DOMAIN chunks[j]}
             /\ ~dropped[j] => \A e \in DOMAIN chunks[j] :
                                 Uuid(j, e) \in DOMAIN store']_vars

\* A stored description is about the stored text: neither an ingestion that
\* died half-way nor a refresh that ran while the source was being edited
\* attaches a description of one version to the text of another.
DescriptionFitsText ==
    \A k \in DOMAIN store :
        store[k].description # None => store[k].description.of = store[k].text

=============================================================================
