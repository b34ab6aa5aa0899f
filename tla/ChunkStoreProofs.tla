-------------------------- MODULE ChunkStoreProofs --------------------------
(***************************************************************************)
(* Theorems about module ChunkStore, for any number of jobs, projects and  *)
(* entities.                                                               *)
(*                                                                         *)
(* The jobs of one project exclude each other and write the objects of     *)
(* their own project only, except for the one call that drops all of       *)
(* them.  So each job is followed on its own (JobOK), and one lemma        *)
(* (Elsewhere) shows that the steps of the others leave that alone.        *)
(***************************************************************************)
EXTENDS ChunkStore, TLAPS

StorePC == Active \union {"idle", "admitted", "done", "failed"}

IsObject(o) == o = [text |-> o.text, run |-> o.run, description |-> o.description]

StoreTypeOK ==
    /\ graph \in [Project -> SUBSET Entity]
    /\ exists \in BOOLEAN
    /\ store = [k \in DOMAIN store |-> store[k]]
    /\ DOMAIN store \subseteq Project \X Entity
    /\ \A k \in DOMAIN store : IsObject(store[k])
    /\ pc \in [Job -> StorePC]
    /\ chunks = [j \in Job |-> chunks[j]]
    /\ \A j \in Job : DOMAIN chunks[j] \subseteq Entity
    /\ described = [j \in Job |-> described[j]]
    /\ todo = [j \in Job |-> todo[j]]
    /\ failures \in [Job -> BOOLEAN]
    /\ dropped \in [Job -> BOOLEAN]
    /\ latest = [p \in Project |-> latest[p]]

\* The jobs of one project exclude each other.
OneJobPerProject ==
    \A j, k \in Job :
        pc[j] \in Active /\ pc[k] \in Active /\ ProjectOf[j] = ProjectOf[k] => j = k

Own(j) == {Uuid(j, e) : e \in DOMAIN chunks[j]}

\* The object of e is in the store as the ingestion j wrote it.
Stored(j, e) ==
    /\ Uuid(j, e) \in DOMAIN store
    /\ store[Uuid(j, e)].run = j /\ store[Uuid(j, e)].text = chunks[j][e]

Newest(j) == pc[j] \in IngestSteps => latest[ProjectOf[j]] = j

\* What bears the mark of j are objects it has written, for its chunks.
Marked(j) ==
    \A k \in DOMAIN store : store[k].run = j =>
        /\ k[1] = ProjectOf[j]
        /\ pc[j] \in {"upsert", "scan", "purge", "done", "failed"}
        /\ pc[j] # "failed" => k \in Own(j)

\* The batch so far is in the store, unless objects failed or another job
\* dropped the collection.
Filled(j) ==
    /\ pc[j] \in {"drop", "create"} => todo[j] = DOMAIN chunks[j]
    /\ pc[j] = "upsert" =>
          /\ todo[j] \subseteq DOMAIN chunks[j]
          /\ \A e \in DOMAIN chunks[j] \ todo[j] :
                failures[j] \/ Stored(j, e) \/ (dropped[j] /\ Uuid(j, e) \notin DOMAIN store)
    /\ pc[j] \in {"scan", "purge"} =>
          \A e \in DOMAIN chunks[j] :
             Stored(j, e) \/ (dropped[j] /\ Uuid(j, e) \notin DOMAIN store)

\* What is to be purged are objects of the project that are not the job's, and
\* all of them.
Purging(j) ==
    pc[j] = "purge" =>
        /\ \A k \in todo[j] : k[1] = ProjectOf[j] /\ k \notin Own(j)
        /\ ~failures[j] => Stale(j) \subseteq todo[j]

\* What a refresh has left to update has still the text that was compared.
Refreshing(j) ==
    pc[j] \in {"redescribe", "update"} =>
        \A e \in todo[j] : Uuid(j, e) \in DOMAIN store =>
            store[Uuid(j, e)].text = chunks[j][e]

\* IngestReplaces, for one job.
Replaced(j) ==
    (pc[j] = "done" /\ latest[ProjectOf[j]] = j /\ ~dropped[j] /\ chunks[j] # Empty) =>
        /\ {k \in DOMAIN store : k[1] = ProjectOf[j]} = Own(j)
        /\ \A e \in DOMAIN chunks[j] : store[Uuid(j, e)].text = chunks[j][e]

JobOK(j) ==
    Newest(j) /\ Marked(j) /\ Filled(j) /\ Purging(j) /\ Refreshing(j) /\ Replaced(j)

SInv ==
    /\ StoreTypeOK
    /\ OneJobPerProject
    /\ \A j \in Job : JobOK(j)
    /\ DescriptionFitsText

-----------------------------------------------------------------------------
USE ChunkStoreAssumption DEF vars, scratch, jobVars, history, Uuid

LEMMA StoreInit == Init => SInv
<1> SUFFICES ASSUME Init PROVE SInv
  OBVIOUS
<1>1. DOMAIN store = {}
  BY DEF Init, Empty
<1>2. StoreTypeOK
  <2>1. /\ store = [k \in DOMAIN store |-> store[k]]
        /\ \A j \in Job : DOMAIN chunks[j] = {}
    BY DEF Init, Empty
  <2> QED BY <1>1, <2>1 DEF Init, StoreTypeOK, StorePC
<1>3. ASSUME NEW j \in Job PROVE JobOK(j)
  <2>1. pc[j] = "idle"
    BY DEF Init
  <2> QED
    BY <1>1, <2>1 DEF JobOK, Newest, Marked, Filled, Purging, Refreshing, Replaced, IngestSteps
<1>4. OneJobPerProject
  BY DEF Init, OneJobPerProject, Active, IngestSteps, RefreshSteps
<1> QED BY <1>1, <1>2, <1>3, <1>4 DEF SInv, DescriptionFitsText

\* What a job does leaves the others as they are.  Those of other projects have
\* objects of their own, and those of its project are not at work while it is.
LEMMA Elsewhere ==
    ASSUME SInv, NEW j \in Job, NEW k \in Job \ {j},
           pc'[k] = pc[k], chunks'[k] = chunks[k], todo'[k] = todo[k],
           failures'[k] = failures[k], dropped'[k] = dropped[k],
           \/ latest'[ProjectOf[k]] = latest[ProjectOf[k]]
           \/ latest'[ProjectOf[k]] = j /\ pc[k] \notin Active,
           \A q \in DOMAIN store \union DOMAIN store' : q[1] # ProjectOf[j] =>
               /\ q \in DOMAIN store /\ q \in DOMAIN store'
               /\ store'[q] = store[q],
           \A q \in DOMAIN store' :
               store'[q].run = j \/ (q \in DOMAIN store /\ store'[q].run = store[q].run),
           \/ UNCHANGED store
           \/ pc[j] \in IngestSteps
           \/ /\ pc[j] \in RefreshSteps /\ DOMAIN store' = DOMAIN store
              /\ \A q \in DOMAIN store : store'[q].text = store[q].text
    PROVE  JobOK(k)'
<1>0. JobOK(k) /\ JobOK(j) /\ j # k
  BY DEF SInv
<1>1. Newest(k)'
  BY <1>0 DEF JobOK, Newest, Active
<1>2. Marked(k)'
  BY <1>0 DEF JobOK, Marked, Own
<1>3. CASE UNCHANGED store
  <2>1. Filled(k)' /\ Purging(k)' /\ Refreshing(k)'
    BY <1>0, <1>3 DEF JobOK, Filled, Stored, Purging, Refreshing, Own, Stale
  <2>2. Replaced(k)'
    BY <1>0, <1>3 DEF JobOK, Replaced, Own
  <2> QED BY <1>1, <1>2, <2>1, <2>2 DEF JobOK
<1>4. CASE ProjectOf[k] # ProjectOf[j]
  <2>1. \A q : q[1] = ProjectOf[k] =>
           /\ q \in DOMAIN store' <=> q \in DOMAIN store
           /\ q \in DOMAIN store => store'[q] = store[q]
    BY <1>4
  <2>2. \A e : (Uuid(k, e))[1] = ProjectOf[k]
    OBVIOUS
  <2>3. \A e : /\ Uuid(k, e) \in DOMAIN store' <=> Uuid(k, e) \in DOMAIN store
               /\ Uuid(k, e) \in DOMAIN store => store'[Uuid(k, e)] = store[Uuid(k, e)]
    BY <2>1, <2>2
  <2>4. Filled(k)' /\ Refreshing(k)'
    BY <1>0, <2>3 DEF JobOK, Filled, Stored, Refreshing
  <2>5. Purging(k)'
    <3>1. Own(k)' = Own(k) /\ Stale(k)' = Stale(k)
      BY <2>1 DEF Own, Stale
    <3> QED BY <1>0, <3>1 DEF JobOK, Purging
  <2>6. Replaced(k)'
    <3>1. Own(k)' = Own(k)
      BY DEF Own
    <3>2. {q \in DOMAIN store : q[1] = ProjectOf[k]}' = {q \in DOMAIN store : q[1] = ProjectOf[k]}
      BY <2>1
    <3>3. ASSUME pc'[k] = "done", latest'[ProjectOf[k]] = k, ~dropped'[k], chunks'[k] # Empty
          PROVE  /\ {q \in DOMAIN store : q[1] = ProjectOf[k]}' = Own(k)
                 /\ \A e \in DOMAIN chunks[k] : store'[Uuid(k, e)].text = chunks[k][e]
      <4>1. /\ {q \in DOMAIN store : q[1] = ProjectOf[k]} = Own(k)
            /\ \A e \in DOMAIN chunks[k] : store[Uuid(k, e)].text = chunks[k][e]
        BY <1>0, <3>3 DEF JobOK, Replaced
      <4>2. \A e \in DOMAIN chunks[k] : Uuid(k, e) \in DOMAIN store
        BY <4>1 DEF Own
      <4> QED BY <2>3, <3>2, <4>1, <4>2
    <3> QED BY <3>1, <3>3 DEF Replaced
  <2> QED BY <1>1, <1>2, <2>4, <2>5, <2>6 DEF JobOK
<1>5. CASE ProjectOf[k] = ProjectOf[j] /\ pc[j] \in Active
  <2>1. pc[k] \notin Active
    BY <1>0, <1>5 DEF SInv, OneJobPerProject
  <2>2. Filled(k)' /\ Purging(k)' /\ Refreshing(k)'
    BY <2>1 DEF Filled, Purging, Refreshing, Active, IngestSteps, RefreshSteps
  <2>3. CASE pc[j] \in IngestSteps
    <3>1. latest'[ProjectOf[k]] # k
      BY <1>0, <1>5, <2>3 DEF JobOK, Newest
    <3> QED BY <1>1, <1>2, <2>2, <3>1 DEF JobOK, Replaced
  <2>4. CASE /\ DOMAIN store' = DOMAIN store
             /\ \A q \in DOMAIN store : store'[q].text = store[q].text
    <3>1. Replaced(k)'
      BY <1>0, <2>4 DEF JobOK, Replaced, Own
    <3> QED BY <1>1, <1>2, <2>2, <3>1 DEF JobOK
  <2> QED BY <1>3, <2>3, <2>4
<1> QED BY <1>3, <1>4, <1>5 DEF Active

-----------------------------------------------------------------------------
(* Types, and one job at work per project.                                 *)

LEMMA GotoType ==
    ASSUME StoreTypeOK, NEW j \in Job, NEW from, NEW to \in StorePC, Goto(j, from, to)
    PROVE  pc' \in [Job -> StorePC] /\ pc'[j] = to /\ \A k \in Job \ {j} : pc'[k] = pc[k]
BY DEF StoreTypeOK, Goto

LEMMA StoreTypeStep == SInv /\ [Next]_vars => StoreTypeOK'
<1> SUFFICES ASSUME SInv, [Next]_vars PROVE StoreTypeOK'
  OBVIOUS
<1>0. StoreTypeOK
  BY DEF SInv
<1>1. CASE UNCHANGED vars
  BY <1>0, <1>1 DEF StoreTypeOK
<1>2. ASSUME NEW p \in Project, NEW e, EditSource(p, e) PROVE StoreTypeOK'
  BY <1>0, <1>2 DEF StoreTypeOK, EditSource
<1>3. ASSUME NEW jobs \in SUBSET Job, Abandon(jobs) PROVE StoreTypeOK'
  <2>1. pc' \in [Job -> StorePC]
    BY <1>0, <1>3 DEF StoreTypeOK, StorePC, Abandon
  <2>2. /\ chunks' = [j \in Job |-> chunks'[j]] /\ \A j \in Job : DOMAIN chunks'[j] \subseteq Entity
        /\ described' = [j \in Job |-> described'[j]] /\ todo' = [j \in Job |-> todo'[j]]
    BY <1>0, <1>3 DEF StoreTypeOK, Abandon, Forget, Empty
  <2>3. failures' \in [Job -> BOOLEAN] /\ dropped' \in [Job -> BOOLEAN]
    BY <1>0, <1>3 DEF StoreTypeOK, Abandon, Forget
  <2> QED BY <1>0, <1>3, <2>1, <2>2, <2>3 DEF StoreTypeOK, Abandon
<1>4. CASE Crash
  BY <1>3, <1>4 DEF Crash
<1> USE DEF StorePC, Active, IngestSteps, RefreshSteps
<1>5. ASSUME NEW j \in Job, Raise(j) PROVE StoreTypeOK'
  BY <1>3, <1>5 DEF Raise
<1>6. ASSUME NEW j \in Job, Ingest(j) PROVE StoreTypeOK'
  <2>1. CASE StartIngest(j)
    <3>1. /\ pc' \in [Job -> StorePC]
          /\ graph' \in [Project -> SUBSET Entity]
          /\ latest' = [p \in Project |-> latest'[p]]
      <4>1. pc' \in [Job -> StorePC]
        BY <1>0, <2>1 DEF StoreTypeOK, StartIngest, Goto
      <4>2. graph' \in [Project -> SUBSET Entity]
        <5>1. PICK entities \in SUBSET EntitiesOf[ProjectOf[j]] :
                 graph' = [graph EXCEPT ![ProjectOf[j]] = entities]
          BY <2>1 DEF StartIngest
        <5>2. entities \in SUBSET Entity
          BY <5>1
        <5> QED BY <1>0, <5>1, <5>2 DEF StoreTypeOK
      <4>3. latest' = [p \in Project |-> latest'[p]]
        BY <1>0, <2>1 DEF StoreTypeOK, StartIngest
      <4> QED BY <4>1, <4>2, <4>3
    <3> QED BY <1>0, <2>1, <3>1 DEF StoreTypeOK, StartIngest
  <2>2. CASE Chunk(j, "chunk", "describe")
    BY <1>0, <2>2 DEF StoreTypeOK, Chunk, Goto
  <2>3. CASE Describe(j, "describe", DOMAIN chunks[j], "exists")
    BY <1>0, <2>3 DEF StoreTypeOK, Describe, Goto
  <2>4. CASE CheckExists(j)
    <3>1. pc' \in [Job -> StorePC] /\ todo' = [k \in Job |-> todo'[k]]
      BY <1>0, <2>4 DEF StoreTypeOK, CheckExists, Goto
    <3> QED BY <1>0, <2>4, <3>1 DEF StoreTypeOK, CheckExists
  <2>5. CASE DropCollection(j)
    <3>1. pc' \in [Job -> StorePC] /\ dropped' \in [Job -> BOOLEAN]
      BY <1>0, <2>5 DEF StoreTypeOK, DropCollection, Goto
    <3>2. store' = [k \in DOMAIN store' |-> store'[k]] /\ DOMAIN store' = {}
      BY <2>5 DEF DropCollection, Empty
    <3> QED BY <1>0, <2>5, <3>1, <3>2 DEF StoreTypeOK, DropCollection
  <2>6. CASE CreateCollection(j)
    BY <1>0, <2>6 DEF StoreTypeOK, CreateCollection, Goto
  <2>7. CASE Upsert(j)
    <3>1. PICK e \in todo[j], ok \in BOOLEAN :
            /\ failures' = [failures EXCEPT ![j] = @ \/ ~ok]
            /\ store' = IF ok THEN With(store, Uuid(j, e), Object(j, e)) ELSE store
      BY <2>7 DEF Upsert
    <3>2. e \in DOMAIN chunks[j] /\ e \in Entity
      BY <1>0, <2>7 DEF SInv, JobOK, Filled, Upsert, StoreTypeOK
    <3>3. Uuid(j, e) \in Project \X Entity
      BY <3>2
    <3>4. store' = [k \in DOMAIN store' |-> store'[k]] /\ DOMAIN store' \subseteq Project \X Entity
      <4>1. CASE ok
        BY <1>0, <3>1, <3>3, <4>1 DEF StoreTypeOK, With
      <4>2. CASE ~ok
        BY <1>0, <3>1, <4>2 DEF StoreTypeOK
      <4> QED BY <4>1, <4>2
    <3>5. failures' \in [Job -> BOOLEAN] /\ todo' = [k \in Job |-> todo'[k]]
      BY <1>0, <2>7, <3>1 DEF StoreTypeOK, Upsert
    <3>6. \A k \in DOMAIN store' : IsObject(store'[k])
      <4>1. IsObject(Object(j, e))
        BY DEF IsObject, Object
      <4> QED BY <1>0, <3>1, <4>1 DEF StoreTypeOK, With
    <3> QED BY <1>0, <2>7, <3>4, <3>5, <3>6 DEF StoreTypeOK, Upsert
  <2>8. CASE BatchEnds(j)
    BY <1>0, <2>8 DEF StoreTypeOK, BatchEnds, Goto
  <2>9. CASE ScanStale(j)
    BY <1>0, <2>9 DEF StoreTypeOK, ScanStale, Goto
  <2>10. CASE PurgeBatch(j)
    <3>1. PICK gone : store' = [k \in DOMAIN store \ gone |-> store[k]]
      BY <2>10 DEF PurgeBatch
    <3>2. failures' \in [Job -> BOOLEAN] /\ todo' = [k \in Job |-> todo'[k]]
      BY <1>0, <2>10 DEF StoreTypeOK, PurgeBatch
    <3> QED BY <1>0, <2>10, <3>1, <3>2 DEF StoreTypeOK, PurgeBatch
  <2>11. CASE PurgeEnds(j)
    <3>1. pc' \in [Job -> StorePC] /\ failures' \in [Job -> BOOLEAN]
      BY <1>0, <2>11 DEF StoreTypeOK, PurgeEnds, Goto, Forget
    <3>2. described' = [k \in Job |-> described'[k]] /\ todo' = [k \in Job |-> todo'[k]]
      BY <2>11 DEF PurgeEnds, Forget
    <3> QED BY <1>0, <2>11, <3>1, <3>2 DEF StoreTypeOK, PurgeEnds
  <2> QED BY <1>6, <2>1, <2>2, <2>3, <2>4, <2>5, <2>6, <2>7, <2>8, <2>9, <2>10, <2>11 DEF Ingest
<1>7. ASSUME NEW j \in Job, Refresh(j) PROVE StoreTypeOK'
  <2>1. CASE Preflight(j) \/ StartRefresh(j)
    BY <1>0, <2>1 DEF StoreTypeOK, Preflight, StartRefresh, Goto
  <2>2. CASE Chunk(j, "rechunk", "fetch")
    BY <1>0, <2>2 DEF StoreTypeOK, Chunk, Goto
  <2>3. CASE FetchIndex(j)
    <3>1. pc' \in [Job -> StorePC] /\ todo' = [k \in Job |-> todo'[k]]
      BY <1>0, <2>3 DEF StoreTypeOK, FetchIndex, Goto
    <3> QED BY <1>0, <2>3, <3>1 DEF StoreTypeOK, FetchIndex
  <2>4. CASE Describe(j, "redescribe", todo[j], "update")
    BY <1>0, <2>4 DEF StoreTypeOK, Describe, Goto
  <2>5. CASE Update(j)
    <3>1. store' = [k \in DOMAIN store' |-> store'[k]] /\ DOMAIN store' \subseteq Project \X Entity
      <4>1. PICK e : store' = IF Changed(j, e)
                      THEN [store EXCEPT ![Uuid(j, e)].description = Description(j, e)]
                      ELSE store
        BY <2>5 DEF Update
      <4> QED BY <1>0, <4>1 DEF StoreTypeOK
    <3>2. \A k \in DOMAIN store' : IsObject(store'[k])
      <4>1. PICK e : store' = IF Changed(j, e)
                      THEN [store EXCEPT ![Uuid(j, e)].description = Description(j, e)]
                      ELSE store
        BY <2>5 DEF Update
      <4>2. \A o, d : IsObject(o) => IsObject([o EXCEPT !.description = d])
        BY DEF IsObject
      <4> HIDE DEF Uuid
      <4>3. ASSUME NEW k \in DOMAIN store', Changed(j, e)
            PROVE  k \in DOMAIN store /\ store'[k] \in
                      {store[k], [store[k] EXCEPT !.description = Description(j, e)]}
        BY <4>1, <4>3
      <4> QED BY <1>0, <4>1, <4>2, <4>3 DEF StoreTypeOK
    <3> QED BY <1>0, <2>5, <3>1, <3>2 DEF StoreTypeOK, Update
  <2>6. CASE RefreshEnds(j)
    <3>1. pc' \in [Job -> StorePC] /\ failures' \in [Job -> BOOLEAN]
      BY <1>0, <2>6 DEF StoreTypeOK, RefreshEnds, Goto, Forget
    <3>2. /\ described' = [k \in Job |-> described'[k]] /\ todo' = [k \in Job |-> todo'[k]]
          /\ chunks' = [k \in Job |-> chunks'[k]]
          /\ \A k \in Job : DOMAIN chunks'[k] \subseteq Entity
      <4>1. DOMAIN Empty = {}
        BY DEF Empty
      <4> QED BY <1>0, <2>6, <4>1 DEF StoreTypeOK, RefreshEnds, Forget
    <3> QED BY <1>0, <2>6, <3>1, <3>2 DEF StoreTypeOK, RefreshEnds
  <2> QED BY <1>7, <2>1, <2>2, <2>3, <2>4, <2>5, <2>6 DEF Refresh
<1> QED BY <1>1, <1>2, <1>4, <1>5, <1>6, <1>7 DEF Next

LEMMA OneJobStep == SInv /\ [Next]_vars => OneJobPerProject'
<1> SUFFICES ASSUME SInv, [Next]_vars PROVE OneJobPerProject'
  OBVIOUS
<1> USE DEF Active, IngestSteps, RefreshSteps
<1>0. StoreTypeOK /\ OneJobPerProject
  BY DEF SInv
<1>1. CASE UNCHANGED pc
  BY <1>0, <1>1 DEF OneJobPerProject
<1>2. ASSUME NEW j \in Job, NEW from, NEW to, Goto(j, from, to), from \in Active \/ to \notin Active
      PROVE  OneJobPerProject'
  BY <1>0, <1>2 DEF OneJobPerProject, StoreTypeOK, Goto
<1>3. ASSUME NEW j \in Job, NEW from, NEW to, Goto(j, from, to), ProjectIsFree(j)
      PROVE  OneJobPerProject'
  BY <1>0, <1>3 DEF OneJobPerProject, StoreTypeOK, Goto, ProjectIsFree
<1>4. ASSUME NEW jobs \in SUBSET Job, Abandon(jobs) PROVE OneJobPerProject'
  BY <1>0, <1>4 DEF OneJobPerProject, Abandon
<1>5. ASSUME NEW j \in Job, Ingest(j) PROVE OneJobPerProject'
  <2>1. CASE StartIngest(j)
    BY <1>3, <2>1 DEF StartIngest
  <2>2. CASE \/ Chunk(j, "chunk", "describe") \/ CheckExists(j) \/ DropCollection(j)
             \/ CreateCollection(j) \/ BatchEnds(j) \/ ScanStale(j) \/ PurgeEnds(j)
    BY <1>2, <2>2 DEF Chunk, CheckExists, DropCollection, CreateCollection, BatchEnds,
                      ScanStale, PurgeEnds
  <2>3. CASE Describe(j, "describe", DOMAIN chunks[j], "exists")
    BY <1>2, <2>3 DEF Describe
  <2>4. CASE Upsert(j) \/ PurgeBatch(j)
    BY <1>1, <2>4 DEF Upsert, PurgeBatch
  <2> QED BY <1>5, <2>1, <2>2, <2>3, <2>4 DEF Ingest
<1>6. ASSUME NEW j \in Job, Refresh(j) PROVE OneJobPerProject'
  <2>1. CASE StartRefresh(j)
    BY <1>3, <2>1 DEF StartRefresh
  <2>2. CASE \/ Preflight(j) \/ Chunk(j, "rechunk", "fetch") \/ FetchIndex(j) \/ RefreshEnds(j)
    BY <1>2, <2>2 DEF Preflight, Chunk, FetchIndex, RefreshEnds
  <2>3. CASE Describe(j, "redescribe", todo[j], "update")
    BY <1>2, <2>3 DEF Describe
  <2>4. CASE Update(j)
    BY <1>1, <2>4 DEF Update
  <2> QED BY <1>6, <2>1, <2>2, <2>3, <2>4 DEF Refresh
<1>7. CASE Crash
  BY <1>4, <1>7 DEF Crash
<1>8. ASSUME NEW j \in Job, Raise(j) PROVE OneJobPerProject'
  BY <1>4, <1>8 DEF Raise
<1>9. ASSUME NEW p \in Project, NEW e, EditSource(p, e) PROVE OneJobPerProject'
  BY <1>1, <1>9 DEF EditSource
<1> QED BY <1>1, <1>5, <1>6, <1>7, <1>8, <1>9 DEF Next

-----------------------------------------------------------------------------
(* Steps of one job.                                                       *)

\* A job that a step does not concern.
LEMMA Unconcerned ==
    ASSUME SInv, NEW k \in Job, UNCHANGED <<store, latest>>,
           pc'[k] = pc[k], chunks'[k] = chunks[k], todo'[k] = todo[k],
           failures'[k] = failures[k], dropped'[k] = dropped[k]
    PROVE  JobOK(k)'
<1>0. JobOK(k)
  BY DEF SInv
<1>1. Newest(k)' /\ Marked(k)' /\ Filled(k)' /\ Purging(k)' /\ Refreshing(k)'
  BY <1>0 DEF JobOK, Newest, Marked, Filled, Stored, Purging, Refreshing, Own, Stale
<1>2. Replaced(k)'
  BY <1>0 DEF JobOK, Replaced, Own
<1> QED BY <1>1, <1>2 DEF JobOK

\* A step of j that leaves the store alone.
LEMMA QuietStep ==
    ASSUME SInv, NEW j \in Job, NEW from, NEW to \in StorePC, Goto(j, from, to),
           UNCHANGED <<store, latest, dropped>>,
           \A k \in Job \ {j} : chunks'[k] = chunks[k] /\ todo'[k] = todo[k]
                                /\ failures'[k] = failures[k],
           JobOK(j)'
    PROVE  \A k \in Job : JobOK(k)'
<1>1. \A k \in Job \ {j} : pc'[k] = pc[k]
  BY GotoType DEF SInv
<1> QED BY <1>1, Unconcerned

\* The steps of an ingestion before its first object.
LEMMA PreparingStep ==
    ASSUME SInv, NEW j \in Job,
           \/ StartIngest(j) \/ Chunk(j, "chunk", "describe")
           \/ Describe(j, "describe", DOMAIN chunks[j], "exists")
           \/ CheckExists(j) \/ CreateCollection(j)
    PROVE  \A k \in Job : JobOK(k)'
<1> USE DEF StorePC, Active, IngestSteps, RefreshSteps
<1>0. StoreTypeOK /\ JobOK(j)
  BY DEF SInv
<1>1. CASE StartIngest(j)
  <2>1. \A k \in Job \ {j} : pc'[k] = pc[k]
    BY <1>0, <1>1, GotoType DEF StartIngest
  <2>2. pc[j] = "idle" /\ pc'[j] = "chunk"
    BY <1>0, <1>1 DEF StartIngest, Goto, StoreTypeOK
  <2>3. JobOK(j)'
    <3>1. latest'[ProjectOf[j]] = j
      BY <1>0, <1>1 DEF StartIngest, StoreTypeOK
    <3>2. Marked(j)'
      BY <1>0, <1>1, <2>2 DEF StartIngest, JobOK, Marked
    <3> QED BY <2>2, <3>1, <3>2 DEF JobOK, Newest, Filled, Purging, Refreshing, Replaced
  <2>4. ASSUME NEW k \in Job \ {j} PROVE JobOK(k)'
    <3>1. \/ latest'[ProjectOf[k]] = latest[ProjectOf[k]]
          \/ latest'[ProjectOf[k]] = j /\ pc[k] \notin Active
      BY <1>0, <1>1 DEF StartIngest, StoreTypeOK, ProjectIsFree
    <3> QED BY <1>1, <2>1, <3>1, Elsewhere DEF StartIngest
  <2> QED BY <2>3, <2>4
<1>2. ASSUME NEW from \in {"chunk", "describe", "exists", "create"},
             NEW to \in {"describe", "exists", "drop", "create", "upsert"}, Goto(j, from, to),
             UNCHANGED <<store, latest, dropped, failures>>,
             \A k \in Job \ {j} : chunks'[k] = chunks[k] /\ todo'[k] = todo[k],
             to \in {"drop", "create", "upsert"} => todo'[j] = DOMAIN chunks'[j]
      PROVE  \A k \in Job : JobOK(k)'
  <2>1. pc[j] = from /\ pc'[j] = to
    BY <1>0, <1>2 DEF Goto, StoreTypeOK
  <2>2. Marked(j)' /\ Newest(j)'
    BY <1>0, <1>2, <2>1 DEF JobOK, Marked, Newest
  <2>3. JobOK(j)'
    BY <1>2, <2>1, <2>2 DEF JobOK, Filled, Purging, Refreshing, Replaced
  <2> QED BY <1>2, <2>3, QuietStep
<1>3. CASE Chunk(j, "chunk", "describe")
  <2>1. \A k \in Job \ {j} : chunks'[k] = chunks[k]
    BY <1>0, <1>3 DEF Chunk, StoreTypeOK
  <2> QED BY <1>2, <1>3, <2>1 DEF Chunk
<1>4. CASE Describe(j, "describe", DOMAIN chunks[j], "exists")
  BY <1>2, <1>4 DEF Describe
<1>5. CASE CheckExists(j)
  <2>1. /\ \A k \in Job \ {j} : todo'[k] = todo[k]
        /\ todo'[j] = DOMAIN chunks'[j]
    BY <1>0, <1>5 DEF CheckExists, StoreTypeOK
  <2>2. \E to \in {"drop", "create", "upsert"} : Goto(j, "exists", to)
    BY <1>5 DEF CheckExists
  <2> QED BY <1>2, <1>5, <2>1, <2>2 DEF CheckExists
<1>6. CASE CreateCollection(j)
  BY <1>0, <1>2, <1>6 DEF CreateCollection, Goto, JobOK, Filled
<1> QED BY <1>1, <1>3, <1>4, <1>5, <1>6

\* A recreate drops the objects of every project, and marks the jobs it may hurt.
LEMMA DropStep ==
    ASSUME SInv, NEW j \in Job, DropCollection(j)
    PROVE  \A k \in Job : JobOK(k)'
<1>0. StoreTypeOK /\ \A k \in Job : JobOK(k)
  BY DEF SInv
<1>1. DOMAIN store' = {}
  BY DEF DropCollection, Empty
<1>2. ASSUME NEW k \in Job \ {j} PROVE JobOK(k)'
  <2>1. /\ pc'[k] = pc[k] /\ UNCHANGED <<chunks, todo, failures, latest>>
        /\ dropped'[k] = (dropped[k] \/ pc[k] \in Active \union {"done"})
    BY <1>0 DEF DropCollection, Goto, StoreTypeOK
  <2>2. Marked(k)' /\ Newest(k)' /\ Refreshing(k)'
    BY <1>0, <1>1, <2>1 DEF JobOK, Marked, Newest, Refreshing
  <2>3. Filled(k)'
    BY <1>0, <1>1, <2>1 DEF JobOK, Filled, Active, IngestSteps
  <2>4. Purging(k)'
    BY <1>0, <1>1, <2>1 DEF JobOK, Purging, Own, Stale
  <2>5. Replaced(k)'
    BY <2>1 DEF Replaced
  <2> QED BY <2>2, <2>3, <2>4, <2>5 DEF JobOK
<1>3. JobOK(j)'
  <2>1. pc[j] = "drop" /\ pc'[j] = "create" /\ UNCHANGED <<chunks, todo, failures, latest>>
    BY <1>0 DEF DropCollection, Goto, StoreTypeOK
  <2>2. Marked(j)' /\ Newest(j)' /\ Filled(j)'
    BY <1>0, <1>1, <2>1 DEF JobOK, Marked, Newest, Filled, IngestSteps
  <2> QED BY <2>1, <2>2 DEF JobOK, Purging, Refreshing, Replaced
<1> QED BY <1>2, <1>3

\* One object: inserted, overwritten or failed.
LEMMA UpsertStep ==
    ASSUME SInv, NEW j \in Job, Upsert(j)
    PROVE  \A k \in Job : JobOK(k)'
<1>0. StoreTypeOK /\ JobOK(j) /\ pc[j] = "upsert" /\ pc[j] \in IngestSteps
  BY DEF SInv, Upsert, IngestSteps
<1>1. PICK e \in todo[j], ok \in BOOLEAN :
        /\ todo' = [todo EXCEPT ![j] = @ \ {e}]
        /\ failures' = [failures EXCEPT ![j] = @ \/ ~ok]
        /\ store' = IF ok THEN With(store, Uuid(j, e), Object(j, e)) ELSE store
  BY DEF Upsert
<1>2. UNCHANGED <<pc, chunks, latest, dropped>> /\ e \in DOMAIN chunks[j]
  BY <1>0 DEF Upsert, JobOK, Filled
<1>3. /\ \A q \in DOMAIN store' : q # Uuid(j, e) => q \in DOMAIN store /\ store'[q] = store[q]
      /\ DOMAIN store \subseteq DOMAIN store'
  <2>1. CASE ok
    BY <1>1, <2>1 DEF With
  <2>2. CASE ~ok
    BY <1>1, <2>2
  <2> QED BY <2>1, <2>2
<1>4. ok => /\ Uuid(j, e) \in DOMAIN store'
            /\ store'[Uuid(j, e)].run = j /\ store'[Uuid(j, e)].text = chunks[j][e]
  BY <1>1 DEF With, Object
<1>5. ~ok => store' = store
  BY <1>1
<1>6. todo'[j] = todo[j] \ {e} /\ failures'[j] = (failures[j] \/ ~ok)
      /\ \A k \in Job \ {j} : todo'[k] = todo[k] /\ failures'[k] = failures[k]
  BY <1>0, <1>1 DEF StoreTypeOK
<1>7. ASSUME NEW k \in Job \ {j} PROVE JobOK(k)'
  <2>1. (Uuid(j, e))[1] = ProjectOf[j]
    OBVIOUS
  <2>2. \A q \in DOMAIN store \union DOMAIN store' : q[1] # ProjectOf[j] =>
            q \in DOMAIN store /\ q \in DOMAIN store' /\ store'[q] = store[q]
    BY <1>3, <2>1
  <2>3. \A q \in DOMAIN store' :
            store'[q].run = j \/ (q \in DOMAIN store /\ store'[q].run = store[q].run)
    BY <1>3, <1>4, <1>5
  <2> HIDE DEF Uuid
  <2> QED BY <1>0, <1>2, <1>6, <2>2, <2>3, Elsewhere
<1>8. JobOK(j)'
  <2>1. Uuid(j, e) \in Own(j) /\ Own(j)' = Own(j)
    BY <1>2 DEF Own
  <2>2. \A d : Uuid(j, d) = Uuid(j, e) => d = e
    OBVIOUS
  <2>3. (Uuid(j, e))[1] = ProjectOf[j] /\ \A k, d : Uuid(k, d)' = Uuid(k, d)
    OBVIOUS
  <2> HIDE DEF Uuid
  <2>4. Marked(j)'
    BY <1>0, <1>2, <1>3, <2>1, <2>3 DEF JobOK, Marked
  <2>5. ASSUME NEW d \in DOMAIN chunks[j] \ todo'[j]
        PROVE  failures'[j] \/ Stored(j, d)' \/ (dropped[j] /\ Uuid(j, d) \notin DOMAIN store')
    <3>1. CASE d = e
      BY <1>2, <1>4, <1>6, <3>1, <2>3 DEF Stored
    <3>2. CASE d # e
      <4>1. d \in DOMAIN chunks[j] \ todo[j]
        BY <1>6, <2>5, <3>2
      <4>2. failures[j] \/ Stored(j, d) \/ (dropped[j] /\ Uuid(j, d) \notin DOMAIN store)
        BY <1>0, <4>1 DEF JobOK, Filled
      <4> QED BY <1>2, <1>3, <1>6, <2>2, <2>3, <3>2, <4>2 DEF Stored
    <3> QED BY <3>1, <3>2
  <2>6. Filled(j)'
    BY <1>0, <1>2, <1>6, <2>3, <2>5 DEF JobOK, Filled
  <2>7. Newest(j)'
    BY <1>0, <1>2 DEF JobOK, Newest
  <2> QED BY <1>0, <1>2, <2>4, <2>6, <2>7 DEF JobOK, Purging, Refreshing, Replaced
<1> QED BY <1>7, <1>8

\* The batch is over, and what others left is looked up.
LEMMA BatchStep ==
    ASSUME SInv, NEW j \in Job, BatchEnds(j) \/ ScanStale(j)
    PROVE  \A k \in Job : JobOK(k)'
<1> USE DEF StorePC, Active, IngestSteps, RefreshSteps
<1>0. StoreTypeOK /\ JobOK(j)
  BY DEF SInv
<1>1. CASE BatchEnds(j)
  <2>1. PICK to \in {"done", "scan"} :
          Goto(j, "upsert", to) /\ (to = "done" => chunks[j] = Empty)
    BY <1>1 DEF BatchEnds
  <2>2. pc[j] = "upsert" /\ pc'[j] = to /\ todo[j] = {} /\ ~failures[j]
        /\ UNCHANGED <<store, chunks, todo, failures, latest, dropped>>
    BY <1>0, <1>1, <2>1 DEF BatchEnds, Goto, StoreTypeOK
  <2>3. Newest(j)' /\ Marked(j)'
    BY <1>0, <2>2 DEF JobOK, Newest, Marked, Own
  <2>4. Filled(j)'
    BY <1>0, <2>2 DEF JobOK, Filled, Stored
  <2>5. JobOK(j)'
    BY <2>1, <2>2, <2>3, <2>4 DEF JobOK, Purging, Refreshing, Replaced
  <2> QED BY <2>1, <2>2, <2>5, QuietStep
<1>2. CASE ScanStale(j)
  <2>1. /\ pc[j] = "scan" /\ pc'[j] = "purge" /\ todo'[j] = Stale(j)
        /\ UNCHANGED <<store, chunks, failures, latest, dropped>>
        /\ \A k \in Job \ {j} : todo'[k] = todo[k]
    BY <1>0, <1>2 DEF ScanStale, Goto, StoreTypeOK
  <2>2. Newest(j)' /\ Marked(j)' /\ Filled(j)'
    BY <1>0, <2>1 DEF JobOK, Newest, Marked, Own, Filled, Stored
  <2>3. Purging(j)'
    <3>1. ASSUME NEW k \in Stale(j) PROVE k[1] = ProjectOf[j] /\ k \notin Own(j)
      BY <1>0, <2>1 DEF JobOK, Filled, Stored, Stale, Own
    <3> QED BY <2>1, <3>1 DEF Purging, Own, Stale
  <2>4. JobOK(j)'
    BY <2>1, <2>2, <2>3 DEF JobOK, Refreshing, Replaced
  <2> QED BY <1>2, <2>1, <2>4, QuietStep DEF ScanStale
<1> QED BY <1>1, <1>2

\* Some of what others left is gone; what was to go and did not is a failure.
LEMMA PurgeStep ==
    ASSUME SInv, NEW j \in Job, PurgeBatch(j)
    PROVE  \A k \in Job : JobOK(k)'
<1>0. StoreTypeOK /\ JobOK(j) /\ pc[j] = "purge" /\ pc[j] \in IngestSteps
  BY DEF SInv, PurgeBatch, IngestSteps
<1>1. PICK batch \in (SUBSET todo[j]) \ {{}} : \E gone \in SUBSET batch :
        /\ todo' = [todo EXCEPT ![j] = @ \ batch]
        /\ store' = [k \in DOMAIN store \ gone |-> store[k]]
        /\ failures' = [failures EXCEPT ![j] = @ \/ gone # batch]
  BY DEF PurgeBatch
<1>2. PICK gone \in SUBSET batch :
        /\ todo' = [todo EXCEPT ![j] = @ \ batch]
        /\ store' = [k \in DOMAIN store \ gone |-> store[k]]
        /\ failures' = [failures EXCEPT ![j] = @ \/ gone # batch]
  BY <1>1
<1>3. UNCHANGED <<pc, chunks, latest, dropped>>
  BY DEF PurgeBatch
<1>4. todo'[j] = todo[j] \ batch /\ failures'[j] = (failures[j] \/ gone # batch)
      /\ \A k \in Job \ {j} : todo'[k] = todo[k] /\ failures'[k] = failures[k]
  BY <1>0, <1>2 DEF StoreTypeOK
<1>5. DOMAIN store' = DOMAIN store \ gone /\ \A q \in DOMAIN store' : store'[q] = store[q]
  BY <1>2
<1>6. \A q \in gone : q[1] = ProjectOf[j] /\ q \notin Own(j)
  BY <1>0 DEF JobOK, Purging
<1>7. ASSUME NEW k \in Job \ {j} PROVE JobOK(k)'
  <2>1. \A q \in DOMAIN store \union DOMAIN store' : q[1] # ProjectOf[j] =>
            q \in DOMAIN store /\ q \in DOMAIN store' /\ store'[q] = store[q]
    BY <1>5, <1>6
  <2>2. \A q \in DOMAIN store' : q \in DOMAIN store /\ store'[q].run = store[q].run
    BY <1>5
  <2> HIDE DEF Uuid
  <2> QED BY <1>0, <1>3, <1>4, <2>1, <2>2, Elsewhere
<1>8. JobOK(j)'
  <2>1. Newest(j)' /\ Marked(j)'
    BY <1>0, <1>3, <1>5 DEF JobOK, Newest, Marked, Own
  <2>2. Filled(j)'
    <3>1. \A d \in DOMAIN chunks[j] : Uuid(j, d) \notin gone
      BY <1>6 DEF Own
    <3> HIDE DEF Uuid
    <3>2. \A d : Uuid(j, d)' = Uuid(j, d)
      BY DEF Uuid
    <3> QED BY <1>0, <1>3, <1>5, <3>1, <3>2 DEF JobOK, Filled, Stored
  <2>3. Purging(j)'
    <3>1. Own(j)' = Own(j)
      BY <1>3 DEF Own
    <3>2. ~failures'[j] => Stale(j)' \subseteq todo'[j]
      BY <1>0, <1>4, <1>5 DEF JobOK, Purging, Stale
    <3> QED BY <1>0, <1>3, <1>4, <3>1, <3>2 DEF JobOK, Purging
  <2> QED BY <1>0, <1>3, <2>1, <2>2, <2>3 DEF JobOK, Refreshing, Replaced
<1> QED BY <1>7, <1>8

\* Nothing is left to purge and nothing failed: the project has been replaced.
LEMMA PurgeEndsStep ==
    ASSUME SInv, NEW j \in Job, PurgeEnds(j)
    PROVE  \A k \in Job : JobOK(k)'
<1>0. StoreTypeOK /\ JobOK(j) /\ pc[j] = "purge" /\ todo[j] = {} /\ ~failures[j]
  BY DEF SInv, PurgeEnds, Goto
<1>1. /\ pc'[j] = "done" /\ Goto(j, "purge", "done")
      /\ UNCHANGED <<store, chunks, latest, dropped>>
      /\ \A k \in Job \ {j} : todo'[k] = todo[k] /\ failures'[k] = failures[k]
  BY <1>0 DEF PurgeEnds, Goto, Forget, StoreTypeOK
<1>2. Marked(j)'
  BY <1>0, <1>1 DEF JobOK, Marked, Own
<1>3. Replaced(j)'
  <2> SUFFICES ASSUME ~dropped[j]
               PROVE  /\ {k \in DOMAIN store : k[1] = ProjectOf[j]} = Own(j)
                      /\ \A e \in DOMAIN chunks[j] : store[Uuid(j, e)].text = chunks[j][e]
    BY <1>1 DEF Replaced, Own
  <2>1. \A e \in DOMAIN chunks[j] : Stored(j, e)
    BY <1>0 DEF JobOK, Filled
  <2>2. ASSUME NEW k \in DOMAIN store, k[1] = ProjectOf[j] PROVE k \in Own(j)
    <3>1. store[k].run = j
      BY <1>0, <2>2 DEF JobOK, Purging, Stale
    <3> QED BY <1>0, <3>1 DEF JobOK, Marked
  <2>3. ASSUME NEW k \in Own(j) PROVE k \in DOMAIN store /\ k[1] = ProjectOf[j]
    BY <2>1, <2>3 DEF Own, Stored
  <2> QED BY <2>1, <2>2, <2>3 DEF Stored
<1>4. JobOK(j)'
  BY <1>1, <1>2, <1>3 DEF JobOK, Newest, Filled, Purging, Refreshing, IngestSteps
<1> QED BY <1>1, <1>4, QuietStep DEF StorePC

-----------------------------------------------------------------------------
(* Steps of a refresh.                                                     *)

LEMMA RefreshStep ==
    ASSUME SInv, NEW j \in Job, Refresh(j)
    PROVE  \A k \in Job : JobOK(k)'
<1> USE DEF StorePC, Active, IngestSteps, RefreshSteps
<1>0. StoreTypeOK /\ JobOK(j)
  BY DEF SInv
<1>1. ASSUME NEW from \in {"idle", "admitted", "rechunk", "fetch", "redescribe", "update"},
             NEW to \in {"admitted", "rechunk", "fetch", "redescribe", "update", "done"},
             Goto(j, from, to), UNCHANGED <<store, latest, dropped>>,
             \A k \in Job \ {j} : chunks'[k] = chunks[k] /\ todo'[k] = todo[k]
                                  /\ failures'[k] = failures[k],
             to = "done" => chunks'[j] = Empty,
             Refreshing(j)'
      PROVE  \A k \in Job : JobOK(k)'
  <2>1. pc[j] = from /\ pc'[j] = to
    BY <1>0, <1>1 DEF Goto, StoreTypeOK
  <2>2. Newest(j)' /\ Marked(j)'
    BY <1>0, <1>1, <2>1 DEF JobOK, Newest, Marked
  <2>3. JobOK(j)'
    BY <1>1, <2>1, <2>2 DEF JobOK, Filled, Purging, Replaced
  <2> QED BY <1>1, <2>3, QuietStep
<1>2. CASE Preflight(j) \/ StartRefresh(j)
  <2>1. Refreshing(j)'
    BY <1>0, <1>2 DEF Preflight, StartRefresh, Goto, StoreTypeOK, Refreshing
  <2> QED BY <1>1, <1>2, <2>1 DEF Preflight, StartRefresh
<1>3. CASE Chunk(j, "rechunk", "fetch")
  <2>1. Refreshing(j)' /\ \A k \in Job \ {j} : chunks'[k] = chunks[k]
    BY <1>0, <1>3 DEF Chunk, Goto, StoreTypeOK, Refreshing
  <2> QED BY <1>1, <1>3, <2>1 DEF Chunk
<1>4. CASE FetchIndex(j)
  <2>1. todo'[j] = Eligible(j) /\ \A k \in Job \ {j} : todo'[k] = todo[k]
    BY <1>0, <1>4 DEF FetchIndex, StoreTypeOK
  <2>2. Refreshing(j)'
    BY <1>4, <2>1 DEF FetchIndex, Refreshing, Eligible
  <2> QED BY <1>1, <1>4, <2>1, <2>2 DEF FetchIndex
<1>5. CASE Describe(j, "redescribe", todo[j], "update")
  <2>1. Refreshing(j)'
    BY <1>0, <1>5 DEF Describe, Goto, StoreTypeOK, JobOK, Refreshing
  <2> QED BY <1>1, <1>5, <2>1 DEF Describe
<1>6. CASE RefreshEnds(j)
  <2>1. /\ chunks'[j] = Empty
        /\ \A k \in Job \ {j} : chunks'[k] = chunks[k] /\ todo'[k] = todo[k]
                                /\ failures'[k] = failures[k]
    BY <1>0, <1>6 DEF RefreshEnds, Forget, StoreTypeOK
  <2>2. Refreshing(j)'
    BY <1>0, <1>6 DEF RefreshEnds, Goto, StoreTypeOK, Refreshing
  <2> QED BY <1>1, <1>6, <2>1, <2>2 DEF RefreshEnds
<1>7. CASE Update(j)
  <2>1. PICK e \in todo[j] :
          /\ todo' = [todo EXCEPT ![j] = @ \ {e}]
          /\ Changed(j, e) => Uuid(j, e) \in DOMAIN store
          /\ store' = IF Changed(j, e)
                      THEN [store EXCEPT ![Uuid(j, e)].description = Description(j, e)]
                      ELSE store
    BY <1>7 DEF Update
  <2>2. /\ pc[j] = "update" /\ UNCHANGED <<pc, chunks, failures, latest, dropped>>
        /\ todo'[j] \subseteq todo[j] /\ \A k \in Job \ {j} : todo'[k] = todo[k]
    BY <1>0, <1>7, <2>1 DEF Update, StoreTypeOK
  <2>3. /\ DOMAIN store' = DOMAIN store
        /\ \A q \in DOMAIN store : /\ store'[q].text = store[q].text
                                   /\ store'[q].run = store[q].run
                                   /\ q # Uuid(j, e) => store'[q] = store[q]
    <3>1. CASE Changed(j, e)
      <4>1. store[Uuid(j, e)] =
              [text |-> store[Uuid(j, e)].text, run |-> store[Uuid(j, e)].run,
               description |-> store[Uuid(j, e)].description]
        BY <1>0, <2>1, <3>1 DEF StoreTypeOK, IsObject
      <4> HIDE DEF Uuid
      <4>2. store' = [store EXCEPT ![Uuid(j, e)] = [@ EXCEPT !.description = Description(j, e)]]
        BY <2>1, <3>1
      <4>3. store'[Uuid(j, e)].text = store[Uuid(j, e)].text
            /\ store'[Uuid(j, e)].run = store[Uuid(j, e)].run
        BY <1>0, <2>1, <3>1, <4>1, <4>2 DEF StoreTypeOK
      <4> QED BY <1>0, <4>2, <4>3 DEF StoreTypeOK
    <3>2. CASE ~Changed(j, e)
      BY <2>1, <3>2
    <3> QED BY <3>1, <3>2
  <2>4. ASSUME NEW k \in Job \ {j} PROVE JobOK(k)'
    <3>1. (Uuid(j, e))[1] = ProjectOf[j]
      OBVIOUS
    <3>2. \A q \in DOMAIN store \union DOMAIN store' : q[1] # ProjectOf[j] =>
            q \in DOMAIN store /\ q \in DOMAIN store' /\ store'[q] = store[q]
      BY <2>3, <3>1
    <3> HIDE DEF Uuid
    <3> QED BY <2>2, <2>3, <3>2, Elsewhere
  <2>5. Marked(j)' /\ Newest(j)'
    BY <1>0, <2>2, <2>3 DEF JobOK, Marked, Newest
  <2>6. Refreshing(j)'
    BY <1>0, <2>2, <2>3 DEF JobOK, Refreshing
  <2>7. JobOK(j)'
    BY <2>2, <2>5, <2>6 DEF JobOK, Filled, Purging, Replaced
  <2> QED BY <2>4, <2>7
<1> QED BY <1>2, <1>3, <1>4, <1>5, <1>6, <1>7 DEF Refresh

-----------------------------------------------------------------------------
(* All steps.                                                              *)

LEMMA AbandonStep ==
    ASSUME SInv, NEW jobs \in SUBSET Job, Abandon(jobs)
    PROVE  \A k \in Job : JobOK(k)'
<1>0. StoreTypeOK
  BY DEF SInv
<1>1. ASSUME NEW k \in jobs PROVE JobOK(k)'
  <2>1. JobOK(k) /\ pc'[k] = "failed" /\ UNCHANGED store
    BY DEF SInv, Abandon
  <2>2. Marked(k)'
    BY <2>1 DEF JobOK, Marked
  <2> QED BY <2>1, <2>2 DEF JobOK, Newest, Filled, Purging, Refreshing, Replaced, IngestSteps
<1>2. ASSUME NEW k \in Job \ jobs PROVE JobOK(k)'
  <2>1. /\ pc'[k] = pc[k] /\ chunks'[k] = chunks[k] /\ todo'[k] = todo[k]
        /\ failures'[k] = failures[k] /\ dropped'[k] = dropped[k]
        /\ UNCHANGED <<store, latest>>
    BY <1>0 DEF Abandon, Forget, StoreTypeOK
  <2> QED BY <2>1, Unconcerned
<1> QED BY <1>1, <1>2

LEMMA JobsStep == SInv /\ [Next]_vars => \A k \in Job : JobOK(k)'
<1> SUFFICES ASSUME SInv, [Next]_vars PROVE \A k \in Job : JobOK(k)'
  OBVIOUS
<1>1. ASSUME UNCHANGED <<store, latest, pc, chunks, todo, failures, dropped>>, NEW k \in Job
      PROVE  JobOK(k)'
  BY <1>1, Unconcerned
<1>2. CASE UNCHANGED vars
  BY <1>1, <1>2
<1>3. ASSUME NEW p \in Project, NEW e, EditSource(p, e) PROVE \A k \in Job : JobOK(k)'
  BY <1>1, <1>3 DEF EditSource
<1>4. CASE Crash
  BY <1>4, AbandonStep DEF Crash
<1>5. ASSUME NEW j \in Job, Raise(j) PROVE \A k \in Job : JobOK(k)'
  BY <1>5, AbandonStep DEF Raise
<1>6. ASSUME NEW j \in Job, Ingest(j) PROVE \A k \in Job : JobOK(k)'
  BY <1>6, PreparingStep, DropStep, UpsertStep, BatchStep, PurgeStep, PurgeEndsStep DEF Ingest
<1> QED BY <1>2, <1>3, <1>4, <1>5, <1>6, RefreshStep DEF Next

LEMMA DescriptionIsOfChunk ==
    ASSUME NEW j \in Job, NEW e, Description(j, e) # None
    PROVE  Description(j, e).of = chunks[j][e]
BY DEF Description

LEMMA FitsStep == SInv /\ [Next]_vars => DescriptionFitsText'
<1> SUFFICES ASSUME SInv, [Next]_vars PROVE DescriptionFitsText'
  OBVIOUS
<1>0. StoreTypeOK /\ DescriptionFitsText /\ \A j \in Job : JobOK(j)
  BY DEF SInv
<1>1. ASSUME DOMAIN store' \subseteq DOMAIN store,
             \A k \in DOMAIN store' : store'[k] = store[k]
      PROVE  DescriptionFitsText'
  BY <1>0, <1>1 DEF DescriptionFitsText, None
<1>2. CASE UNCHANGED store
  BY <1>1, <1>2
<1>3. ASSUME NEW j \in Job, Upsert(j) PROVE DescriptionFitsText'
  <2>1. PICK e \in todo[j], ok \in BOOLEAN :
          store' = IF ok THEN With(store, Uuid(j, e), Object(j, e)) ELSE store
    BY <1>3 DEF Upsert
  <2>2. CASE ok
    <3>1. ASSUME NEW k \in DOMAIN store', store'[k].description # None
          PROVE  store'[k].description.of = store'[k].text
      <4>1. CASE k = Uuid(j, e)
        <5>1. /\ store'[k].description = Description(j, e)
              /\ store'[k].text = chunks[j][e]
          BY <2>1, <2>2, <4>1 DEF With, Object
        <5> QED BY <3>1, <5>1, DescriptionIsOfChunk
      <4>2. CASE k # Uuid(j, e)
        <5> HIDE DEF Uuid
        <5>1. k \in DOMAIN store /\ store'[k] = store[k]
          BY <2>1, <2>2, <4>2 DEF With
        <5> QED BY <1>0, <3>1, <5>1 DEF DescriptionFitsText
      <4> QED BY <4>1, <4>2
    <3> QED BY <3>1 DEF DescriptionFitsText, None
  <2> QED BY <1>2, <2>1, <2>2
<1>4. ASSUME NEW j \in Job, Update(j) PROVE DescriptionFitsText'
  <2>1. PICK e \in todo[j] :
          /\ Changed(j, e) => Uuid(j, e) \in DOMAIN store
          /\ store' = IF Changed(j, e)
                      THEN [store EXCEPT ![Uuid(j, e)].description = Description(j, e)]
                      ELSE store
    BY <1>4 DEF Update
  <2>2. CASE Changed(j, e)
    <3>1. store[Uuid(j, e)].text = chunks[j][e]
      BY <1>0, <1>4, <2>1, <2>2 DEF JobOK, Refreshing, Update
    <3>2. Description(j, e).of = chunks[j][e]
      BY <2>2, DescriptionIsOfChunk DEF Changed
    <3>3. IsObject(store[Uuid(j, e)]) /\ Uuid(j, e) \in DOMAIN store
      BY <1>0, <2>1, <2>2 DEF StoreTypeOK
    <3> HIDE DEF Uuid
    <3>4. /\ DOMAIN store' = DOMAIN store
          /\ \A k \in DOMAIN store \ {Uuid(j, e)} : store'[k] = store[k]
          /\ store'[Uuid(j, e)] = [store[Uuid(j, e)] EXCEPT !.description = Description(j, e)]
      BY <1>0, <2>1, <2>2, <3>3 DEF StoreTypeOK
    <3>5. /\ store'[Uuid(j, e)].description = Description(j, e)
          /\ store'[Uuid(j, e)].text = store[Uuid(j, e)].text
      BY <3>3, <3>4 DEF IsObject
    <3>6. ASSUME NEW k \in DOMAIN store', store'[k].description # None
          PROVE  store'[k].description.of = store'[k].text
      <4>1. CASE k = Uuid(j, e)
        BY <3>1, <3>2, <3>5, <4>1
      <4>2. CASE k # Uuid(j, e)
        BY <1>0, <3>4, <3>6, <4>2 DEF DescriptionFitsText
      <4> QED BY <4>1, <4>2
    <3> QED BY <3>6 DEF DescriptionFitsText, None
  <2> QED BY <1>2, <2>1, <2>2
<1>5. ASSUME NEW j \in Job, DropCollection(j) \/ PurgeBatch(j) PROVE DescriptionFitsText'
  <2>1. CASE DropCollection(j)
    <3>1. DOMAIN store' = {}
      BY <2>1 DEF DropCollection, Empty
    <3> QED BY <1>1, <3>1
  <2>2. CASE PurgeBatch(j)
    BY <1>1, <2>2 DEF PurgeBatch
  <2> QED BY <1>5, <2>1, <2>2
<1>6. ASSUME NEW j \in Job, Ingest(j) PROVE DescriptionFitsText'
  BY <1>2, <1>3, <1>5, <1>6
     DEF Ingest, StartIngest, Chunk, Describe, CheckExists, CreateCollection, BatchEnds,
         ScanStale, PurgeEnds
<1>7. ASSUME NEW j \in Job, Refresh(j) PROVE DescriptionFitsText'
  BY <1>2, <1>4, <1>7
     DEF Refresh, Preflight, StartRefresh, Chunk, FetchIndex, Describe, RefreshEnds
<1>8. CASE Crash \/ \E j \in Job : Raise(j)
  BY <1>2, <1>8 DEF Crash, Raise, Abandon
<1>9. CASE UNCHANGED vars \/ \E p \in Project : \E e \in EntitiesOf[p] : EditSource(p, e)
  BY <1>2, <1>9 DEF EditSource
<1> QED BY <1>6, <1>7, <1>8, <1>9 DEF Next

LEMMA SInvHolds == Spec => []SInv
<1>1. SInv /\ [Next]_vars => SInv'
  BY StoreTypeStep, OneJobStep, JobsStep, FitsStep DEF SInv
<1> QED BY <1>1, StoreInit, PTL DEF Spec

-----------------------------------------------------------------------------
(* The theorems.                                                           *)

\* A finished ingestion has replaced what its project had in the store, and
\* nothing else, whatever failed, crashed or ran beside it, unless a recreate of
\* another project dropped the collection or the graph was empty.
THEOREM IngestionReplaces == Spec => []IngestReplaces
<1>1. SInv => IngestReplaces
  BY DEF SInv, JobOK, Replaced, Own, IngestReplaces
<1> QED BY <1>1, SInvHolds, PTL

\* A stored description is about the text it is stored with, also when the source
\* is edited while a refresh runs.
THEOREM DescriptionsFit == Spec => []DescriptionFitsText
<1>1. SInv => DescriptionFitsText
  BY DEF SInv
<1> QED BY <1>1, SInvHolds, PTL

\* Nothing of a project is removed before what replaces it is in the store.
THEOREM NothingIsWiped == Spec => NoWipeWindow
<1> DEFINE Kept == exists' => \A k \in DOMAIN store \ DOMAIN store' :
          \E j \in Job :
             /\ ProjectOf[j] = k[1] /\ pc[j] \in IngestSteps
             /\ k \notin {Uuid(j, e) : e \in DOMAIN chunks[j]}
             /\ ~dropped[j] => \A e \in DOMAIN chunks[j] : Uuid(j, e) \in DOMAIN store'
<1>1. SInv /\ [Next]_vars => Kept
  <2> SUFFICES ASSUME SInv, [Next]_vars, exists' PROVE Kept
    OBVIOUS
  <2>0. StoreTypeOK
    BY DEF SInv
  <2>1. CASE DOMAIN store \subseteq DOMAIN store'
    BY <2>1
  <2>2. ASSUME NEW j \in Job, PurgeBatch(j) PROVE Kept
    <3>1. JobOK(j) /\ pc[j] = "purge"
      BY <2>2 DEF SInv, PurgeBatch
    <3>2. PICK gone \in SUBSET todo[j] : store' = [k \in DOMAIN store \ gone |-> store[k]]
      BY <2>2 DEF PurgeBatch
    <3>3. \A k \in gone : k[1] = ProjectOf[j] /\ k \notin Own(j)
      BY <3>1, <3>2 DEF JobOK, Purging
    <3>4. ~dropped[j] => \A e \in DOMAIN chunks[j] : Uuid(j, e) \in DOMAIN store'
      <4>1. ~dropped[j] => \A e \in DOMAIN chunks[j] : Uuid(j, e) \in DOMAIN store
        BY <3>1 DEF JobOK, Filled, Stored
      <4> QED BY <3>2, <3>3, <4>1 DEF Own
    <3> QED BY <3>1, <3>2, <3>3, <3>4 DEF Own, IngestSteps
  <2>3. ASSUME NEW j \in Job, DropCollection(j) PROVE FALSE
    BY <2>3 DEF DropCollection
  <2>4. ASSUME NEW j \in Job, Upsert(j) PROVE DOMAIN store \subseteq DOMAIN store'
    BY <2>4 DEF Upsert, With
  <2>5. ASSUME NEW j \in Job, Update(j) PROVE DOMAIN store \subseteq DOMAIN store'
    BY <2>0, <2>5 DEF Update, StoreTypeOK
  <2>6. ASSUME NEW j \in Job, Ingest(j) PROVE Kept
    BY <2>1, <2>2, <2>3, <2>4, <2>6
       DEF Ingest, StartIngest, Chunk, Describe, CheckExists, CreateCollection, BatchEnds,
           ScanStale, PurgeEnds
  <2>7. ASSUME NEW j \in Job, Refresh(j) PROVE Kept
    BY <2>1, <2>5, <2>7
       DEF Refresh, Preflight, StartRefresh, Chunk, FetchIndex, Describe, RefreshEnds
  <2>8. CASE Crash \/ \E j \in Job : Raise(j)
    BY <2>1, <2>8 DEF Crash, Raise, Abandon
  <2>9. CASE UNCHANGED vars \/ \E p \in Project : \E e \in EntitiesOf[p] : EditSource(p, e)
    BY <2>1, <2>9 DEF EditSource
  <2> QED BY <2>6, <2>7, <2>8, <2>9 DEF Next
<1> QED BY <1>1, SInvHolds, PTL DEF Spec, NoWipeWindow
=============================================================================
