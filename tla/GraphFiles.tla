----------------------------- MODULE GraphFiles -----------------------------
(***************************************************************************)
(* The graph files of ingested/: ingestion jobs write, filter and promote  *)
(* them from worker threads, and graph_store resolves, loads and caches    *)
(* them from the event loop without any lock.                              *)
(*                                                                         *)
(* The per-project job lock (module Jobs) lets one ingestion of a project  *)
(* run at a time; ingestions of different projects share one Memgraph,     *)
(* which _cgr_lock guards.  A file is identified, as by its mtime, by the  *)
(* run that wrote it and by how far that run had come.                     *)
(***************************************************************************)
EXTENDS Naturals, FiniteSets

CONSTANTS
    Project,    \* project names
    MaxRuns     \* bound: ingestions started, over all projects

ASSUME MaxRunsAssumption == MaxRuns \in Nat \ {0}

VARIABLES
    files,    \* per project, the candidates in ingested/: name -> content
    runs,     \* ingestions started so far; a run's number is its timestamp
    pc,       \* where the ingestion of each project is
    gen,      \* its run
    cgrLock,  \* is _cgr_lock held?
    graphdb,  \* what the shared Memgraph holds: the project indexed last
    dirty,    \* history: projects where a crash or cgr left a file behind
    rpc,      \* where get_graph() is
    rproj,    \* the project it reads
    rtodo,    \* candidates max() has still to stat
    rbest,    \* the newest candidate so far, or the resolved path and its key
    retried,  \* is this the second attempt?
    answer,   \* what the last read returned
    cache,    \* graph_store._cache
    rfloor,   \* history: the canonical file when the read began
    removed   \* history: files of rproj that vanished since then

fileVars == <<files, runs, pc, gen, cgrLock, graphdb, dirty>>
readVars == <<rpc, rproj, rtodo, rbest, retried, answer, cache, rfloor, removed>>
vars == <<fileVars, readVars>>

-----------------------------------------------------------------------------
\* Files are named by number: run n writes <project>-<timestamp n>.json, as a
\* record [of, gen, kind]: whose graph it is, the run, and how far it has come
\* ("partial", "raw", "filtered").
Canonical == 0                     \* <project>.json

NoFile == [name |-> MaxRuns + 1]   \* max() has seen nothing yet
NoGraph == [key |-> NoFile]        \* no cache entry

Nothing  == [status |-> "none"]      \* no read has ended yet
NotFound == [status |-> "notfound"]  \* GraphNotFoundError
Corrupt  == [status |-> "error"]     \* the JSON does not parse
Found(c) == [status |-> "graph", graph |-> c]

\* st_mtime, up to order: a run writes its file partially, completely, filtered.
MTime(c) == 3 * c.gen + (CASE c.kind = "partial" -> 0
                           [] c.kind = "raw" -> 1 [] OTHER -> 2)

\* (path, mtime, size) of a file.
Key(n, c) == [name |-> n, mtime |-> MTime(c)]

Put(p, n, c) == [files EXCEPT ![p] =
                   [m \in DOMAIN @ \union {n} |-> IF m = n THEN c ELSE @[m]]]
Remove(f, n) == [m \in DOMAIN f \ {n} |-> f[m]]

\* An ingestion that ends now would leave a file of its own behind.
LeftBehind(p) == DOMAIN files[p] \ {Canonical} # {}

\* The read in progress, if it concerns p, loses a file under its feet.
Vanishes(p) ==
    removed' = IF p = rproj /\ rpc # "idle" /\ removed < 2 THEN removed + 1 ELSE removed

ReaderUnchanged == UNCHANGED <<rpc, rproj, rtodo, rbest, retried, answer, cache, rfloor>>

Init ==
    /\ files = [p \in Project |-> << >>]
    /\ runs = 0
    /\ pc = [p \in Project |-> "idle"]
    /\ gen = [p \in Project |-> 0]
    /\ cgrLock = FALSE
    /\ graphdb \in Project
    /\ dirty = {}
    /\ rpc = "idle" /\ rproj \in Project /\ rtodo = {} /\ rbest = NoFile
    /\ retried = FALSE /\ answer = Nothing /\ rfloor = 0 /\ removed = 0
    /\ cache = [p \in Project |-> NoGraph]

-----------------------------------------------------------------------------
(* ingestByLocalRepository.                                                *)

Goto(p, from, to) == pc[p] = from /\ pc' = [pc EXCEPT ![p] = to]

\* The job takes its timestamp, before it waits for the lock.
StartIngest(p) ==
    /\ runs < MaxRuns
    /\ pc[p] \in {"idle", "ingested"}
    /\ runs' = runs + 1
    /\ gen' = [gen EXCEPT ![p] = runs + 1]
    /\ pc' = [pc EXCEPT ![p] = "waiting"]
    /\ UNCHANGED <<files, cgrLock, graphdb, dirty, readVars>>

\* Mutant: the subprocess is started without _cgr_lock.
AcquireCgrUnlocked(p) ==
    /\ Goto(p, "waiting", "clean")
    /\ UNCHANGED <<files, runs, gen, cgrLock, graphdb, dirty, readVars>>

AcquireCgr(p) ==
    /\ ~cgrLock
    /\ cgrLock' = TRUE
    /\ Goto(p, "waiting", "clean")
    /\ UNCHANGED <<files, runs, gen, graphdb, dirty, readVars>>

\* cgr start --clean --update-graph: the shared graph is wiped and rebuilt ...
CgrIndexes(p) ==
    /\ Goto(p, "clean", "export")
    /\ graphdb' = p
    /\ UNCHANGED <<files, runs, gen, cgrLock, dirty, readVars>>

\* ... and exported, into a name that is a candidate from its first byte.
CgrWrites(p) ==
    /\ Goto(p, "export", "exporting")
    /\ files' = Put(p, gen[p], [of |-> graphdb, gen |-> gen[p], kind |-> "partial"])
    /\ UNCHANGED <<runs, gen, cgrLock, graphdb, dirty, readVars>>

CgrExits(p) ==
    /\ Goto(p, "exporting", "filter")
    /\ cgrLock' = FALSE
    /\ files' = Put(p, gen[p], [files[p][gen[p]] EXCEPT !.kind = "raw"])
    /\ UNCHANGED <<runs, gen, graphdb, dirty, readVars>>

\* A non-zero exit code: nothing is cleaned up.
CgrFails(p) ==
    /\ pc[p] \in {"clean", "export", "exporting"}
    /\ cgrLock' = FALSE
    /\ pc' = [pc EXCEPT ![p] = "idle"]
    /\ dirty' = IF LeftBehind(p) THEN dirty \union {p} ELSE dirty
    /\ UNCHANGED <<files, runs, gen, graphdb, readVars>>

\* _filter_and_promote_inplace replaces the file atomically ...
Filter(p) ==
    /\ Goto(p, "filter", "promote")
    /\ files' = Put(p, gen[p], [files[p][gen[p]] EXCEPT !.kind = "filtered"])
    /\ UNCHANGED <<runs, gen, cgrLock, graphdb, dirty, readVars>>

\* ... or removes it.
FilterFails(p) ==
    /\ Goto(p, "filter", "idle")
    /\ files' = [files EXCEPT ![p] = Remove(@, gen[p])]
    /\ Vanishes(p)
    /\ ReaderUnchanged
    /\ UNCHANGED <<runs, gen, cgrLock, graphdb, dirty>>

\* os.replace(output_json, canonical_json)
Promote(p) ==
    /\ Goto(p, "promote", "cleanup")
    /\ files' = [files EXCEPT ![p] =
                   Remove([m \in DOMAIN @ \union {Canonical} |->
                             IF m = Canonical THEN @[gen[p]] ELSE @[m]], gen[p])]
    /\ Vanishes(p)
    /\ ReaderUnchanged
    /\ UNCHANGED <<runs, gen, cgrLock, graphdb, dirty>>

\* Mutant: the samefile() test is dropped.
CleanupOneAny(p) ==
    /\ pc[p] = "cleanup"
    /\ \E n \in DOMAIN files[p] :
          files' = [files EXCEPT ![p] = Remove(@, n)]
    /\ Vanishes(p)
    /\ ReaderUnchanged
    /\ UNCHANGED <<runs, pc, gen, cgrLock, graphdb, dirty>>

\* The loop over graph_json_candidates, one os.remove() at a time.
CleanupOne(p) ==
    /\ pc[p] = "cleanup"
    /\ \E n \in DOMAIN files[p] \ {Canonical} :
          files' = [files EXCEPT ![p] = Remove(@, n)]
    /\ Vanishes(p)
    /\ ReaderUnchanged
    /\ UNCHANGED <<runs, pc, gen, cgrLock, graphdb, dirty>>

\* Mutant: the loop is left at the first vanished candidate.
CleanupEndsEarly(p) ==
    /\ Goto(p, "cleanup", "ingested")
    /\ dirty' = dirty \ {p}
    /\ UNCHANGED <<files, runs, gen, cgrLock, graphdb, readVars>>

CleanupEnds(p) ==
    /\ DOMAIN files[p] = {Canonical}
    /\ Goto(p, "cleanup", "ingested")
    /\ dirty' = dirty \ {p}
    /\ UNCHANGED <<files, runs, gen, cgrLock, graphdb, readVars>>

Ingest(p) ==
    \/ StartIngest(p) \/ AcquireCgr(p) \/ CgrIndexes(p) \/ CgrWrites(p)
    \/ CgrExits(p) \/ CgrFails(p) \/ Filter(p) \/ FilterFails(p)
    \/ Promote(p) \/ CleanupOne(p) \/ CleanupEnds(p)

-----------------------------------------------------------------------------
(* _get_graph, on the event loop: one read at a time.                      *)

\* A read ends.
Answer(a) == answer' = a /\ rpc' = "idle"

\* graph_json_candidates: glob, then max() over their mtimes.
Glob(p) ==
    IF DOMAIN files[p] = {}
    THEN /\ cache' = [cache EXCEPT ![p] = NoGraph]
         /\ Answer(NotFound)
         /\ UNCHANGED <<rtodo, rbest>>
    ELSE /\ rtodo' = DOMAIN files[p]
         /\ rbest' = NoFile
         /\ rpc' = "choose" /\ answer' = Nothing
         /\ UNCHANGED cache

BeginRead(p) ==
    /\ rpc = "idle"
    /\ rproj' = p
    /\ retried' = FALSE
    /\ removed' = 0
    /\ rfloor' = IF Canonical \in DOMAIN files[p] THEN files[p][Canonical].gen ELSE 0
    /\ Glob(p)
    /\ UNCHANGED fileVars

\* except FileNotFoundError: drop the entry and resolve once more, only once.
LostFile ==
    /\ cache' = [cache EXCEPT ![rproj] = NoGraph]
    /\ IF retried THEN Answer(NotFound) /\ UNCHANGED retried
                  ELSE rpc' = "again" /\ retried' = TRUE /\ UNCHANGED answer

ReadAgain ==
    /\ rpc = "again"
    /\ Glob(rproj)
    /\ UNCHANGED <<fileVars, rproj, retried, rfloor, removed>>

\* p.stat() of one candidate.
StatCandidate ==
    /\ rpc = "choose"
    /\ \E n \in rtodo :
          IF n \notin DOMAIN files[rproj]
          THEN LostFile /\ UNCHANGED <<rtodo, rbest>>
          ELSE LET k == Key(n, files[rproj][n]) IN
               /\ rtodo' = rtodo \ {n}
               /\ rbest' = IF rbest = NoFile \/ k.mtime > rbest.mtime THEN k ELSE rbest
               /\ UNCHANGED <<rpc, retried, answer, cache>>
    /\ UNCHANGED <<fileVars, rproj, rfloor, removed>>

\* Mutant: the cache is keyed by the path alone.
StatChosenByPath ==
    /\ rpc = "choose" /\ rtodo = {}
    /\ IF rbest.name \notin DOMAIN files[rproj]
       THEN LostFile /\ UNCHANGED rbest
       ELSE /\ rbest' = Key(rbest.name, files[rproj][rbest.name])
            /\ IF cache[rproj].key.name = rbest'.name
               THEN Answer(Found(cache[rproj].graph))
               ELSE rpc' = "load" /\ UNCHANGED answer
            /\ UNCHANGED <<retried, cache>>
    /\ UNCHANGED <<fileVars, rproj, rtodo, rfloor, removed>>

\* path.stat() of the newest, and the cache lookup.
StatChosen ==
    /\ rpc = "choose" /\ rtodo = {}
    /\ IF rbest.name \notin DOMAIN files[rproj]
       THEN LostFile /\ UNCHANGED rbest
       ELSE /\ rbest' = Key(rbest.name, files[rproj][rbest.name])
            /\ IF cache[rproj].key = rbest'
               THEN Answer(Found(cache[rproj].graph))
               ELSE rpc' = "load" /\ UNCHANGED answer
            /\ UNCHANGED <<retried, cache>>
    /\ UNCHANGED <<fileVars, rproj, rtodo, rfloor, removed>>

\* open() and json.load(): what the file holds by now, under the key of before.
Load ==
    /\ rpc = "load"
    /\ IF rbest.name \notin DOMAIN files[rproj]
       THEN LostFile
       ELSE LET c == files[rproj][rbest.name] IN
            /\ UNCHANGED retried
            /\ IF c.kind = "partial"
               THEN Answer(Corrupt) /\ UNCHANGED cache
               ELSE /\ cache' = [cache EXCEPT ![rproj] = [key |-> rbest, graph |-> c]]
                    /\ Answer(Found(c))
    /\ UNCHANGED <<fileVars, rproj, rtodo, rbest, rfloor, removed>>

Read == StatCandidate \/ StatChosen \/ Load \/ ReadAgain

-----------------------------------------------------------------------------
\* A crash of the server takes the cgr subprocess with it; the files stay.
Crash ==
    /\ dirty' = dirty \union {p \in Project : LeftBehind(p)}
    /\ pc' = [p \in Project |-> "idle"]
    /\ cgrLock' = FALSE
    /\ cache' = [p \in Project |-> NoGraph]
    /\ rpc' = "idle" /\ answer' = Nothing
    /\ UNCHANGED <<files, runs, gen, graphdb, rproj, rtodo, rbest, retried, rfloor, removed>>

Next ==
    \/ \E p \in Project : Ingest(p) \/ BeginRead(p)
    \/ Read
    \/ Crash

Spec == Init /\ [][Next]_vars

-----------------------------------------------------------------------------
(* Properties.                                                             *)

\* No graph of one project is ever filed under another, although all of them
\* are built in one Memgraph that every run wipes (ingest.py:11).
GraphIsOwn ==
    \A p \in Project : \A n \in DOMAIN files[p] : files[p][n].of = p

\* A read never returns a graph older than the canonical one that was there
\* when it began, whatever the cache holds and whatever is renamed, removed or
\* rewritten while it stats, compares and loads (graph_store.py:120); and such a
\* project is reported as not ingested only when two files vanished during that
\* one read (graph_store.py:168).
ReadIsRecent ==
    /\ answer.status = "graph" => answer.graph.gen >= rfloor
    /\ answer.status = "notfound" /\ rpc = "idle" /\ rfloor > 0 => removed >= 2

\* A successful ingestion leaves one file, canonical, filtered and its own,
\* whatever earlier crashes and failed runs had left; and an unfiltered file is a
\* candidate only while its own run has not come to the filter, unless a crash or
\* a failing cgr left it (ingest.py:33).
CleanAfterIngest ==
    \A p \in Project :
        /\ pc[p] = "ingested" =>
              /\ DOMAIN files[p] = {Canonical}
              /\ files[p][Canonical] = [of |-> p, gen |-> gen[p], kind |-> "filtered"]
        /\ p \notin dirty => \A n \in DOMAIN files[p] :
              files[p][n].kind # "filtered"
              => n = gen[p] /\ pc[p] \in {"exporting", "filter"}

\* Once a project has a canonical graph it keeps one, never an older one.
CanonicalOnlyAdvances ==
    [][\A p \in Project : Canonical \in DOMAIN files[p] =>
          /\ Canonical \in DOMAIN files'[p]
          /\ files'[p][Canonical].gen >= files[p][Canonical].gen]_vars

=============================================================================
