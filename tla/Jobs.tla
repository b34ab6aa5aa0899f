-------------------------------- MODULE Jobs --------------------------------
(***************************************************************************)
(* The job core of the Dokkai server: the in-memory registry, its          *)
(* per-project lock, the worker threads that drive a job, the best-effort  *)
(* write-through of every job to Postgres, and the boot sequence that      *)
(* sweeps what a dead server left behind.                                  *)
(*                                                                         *)
(* A submit handler runs on the event loop and is atomic between two       *)
(* awaits; a worker runs in its own thread, so each of its assignments to  *)
(* the shared Job object is a step of its own where an observer on the     *)
(* event loop can tell the difference.  Postgres may go away and come back *)
(* at any time, and the server may be killed at any time.                  *)
(***************************************************************************)
EXTENDS Naturals, FiniteSets

CONSTANTS
    Job,          \* the uuid4 ids jobs are created under; none is used twice
    Project,      \* project names, basename(normpath(repo_path))
    ProjectOf,    \* the project each id is created for
    MaxReports    \* bound: progress reports one job makes while it works

ASSUME ProjectOfAssumption == ProjectOf \in [Job -> Project]
ASSUME MaxReportsAssumption == MaxReports \in Nat

VARIABLES
    server,   \* "down", "sweeping", "booting" or "serving"
    pgUp,     \* does Postgres answer?
    pool,     \* is services.db._pool set?
    swept,    \* history: did this boot's sweep of the jobs table succeed?
    mem,      \* JobStore._jobs: the Job object held under each id
    stamp,    \* Job.updated_at, as a version number (0 before creation)
    pc,       \* where the submit handler or the worker thread of a job is
    row,      \* the jobs table
    stale     \* history: jobs whose latest row write was refused

jobVars == <<mem, stamp, pc, row, stale>>
srvVars == <<server, pgUp, pool, swept>>
vars == <<srvVars, jobVars>>

-----------------------------------------------------------------------------
(* The data of a job that a client can see.                                *)

Status == {"absent", "queued", "running", "succeeded", "failed"}

Snapshot == [status : Status,
             stage  : {"", "work", "done"},
             result : BOOLEAN,
             error  : {"none", "exception", "interrupted"}]

Absent == [status |-> "absent", stage |-> "", result |-> FALSE, error |-> "none"]
Queued == [Absent EXCEPT !.status = "queued"]

Active   == {"queued", "running"}
Terminal == {"succeeded", "failed"}

InMemory(j) == mem[j].status # "absent"

\* JobStore.active_job_for_project: the jobs that hold the lock of project p.
ActiveJobs(p) == {j \in Job : ProjectOf[j] = p /\ mem[j].status \in Active}

\* Interrupted: what the boot sweep makes of a row.
Interrupted(r) == [r EXCEPT !.status = "failed", !.error = "interrupted"]

Unborn == "unborn"    \* id not yet drawn
Dead   == "dead"      \* the process that held the job is gone

HandlerPC == {"persistQueued"}
WorkerPC  == {"spawned", "persistRunning", "working", "returned", "stageDone",
              "raised", "finally", "persistTerminal", "ended"}
PC == {Unborn, Dead} \union HandlerPC \union WorkerPC

Init ==
    /\ server = "down" /\ pgUp = TRUE /\ pool = FALSE /\ swept = FALSE
    /\ mem = [j \in Job |-> Absent]
    /\ stamp = [j \in Job |-> 0]
    /\ pc = [j \in Job |-> Unborn]
    /\ row = [j \in Job |-> Absent]
    /\ stale = {}

-----------------------------------------------------------------------------
(* The environment: Postgres and the server process.                       *)

PostgresStops == pgUp /\ pgUp' = FALSE /\ UNCHANGED <<server, pool, swept, jobVars>>

PostgresStarts == ~pgUp /\ pgUp' = TRUE /\ UNCHANGED <<server, pool, swept, jobVars>>

\* A crash or a restart: memory and every worker thread are lost, rows stay.
Crash ==
    /\ server # "down"
    /\ server' = "down" /\ pool' = FALSE /\ swept' = FALSE
    /\ mem' = [j \in Job |-> Absent]
    /\ stamp' = [j \in Job |-> 0]
    /\ pc' = [j \in Job |-> IF pc[j] = Unborn THEN Unborn ELSE Dead]
    /\ UNCHANGED <<pgUp, row, stale>>

\* lifespan(): init_db() either opens the pool or leaves the server degraded,
\* in which case nothing below it runs.
BootInitDb ==
    /\ server = "down"
    /\ IF pgUp THEN pool' = TRUE /\ server' = "sweeping"
               ELSE pool' = pool /\ server' = "booting"
    /\ UNCHANGED <<pgUp, swept, jobVars>>

\* sweep_interrupted_jobs(), whose failure lifespan() logs and ignores.
BootSweep ==
    /\ server = "sweeping"
    /\ server' = "booting"
    /\ swept' = pgUp
    /\ row' = [j \in Job |-> IF pgUp /\ row[j].status \in Active
                             THEN Interrupted(row[j]) ELSE row[j]]
    /\ UNCHANGED <<pgUp, pool, mem, stamp, pc, stale>>

\* The rest of lifespan(), after which requests are accepted.
BootServe ==
    /\ server = "booting"
    /\ server' = "serving"
    /\ UNCHANGED <<pgUp, pool, swept, jobVars>>

-----------------------------------------------------------------------------
(* Row writes.  Both paths swallow every Postgres failure.                 *)

\* get_pool(): the pool, or one lazy attempt to open it.
GetPool == pool' = (pool \/ pgUp)

\* Mutant: the reconnect sweeps, as the boot does, under live jobs.
LazyConnectSweeps ==
    /\ server = "serving" /\ ~pool
    /\ GetPool
    /\ row' = [j \in Job |-> IF pgUp /\ row[j].status \in Active
                             THEN Interrupted(row[j]) ELSE row[j]]
    /\ UNCHANGED <<server, pgUp, swept, mem, stamp, pc, stale>>

\* Any request that reads history or keeps other data in Postgres may be the
\* one that opens the pool after a degraded boot; nothing is swept then.
LazyConnect ==
    /\ server = "serving" /\ ~pool
    /\ GetPool
    /\ UNCHANGED <<server, pgUp, swept, jobVars>>

\* _write_job_row: one upsert of the whole snapshot.
WriteRow(j) ==
    IF pgUp THEN row' = [row EXCEPT ![j] = mem[j]] /\ stale' = stale \ {j}
            ELSE row' = row /\ stale' = stale \union {j}

-----------------------------------------------------------------------------
(* submit_pipeline, submit_describe_refresh, submit_graph_only and         *)
(* submit_external share this shape.                                       *)

\* Mutant: no conflict check.
SubmitUnchecked(j) ==
    /\ server = "serving"
    /\ pc[j] = Unborn
    /\ mem' = [mem EXCEPT ![j] = Queued]
    /\ stamp' = [stamp EXCEPT ![j] = 1]
    /\ pc' = [pc EXCEPT ![j] = "persistQueued"]
    /\ UNCHANGED <<srvVars, row, stale>>

\* The conflict check and the creation, with no await in between.
Submit(j) ==
    /\ server = "serving"
    /\ pc[j] = Unborn
    /\ ActiveJobs(ProjectOf[j]) = {}
    /\ mem' = [mem EXCEPT ![j] = Queued]
    /\ stamp' = [stamp EXCEPT ![j] = 1]
    /\ pc' = [pc EXCEPT ![j] = "persistQueued"]
    /\ UNCHANGED <<srvVars, row, stale>>

\* await _persist_job_via_pool(job), and the worker is spawned right after.
PersistQueued(j) ==
    /\ pc[j] = "persistQueued"
    /\ GetPool
    /\ WriteRow(j)
    /\ pc' = [pc EXCEPT ![j] = "spawned"]
    /\ UNCHANGED <<server, pgUp, swept, mem, stamp>>

-----------------------------------------------------------------------------
(* The worker thread: _run_pipeline_sync and its three siblings.           *)

Step(j, from, to) == pc[j] = from /\ pc' = [pc EXCEPT ![j] = to]

StartWorker(j) ==
    /\ Step(j, "spawned", "persistRunning")
    /\ mem' = [mem EXCEPT ![j].status = "running"]
    /\ stamp' = [stamp EXCEPT ![j] = @ + 1]
    /\ UNCHANGED <<srvVars, row, stale>>

\* _persist_job_from_worker: a direct connection, never the pool.
PersistRunning(j) ==
    /\ Step(j, "persistRunning", "working")
    /\ WriteRow(j)
    /\ UNCHANGED <<srvVars, mem, stamp>>

\* report() of the built-in kinds, emit() of the routines.
Report(j) ==
    /\ pc[j] = "working"
    /\ stamp[j] < 2 + MaxReports
    /\ mem' = [mem EXCEPT ![j].stage = "work"]
    /\ stamp' = [stamp EXCEPT ![j] = @ + 1]
    /\ UNCHANGED <<srvVars, pc, row, stale>>

\* The work returns and its result is attached to the job ...
SetResult(j) ==
    /\ Step(j, "working", "returned")
    /\ mem' = [mem EXCEPT ![j].result = TRUE]
    /\ UNCHANGED <<srvVars, stamp, row, stale>>

SetSucceeded(j) ==
    /\ Step(j, "returned", "stageDone")
    /\ mem' = [mem EXCEPT ![j].status = "succeeded"]
    /\ UNCHANGED <<srvVars, stamp, row, stale>>

SetStageDone(j) ==
    /\ Step(j, "stageDone", "finally")
    /\ mem' = [mem EXCEPT ![j].stage = "done"]
    /\ UNCHANGED <<srvVars, stamp, row, stale>>

\* ... or it raises: the status is assigned first, the error after it.
SetFailed(j) ==
    /\ Step(j, "working", "raised")
    /\ mem' = [mem EXCEPT ![j].status = "failed"]
    /\ UNCHANGED <<srvVars, stamp, row, stale>>

SetError(j) ==
    /\ Step(j, "raised", "finally")
    /\ mem' = [mem EXCEPT ![j].error = "exception"]
    /\ UNCHANGED <<srvVars, stamp, row, stale>>

\* Mutant: the finally block does not touch updated_at.
StampTerminalSkipped(j) ==
    /\ Step(j, "finally", "persistTerminal")
    /\ UNCHANGED <<srvVars, mem, stamp, row, stale>>

\* finally: updated_at, then the terminal row.
StampTerminal(j) ==
    /\ Step(j, "finally", "persistTerminal")
    /\ stamp' = [stamp EXCEPT ![j] = @ + 1]
    /\ UNCHANGED <<srvVars, mem, row, stale>>

PersistTerminal(j) ==
    /\ Step(j, "persistTerminal", "ended")
    /\ WriteRow(j)
    /\ UNCHANGED <<srvVars, mem, stamp>>

Worker(j) ==
    \/ StartWorker(j) \/ PersistRunning(j) \/ Report(j)
    \/ SetResult(j) \/ SetSucceeded(j) \/ SetStageDone(j)
    \/ SetFailed(j) \/ SetError(j)
    \/ StampTerminal(j) \/ PersistTerminal(j)

Boot == BootInitDb \/ BootSweep \/ BootServe

Environment == PostgresStops \/ PostgresStarts \/ Crash \/ LazyConnect

Next ==
    \/ Environment
    \/ Boot
    \/ \E j \in Job : Submit(j) \/ PersistQueued(j) \/ Worker(j)

Spec == Init /\ [][Next]_vars

-----------------------------------------------------------------------------
(* Properties.                                                             *)

\* The state has the shape the code gives it.
TypeOK ==
    /\ server \in {"down", "sweeping", "booting", "serving"}
    /\ pgUp \in BOOLEAN /\ pool \in BOOLEAN /\ swept \in BOOLEAN
    /\ mem \in [Job -> Snapshot]
    /\ stamp \in [Job -> Nat]
    /\ pc \in [Job -> PC]
    /\ row \in [Job -> Snapshot]
    /\ stale \subseteq Job

\* The per-project lock: whatever the kinds of the jobs, wherever their
\* workers are, no two of one project are queued or running (jobs.py:155).
OneActivePerProject ==
    \A i, j \in Job :
        /\ mem[i].status \in Active /\ mem[j].status \in Active
        /\ ProjectOf[i] = ProjectOf[j]
        => i = j

Rank(s) == CASE s = "absent"  -> 0 [] s = "queued" -> 1
             [] s = "running" -> 2 [] OTHER -> 3

\* A row never contradicts the live job it was written from: it is at most as
\* far along, and once it is terminal it is the job's final state.
RowTrailsMemory ==
    \A j \in Job : InMemory(j) =>
        /\ Rank(row[j].status) <= Rank(mem[j].status)
        /\ row[j].status \in Terminal => row[j] = mem[j]

\* When the worker has ended and its last write was not refused, history holds
\* exactly what the job ended with.
EndedRowIsFinal ==
    \A j \in Job : pc[j] = "ended" /\ j \notin stale => row[j] = mem[j]

\* After a boot whose sweep reached Postgres, a job known only from its row is
\* terminal (jobs.py:289).
SweptRowsTerminal ==
    swept => \A j \in Job : ~InMemory(j) => row[j].status \notin Active

\* Job history only moves forward, across crashes, restarts and lost writes:
\* no row goes back to an earlier status, and a terminal row is never touched
\* again (the queued row lands before any write of the worker, jobs.py:170).
HistoryMovesForward ==
    [][\A j \in Job :
          /\ Rank(row[j].status) <= Rank(row'[j].status)
          /\ row[j].status \in Terminal => row'[j] = row[j]]_vars

\* The registry implements the abstract per-project lock.
Lock == INSTANCE ProjectLock WITH
    holder <- [p \in Project |-> ActiveJobs(p)],
    over   <- {j \in Job : pc[j] # Unborn /\ mem[j].status \notin Active}

LockSpec == Lock!Spec
=============================================================================
