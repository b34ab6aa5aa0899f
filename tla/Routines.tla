------------------------------ MODULE Routines ------------------------------
(***************************************************************************)
(* Code-review and bughunt routines on top of the job core: the launch     *)
(* protocol of routines.engine.submit_routine, the runner that keeps the   *)
(* routine_runs row in step with the job, the findings it delivers, the    *)
(* delete endpoint, and the boot sweep of interrupted runs.                *)
(*                                                                         *)
(* The run row of job j is run[j]; all of its writes but the creation are  *)
(* best-effort.  A job outside Routine is a pipeline, refresh or graph job *)
(* that competes for the same project.                                     *)
(***************************************************************************)
EXTENDS Jobs

CONSTANT Routine    \* the ids drawn by submit_routine

ASSUME RoutineAssumption == Routine \subseteq Job

VARIABLES
    run,        \* status of the routine_runs row: "none", a status, or "deleted"
    rpc,        \* where the launch handler or the runner of a routine is
    reported,   \* does the core's result carry findings?
    found,      \* are they in the findings table?
    runStale,   \* history: routines whose latest run-row write was refused
    runsSwept   \* history: did this boot's sweep of routine_runs succeed?

runVars == <<run, rpc, reported, found, runStale, runsSwept>>
allVars == <<vars, runVars>>

ActiveRun  == {"queued", "running"}
SettledRun == {"done", "failed"}
Bookkeeping == {"markRunning", "core", "coreRaised", "insert", "markDone", "markLost"}

RoutineInit ==
    /\ Init
    /\ run = [j \in Routine |-> "none"]
    /\ rpc = [j \in Routine |-> "idle"]
    /\ reported = [j \in Routine |-> FALSE]
    /\ found = [j \in Routine |-> FALSE]
    /\ runStale = {} /\ runsSwept = FALSE

At(j, from, to) == rpc[j] = from /\ rpc' = [rpc EXCEPT ![j] = to]

\* The UPDATE of one run row over a direct connection: a refusal is logged, and
\* a row that was deleted matches nothing.
UpdateRun(j, status) ==
    /\ run' = [run EXCEPT ![j] = IF pgUp /\ @ # "deleted" THEN status ELSE @]
    /\ runStale' = IF pgUp THEN runStale \ {j} ELSE runStale \union {j}

-----------------------------------------------------------------------------
(* submit_routine, on the event loop.                                      *)

\* create_run comes first.  If it fails the request fails and no job follows;
\* a row whose insert landed but was not acknowledged stays behind.
CreateRun(j) ==
    /\ server = "serving" /\ pgUp
    /\ \E acknowledged \in BOOLEAN :
          At(j, "idle", IF acknowledged THEN "created" ELSE "refused")
    /\ GetPool
    /\ run' = [run EXCEPT ![j] = "queued"]
    /\ UNCHANGED <<server, pgUp, swept, jobVars, reported, found, runStale, runsSwept>>

\* Mutant: the job is registered without looking at the project's lock.
LaunchUnchecked(j) ==
    /\ At(j, "created", "markRunning")
    /\ server = "serving"
    /\ mem' = [mem EXCEPT ![j] = Queued]
    /\ stamp' = [stamp EXCEPT ![j] = 1]
    /\ pc' = [pc EXCEPT ![j] = "persistQueued"]
    /\ UNCHANGED <<srvVars, row, stale, run, reported, found, runStale, runsSwept>>

\* submit_external finds no conflict ...
Launch(j) ==
    /\ At(j, "created", "markRunning")
    /\ Submit(j)
    /\ UNCHANGED <<run, reported, found, runStale, runsSwept>>

\* Mutant: the conflict propagates at once, and the row stays.
ConflictKeepsRow(j) ==
    /\ ActiveJobs(ProjectOf[j]) # {}
    /\ At(j, "created", "refused")
    /\ UNCHANGED <<vars, run, reported, found, runStale, runsSwept>>

\* ... or raises ProjectJobConflict ...
Conflict(j) ==
    /\ ActiveJobs(ProjectOf[j]) # {}
    /\ At(j, "created", "conflict")
    /\ UNCHANGED <<vars, run, reported, found, runStale, runsSwept>>

\* ... and the row just created is deleted, if Postgres lets it.
CleanUp(j) ==
    /\ At(j, "conflict", "refused")
    /\ GetPool
    /\ UpdateRun(j, "deleted")
    /\ UNCHANGED <<server, pgUp, swept, jobVars, reported, found, runsSwept>>

\* DELETE /routines/runs/{id}, which does not look at the run's status.
DeleteRun(j) ==
    /\ server = "serving" /\ pgUp
    /\ run[j] \notin {"none", "deleted"}
    /\ GetPool
    /\ run' = [run EXCEPT ![j] = "deleted"]
    /\ found' = [found EXCEPT ![j] = FALSE]
    /\ UNCHANGED <<server, pgUp, swept, jobVars, rpc, reported, runStale, runsSwept>>

-----------------------------------------------------------------------------
(* _runner, in the worker thread, while the job is at "working".           *)

Running(j) == pc[j] = "working"

MarkRunning(j) ==
    /\ Running(j) /\ At(j, "markRunning", "core")
    /\ UpdateRun(j, "running")
    /\ UNCHANGED <<vars, reported, found, runsSwept>>

\* emit() while the core runs.
Emit(j) ==
    /\ rpc[j] = "core"
    /\ Report(j)
    /\ UNCHANGED runVars

\* Mutant: a result without findings skips the bookkeeping.
CoreReturnsEarly(j) ==
    /\ Running(j)
    /\ \E some \in BOOLEAN :
          /\ reported' = [reported EXCEPT ![j] = some]
          /\ At(j, "core", IF some THEN "insert" ELSE "return")
    /\ UNCHANGED <<vars, run, found, runStale, runsSwept>>

\* The core returns, with findings or without.
CoreReturns(j) ==
    /\ Running(j)
    /\ \E some \in BOOLEAN :
          /\ reported' = [reported EXCEPT ![j] = some]
          /\ At(j, "core", IF some THEN "insert" ELSE "markDone")
    /\ UNCHANGED <<vars, run, found, runStale, runsSwept>>

CoreRaises(j) ==
    /\ Running(j) /\ At(j, "core", "coreRaised")
    /\ UNCHANGED <<vars, run, reported, found, runStale, runsSwept>>

MarkRaised(j) ==
    /\ Running(j) /\ At(j, "coreRaised", "raise")
    /\ UpdateRun(j, "failed")
    /\ UNCHANGED <<vars, reported, found, runsSwept>>

\* Mutant: the answer of insert_findings is ignored.
InsertFindingsUnchecked(j) ==
    /\ Running(j)
    /\ \E lands \in BOOLEAN :
          /\ lands => pgUp /\ run[j] # "deleted"
          /\ found' = [found EXCEPT ![j] = lands]
          /\ At(j, "insert", "markDone")
    /\ UNCHANGED <<vars, run, reported, runStale, runsSwept>>

\* insert_findings: one batch, that lands or does not; a batch that landed may
\* still be reported as refused when the connection breaks after it.
InsertFindings(j) ==
    /\ Running(j)
    /\ \E lands, acknowledged \in BOOLEAN :
          /\ lands => pgUp /\ run[j] # "deleted"
          /\ acknowledged => lands
          /\ found' = [found EXCEPT ![j] = lands]
          /\ At(j, "insert", IF acknowledged THEN "markDone" ELSE "markLost")
    /\ UNCHANGED <<vars, run, reported, runStale, runsSwept>>

MarkDone(j) ==
    /\ Running(j) /\ At(j, "markDone", "return")
    /\ UpdateRun(j, "done")
    /\ UNCHANGED <<vars, reported, found, runsSwept>>

MarkLost(j) ==
    /\ Running(j) /\ At(j, "markLost", "return")
    /\ UpdateRun(j, "failed")
    /\ UNCHANGED <<vars, reported, found, runsSwept>>

\* The runner attaches the result and returns, or re-raises.
RunnerReturns(j) ==
    /\ At(j, "return", "returned")
    /\ SetResult(j)
    /\ UNCHANGED <<run, reported, found, runStale, runsSwept>>

RunnerRaises(j) ==
    /\ At(j, "raise", "returned")
    /\ SetFailed(j)
    /\ UNCHANGED <<run, reported, found, runStale, runsSwept>>

\* The rest of _run_external_sync does not look at the run.
JobPlumbing(j) ==
    /\ \/ PersistQueued(j)
       \/ StartWorker(j) \/ PersistRunning(j)
       \/ SetSucceeded(j) \/ SetStageDone(j) \/ SetError(j)
       \/ StampTerminal(j) \/ PersistTerminal(j)
    /\ UNCHANGED runVars

RunnerStep(j) ==
    \/ MarkRunning(j) \/ Emit(j) \/ CoreReturns(j) \/ CoreRaises(j)
    \/ MarkRaised(j) \/ InsertFindings(j) \/ MarkDone(j) \/ MarkLost(j)
    \/ RunnerReturns(j) \/ RunnerRaises(j) \/ JobPlumbing(j)

-----------------------------------------------------------------------------
CrashWithRuns ==
    /\ Crash
    /\ rpc' = [j \in Routine |-> IF rpc[j] = "idle" THEN "idle" ELSE "gone"]
    /\ runsSwept' = FALSE
    /\ UNCHANGED <<run, reported, found, runStale>>

\* What the UPDATE of the sweep does to the runs its WHERE clause selects.
SweepRuns(selected) ==
    /\ BootServe
    /\ runsSwept' = (pool /\ pgUp)
    /\ run' = [j \in Routine |-> IF pool /\ pgUp /\ j \in selected
                                 THEN "failed" ELSE run[j]]
    /\ UNCHANGED <<rpc, reported, found, runStale>>

\* Mutant: the WHERE clause is lost.
BootSweepRunsEverything == SweepRuns({j \in Routine : run[j] \notin {"none", "deleted"}})

\* sweep_interrupted_routine_runs(), inside the branch of lifespan() that runs
\* only when init_db() succeeded at this boot.
BootSweepRuns == SweepRuns({j \in Routine : run[j] \in ActiveRun})

Handler(j) == Launch(j) \/ Conflict(j) \/ CleanUp(j)

RoutineNext ==
    \/ CrashWithRuns
    \/ BootSweepRuns
    \/ /\ PostgresStops \/ PostgresStarts \/ LazyConnect \/ BootInitDb \/ BootSweep
       /\ UNCHANGED runVars
    \/ \E j \in Routine : CreateRun(j) \/ Handler(j) \/ RunnerStep(j) \/ DeleteRun(j)
    \/ \E j \in Job \ Routine :
          (Submit(j) \/ PersistQueued(j) \/ Worker(j)) /\ UNCHANGED runVars

RoutineSpec == RoutineInit /\ [][RoutineNext]_allVars

\* As in Jobs: threads and handlers that are not killed keep going, and the
\* core of a routine returns or raises.
RoutineFairSpec ==
    /\ RoutineSpec
    /\ \A j \in Routine : WF_allVars(Handler(j)) /\ WF_allVars(RunnerStep(j))

-----------------------------------------------------------------------------
(* Properties.                                                             *)

\* When the job of a routine becomes terminal its run row is already settled,
\* so a client that refetches the run once, on the job's done event, sees the
\* outcome; the exception is a run-row write that Postgres refused.  And after a
\* boot whose sweep reached Postgres no run of an earlier process is left queued
\* or running.
RunsSettle ==
    \A j \in Routine :
        /\ mem[j].status \in Terminal /\ j \notin runStale
              => run[j] \in SettledRun \union {"deleted"}
        /\ runsSwept /\ rpc[j] = "gone" => run[j] \notin ActiveRun

\* The run, its findings and its job agree, whatever was refused, deleted or
\* swept meanwhile: a run shown as done has its findings in the table, a job that
\* failed never has a done run, and a run that failed under a job that succeeded
\* is one whose findings were reported and not acknowledged (engine.py:46,58).
OutcomesAgree ==
    \A j \in Routine :
        /\ run[j] = "done" /\ reported[j] => found[j]
        /\ mem[j].status = "failed" => run[j] # "done"
        /\ mem[j].status = "succeeded" /\ run[j] = "failed" => reported[j]

\* A run goes from queued to running to one outcome and keeps it, across
\* crashes, sweeps and refused writes; after that it can only be deleted.
RunMovesForward ==
    [][\A j \in Routine :
          /\ run[j] \in SettledRun => run'[j] \in {run[j], "deleted"}
          /\ run[j] = "running" => run'[j] # "queued"
          /\ run[j] = "deleted" => run'[j] = "deleted"]_allVars

\* A launch leaves no queued run behind that nothing will ever run: it ends
\* with a job, or without the row, unless Postgres or the process fails first.
LaunchLeavesNoOrphan ==
    \A j \in Routine :
        rpc[j] = "created" ~>
            InMemory(j) \/ run[j] = "deleted" \/ j \in runStale \/ rpc[j] = "gone"

\* Driving a job through a routine stays within the lifecycle of Jobs.
JobsSpec == Spec
=============================================================================
