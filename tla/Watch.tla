------------------------------- MODULE Watch -------------------------------
(***************************************************************************)
(* dokkai watch: the command line ingests a repository once, then ingests  *)
(* it again whenever its watcher reports a change, debounced by a timer.   *)
(* Cycles overlap: only the server's lock on the project (ProjectLock)     *)
(* keeps two ingestions apart, by answering 409, and a job reads the files *)
(* one after the other while they change.                                  *)
(***************************************************************************)
EXTENDS Naturals, FiniteSets, FiniteSetsExt, Functions

CONSTANTS
    File,           \* the files of the repository
    Ignored,        \* those that isIgnored skips
    Cycle,          \* bound: runs of runCycle under way together
    MaxChanges,     \* bound: changes to the files
    MaxOthers,      \* bound: jobs of other clients
    MaxFailures     \* bound: failed requests, failed jobs and crashes

ASSUME WatchAssumption == Ignored \subseteq File

VARIABLES
    tree,       \* the version of each file
    events,     \* changes the operating system has not reported yet
    watching,   \* has fs.watch been called?  (SIGINT ends the process, and is left out)
    timer,      \* is debounceTimer set?
    cycle,      \* where each cycle is; cycle 0 is the initial one
    job,        \* the job that holds the project: whose, the files it will still read, the versions read
    ingested,   \* the versions the project's chunks were made of
    others, failures,
    noticed,    \* history: the versions when the watcher last reported the file
    excused     \* history: the versions noticed when a cycle or its job last failed

clientVars == <<events, watching, timer, cycle, noticed>>
serverVars == <<job, ingested, others>>
vars == <<tree, clientVars, serverVars, failures, excused>>

Cycles == Cycle \cup {0}
Zero == [f \in File |-> 0]
Nobody == [held |-> FALSE, of |-> {}, todo |-> {}, read |-> Zero]
Total == MapThenSumSet(LAMBDA f : tree[f], File)

Init ==
    /\ tree = Zero /\ ingested = Zero /\ noticed = Zero /\ excused = Zero
    /\ events = {} /\ watching = FALSE /\ timer = FALSE
    /\ cycle = [c \in Cycles |-> IF c = 0 THEN "posting" ELSE "idle"]
    /\ job = Nobody /\ others = 0 /\ failures = 0

-----------------------------------------------------------------------------
(* The files and their watcher *)

\* Before fs.watch nobody reports a change.
Change(f) ==
    /\ Total < MaxChanges
    /\ tree' = [tree EXCEPT ![f] = @ + 1]
    /\ events' = IF watching THEN events \cup {f} ELSE events
    /\ UNCHANGED <<watching, timer, cycle, noticed, serverVars, failures, excused>>

\* The callback of the watcher: scheduleCycle clears the timer and sets it.
Reported(f) ==
    /\ watching /\ f \in events
    /\ events' = events \ {f}
    /\ IF f \in Ignored THEN UNCHANGED <<timer, noticed>>
       ELSE timer' = TRUE /\ noticed' = [noticed EXCEPT ![f] = tree[f]]
    /\ UNCHANGED <<tree, watching, cycle, serverVars, failures, excused>>

-----------------------------------------------------------------------------
(* Cycles *)

TimerFires(c) ==
    /\ timer /\ watching /\ cycle[c] = "idle"
    /\ timer' = FALSE
    /\ cycle' = [cycle EXCEPT ![c] = "posting"]
    /\ UNCHANGED <<tree, events, watching, noticed, serverVars, failures, excused>>

\* A cycle is over; the initial one is followed by fs.watch.
Over(c) ==
    /\ cycle' = [cycle EXCEPT ![c] = IF c = 0 THEN "gone" ELSE "idle"]
    /\ watching' = (watching \/ c = 0)

Fail == failures < MaxFailures /\ failures' = failures + 1
Lost == excused' = noticed

\* A job that reads no file leaves the project as it was.
Hold(whose, todo) ==
    job' = [held |-> TRUE, of |-> whose, todo |-> todo, read |-> IF todo = {} THEN ingested ELSE Zero]

\* POST /instances/pipeline finds the project free ...
Accepted(c) ==
    /\ cycle[c] = "posting" /\ ~job.held
    /\ Hold({c}, File)
    /\ cycle' = [cycle EXCEPT ![c] = "following"]
    /\ UNCHANGED <<tree, events, watching, timer, noticed, ingested, others, failures, excused>>

\* Mutant: a cycle that was skipped is not scheduled again.
ConflictSkipped(c) ==
    /\ cycle[c] = "posting" /\ job.held
    /\ Over(c)
    /\ UNCHANGED <<tree, events, timer, noticed, serverVars, failures, excused>>

\* ... or answers 409, and the cycle is scheduled again ...
Conflict(c) ==
    /\ cycle[c] = "posting" /\ job.held
    /\ Over(c)
    /\ timer' = TRUE
    /\ UNCHANGED <<tree, events, noticed, serverVars, failures, excused>>

\* ... or fails otherwise, with or without a job, and nothing is scheduled.
PostFails(c) ==
    /\ cycle[c] = "posting" /\ Fail
    /\ Over(c) /\ Lost
    /\ (~job.held /\ Hold({c}, File)) \/ UNCHANGED job
    /\ UNCHANGED <<tree, events, timer, noticed, ingested, others>>

\* followJob has seen the job end, or has failed for a reason of its own.
FollowEnds(c) ==
    /\ cycle[c] = "following"
    /\ IF c \in job.of THEN Fail ELSE UNCHANGED failures
    /\ Over(c)
    /\ UNCHANGED <<tree, events, timer, noticed, serverVars, excused>>

CycleStep(c) == TimerFires(c) \/ Accepted(c) \/ Conflict(c) \/ PostFails(c) \/ FollowEnds(c)

-----------------------------------------------------------------------------
(* The server *)

\* Another client's pipeline, or a job that reads no file.
OtherJob ==
    /\ others < MaxOthers /\ ~job.held
    /\ others' = others + 1
    /\ \E todo \in {File, {}} : Hold({}, todo)
    /\ UNCHANGED <<tree, clientVars, ingested, failures, excused>>

JobReads(f) ==
    /\ f \in job.todo
    /\ job' = [job EXCEPT !.todo = @ \ {f}, !.read[f] = tree[f]]
    /\ UNCHANGED <<tree, clientVars, ingested, others, failures, excused>>

\* An ingestion replaces what the project had.
JobSucceeds ==
    /\ job.held /\ job.todo = {}
    /\ job' = Nobody
    /\ ingested' = job.read
    /\ UNCHANGED <<tree, clientVars, others, failures, excused>>

\* The job fails, or the server is restarted.
JobFails ==
    /\ job.held /\ Fail
    /\ job' = Nobody
    /\ IF job.of # {} THEN Lost ELSE UNCHANGED excused
    /\ UNCHANGED <<tree, clientVars, ingested, others>>

JobStep == (\E f \in File : JobReads(f)) \/ JobSucceeds

-----------------------------------------------------------------------------
Next ==
    \/ \E f \in File : Change(f) \/ Reported(f)
    \/ \E c \in Cycles : CycleStep(c)
    \/ OtherJob \/ JobStep \/ JobFails

\* The events arrive, the timer fires, a request is answered, a job ends and
\* its end is seen.  Nothing is assumed of changes, failures and other jobs.
Spec ==
    /\ Init /\ [][Next]_vars
    /\ \A f \in File : WF_vars(Reported(f))
    /\ WF_vars(\E c \in Cycles : TimerFires(c))
    /\ \A c \in Cycles : WF_vars(Accepted(c) \/ Conflict(c)) /\ WF_vars(FollowEnds(c))
    /\ WF_vars(JobStep)

-----------------------------------------------------------------------------
(* Properties *)

\* A change that the watcher reported gets into the chunks, however cycles
\* overlap, whoever holds the project and in whichever order a job reads the
\* files; the exception is a cycle whose request or job failed (watch.ts:115).
NoticedIsIngested ==
    \A f \in File : \A v \in 1..MaxChanges :
        noticed[f] = v ~> (ingested[f] >= v \/ excused[f] >= v)
=============================================================================
