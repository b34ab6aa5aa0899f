----------------------------- MODULE JobStream -----------------------------
(***************************************************************************)
(* GET /instances/jobs/{id}/events on top of the job core: server-sent     *)
(* event streams that watch a Job object another thread is mutating, and   *)
(* the one-frame stream of a job that is known only from its row.          *)
(*                                                                         *)
(* A stream polls updated_at on the event loop, reads status to choose the *)
(* event type, and then copies the object field by field (dataclasses      *)
(* asdict, in declaration order: status first, result and error later); the *)
(* worker thread can run between any two of these reads.                   *)
(***************************************************************************)
EXTENDS Jobs

CONSTANT Reader    \* clients that follow a job

VARIABLES
    spc,      \* where the stream of each reader is
    rjob,     \* the job it follows
    rlast,    \* last_updated_at: the version last sent, 0 for None
    rterm,    \* the local `terminal` of event_stream()
    frame     \* the payload being built, and after it the last one sent

streamVars == <<spc, rjob, rlast, rterm, frame>>
watchedVars == <<vars, streamVars>>

Streaming == {"poll", "type", "copyStatus", "copyRest"}

StreamInit ==
    /\ Init
    /\ spc = [r \in Reader |-> "off"]
    /\ rjob \in [Reader -> Job]
    /\ rlast = [r \in Reader |-> 0]
    /\ rterm = [r \in Reader |-> FALSE]
    /\ frame = [r \in Reader |-> Absent]

-----------------------------------------------------------------------------
\* The job is in memory: event_stream() starts with last_updated_at = None.
ConnectLive(r) ==
    /\ server = "serving" /\ spc[r] = "off" /\ InMemory(rjob[r])
    /\ spc' = [spc EXCEPT ![r] = "poll"]
    /\ UNCHANGED <<vars, rjob, rlast, rterm, frame>>

\* It is not: get_job_from_db() finds its row and the stream is a single done
\* event.  (Without a row, or without Postgres, the answer is a 404.)
ConnectHistory(r) ==
    /\ server = "serving" /\ spc[r] = "off" /\ ~InMemory(rjob[r])
    /\ GetPool
    /\ IF pgUp /\ row[rjob[r]] # Absent
       THEN spc' = [spc EXCEPT ![r] = "doneHistory"]
            /\ frame' = [frame EXCEPT ![r] = row[rjob[r]]]
       ELSE UNCHANGED <<spc, frame>>
    /\ UNCHANGED <<server, pgUp, swept, jobVars, rjob, rlast, rterm>>

\* job.updated_at != last_updated_at
Notice(r) ==
    /\ spc[r] = "poll" /\ stamp[rjob[r]] # rlast[r]
    /\ rlast' = [rlast EXCEPT ![r] = stamp[rjob[r]]]
    /\ spc' = [spc EXCEPT ![r] = "type"]
    /\ UNCHANGED <<vars, rjob, rterm, frame>>

\* terminal = job.status in ("succeeded", "failed")
ChooseType(r) ==
    /\ spc[r] = "type"
    /\ rterm' = [rterm EXCEPT ![r] = mem[rjob[r]].status \in Terminal]
    /\ spc' = [spc EXCEPT ![r] = "copyStatus"]
    /\ UNCHANGED <<vars, rjob, rlast, frame>>

\* job.to_dict(), first half ...
CopyStatus(r) ==
    /\ spc[r] = "copyStatus"
    /\ frame' = [frame EXCEPT ![r].status = mem[rjob[r]].status]
    /\ spc' = [spc EXCEPT ![r] = "copyRest"]
    /\ UNCHANGED <<vars, rjob, rlast, rterm>>

\* ... second half; the frame is sent, and a terminal one ends the stream.
CopyRest(r) ==
    /\ spc[r] = "copyRest"
    /\ frame' = [frame EXCEPT ![r] = [mem[rjob[r]] EXCEPT !.status = frame[r].status]]
    /\ spc' = [spc EXCEPT ![r] = IF rterm[r] THEN "done" ELSE "poll"]
    /\ UNCHANGED <<vars, rjob, rlast, rterm>>

\* The client goes away, or forgets a finished stream and may ask again.
Disconnect(r) ==
    /\ spc[r] # "off"
    /\ spc' = [spc EXCEPT ![r] = "off"]
    /\ rlast' = [rlast EXCEPT ![r] = 0]
    /\ rterm' = [rterm EXCEPT ![r] = FALSE]
    /\ frame' = [frame EXCEPT ![r] = Absent]
    /\ UNCHANGED <<vars, rjob>>

\* A crash of the server cuts the streams that are still open.
CrashCutsStreams ==
    LET cut == {r \in Reader : spc[r] \in Streaming} IN
    /\ Crash
    /\ spc' = [r \in Reader |-> IF r \in cut THEN "off" ELSE spc[r]]
    /\ rlast' = [r \in Reader |-> IF r \in cut THEN 0 ELSE rlast[r]]
    /\ rterm' = [r \in Reader |-> IF r \in cut THEN FALSE ELSE rterm[r]]
    /\ frame' = [r \in Reader |-> IF r \in cut THEN Absent ELSE frame[r]]
    /\ UNCHANGED rjob

JobStep(j) == Submit(j) \/ PersistQueued(j) \/ Worker(j)
=============================================================================
