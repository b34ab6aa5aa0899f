----------------------------- MODULE JobsProofs -----------------------------
(***************************************************************************)
(* Theorems about the jobs of module Jobs, about the routines among them   *)
(* and about the clients that follow them, for any number of jobs,         *)
(* projects and routines, any bound on progress reports and faults, and    *)
(* any cut of the event stream.                                            *)
(*                                                                         *)
(* Of jobs: none of the invariants is inductive by itself.  The            *)
(* strengthening says what each program point of a job implies about the   *)
(* object in memory (MemoryAt) and about its row (RowAt), and that no job  *)
(* is live while the server is not serving (NobodyLiveAtBoot).             *)
(*                                                                         *)
(* Of routines: a routine drives its job within the lifecycle of Jobs, so  *)
(* that what was shown of jobs holds of them too; and the run row, the     *)
(* findings and the job agree.  The strengthening says what each control   *)
(* point of a launch or a runner implies about the job that carries it     *)
(* (JobAt) and about the run (RunAt, OutcomeAt).                           *)
(*                                                                         *)
(* Of clients (CInv): every snapshot under way or yielded has a status the *)
(* job has had (Had) and is whole if it says that the job succeeded        *)
(* (Copies, Complete); progress is ordered from followJob's last snapshot  *)
(* over the frame last sent and the one being copied to the live job       *)
(* (Told, StreamReads); and the frame last sent is on the wire, or cut in  *)
(* two between the wire and the parser's buffer, or heard (Flows).  That   *)
(* the parser reads a frame however it is cut is shown of the frame's      *)
(* text, character by character.                                           *)
(***************************************************************************)
EXTENDS Routines, JobClients, WellFoundedInduction, SequenceTheorems, TLAPS

\* The statuses the Job object can have at each program point.
StatusesAt(at) ==
    CASE at \in {Unborn, Dead}                              -> {"absent"}
      [] at \in {"persistQueued", "spawned"}                -> {"queued"}
      [] at \in {"persistRunning", "working", "returned"}   -> {"running"}
      [] at = "stageDone"                                   -> {"succeeded"}
      [] at = "raised"                                      -> {"failed"}
      [] OTHER                                              -> Terminal

MemoryAt == \A j \in Job : mem[j].status \in StatusesAt(pc[j])

\* The statuses a row can have at each program point of a live job.
RowStatusesAt(at) ==
    CASE at \in {Unborn, "persistQueued"}      -> {"absent"}
      [] at \in {"spawned", "persistRunning"}  -> {"absent", "queued"}
      [] OTHER                                 -> {"absent", "queued", "running"}

RowAt ==
    \A j \in Job :
        \/ pc[j] = Dead
        \/ row[j].status \in RowStatusesAt(pc[j])
        \/ pc[j] = "ended" /\ row[j] = mem[j]

FreshRows == \A j \in Job : pc[j] = "ended" /\ j \notin stale => row[j] = mem[j]

NobodyLiveAtBoot ==
    server # "serving" => \A j \in Job : pc[j] \in {Unborn, Dead}

SweepHeld ==
    swept => /\ server \in {"booting", "serving"}
             /\ \A j \in Job : pc[j] = Dead => row[j].status \notin Active

IInv ==
    /\ TypeOK
    /\ MemoryAt
    /\ RowAt
    /\ FreshRows
    /\ NobodyLiveAtBoot
    /\ SweepHeld
    /\ OneActivePerProject

-----------------------------------------------------------------------------
(* Type correctness.                                                       *)

USE DEF vars, srvVars, jobVars

\* The constant parts of the type invariant, for the leaves below.
LEMMA Constants ==
    /\ Absent \in Snapshot /\ Queued \in Snapshot
    /\ Absent.status = "absent" /\ Queued.status = "queued"
    /\ {Unborn, Dead} \subseteq PC /\ HandlerPC \subseteq PC /\ WorkerPC \subseteq PC
BY DEF Absent, Queued, Snapshot, Status, PC, HandlerPC, WorkerPC

\* What the boot sweep makes of a row is a row.
LEMMA InterruptedType ==
    ASSUME NEW r \in Snapshot
    PROVE  /\ Interrupted(r) \in Snapshot
           /\ Interrupted(r).status = "failed"
BY DEF Interrupted, Snapshot, Status

\* Every value a worker gives to a field of its job keeps it a job.
LEMMA FieldTypes ==
    ASSUME TypeOK, NEW j \in Job
    PROVE  /\ [mem[j] EXCEPT !.status = "running"] \in Snapshot
           /\ [mem[j] EXCEPT !.status = "succeeded"] \in Snapshot
           /\ [mem[j] EXCEPT !.status = "failed"] \in Snapshot
           /\ [mem[j] EXCEPT !.stage = "work"] \in Snapshot
           /\ [mem[j] EXCEPT !.stage = "done"] \in Snapshot
           /\ [mem[j] EXCEPT !.result = TRUE] \in Snapshot
           /\ [mem[j] EXCEPT !.error = "exception"] \in Snapshot
<1>1. mem[j] \in Snapshot
  BY DEF TypeOK
<1>2. \A r \in Snapshot :
         /\ [r EXCEPT !.status = "running"] \in Snapshot
         /\ [r EXCEPT !.status = "succeeded"] \in Snapshot
         /\ [r EXCEPT !.status = "failed"] \in Snapshot
  BY DEF Snapshot, Status
<1>3. \A r \in Snapshot :
         /\ [r EXCEPT !.stage = "work"] \in Snapshot
         /\ [r EXCEPT !.stage = "done"] \in Snapshot
  BY DEF Snapshot
<1>4. \A r \in Snapshot :
         /\ [r EXCEPT !.result = TRUE] \in Snapshot
         /\ [r EXCEPT !.error = "exception"] \in Snapshot
  BY DEF Snapshot
<1> QED BY <1>1, <1>2, <1>3, <1>4

\* A row write keeps the table a table, whether Postgres takes it or not.
LEMMA WriteRowType ==
    ASSUME TypeOK, NEW j \in Job, WriteRow(j)
    PROVE  row' \in [Job -> Snapshot] /\ stale' \subseteq Job
BY DEF TypeOK, WriteRow

LEMMA TypeInit == Init => TypeOK
<1> SUFFICES ASSUME Init PROVE TypeOK
  OBVIOUS
<1>1. mem \in [Job -> Snapshot] /\ row \in [Job -> Snapshot]
  BY Constants DEF Init
<1>2. pc \in [Job -> PC]
  BY Constants DEF Init
<1>3. stamp \in [Job -> Nat]
  BY DEF Init
<1> QED BY <1>1, <1>2, <1>3 DEF Init, TypeOK

LEMMA TypeStep == TypeOK /\ [Next]_vars => TypeOK'
<1> SUFFICES ASSUME TypeOK, [Next]_vars PROVE TypeOK'
  OBVIOUS
<1>1. CASE Environment
  <2>1. CASE PostgresStops BY <2>1 DEF PostgresStops, TypeOK
  <2>2. CASE PostgresStarts BY <2>2 DEF PostgresStarts, TypeOK
  <2>3. CASE Crash BY <2>3, Constants DEF Crash, TypeOK
  <2>4. CASE LazyConnect BY <2>4 DEF LazyConnect, GetPool, TypeOK
  <2> QED BY <1>1, <2>1, <2>2, <2>3, <2>4 DEF Environment
<1>2. CASE Boot
  <2>1. CASE BootInitDb BY <2>1 DEF BootInitDb, TypeOK
  <2>2. CASE BootSweep
    <3>1. row' \in [Job -> Snapshot]
      BY <2>2, InterruptedType DEF BootSweep, TypeOK
    <3> QED BY <2>2, <3>1 DEF BootSweep, TypeOK
  <2>3. CASE BootServe BY <2>3 DEF BootServe, TypeOK
  <2> QED BY <1>2, <2>1, <2>2, <2>3 DEF Boot
<1>3. ASSUME NEW j \in Job, Submit(j) PROVE TypeOK'
  BY <1>3, Constants DEF Submit, TypeOK, HandlerPC
<1>4. ASSUME NEW j \in Job, PersistQueued(j) PROVE TypeOK'
  <2>1. pool' \in BOOLEAN
    BY <1>4 DEF PersistQueued, GetPool, TypeOK
  <2>2. row' \in [Job -> Snapshot] /\ stale' \subseteq Job
    BY <1>4, WriteRowType DEF PersistQueued
  <2> QED BY <1>4, <2>1, <2>2, Constants DEF PersistQueued, TypeOK, WorkerPC
<1>5. ASSUME NEW j \in Job, Worker(j) PROVE TypeOK'
  <2>1. \A at \in WorkerPC : [pc EXCEPT ![j] = at] \in [Job -> PC]
    BY Constants DEF TypeOK
  <2>2. [stamp EXCEPT ![j] = stamp[j] + 1] \in [Job -> Nat]
    BY DEF TypeOK
  <2>3. \A m \in Snapshot : [mem EXCEPT ![j] = m] \in [Job -> Snapshot]
    BY DEF TypeOK
  <2>4. CASE StartWorker(j)
    <3>1. mem' \in [Job -> Snapshot]
      BY <2>3, <2>4, FieldTypes DEF StartWorker
    <3> QED BY <2>1, <2>2, <2>4, <3>1 DEF StartWorker, Step, TypeOK, WorkerPC
  <2>5. CASE PersistRunning(j)
    <3>1. row' \in [Job -> Snapshot] /\ stale' \subseteq Job
      BY <2>5, WriteRowType DEF PersistRunning
    <3> QED BY <2>1, <2>5, <3>1 DEF PersistRunning, Step, TypeOK, WorkerPC
  <2>6. CASE Report(j)
    <3>1. mem' \in [Job -> Snapshot]
      BY <2>3, <2>6, FieldTypes DEF Report
    <3> QED BY <2>1, <2>2, <2>6, <3>1 DEF Report, Step, TypeOK, WorkerPC
  <2>7. CASE SetResult(j)
    <3>1. mem' \in [Job -> Snapshot]
      BY <2>3, <2>7, FieldTypes DEF SetResult
    <3> QED BY <2>1, <2>2, <2>7, <3>1 DEF SetResult, Step, TypeOK, WorkerPC
  <2>8. CASE SetSucceeded(j)
    <3>1. mem' \in [Job -> Snapshot]
      BY <2>3, <2>8, FieldTypes DEF SetSucceeded
    <3> QED BY <2>1, <2>2, <2>8, <3>1 DEF SetSucceeded, Step, TypeOK, WorkerPC
  <2>9. CASE SetStageDone(j)
    <3>1. mem' \in [Job -> Snapshot]
      BY <2>3, <2>9, FieldTypes DEF SetStageDone
    <3> QED BY <2>1, <2>2, <2>9, <3>1 DEF SetStageDone, Step, TypeOK, WorkerPC
  <2>10. CASE SetFailed(j)
    <3>1. mem' \in [Job -> Snapshot]
      BY <2>3, <2>10, FieldTypes DEF SetFailed
    <3> QED BY <2>1, <2>2, <2>10, <3>1 DEF SetFailed, Step, TypeOK, WorkerPC
  <2>11. CASE SetError(j)
    <3>1. mem' \in [Job -> Snapshot]
      BY <2>3, <2>11, FieldTypes DEF SetError
    <3> QED BY <2>1, <2>2, <2>11, <3>1 DEF SetError, Step, TypeOK, WorkerPC
  <2>12. CASE StampTerminal(j)
    BY <2>1, <2>2, <2>12 DEF StampTerminal, Step, TypeOK, WorkerPC
  <2>13. CASE PersistTerminal(j)
    <3>1. row' \in [Job -> Snapshot] /\ stale' \subseteq Job
      BY <2>13, WriteRowType DEF PersistTerminal
    <3> QED BY <2>1, <2>13, <3>1 DEF PersistTerminal, Step, TypeOK, WorkerPC
  <2> QED
    BY <1>5, <2>4, <2>5, <2>6, <2>7, <2>8, <2>9, <2>10, <2>11, <2>12, <2>13 DEF Worker
<1>6. CASE UNCHANGED vars BY <1>6 DEF TypeOK
<1> QED BY <1>1, <1>2, <1>3, <1>4, <1>5, <1>6 DEF Next

\* Every reachable state has the shape the code gives it.
THEOREM TypeCorrect == Spec => []TypeOK
<1> QED BY TypeInit, TypeStep, PTL DEF Spec
-----------------------------------------------------------------------------
(* What one step of one job may touch.                                     *)

\* A row write touches one row only, and leaves there either what was there or
\* the job in memory.
LEMMA WriteRowEffect ==
    ASSUME TypeOK, NEW j \in Job, WriteRow(j)
    PROVE  /\ \A k \in Job \ {j} : row'[k] = row[k] /\ (k \in stale' <=> k \in stale)
           /\ \/ row'[j] = mem[j] /\ j \notin stale'
              \/ row'[j] = row[j] /\ j \in stale'
BY DEF WriteRow, TypeOK

\* A step of a worker changes its own job only, keeps it where MemoryAt says,
\* and never makes an inactive job active.
LEMMA WorkerEffect ==
    ASSUME TypeOK, MemoryAt, NEW j \in Job, Worker(j)
    PROVE  /\ \A k \in Job \ {j} : mem'[k] = mem[k] /\ pc'[k] = pc[k]
           /\ mem'[j].status \in StatusesAt(pc'[j])
           /\ mem'[j].status \in Active => mem[j].status \in Active
           /\ pc[j] \notin {Unborn, Dead} /\ pc'[j] \notin {Unborn, Dead}
           /\ UNCHANGED srvVars
<1> USE DEF TypeOK, MemoryAt, StatusesAt, Active, Terminal, Unborn, Dead, Step
<1>0. mem[j] \in Snapshot /\ mem[j].status \in StatusesAt(pc[j])
  OBVIOUS
<1>1. CASE StartWorker(j) BY <1>0, <1>1 DEF StartWorker, Snapshot
<1>2. CASE PersistRunning(j) BY <1>0, <1>2 DEF PersistRunning
<1>3. CASE Report(j) BY <1>0, <1>3 DEF Report, Snapshot
<1>4. CASE SetResult(j) BY <1>0, <1>4 DEF SetResult, Snapshot
<1>5. CASE SetSucceeded(j) BY <1>0, <1>5 DEF SetSucceeded, Snapshot
<1>6. CASE SetStageDone(j) BY <1>0, <1>6 DEF SetStageDone, Snapshot
<1>7. CASE SetFailed(j) BY <1>0, <1>7 DEF SetFailed, Snapshot
<1>8. CASE SetError(j) BY <1>0, <1>8 DEF SetError, Snapshot
<1>9. CASE StampTerminal(j) BY <1>0, <1>9 DEF StampTerminal
<1>10. CASE PersistTerminal(j) BY <1>0, <1>10 DEF PersistTerminal
<1> QED
  BY <1>1, <1>2, <1>3, <1>4, <1>5, <1>6, <1>7, <1>8, <1>9, <1>10 DEF Worker

\* Among the steps of a worker only the two persists touch the rows, and an
\* ended job has no step left.
LEMMA WorkerRows ==
    ASSUME TypeOK, NEW j \in Job, Worker(j)
    PROVE  /\ pc[j] # "ended"
           /\ \/ UNCHANGED <<row, stale>> /\ pc[j] # "persistTerminal"
                 /\ RowStatusesAt(pc[j]) \subseteq RowStatusesAt(pc'[j])
                 /\ pc'[j] # "ended"
              \/ PersistRunning(j)
              \/ PersistTerminal(j)
<1> USE DEF TypeOK, RowStatusesAt, Unborn, Step
<1>1. CASE StartWorker(j) BY <1>1 DEF StartWorker
<1>2. CASE PersistRunning(j) BY <1>2 DEF PersistRunning
<1>3. CASE Report(j) BY <1>3 DEF Report
<1>4. CASE SetResult(j) BY <1>4 DEF SetResult
<1>5. CASE SetSucceeded(j) BY <1>5 DEF SetSucceeded
<1>6. CASE SetStageDone(j) BY <1>6 DEF SetStageDone
<1>7. CASE SetFailed(j) BY <1>7 DEF SetFailed
<1>8. CASE SetError(j) BY <1>8 DEF SetError
<1>9. CASE StampTerminal(j) BY <1>9 DEF StampTerminal
<1>10. CASE PersistTerminal(j) BY <1>10 DEF PersistTerminal
<1> QED
  BY <1>1, <1>2, <1>3, <1>4, <1>5, <1>6, <1>7, <1>8, <1>9, <1>10 DEF Worker
-----------------------------------------------------------------------------
(* The inductive invariant.                                                *)

LEMMA InvInit == Init => IInv
<1> SUFFICES ASSUME Init PROVE IInv
  OBVIOUS
<1>1. TypeOK
  BY TypeInit
<1>2. \A j \in Job : /\ mem[j].status = "absent" /\ row[j].status = "absent"
                     /\ pc[j] = Unborn
  BY Constants DEF Init
<1>3. MemoryAt
  BY <1>2 DEF MemoryAt, StatusesAt, Unborn, Dead
<1>4. RowAt
  BY <1>2 DEF RowAt, RowStatusesAt
<1>5. FreshRows
  BY <1>2 DEF FreshRows, Unborn
<1>6. NobodyLiveAtBoot /\ SweepHeld
  BY <1>2 DEF NobodyLiveAtBoot, SweepHeld, Init
<1>7. OneActivePerProject
  BY <1>2 DEF OneActivePerProject, Active
<1> QED BY <1>1, <1>3, <1>4, <1>5, <1>6, <1>7 DEF IInv

\* The boot sequence and Postgres: nothing is live, or nothing changes.
LEMMA EnvironmentStep == IInv /\ (Environment \/ Boot) => IInv'
<1> SUFFICES ASSUME IInv, Environment \/ Boot PROVE IInv'
  OBVIOUS
<1>0. TypeOK'
  BY TypeStep DEF IInv, Next
<1> USE DEF IInv
<1>1. CASE PostgresStops \/ PostgresStarts \/ LazyConnect \/ BootServe
  <2>1. UNCHANGED jobVars /\ swept' = swept
    BY <1>1 DEF PostgresStops, PostgresStarts, LazyConnect, BootServe
  <2>2. MemoryAt' /\ RowAt' /\ FreshRows' /\ OneActivePerProject'
    BY <2>1 DEF MemoryAt, RowAt, FreshRows, OneActivePerProject
  <2>3. NobodyLiveAtBoot'
    BY <1>1, <2>1 DEF NobodyLiveAtBoot, PostgresStops, PostgresStarts, LazyConnect, BootServe
  <2>4. SweepHeld'
    BY <1>1, <2>1 DEF SweepHeld, PostgresStops, PostgresStarts, LazyConnect, BootServe
  <2> QED BY <1>0, <2>2, <2>3, <2>4
<1>2. CASE Crash
  <2>1. \A j \in Job : mem'[j].status = "absent" /\ pc'[j] \in {Unborn, Dead}
    BY <1>2, Constants DEF Crash
  <2>2. MemoryAt'
    BY <2>1 DEF MemoryAt, StatusesAt, Unborn, Dead
  <2>3. RowAt'
    <3> SUFFICES ASSUME NEW j \in Job, pc'[j] # Dead
                 PROVE  row'[j].status \in RowStatusesAt(pc'[j])
      BY DEF RowAt
    <3>1. pc[j] = Unborn /\ pc'[j] = Unborn /\ row'[j] = row[j]
      BY <1>2 DEF Crash
    <3>2. row[j].status \in RowStatusesAt(pc[j])
      BY <3>1 DEF RowAt, Unborn, Dead
    <3> QED BY <3>1, <3>2
  <2>4. FreshRows'
    BY <2>1 DEF FreshRows, Unborn, Dead
  <2>5. NobodyLiveAtBoot' /\ SweepHeld'
    BY <1>2, <2>1 DEF NobodyLiveAtBoot, SweepHeld, Crash
  <2>6. OneActivePerProject'
    BY <2>1 DEF OneActivePerProject, Active
  <2> QED BY <1>0, <2>2, <2>3, <2>4, <2>5, <2>6
<1>3. CASE BootInitDb
  <2>1. UNCHANGED jobVars /\ swept' = swept /\ server = "down" /\ server' # "serving"
    BY <1>3 DEF BootInitDb
  <2>2. MemoryAt' /\ RowAt' /\ FreshRows' /\ OneActivePerProject'
    BY <2>1 DEF MemoryAt, RowAt, FreshRows, OneActivePerProject
  <2>3. NobodyLiveAtBoot' /\ SweepHeld'
    BY <2>1 DEF NobodyLiveAtBoot, SweepHeld
  <2> QED BY <1>0, <2>2, <2>3
<1>4. CASE BootSweep
  <2>1. UNCHANGED <<mem, pc, stale>> /\ server = "sweeping" /\ server' = "booting"
    BY <1>4 DEF BootSweep
  <2>2. \A j \in Job : pc[j] \in {Unborn, Dead}
    BY <2>1 DEF NobodyLiveAtBoot
  <2>3. \A j \in Job : row[j].status \notin Active => row'[j] = row[j]
    BY <1>4 DEF BootSweep
  <2>4. \A j \in Job : pgUp => row'[j].status \notin Active
    BY <1>4, InterruptedType DEF BootSweep, TypeOK, Active
  <2>5. MemoryAt' /\ OneActivePerProject'
    BY <2>1 DEF MemoryAt, OneActivePerProject
  <2>6. RowAt' /\ FreshRows'
    BY <2>1, <2>2, <2>3 DEF RowAt, RowStatusesAt, FreshRows, Active, Unborn, Dead
  <2>7. NobodyLiveAtBoot'
    BY <2>1, <2>2 DEF NobodyLiveAtBoot
  <2>8. SweepHeld'
    BY <1>4, <2>1, <2>4 DEF SweepHeld, BootSweep
  <2> QED BY <1>0, <2>5, <2>6, <2>7, <2>8
<1> QED BY <1>1, <1>2, <1>3, <1>4 DEF Environment, Boot

\* A submit creates a queued job where none is active, on a serving server.
LEMMA SubmitStep == \A j \in Job : IInv /\ Submit(j) => IInv'
<1> SUFFICES ASSUME NEW j \in Job, IInv, Submit(j) PROVE IInv'
  OBVIOUS
<1> USE DEF IInv
<1>0. TypeOK'
  BY TypeStep DEF Next
<1>1. /\ UNCHANGED <<row, stale, server, swept>>
      /\ server = "serving" /\ pc[j] = Unborn /\ ActiveJobs(ProjectOf[j]) = {}
      /\ pc'[j] = "persistQueued" /\ mem'[j].status = "queued"
      /\ \A k \in Job \ {j} : mem'[k] = mem[k] /\ pc'[k] = pc[k]
  BY Constants DEF Submit, TypeOK
<1>2. MemoryAt'
  BY <1>1 DEF MemoryAt, StatusesAt, Unborn, Dead
<1>3. RowAt'
  BY <1>1 DEF RowAt, RowStatusesAt, Unborn, Dead
<1>4. FreshRows'
  BY <1>1 DEF FreshRows
<1>5. NobodyLiveAtBoot' /\ SweepHeld'
  BY <1>1 DEF NobodyLiveAtBoot, SweepHeld, Dead
<1>6. OneActivePerProject'
  <2>1. \A k \in Job \ {j} :
           mem'[k].status \in Active => ProjectOf[k] # ProjectOf[j]
    BY <1>1 DEF ActiveJobs
  <2> QED BY <1>1, <2>1 DEF OneActivePerProject
<1> QED BY <1>0, <1>2, <1>3, <1>4, <1>5, <1>6

\* The queued row, and the spawn of the worker.
LEMMA PersistQueuedStep == \A j \in Job : IInv /\ PersistQueued(j) => IInv'
<1> SUFFICES ASSUME NEW j \in Job, IInv, PersistQueued(j) PROVE IInv'
  OBVIOUS
<1> USE DEF IInv
<1>0. TypeOK'
  BY TypeStep DEF Next
<1>1. /\ UNCHANGED <<mem, server, swept>>
      /\ pc[j] = "persistQueued" /\ pc'[j] = "spawned"
      /\ \A k \in Job \ {j} : pc'[k] = pc[k]
      /\ WriteRow(j)
  BY DEF PersistQueued, TypeOK
<1>2. /\ \A k \in Job \ {j} : row'[k] = row[k] /\ (k \in stale' <=> k \in stale)
      /\ row'[j] = mem[j] \/ row'[j] = row[j]
  BY <1>1, WriteRowEffect
<1>3. mem[j].status = "queued" /\ row[j].status = "absent"
  BY <1>1 DEF MemoryAt, RowAt, StatusesAt, RowStatusesAt, Unborn, Dead
<1>4. MemoryAt'
  BY <1>1, <1>3 DEF MemoryAt, StatusesAt, Unborn, Dead
<1>5. RowAt'
  BY <1>1, <1>2, <1>3 DEF RowAt, RowStatusesAt, Unborn, Dead
<1>6. FreshRows'
  BY <1>1, <1>2 DEF FreshRows
<1>7. NobodyLiveAtBoot' /\ SweepHeld'
  BY <1>1, <1>2 DEF NobodyLiveAtBoot, SweepHeld, Unborn, Dead
<1>8. OneActivePerProject'
  BY <1>1 DEF OneActivePerProject
<1> QED BY <1>0, <1>4, <1>5, <1>6, <1>7, <1>8

\* A step of the worker thread.
LEMMA WorkerStep == \A j \in Job : IInv /\ Worker(j) => IInv'
<1> SUFFICES ASSUME NEW j \in Job, IInv, Worker(j) PROVE IInv'
  OBVIOUS
<1> USE DEF IInv
<1>0. TypeOK'
  BY TypeStep DEF Next
<1>1. /\ \A k \in Job \ {j} : mem'[k] = mem[k] /\ pc'[k] = pc[k]
      /\ mem'[j].status \in StatusesAt(pc'[j])
      /\ mem'[j].status \in Active => mem[j].status \in Active
      /\ pc[j] \notin {Unborn, Dead} /\ pc'[j] \notin {Unborn, Dead}
      /\ UNCHANGED <<server, swept>>
  BY WorkerEffect
<1>2. MemoryAt'
  BY <1>1 DEF MemoryAt
<1>3. OneActivePerProject'
  <2>1. \A k \in Job : mem'[k].status \in Active => mem[k].status \in Active
    BY <1>1
  <2> QED BY <2>1 DEF OneActivePerProject
<1>4. NobodyLiveAtBoot'
  BY <1>1 DEF NobodyLiveAtBoot
<1>5. \A k \in Job \ {j} : row'[k] = row[k] /\ (k \in stale' <=> k \in stale)
  <2>1. CASE UNCHANGED <<row, stale>> BY <2>1
  <2>2. CASE PersistRunning(j) BY <2>2, WriteRowEffect DEF PersistRunning
  <2>3. CASE PersistTerminal(j) BY <2>3, WriteRowEffect DEF PersistTerminal
  <2> QED BY <2>1, <2>2, <2>3, WorkerRows
<1>6. SweepHeld'
  BY <1>1, <1>5 DEF SweepHeld
<1>7. /\ \/ row'[j].status \in RowStatusesAt(pc'[j])
         \/ pc'[j] = "ended" /\ row'[j] = mem'[j]
      /\ pc'[j] = "ended" /\ j \notin stale' => row'[j] = mem'[j]
  <2>1. CASE /\ UNCHANGED <<row, stale>> /\ pc'[j] # "ended"
             /\ RowStatusesAt(pc[j]) \subseteq RowStatusesAt(pc'[j])
    BY <2>1, <1>1, WorkerRows DEF RowAt
  <2>2. CASE PersistRunning(j)
    <3>1. /\ pc[j] = "persistRunning" /\ pc'[j] = "working"
          /\ mem'[j] = mem[j] /\ WriteRow(j)
      BY <2>2 DEF PersistRunning, Step, TypeOK
    <3>2. mem[j].status = "running" /\ row[j].status \in {"absent", "queued"}
      BY <3>1 DEF MemoryAt, RowAt, StatusesAt, RowStatusesAt, Unborn, Dead
    <3>3. row'[j] = mem[j] \/ row'[j] = row[j]
      BY <3>1, WriteRowEffect
    <3> QED BY <3>1, <3>2, <3>3 DEF RowStatusesAt, Unborn
  <2>3. CASE PersistTerminal(j)
    <3>1. /\ pc[j] = "persistTerminal" /\ pc'[j] = "ended"
          /\ mem'[j] = mem[j] /\ WriteRow(j)
      BY <2>3 DEF PersistTerminal, Step, TypeOK
    <3>2. row[j].status \in {"absent", "queued", "running"}
      BY <3>1 DEF RowAt, RowStatusesAt, Unborn, Dead
    <3>3. \/ row'[j] = mem[j] /\ j \notin stale'
          \/ row'[j] = row[j] /\ j \in stale'
      BY <3>1, WriteRowEffect
    <3> QED BY <3>1, <3>2, <3>3 DEF RowStatusesAt, Unborn
  <2> QED BY <2>1, <2>2, <2>3, WorkerRows
<1>8. RowAt'
  BY <1>1, <1>5, <1>7 DEF RowAt
<1>9. FreshRows'
  BY <1>1, <1>5, <1>7 DEF FreshRows
<1> QED BY <1>0, <1>2, <1>3, <1>4, <1>6, <1>8, <1>9

LEMMA InvStep == IInv /\ [Next]_vars => IInv'
<1> SUFFICES ASSUME IInv, [Next]_vars PROVE IInv'
  OBVIOUS
<1>1. CASE UNCHANGED vars
  BY <1>1 DEF IInv, TypeOK, MemoryAt, RowAt, FreshRows, NobodyLiveAtBoot,
              SweepHeld, OneActivePerProject
<1> QED
  BY <1>1, EnvironmentStep, SubmitStep, PersistQueuedStep, WorkerStep DEF Next

LEMMA Invariance == Spec => []IInv
BY InvInit, InvStep, PTL DEF Spec

-----------------------------------------------------------------------------
(* The theorems.                                                           *)

\* At most one job of a project is queued or running, for any number of jobs
\* and projects, across crashes and with or without Postgres.
THEOREM MutualExclusion == Spec => []OneActivePerProject
<1>1. IInv => OneActivePerProject
  BY DEF IInv
<1> QED BY <1>1, Invariance, PTL

\* What the invariant says of the row of a live job.
LEMMA TrailingRows == IInv => RowTrailsMemory
<1> SUFFICES ASSUME IInv, NEW j \in Job, InMemory(j)
             PROVE  /\ Rank(row[j].status) <= Rank(mem[j].status)
                    /\ row[j].status \in Terminal => row[j] = mem[j]
  BY DEF RowTrailsMemory
<1>1. pc[j] \notin {Unborn, Dead} /\ mem[j].status \in StatusesAt(pc[j])
  BY DEF IInv, MemoryAt, InMemory, StatusesAt, Terminal, Unborn, Dead
<1>2. CASE row[j] = mem[j]
  <2>1. Rank(mem[j].status) \in Nat
    BY DEF Rank
  <2> QED BY <1>2, <2>1
<1>3. CASE row[j].status \in RowStatusesAt(pc[j])
  BY <1>1, <1>3 DEF StatusesAt, RowStatusesAt, Rank, Terminal, Unborn, Dead
<1> QED BY <1>1, <1>2, <1>3 DEF IInv, RowAt

\* A row is never ahead of the live job it records, and a terminal one agrees
\* with it.
THEOREM RowsTrail == Spec => []RowTrailsMemory
BY TrailingRows, Invariance, PTL

\* The row of an ended job is its final state unless Postgres refused it.
THEOREM EndedRows == Spec => []EndedRowIsFinal
<1>1. IInv => EndedRowIsFinal
  BY DEF IInv, FreshRows, EndedRowIsFinal
<1> QED BY <1>1, Invariance, PTL

\* After a sweep that reached Postgres no job known only from its row is left
\* queued or running.
THEOREM SweptRows == Spec => []SweptRowsTerminal
<1>1. IInv => SweptRowsTerminal
  <2> SUFFICES ASSUME IInv, swept, NEW j \in Job, ~InMemory(j)
               PROVE  row[j].status \notin Active
    BY DEF SweptRowsTerminal
  <2>1. pc[j] \in {Unborn, Dead}
    BY DEF IInv, MemoryAt, InMemory, StatusesAt, Terminal
  <2>2. CASE pc[j] = Dead
    BY <2>2 DEF IInv, SweepHeld
  <2>3. CASE pc[j] = Unborn
    BY <2>3 DEF IInv, RowAt, RowStatusesAt, Active, Unborn, Dead
  <2> QED BY <2>1, <2>2, <2>3
<1> QED BY <1>1, Invariance, PTL

\* Every step leaves each row where it is or moves it forward, and leaves a
\* terminal row alone.
LEMMA RowForward ==
    ASSUME IInv, [Next]_vars, NEW j \in Job
    PROVE  /\ Rank(row[j].status) <= Rank(row'[j].status)
           /\ row[j].status \in Terminal => row'[j] = row[j]
<1> USE DEF IInv
<1>0. /\ Rank("absent") = 0 /\ Rank("queued") = 1 /\ Rank("running") = 2
      /\ \A s \in Terminal : Rank(s) = 3
      /\ \A s : Rank(s) \in 0 .. 3
  BY DEF Rank, Terminal
<1>1. CASE row'[j] = row[j]
  BY <1>0, <1>1
<1>2. CASE BootSweep
  <2>1. \/ row'[j] = row[j]
        \/ row[j].status \in Active /\ row'[j].status = "failed"
    BY <1>2, InterruptedType DEF BootSweep, TypeOK
  <2> QED BY <1>0, <1>1, <2>1 DEF Active, Terminal
<1>3. CASE PersistQueued(j)
  <2>1. row[j].status = "absent"
    BY <1>3 DEF PersistQueued, RowAt, RowStatusesAt, Unborn, Dead
  <2> QED BY <1>0, <2>1 DEF Terminal
<1>4. CASE PersistRunning(j)
  <2>1. pc[j] = "persistRunning" /\ WriteRow(j)
    BY <1>4 DEF PersistRunning, Step
  <2>2. row[j].status \in {"absent", "queued"} /\ mem[j].status = "running"
    BY <2>1 DEF MemoryAt, RowAt, StatusesAt, RowStatusesAt, Unborn, Dead
  <2>3. row'[j] = mem[j] \/ row'[j] = row[j]
    BY <2>1, WriteRowEffect
  <2> QED BY <1>0, <1>1, <2>2, <2>3 DEF Terminal
<1>5. CASE PersistTerminal(j)
  <2>1. pc[j] = "persistTerminal" /\ WriteRow(j)
    BY <1>5 DEF PersistTerminal, Step
  <2>2. row[j].status \in {"absent", "queued", "running"} /\ mem[j].status \in Terminal
    BY <2>1 DEF MemoryAt, RowAt, StatusesAt, RowStatusesAt, Unborn, Dead
  <2>3. row'[j] = mem[j] \/ row'[j] = row[j]
    BY <2>1, WriteRowEffect
  <2> QED BY <1>0, <1>1, <2>2, <2>3 DEF Terminal
<1>6. \/ row'[j] = row[j] \/ BootSweep
      \/ PersistQueued(j) \/ PersistRunning(j) \/ PersistTerminal(j)
  <2>1. CASE Environment \/ Boot
    BY <2>1 DEF Environment, Boot, PostgresStops, PostgresStarts, Crash,
                LazyConnect, BootInitDb, BootServe
  <2>2. CASE UNCHANGED vars
    BY <2>2
  <2>3. ASSUME NEW k \in Job, Submit(k) PROVE row'[j] = row[j]
    BY <2>3 DEF Submit
  <2>4. ASSUME NEW k \in Job, k # j, PersistQueued(k) PROVE row'[j] = row[j]
    BY <2>4, WriteRowEffect DEF PersistQueued
  <2>5. ASSUME NEW k \in Job, k # j, Worker(k) PROVE row'[j] = row[j]
    <3>1. CASE PersistRunning(k)
      BY <2>5, <3>1, WriteRowEffect DEF PersistRunning
    <3>2. CASE PersistTerminal(k)
      BY <2>5, <3>2, WriteRowEffect DEF PersistTerminal
    <3> QED BY <2>5, <3>1, <3>2, WorkerRows
  <2>6. ASSUME Worker(j)
        PROVE  row'[j] = row[j] \/ PersistRunning(j) \/ PersistTerminal(j)
    BY <2>6, WorkerRows
  <2> QED BY <2>1, <2>2, <2>3, <2>4, <2>5, <2>6 DEF Next
<1> QED BY <1>1, <1>2, <1>3, <1>4, <1>5, <1>6

\* Job history only moves forward: across crashes, restarts and lost writes no
\* row goes back, and a terminal row is never written again.
THEOREM HistoryForward == Spec => HistoryMovesForward
<1>1. IInv /\ [Next]_vars =>
        [\A j \in Job :
            /\ Rank(row[j].status) <= Rank(row'[j].status)
            /\ row[j].status \in Terminal => row'[j] = row[j]]_vars
  BY RowForward
<1> QED BY <1>1, Invariance, PTL DEF Spec, HistoryMovesForward

-----------------------------------------------------------------------------
(* The registry implements the abstract lock.                              *)

Holder == [p \in Project |-> ActiveJobs(p)]
JobsOver == {j \in Job : pc[j] # Unborn /\ mem[j].status \notin Active}

\* A step that changes no job's claim on its project is a stutter of the lock.
LEMMA LockStutter ==
    ASSUME \A j \in Job : /\ mem'[j].status \in Active <=> mem[j].status \in Active
                          /\ pc'[j] = Unborn <=> pc[j] = Unborn
    PROVE  UNCHANGED <<Holder, JobsOver>>
<1>1. \A p \in Project : ActiveJobs(p)' = ActiveJobs(p)
  BY DEF ActiveJobs
<1> QED BY <1>1 DEF Holder, JobsOver

LEMMA LockSubmit ==
    ASSUME IInv, NEW j \in Job, Submit(j)
    PROVE  Lock!Acquire(j)
<1>1. /\ pc[j] = Unborn /\ ActiveJobs(ProjectOf[j]) = {}
      /\ pc'[j] = "persistQueued" /\ mem'[j].status = "queued"
      /\ \A k \in Job \ {j} : mem'[k] = mem[k] /\ pc'[k] = pc[k]
  BY Constants DEF Submit, IInv, TypeOK
<1>2. ProjectOf[j] \in Project
  BY ProjectOfAssumption
<1>3. \A p \in Project :
        ActiveJobs(p)' = IF p = ProjectOf[j] THEN {j} ELSE ActiveJobs(p)
  BY <1>1 DEF ActiveJobs, Active
<1>4. Holder' = [Holder EXCEPT ![ProjectOf[j]] = {j}]
  BY <1>2, <1>3 DEF Holder
<1>5. JobsOver' = JobsOver
  BY <1>1 DEF JobsOver, Active, Unborn
<1>6. j \notin JobsOver /\ Holder[ProjectOf[j]] = {}
  BY <1>1, <1>2 DEF JobsOver, Holder
<1> QED BY <1>4, <1>5, <1>6 DEF Lock!Acquire, Holder, JobsOver

\* When a worker makes its job terminal, the job gives its project back.
LEMMA LockRelease ==
    ASSUME IInv, NEW j \in Job, Worker(j),
           mem[j].status \in Active, mem'[j].status \notin Active
    PROVE  Lock!Release(j)
<1>1. /\ \A k \in Job \ {j} : mem'[k] = mem[k] /\ pc'[k] = pc[k]
      /\ pc[j] # Unborn /\ pc'[j] # Unborn
  BY WorkerEffect DEF IInv
<1>2. ProjectOf[j] \in Project
  BY ProjectOfAssumption
<1>3. ActiveJobs(ProjectOf[j]) = {j}
  BY DEF IInv, OneActivePerProject, ActiveJobs
<1>4. \A p \in Project :
        ActiveJobs(p)' = IF p = ProjectOf[j] THEN {} ELSE ActiveJobs(p)
  BY <1>1, <1>3 DEF ActiveJobs
<1>5. Holder' = [Holder EXCEPT ![ProjectOf[j]] = {}]
  BY <1>2, <1>4 DEF Holder
<1>6. JobsOver' = JobsOver \union {j}
  BY <1>1 DEF JobsOver
<1>7. j \in Holder[ProjectOf[j]]
  BY <1>2, <1>3 DEF Holder
<1> QED BY <1>5, <1>6, <1>7 DEF Lock!Release, Holder, JobsOver

LEMMA LockCrash ==
    ASSUME IInv, Crash
    PROVE  Lock!LoseAll
<1>1. \A j \in Job : /\ mem'[j].status \notin Active
                     /\ pc'[j] = Unborn <=> pc[j] = Unborn
  BY Constants DEF Crash, Active, Unborn, Dead
<1>2. \A p \in Project : ActiveJobs(p)' = {}
  BY <1>1 DEF ActiveJobs
<1>3. Holder' = [p \in Project |-> {}]
  BY <1>2 DEF Holder
<1>4. JobsOver' = {j \in Job : pc[j] # Unborn}
  BY <1>1 DEF JobsOver
<1>5. \A j \in Job : j \in UNION {Holder[p] : p \in Project}
                       <=> mem[j].status \in Active
  BY ProjectOfAssumption DEF Holder, ActiveJobs
<1>6. UNION {Holder[p] : p \in Project} \subseteq Job
  BY DEF Holder, ActiveJobs
<1>7. \A j \in Job : mem[j].status \in Active => pc[j] # Unborn
  BY DEF IInv, MemoryAt, StatusesAt, Active, Unborn, Dead
<1>8. JobsOver' = JobsOver \union UNION {Holder[p] : p \in Project}
  BY <1>4, <1>5, <1>6, <1>7 DEF JobsOver
<1> QED BY <1>3, <1>8 DEF Lock!LoseAll, Holder, JobsOver

LEMMA LockStep == IInv /\ [Next]_vars => [Lock!Next]_<<Holder, JobsOver>>
<1> SUFFICES ASSUME IInv, [Next]_vars PROVE Lock!Next \/ UNCHANGED <<Holder, JobsOver>>
  OBVIOUS
<1>1. CASE UNCHANGED vars \/ Boot \/ PostgresStops \/ PostgresStarts \/ LazyConnect
  <2>1. UNCHANGED <<mem, pc>>
    BY <1>1 DEF Boot, BootInitDb, BootSweep, BootServe, PostgresStops,
                PostgresStarts, LazyConnect
  <2> QED BY <2>1, LockStutter
<1>2. CASE Crash
  BY <1>2, LockCrash DEF Lock!Next
<1>3. ASSUME NEW j \in Job, Submit(j) PROVE Lock!Next
  BY <1>3, LockSubmit DEF Lock!Next
<1>4. ASSUME NEW j \in Job, PersistQueued(j) PROVE UNCHANGED <<Holder, JobsOver>>
  <2>1. /\ mem' = mem /\ pc[j] # Unborn /\ pc'[j] # Unborn
        /\ \A k \in Job \ {j} : pc'[k] = pc[k]
    BY <1>4 DEF PersistQueued, IInv, TypeOK, Unborn
  <2> QED BY <2>1, LockStutter
<1>5. ASSUME NEW j \in Job, Worker(j) PROVE Lock!Next \/ UNCHANGED <<Holder, JobsOver>>
  <2>1. /\ \A k \in Job \ {j} : mem'[k] = mem[k] /\ pc'[k] = pc[k]
        /\ mem'[j].status \in Active => mem[j].status \in Active
        /\ pc[j] # Unborn /\ pc'[j] # Unborn
    BY <1>5, WorkerEffect DEF IInv
  <2>2. CASE mem[j].status \in Active /\ mem'[j].status \notin Active
    BY <1>5, <2>2, LockRelease DEF Lock!Next
  <2>3. CASE mem[j].status \in Active <=> mem'[j].status \in Active
    BY <2>1, <2>3, LockStutter
  <2> QED BY <2>1, <2>2, <2>3
<1> QED BY <1>1, <1>2, <1>3, <1>4, <1>5 DEF Next, Environment

\* The registry, with its threads, crashes and Postgres, implements the abstract
\* per-project lock.
THEOREM ImplementsLock == Spec => LockSpec
<1>1. Init => Lock!Init
  <2> SUFFICES ASSUME Init PROVE Lock!Init
    OBVIOUS
  <2>1. \A j \in Job : mem[j].status \notin Active /\ pc[j] = Unborn
    BY Constants DEF Init, Active
  <2>2. \A p \in Project : ActiveJobs(p) = {}
    BY <2>1 DEF ActiveJobs
  <2> QED BY <2>1, <2>2 DEF Lock!Init
<1>2. IInv /\ [Next]_vars => [Lock!Next]_(Lock!vars)
  BY LockStep DEF Lock!vars, Holder, JobsOver
<1> QED BY <1>1, <1>2, Invariance, PTL DEF Spec, LockSpec, Lock!Spec

-----------------------------------------------------------------------------
(* Routines.                                                               *)

RunStatus == {"none", "deleted"} \union ActiveRun \union SettledRun

RunnerPC == {"idle", "created", "conflict", "refused", "gone", "coreRaised",
             "return", "raise", "returned"} \union Bookkeeping

RunTypeOK ==
    /\ run \in [Routine -> RunStatus]
    /\ rpc \in [Routine -> RunnerPC]
    /\ reported \in [Routine -> BOOLEAN]
    /\ found \in [Routine -> BOOLEAN]
    /\ runStale \subseteq Routine
    /\ runsSwept \in BOOLEAN

\* Where the job is while its launch or its runner is at a control point.
JobPointsAt(at) ==
    CASE at \in {"idle", "created", "conflict", "refused"} -> {Unborn}
      [] at = "markRunning" -> {"persistQueued", "spawned", "persistRunning", "working"}
      [] at = "gone"        -> {Unborn, Dead}
      [] at = "returned"    -> {"returned", "stageDone", "raised", "finally",
                                "persistTerminal", "ended"}
      [] OTHER              -> {"working"}

\* The statuses the run row can have there.
RunsAt(at) ==
    CASE at = "idle" -> {"none"}
      [] at \in {"created", "conflict", "refused", "markRunning"} -> {"queued", "deleted"}
      [] at \in Bookkeeping -> {"queued", "running", "deleted"}
      [] OTHER -> ActiveRun \union SettledRun \union {"deleted"}

JobAt(j) == pc[j] \in JobPointsAt(rpc[j])

RunAt(j) == run[j] \in RunsAt(rpc[j])

\* What the runner has committed itself to before the job shows it.
OutcomeAt(j) ==
    /\ rpc[j] \in {"insert", "markLost"} => reported[j]
    /\ rpc[j] = "markDone" /\ reported[j] => found[j] \/ run[j] = "deleted"
    /\ rpc[j] = "raise" => run[j] # "done"
    /\ (rpc[j] = "return" \/ pc[j] = "returned") /\ run[j] = "failed" => reported[j]

\* A run whose bookkeeping is over is settled, unless its row was refused.
SettledAt(j) ==
    rpc[j] \in {"return", "raise", "returned"} /\ j \notin runStale
        => run[j] \in SettledRun \union {"deleted"}

\* OutcomesAgree and the second half of RunsSettle, for one routine.
Agrees(j) ==
    /\ run[j] = "done" /\ reported[j] => found[j]
    /\ mem[j].status = "failed" => run[j] # "done"
    /\ mem[j].status = "succeeded" /\ run[j] = "failed" => reported[j]

SweptAt(j) == runsSwept /\ rpc[j] = "gone" => run[j] \notin ActiveRun

RoutineOK(j) ==
    JobAt(j) /\ RunAt(j) /\ OutcomeAt(j) /\ SettledAt(j) /\ Agrees(j) /\ SweptAt(j)

NobodyLaunchesAtBoot ==
    server # "serving" => /\ ~runsSwept
                          /\ \A j \in Routine : rpc[j] \in {"idle", "gone"}

RInv ==
    /\ IInv
    /\ RunTypeOK
    /\ NobodyLaunchesAtBoot
    /\ \A j \in Routine : RoutineOK(j)

USE DEF vars, srvVars, jobVars, runVars, allVars

-----------------------------------------------------------------------------
(* Steps of a routine are steps of its job, or do not concern it.          *)

\* An endpoint that opens the pool, or finds it open.
LEMMA PoolStep ==
    ASSUME TypeOK, server = "serving", GetPool, UNCHANGED <<server, pgUp, swept, jobVars>>
    PROVE  [Next]_vars
<1>1. CASE pool
  BY <1>1 DEF GetPool, TypeOK
<1>2. CASE ~pool
  BY <1>2 DEF LazyConnect, Environment, Next
<1> QED BY <1>1, <1>2

\* What one routine does is a step of Jobs by its own id.
LEMMA RoutineStepIsJobStep ==
    ASSUME RInv, NEW j \in Routine,
           CreateRun(j) \/ Handler(j) \/ RunnerStep(j) \/ DeleteRun(j)
    PROVE  [Next]_vars
<1>0. j \in Job /\ TypeOK
  BY RoutineAssumption DEF RInv, IInv
<1>1. CASE CreateRun(j)
  BY <1>0, <1>1, PoolStep DEF CreateRun
<1>2. CASE DeleteRun(j)
  BY <1>0, <1>2, PoolStep DEF DeleteRun
<1>3. CASE Launch(j)
  BY <1>0, <1>3 DEF Launch, Next
<1>4. CASE Conflict(j)
  BY <1>4 DEF Conflict
<1>5. CASE CleanUp(j)
  <2>1. server = "serving"
    BY <1>5 DEF CleanUp, At, RInv, NobodyLaunchesAtBoot
  <2> QED BY <1>0, <1>5, <2>1, PoolStep DEF CleanUp
<1>6. CASE MarkRunning(j) \/ CoreReturns(j) \/ CoreRaises(j) \/ MarkRaised(j)
           \/ InsertFindings(j) \/ MarkDone(j) \/ MarkLost(j)
  BY <1>6 DEF MarkRunning, CoreReturns, CoreRaises, MarkRaised, InsertFindings,
              MarkDone, MarkLost
<1>7. CASE Emit(j) \/ RunnerReturns(j) \/ RunnerRaises(j)
  BY <1>0, <1>7 DEF Emit, RunnerReturns, RunnerRaises, Worker, Next
<1>8. CASE JobPlumbing(j)
  BY <1>0, <1>8 DEF JobPlumbing, Worker, Next
<1> QED
  BY <1>1, <1>2, <1>3, <1>4, <1>5, <1>6, <1>7, <1>8 DEF Handler, RunnerStep

LEMMA RoutineStepsAreJobSteps == RInv /\ [RoutineNext]_allVars => [Next]_vars
<1> SUFFICES ASSUME RInv, [RoutineNext]_allVars PROVE [Next]_vars
  OBVIOUS
<1>1. CASE CrashWithRuns
  BY <1>1 DEF CrashWithRuns, Next, Environment
<1>2. CASE BootSweepRuns
  BY <1>2 DEF BootSweepRuns, SweepRuns, Next, Boot
<1>3. CASE PostgresStops \/ PostgresStarts \/ LazyConnect \/ BootInitDb \/ BootSweep
  BY <1>3 DEF Next, Environment, Boot
<1>4. ASSUME NEW j \in Routine,
             CreateRun(j) \/ Handler(j) \/ RunnerStep(j) \/ DeleteRun(j)
      PROVE  [Next]_vars
  BY <1>4, RoutineStepIsJobStep
<1>5. ASSUME NEW j \in Job \ Routine, Submit(j) \/ PersistQueued(j) \/ Worker(j)
      PROVE  [Next]_vars
  BY <1>5 DEF Next
<1>6. CASE UNCHANGED allVars
  BY <1>6
<1> QED BY <1>1, <1>2, <1>3, <1>4, <1>5, <1>6 DEF RoutineNext

-----------------------------------------------------------------------------
(* What a step leaves alone.                                               *)

\* A routine none of whose data a step changes keeps its conjunct.
LEMMA Frame ==
    ASSUME NEW k \in Routine, RoutineOK(k),
           rpc'[k] = rpc[k], run'[k] = run[k], reported'[k] = reported[k],
           found'[k] = found[k], pc'[k] = pc[k], mem'[k] = mem[k],
           k \in runStale' <=> k \in runStale, runsSwept' = runsSwept
    PROVE  RoutineOK(k)'
BY DEF RoutineOK, JobAt, RunAt, OutcomeAt, SettledAt, Agrees, SweptAt

\* The update of one run row: it takes the status, or it was deleted, or the
\* routine is marked as one whose write was refused.
LEMMA UpdateRunEffect ==
    ASSUME RunTypeOK, NEW j \in Routine, NEW s \in RunStatus, UpdateRun(j, s)
    PROVE  /\ run' \in [Routine -> RunStatus] /\ runStale' \subseteq Routine
           /\ \A k \in Routine \ {j} :
                 run'[k] = run[k] /\ (k \in runStale' <=> k \in runStale)
           /\ run[j] = "deleted" => run'[j] = "deleted"
           /\ \/ run'[j] \in {s, "deleted"} /\ j \notin runStale'
              \/ run'[j] = run[j] /\ j \in runStale'
BY DEF UpdateRun, RunTypeOK

LEMMA RunInit == RoutineInit => RInv
<1> SUFFICES ASSUME RoutineInit PROVE RInv
  OBVIOUS
<1>1. IInv
  BY InvInit DEF RoutineInit
<1>2. RunTypeOK
  BY DEF RoutineInit, RunTypeOK, RunStatus, RunnerPC
<1>3. NobodyLaunchesAtBoot
  BY DEF RoutineInit, Init, NobodyLaunchesAtBoot
<1>4. ASSUME NEW j \in Routine PROVE RoutineOK(j)
  <2>1. /\ pc[j] = Unborn /\ mem[j].status = "absent"
        /\ rpc[j] = "idle" /\ run[j] = "none"
    BY RoutineAssumption, Constants DEF RoutineInit, Init
  <2>2. JobAt(j) /\ RunAt(j)
    BY <2>1 DEF JobAt, JobPointsAt, RunAt, RunsAt, Bookkeeping
  <2>3. OutcomeAt(j) /\ SettledAt(j) /\ SweptAt(j)
    BY <2>1 DEF OutcomeAt, SettledAt, SweptAt, ActiveRun, Unborn
  <2>4. Agrees(j)
    BY <2>1 DEF Agrees
  <2> QED BY <2>2, <2>3, <2>4 DEF RoutineOK
<1> QED BY <1>1, <1>2, <1>3, <1>4 DEF RInv

-----------------------------------------------------------------------------
(* The launch, the delete endpoint, and the runner.                        *)

\* A step of the routine j alone that leaves its own conjunct true.
LEMMA OneRoutine ==
    ASSUME RInv, NEW j \in Routine, [Next]_vars, server = "serving", server' = server,
           RunTypeOK', RoutineOK(j)', runsSwept' = runsSwept,
           \A k \in Routine \ {j} :
              /\ rpc'[k] = rpc[k] /\ run'[k] = run[k] /\ reported'[k] = reported[k]
              /\ found'[k] = found[k] /\ pc'[k] = pc[k] /\ mem'[k] = mem[k]
              /\ k \in runStale' <=> k \in runStale
    PROVE  RInv'
<1>1. IInv'
  BY InvStep DEF RInv
<1>2. NobodyLaunchesAtBoot'
  BY DEF NobodyLaunchesAtBoot
<1>3. \A k \in Routine : RoutineOK(k)'
  BY Frame DEF RInv
<1> QED BY <1>1, <1>2, <1>3 DEF RInv

\* Where a launch or a runner stands, the server is serving.
LEMMA Serving ==
    ASSUME RInv, NEW j \in Routine, rpc[j] \notin {"idle", "gone"}
    PROVE  server = "serving"
BY DEF RInv, NobodyLaunchesAtBoot

LEMMA LaunchStep ==
    ASSUME RInv, NEW j \in Routine, CreateRun(j) \/ Handler(j) \/ DeleteRun(j)
    PROVE  RInv'
<1>0. /\ j \in Job /\ TypeOK /\ RunTypeOK /\ RoutineOK(j)
      /\ rpc[j] \in RunnerPC /\ run[j] \in RunStatus
  BY RoutineAssumption DEF RInv, IInv, RunTypeOK
<1>a. [Next]_vars
  BY RoutineStepIsJobStep
<1> USE DEF RunTypeOK, RunnerPC, RunStatus, ActiveRun, SettledRun, Bookkeeping
<1>1. CASE CreateRun(j)
  <2>1. /\ rpc[j] = "idle" /\ rpc'[j] \in {"created", "refused"}
        /\ run[j] = "none" /\ run'[j] = "queued" /\ pc[j] = Unborn
    BY <1>0, <1>1 DEF CreateRun, At, RoutineOK, RunAt, RunsAt, JobAt, JobPointsAt
  <2>2. RunTypeOK'
    BY <1>0, <1>1 DEF CreateRun, At
  <2>3. UNCHANGED <<pc, mem, reported, found, runStale, runsSwept>>
    BY <1>1 DEF CreateRun
  <2>4. RoutineOK(j)'
    BY <1>0, <2>1, <2>3 DEF RoutineOK, JobAt, JobPointsAt, RunAt, RunsAt, OutcomeAt,
                            SettledAt, Agrees, SweptAt, Unborn
  <2> QED
    BY <1>0, <1>1, <1>a, <2>2, <2>3, <2>4, OneRoutine DEF CreateRun, At
<1>2. CASE Launch(j)
  <2>1. /\ rpc[j] = "created" /\ rpc'[j] = "markRunning" /\ pc'[j] = "persistQueued"
        /\ mem'[j].status = "queued" /\ server = "serving" /\ server' = server
        /\ \A k \in Routine \ {j} : rpc'[k] = rpc[k] /\ pc'[k] = pc[k] /\ mem'[k] = mem[k]
    BY <1>0, <1>2, Constants, RoutineAssumption DEF Launch, At, Submit, TypeOK
  <2>2. RunTypeOK'
    BY <1>0, <1>2 DEF Launch, At
  <2>3. UNCHANGED <<run, reported, found, runStale, runsSwept>>
    BY <1>2 DEF Launch
  <2>4. RoutineOK(j)'
    BY <1>0, <2>1, <2>3 DEF RoutineOK, JobAt, JobPointsAt, RunAt, RunsAt, OutcomeAt,
                            SettledAt, Agrees, SweptAt
  <2> QED BY <1>a, <2>1, <2>2, <2>3, <2>4, OneRoutine
<1>3. CASE Conflict(j)
  <2>1. /\ rpc[j] = "created" /\ rpc'[j] = "conflict"
        /\ \A k \in Routine \ {j} : rpc'[k] = rpc[k]
    BY <1>0, <1>3 DEF Conflict, At
  <2>2. RunTypeOK'
    BY <1>0, <1>3 DEF Conflict, At
  <2>3. UNCHANGED <<vars, run, reported, found, runStale, runsSwept>>
    BY <1>3 DEF Conflict
  <2>4. RoutineOK(j)'
    BY <1>0, <2>1, <2>3 DEF RoutineOK, JobAt, JobPointsAt, RunAt, RunsAt, OutcomeAt,
                            SettledAt, Agrees, SweptAt
  <2>5. server = "serving"
    BY <2>1, Serving
  <2> QED BY <1>a, <2>1, <2>2, <2>3, <2>4, <2>5, OneRoutine
<1>4. CASE CleanUp(j)
  <2>1. /\ rpc[j] = "conflict" /\ rpc'[j] = "refused"
        /\ \A k \in Routine \ {j} : rpc'[k] = rpc[k]
    BY <1>0, <1>4 DEF CleanUp, At
  <2>2. UNCHANGED <<server, pc, mem, reported, found, runsSwept>> /\ UpdateRun(j, "deleted")
    BY <1>4 DEF CleanUp
  <2>3. /\ run' \in [Routine -> RunStatus] /\ runStale' \subseteq Routine
        /\ \A k \in Routine \ {j} : run'[k] = run[k] /\ (k \in runStale' <=> k \in runStale)
        /\ run'[j] \in {run[j], "deleted"}
    BY <1>0, <2>2, UpdateRunEffect
  <2>4. RunTypeOK'
    BY <1>0, <1>4, <2>2, <2>3 DEF CleanUp, At
  <2>5. RoutineOK(j)'
    BY <1>0, <2>1, <2>2, <2>3 DEF RoutineOK, JobAt, JobPointsAt, RunAt, RunsAt, OutcomeAt,
                                  SettledAt, Agrees, SweptAt, Unborn
  <2>6. server = "serving"
    BY <2>1, Serving
  <2> QED BY <1>a, <2>1, <2>2, <2>3, <2>4, <2>5, <2>6, OneRoutine
<1>5. CASE DeleteRun(j)
  <2>1. /\ run[j] \notin {"none", "deleted"} /\ run'[j] = "deleted"
        /\ found'[j] = FALSE /\ server = "serving"
        /\ UNCHANGED <<server, pc, mem, rpc, reported, runStale, runsSwept>>
        /\ \A k \in Routine \ {j} : run'[k] = run[k] /\ found'[k] = found[k]
    BY <1>0, <1>5 DEF DeleteRun
  <2>2. RunTypeOK'
    BY <1>0, <1>5 DEF DeleteRun
  <2>3. JobAt(j)' /\ RunAt(j)'
    BY <1>0, <2>1 DEF RoutineOK, JobAt, RunAt, RunsAt
  <2>4. OutcomeAt(j)' /\ SettledAt(j)' /\ Agrees(j)' /\ SweptAt(j)'
    BY <1>0, <2>1 DEF RoutineOK, OutcomeAt, SettledAt, Agrees, SweptAt
  <2>5. RoutineOK(j)'
    BY <2>3, <2>4 DEF RoutineOK
  <2> QED BY <1>a, <2>1, <2>2, <2>5, OneRoutine
<1> QED BY <1>1, <1>2, <1>3, <1>4, <1>5 DEF Handler

\* The runner's own steps, while its job is working.
LEMMA RunnerOwnStep ==
    ASSUME RInv, NEW j \in Routine,
           \/ MarkRunning(j) \/ CoreReturns(j) \/ CoreRaises(j) \/ MarkRaised(j)
           \/ InsertFindings(j) \/ MarkDone(j) \/ MarkLost(j)
    PROVE  RInv'
<1>0. /\ j \in Job /\ TypeOK /\ RunTypeOK /\ RoutineOK(j)
      /\ rpc[j] \in RunnerPC /\ run[j] \in RunStatus
  BY RoutineAssumption DEF RInv, IInv, RunTypeOK
<1>a. [Next]_vars
  BY RoutineStepIsJobStep DEF RunnerStep
<1>b. mem[j].status = "running"
  <2>1. pc[j] = "working"
    BY DEF MarkRunning, CoreReturns, CoreRaises, MarkRaised, InsertFindings, MarkDone,
           MarkLost, Running
  <2> QED BY <1>0, <2>1 DEF RInv, IInv, MemoryAt, StatusesAt, Unborn, Dead
<1>c. server = "serving"
  <2>1. rpc[j] \notin {"idle", "gone"}
    BY DEF MarkRunning, CoreReturns, CoreRaises, MarkRaised, InsertFindings, MarkDone,
           MarkLost, At
  <2> QED BY <2>1, Serving
<1> USE DEF RunTypeOK, RunnerPC, RunStatus, ActiveRun, SettledRun, Bookkeeping
<1>1. CASE MarkRunning(j)
  <2>1. /\ rpc[j] = "markRunning" /\ rpc'[j] = "core" /\ pc[j] = "working"
        /\ rpc' \in [Routine -> RunnerPC] /\ \A k \in Routine \ {j} : rpc'[k] = rpc[k]
        /\ UNCHANGED <<vars, reported, found, runsSwept>> /\ UpdateRun(j, "running")
    BY <1>0, <1>1 DEF MarkRunning, At, Running
  <2>2. /\ run' \in [Routine -> RunStatus] /\ runStale' \subseteq Routine
        /\ \A k \in Routine \ {j} : run'[k] = run[k] /\ (k \in runStale' <=> k \in runStale)
        /\ \/ run'[j] \in {"running", "deleted"} /\ j \notin runStale'
           \/ run'[j] = run[j] /\ j \in runStale'
    BY <1>0, <2>1, UpdateRunEffect
  <2>3. RunTypeOK'
    BY <1>0, <2>1, <2>2
  <2>4. JobAt(j)' /\ RunAt(j)'
    BY <1>0, <2>1, <2>2 DEF RoutineOK, JobAt, JobPointsAt, RunAt, RunsAt
  <2>5. OutcomeAt(j)' /\ SettledAt(j)' /\ Agrees(j)' /\ SweptAt(j)'
    BY <1>0, <1>b, <2>1, <2>2 DEF RoutineOK, RunAt, RunsAt, OutcomeAt, SettledAt,
                                  Agrees, SweptAt
  <2>6. RoutineOK(j)'
    BY <2>4, <2>5 DEF RoutineOK
  <2> QED BY <1>a, <2>1, <2>2, <2>3, <2>6, <1>c, OneRoutine
<1>2. CASE CoreReturns(j)
  <2>1. /\ rpc[j] = "core" /\ rpc'[j] \in {"insert", "markDone"} /\ pc[j] = "working"
        /\ RunTypeOK' /\ \A k \in Routine \ {j} : rpc'[k] = rpc[k] /\ reported'[k] = reported[k]
        /\ UNCHANGED <<vars, run, runStale, runsSwept>>
        /\ rpc'[j] = "insert" <=> reported'[j]
        /\ UNCHANGED found
    BY <1>0, <1>2 DEF CoreReturns, At, Running
  <2>2. JobAt(j)' /\ RunAt(j)'
    BY <1>0, <2>1 DEF RoutineOK, JobAt, JobPointsAt, RunAt, RunsAt
  <2>3. OutcomeAt(j)' /\ SettledAt(j)' /\ Agrees(j)' /\ SweptAt(j)'
    BY <1>0, <1>b, <2>1 DEF RoutineOK, RunAt, RunsAt, OutcomeAt, SettledAt, Agrees, SweptAt
  <2>4. RoutineOK(j)'
    BY <2>2, <2>3 DEF RoutineOK
  <2> QED BY <1>a, <2>1, <2>4, <1>c, OneRoutine
<1>3. CASE CoreRaises(j)
  <2>1. /\ rpc[j] = "core" /\ rpc'[j] = "coreRaised" /\ pc[j] = "working"
        /\ RunTypeOK' /\ \A k \in Routine \ {j} : rpc'[k] = rpc[k]
        /\ UNCHANGED <<vars, run, runStale, runsSwept>>
        /\ UNCHANGED <<reported, found>>
    BY <1>0, <1>3 DEF CoreRaises, At, Running
  <2>2. JobAt(j)' /\ RunAt(j)'
    BY <1>0, <2>1 DEF RoutineOK, JobAt, JobPointsAt, RunAt, RunsAt
  <2>3. OutcomeAt(j)' /\ SettledAt(j)' /\ Agrees(j)' /\ SweptAt(j)'
    BY <1>0, <1>b, <2>1 DEF RoutineOK, RunAt, RunsAt, OutcomeAt, SettledAt, Agrees, SweptAt
  <2>4. RoutineOK(j)'
    BY <2>2, <2>3 DEF RoutineOK
  <2> QED BY <1>a, <2>1, <2>4, <1>c, OneRoutine
<1>4. CASE MarkRaised(j)
  <2>1. /\ rpc[j] = "coreRaised" /\ rpc'[j] = "raise" /\ pc[j] = "working"
        /\ rpc' \in [Routine -> RunnerPC] /\ \A k \in Routine \ {j} : rpc'[k] = rpc[k]
        /\ UNCHANGED <<vars, reported, found, runsSwept>> /\ UpdateRun(j, "failed")
    BY <1>0, <1>4 DEF MarkRaised, At, Running
  <2>2. /\ run' \in [Routine -> RunStatus] /\ runStale' \subseteq Routine
        /\ \A k \in Routine \ {j} : run'[k] = run[k] /\ (k \in runStale' <=> k \in runStale)
        /\ \/ run'[j] \in {"failed", "deleted"} /\ j \notin runStale'
           \/ run'[j] = run[j] /\ j \in runStale'
    BY <1>0, <2>1, UpdateRunEffect
  <2>3. RunTypeOK'
    BY <1>0, <2>1, <2>2
  <2>4. JobAt(j)' /\ RunAt(j)'
    BY <1>0, <2>1, <2>2 DEF RoutineOK, JobAt, JobPointsAt, RunAt, RunsAt
  <2>5. OutcomeAt(j)' /\ SettledAt(j)' /\ Agrees(j)' /\ SweptAt(j)'
    BY <1>0, <1>b, <2>1, <2>2 DEF RoutineOK, RunAt, RunsAt, OutcomeAt, SettledAt,
                                  Agrees, SweptAt
  <2>6. RoutineOK(j)'
    BY <2>4, <2>5 DEF RoutineOK
  <2> QED BY <1>a, <2>1, <2>2, <2>3, <2>6, <1>c, OneRoutine
<1>5. CASE InsertFindings(j)
  <2>1. /\ rpc[j] = "insert" /\ rpc'[j] \in {"markDone", "markLost"} /\ pc[j] = "working"
        /\ RunTypeOK' /\ \A k \in Routine \ {j} : rpc'[k] = rpc[k] /\ found'[k] = found[k]
        /\ UNCHANGED <<vars, run, runStale, runsSwept>>
        /\ rpc'[j] = "markDone" => found'[j]
        /\ UNCHANGED reported
    BY <1>0, <1>5 DEF InsertFindings, At, Running
  <2>2. JobAt(j)' /\ RunAt(j)'
    BY <1>0, <2>1 DEF RoutineOK, JobAt, JobPointsAt, RunAt, RunsAt
  <2>3. OutcomeAt(j)' /\ SettledAt(j)' /\ Agrees(j)' /\ SweptAt(j)'
    BY <1>0, <1>b, <2>1 DEF RoutineOK, RunAt, RunsAt, OutcomeAt, SettledAt, Agrees, SweptAt
  <2>4. RoutineOK(j)'
    BY <2>2, <2>3 DEF RoutineOK
  <2> QED BY <1>a, <2>1, <2>4, <1>c, OneRoutine
<1>6. CASE MarkDone(j)
  <2>1. /\ rpc[j] = "markDone" /\ rpc'[j] = "return" /\ pc[j] = "working"
        /\ rpc' \in [Routine -> RunnerPC] /\ \A k \in Routine \ {j} : rpc'[k] = rpc[k]
        /\ UNCHANGED <<vars, reported, found, runsSwept>> /\ UpdateRun(j, "done")
    BY <1>0, <1>6 DEF MarkDone, At, Running
  <2>2. /\ run' \in [Routine -> RunStatus] /\ runStale' \subseteq Routine
        /\ \A k \in Routine \ {j} : run'[k] = run[k] /\ (k \in runStale' <=> k \in runStale)
        /\ run[j] = "deleted" => run'[j] = "deleted"
        /\ \/ run'[j] \in {"done", "deleted"} /\ j \notin runStale'
           \/ run'[j] = run[j] /\ j \in runStale'
    BY <1>0, <2>1, UpdateRunEffect
  <2>3. RunTypeOK'
    BY <1>0, <2>1, <2>2
  <2>4. JobAt(j)' /\ RunAt(j)'
    BY <1>0, <2>1, <2>2 DEF RoutineOK, JobAt, JobPointsAt, RunAt, RunsAt
  <2>5. OutcomeAt(j)' /\ SettledAt(j)' /\ Agrees(j)' /\ SweptAt(j)'
    BY <1>0, <1>b, <2>1, <2>2 DEF RoutineOK, RunAt, RunsAt, OutcomeAt, SettledAt,
                                  Agrees, SweptAt
  <2>6. RoutineOK(j)'
    BY <2>4, <2>5 DEF RoutineOK
  <2> QED BY <1>a, <2>1, <2>2, <2>3, <2>6, <1>c, OneRoutine
<1>7. CASE MarkLost(j)
  <2>1. /\ rpc[j] = "markLost" /\ rpc'[j] = "return" /\ pc[j] = "working"
        /\ rpc' \in [Routine -> RunnerPC] /\ \A k \in Routine \ {j} : rpc'[k] = rpc[k]
        /\ UNCHANGED <<vars, reported, found, runsSwept>> /\ UpdateRun(j, "failed")
    BY <1>0, <1>7 DEF MarkLost, At, Running
  <2>2. /\ run' \in [Routine -> RunStatus] /\ runStale' \subseteq Routine
        /\ \A k \in Routine \ {j} : run'[k] = run[k] /\ (k \in runStale' <=> k \in runStale)
        /\ \/ run'[j] \in {"failed", "deleted"} /\ j \notin runStale'
           \/ run'[j] = run[j] /\ j \in runStale'
    BY <1>0, <2>1, UpdateRunEffect
  <2>3. RunTypeOK'
    BY <1>0, <2>1, <2>2
  <2>4. JobAt(j)' /\ RunAt(j)'
    BY <1>0, <2>1, <2>2 DEF RoutineOK, JobAt, JobPointsAt, RunAt, RunsAt
  <2>5. OutcomeAt(j)' /\ SettledAt(j)' /\ Agrees(j)' /\ SweptAt(j)'
    BY <1>0, <1>b, <2>1, <2>2 DEF RoutineOK, RunAt, RunsAt, OutcomeAt, SettledAt,
                                  Agrees, SweptAt
  <2>6. RoutineOK(j)'
    BY <2>4, <2>5 DEF RoutineOK
  <2> QED BY <1>a, <2>1, <2>2, <2>3, <2>6, <1>c, OneRoutine
<1> QED BY <1>1, <1>2, <1>3, <1>4, <1>5, <1>6, <1>7

\* The runner's steps that also move its job, and the steps of the thread that
\* do not look at the run.
LEMMA RunnerJobStep ==
    ASSUME RInv, NEW j \in Routine,
           Emit(j) \/ RunnerReturns(j) \/ RunnerRaises(j) \/ JobPlumbing(j)
    PROVE  RInv'
<1>0. /\ j \in Job /\ TypeOK /\ MemoryAt /\ RunTypeOK /\ RoutineOK(j)
      /\ rpc[j] \in RunnerPC /\ run[j] \in RunStatus /\ mem[j] \in Snapshot
  BY RoutineAssumption DEF RInv, IInv, RunTypeOK, TypeOK
<1>a. [Next]_vars
  BY RoutineStepIsJobStep DEF RunnerStep
<1> USE DEF RunTypeOK, RunnerPC, RunStatus, ActiveRun, SettledRun, Bookkeeping
<1>1. /\ UNCHANGED <<server, run, reported, found, runStale, runsSwept>>
      /\ RunTypeOK'
      /\ rpc' \in [Routine -> RunnerPC]
      /\ \A k \in Routine \ {j} : rpc'[k] = rpc[k]
  BY <1>0 DEF Emit, RunnerReturns, RunnerRaises, JobPlumbing, At, Report, SetResult,
              SetFailed, PersistQueued, StartWorker, PersistRunning, SetSucceeded,
              SetStageDone, SetError, StampTerminal, PersistTerminal
<1>2. \A k \in Routine \ {j} : pc'[k] = pc[k] /\ mem'[k] = mem[k]
  <2>1. CASE PersistQueued(j)
    BY <1>0, <2>1, RoutineAssumption DEF PersistQueued, TypeOK
  <2>2. CASE Worker(j)
    BY <1>0, <2>2, WorkerEffect, RoutineAssumption
  <2> QED
    BY <2>1, <2>2 DEF Emit, RunnerReturns, RunnerRaises, JobPlumbing, Worker
<1>3. RoutineOK(j)' /\ server = "serving"
  <2>1. CASE Emit(j)
    <3>1. /\ rpc[j] = "core" /\ rpc'[j] = rpc[j] /\ pc'[j] = pc[j]
          /\ mem'[j].status = mem[j].status
      BY <1>0, <2>1 DEF Emit, Report, Snapshot, TypeOK
    <3>2. RoutineOK(j)'
      BY <1>0, <1>1, <3>1 DEF RoutineOK, JobAt, JobPointsAt, RunAt, RunsAt, OutcomeAt,
                              SettledAt, Agrees, SweptAt
    <3> QED BY <3>1, <3>2, Serving
  <2>2. CASE RunnerReturns(j)
    <3>1. /\ rpc[j] = "return" /\ rpc'[j] = "returned"
          /\ pc[j] = "working" /\ pc'[j] = "returned"
          /\ mem'[j].status = mem[j].status /\ mem[j].status = "running"
      BY <1>0, <2>2 DEF RunnerReturns, At, SetResult, Step, Snapshot, TypeOK, MemoryAt,
                        StatusesAt, Unborn, Dead
    <3>2. JobAt(j)' /\ RunAt(j)'
      BY <1>0, <1>1, <3>1 DEF RoutineOK, JobAt, JobPointsAt, RunAt, RunsAt
    <3>3. OutcomeAt(j)' /\ SettledAt(j)' /\ Agrees(j)' /\ SweptAt(j)'
      BY <1>0, <1>1, <3>1 DEF RoutineOK, OutcomeAt, SettledAt, Agrees, SweptAt
    <3> QED BY <3>1, <3>2, <3>3, Serving DEF RoutineOK
  <2>3. CASE RunnerRaises(j)
    <3>1. /\ rpc[j] = "raise" /\ rpc'[j] = "returned"
          /\ pc[j] = "working" /\ pc'[j] = "raised" /\ mem'[j].status = "failed"
      BY <1>0, <2>3 DEF RunnerRaises, At, SetFailed, Step, Snapshot, TypeOK
    <3>2. JobAt(j)' /\ RunAt(j)'
      BY <1>0, <1>1, <3>1 DEF RoutineOK, JobAt, JobPointsAt, RunAt, RunsAt
    <3>3. OutcomeAt(j)' /\ SettledAt(j)' /\ Agrees(j)' /\ SweptAt(j)'
      BY <1>0, <1>1, <3>1 DEF RoutineOK, OutcomeAt, SettledAt, Agrees, SweptAt
    <3> QED BY <3>1, <3>2, <3>3, Serving DEF RoutineOK
  <2>4. CASE JobPlumbing(j)
    <3>1. rpc' = rpc
      BY <2>4 DEF JobPlumbing
    <3>2. \/ /\ pc[j] = "persistQueued" /\ pc'[j] = "spawned"
          \/ /\ pc[j] = "spawned" /\ pc'[j] = "persistRunning"
          \/ /\ pc[j] = "persistRunning" /\ pc'[j] = "working"
          \/ /\ pc[j] = "returned" /\ pc'[j] = "stageDone"
          \/ /\ pc[j] = "stageDone" /\ pc'[j] = "finally"
          \/ /\ pc[j] = "raised" /\ pc'[j] = "finally"
          \/ /\ pc[j] = "finally" /\ pc'[j] = "persistTerminal"
          \/ /\ pc[j] = "persistTerminal" /\ pc'[j] = "ended"
      BY <1>0, <2>4 DEF JobPlumbing, TypeOK, Step, PersistQueued, StartWorker,
                        PersistRunning, SetSucceeded, SetStageDone, SetError,
                        StampTerminal, PersistTerminal
    <3>3. /\ rpc[j] \in {"markRunning", "returned"}
          /\ JobAt(j)' /\ RunAt(j)'
      BY <1>0, <1>1, <3>1, <3>2 DEF RoutineOK, JobAt, JobPointsAt, RunAt, Unborn, Dead
    <3>4. \/ mem'[j].status = mem[j].status
          \/ mem'[j].status = "running"
          \/ pc[j] = "returned" /\ mem'[j].status = "succeeded"
      <4>1. CASE PersistQueued(j) \/ PersistRunning(j) \/ StampTerminal(j) \/ PersistTerminal(j)
        BY <4>1 DEF PersistQueued, PersistRunning, StampTerminal, PersistTerminal
      <4>2. CASE StartWorker(j)
        BY <1>0, <4>2 DEF StartWorker, TypeOK, Snapshot
      <4>3. CASE SetSucceeded(j)
        BY <1>0, <4>3 DEF SetSucceeded, Step, TypeOK, Snapshot
      <4>4. CASE SetStageDone(j)
        BY <1>0, <4>4 DEF SetStageDone, TypeOK, Snapshot
      <4>5. CASE SetError(j)
        BY <1>0, <4>5 DEF SetError, TypeOK, Snapshot
      <4> QED BY <2>4, <4>1, <4>2, <4>3, <4>4, <4>5 DEF JobPlumbing
    <3>5. OutcomeAt(j)' /\ SettledAt(j)' /\ Agrees(j)' /\ SweptAt(j)'
      BY <1>0, <1>1, <3>1, <3>2, <3>3, <3>4 DEF RoutineOK, OutcomeAt, SettledAt, Agrees, SweptAt
    <3> QED BY <3>3, <3>5, Serving DEF RoutineOK
  <2> QED BY <2>1, <2>2, <2>3, <2>4
<1> QED BY <1>a, <1>1, <1>2, <1>3, OneRoutine

-----------------------------------------------------------------------------
(* Crashes, boots, and the jobs of other kinds.                            *)

LEMMA OtherJobStep ==
    ASSUME RInv, NEW i \in Job \ Routine,
           Submit(i) \/ PersistQueued(i) \/ Worker(i), UNCHANGED runVars
    PROVE  RInv'
<1>1. IInv'
  BY InvStep DEF RInv, Next
<1>2. RunTypeOK'
  BY DEF RInv, RunTypeOK
<1>3. /\ server' = server
      /\ \A k \in Routine : pc'[k] = pc[k] /\ mem'[k] = mem[k]
  <2>0. TypeOK /\ MemoryAt
    BY DEF RInv, IInv
  <2>1. CASE Submit(i)
    BY <2>0, <2>1, RoutineAssumption DEF Submit, TypeOK
  <2>2. CASE PersistQueued(i)
    BY <2>0, <2>2, RoutineAssumption DEF PersistQueued, TypeOK
  <2>3. CASE Worker(i)
    BY <2>0, <2>3, WorkerEffect, RoutineAssumption
  <2> QED BY <2>1, <2>2, <2>3
<1>4. \A k \in Routine : RoutineOK(k)'
  BY <1>3, Frame DEF RInv
<1>5. NobodyLaunchesAtBoot'
  BY <1>3 DEF RInv, NobodyLaunchesAtBoot
<1> QED BY <1>1, <1>2, <1>4, <1>5 DEF RInv

LEMMA EnvironmentRunStep ==
    ASSUME RInv,
           PostgresStops \/ PostgresStarts \/ LazyConnect \/ BootInitDb \/ BootSweep
               \/ UNCHANGED vars,
           UNCHANGED runVars
    PROVE  RInv'
<1>1. IInv'
  BY InvStep DEF RInv, Next, Environment, Boot
<1>2. RunTypeOK'
  BY DEF RInv, RunTypeOK
<1>3. /\ UNCHANGED <<pc, mem>>
      /\ server' # "serving" => server # "serving"
  BY DEF PostgresStops, PostgresStarts, LazyConnect, BootInitDb, BootSweep
<1>4. \A k \in Routine : RoutineOK(k)'
  BY <1>3, Frame DEF RInv
<1>5. NobodyLaunchesAtBoot'
  BY <1>3 DEF RInv, NobodyLaunchesAtBoot
<1> QED BY <1>1, <1>2, <1>4, <1>5 DEF RInv

LEMMA CrashRunStep ==
    ASSUME RInv, CrashWithRuns
    PROVE  RInv'
<1>1. IInv'
  BY InvStep DEF RInv, Next, Environment, CrashWithRuns
<1>2. RunTypeOK'
  BY DEF RInv, RunTypeOK, RunnerPC, CrashWithRuns
<1>3. NobodyLaunchesAtBoot'
  BY DEF NobodyLaunchesAtBoot, CrashWithRuns, Crash
<1>4. ASSUME NEW k \in Routine PROVE RoutineOK(k)'
  <2>1. /\ k \in Job /\ RoutineOK(k) /\ pc' [k] \in {Unborn, Dead} /\ mem'[k].status = "absent"
        /\ run' = run /\ reported' = reported /\ found' = found /\ ~runsSwept'
        /\ rpc[k] = "idle" => pc'[k] = pc[k]
        /\ rpc'[k] = IF rpc[k] = "idle" THEN "idle" ELSE "gone"
    <3>1. k \in Job /\ RoutineOK(k)
      BY RoutineAssumption DEF RInv
    <3>2. rpc[k] = "idle" => pc[k] = Unborn
      BY <3>1 DEF RoutineOK, JobAt, JobPointsAt
    <3> QED BY <3>1, <3>2, Constants DEF CrashWithRuns, Crash
  <2>2. JobAt(k)'
    BY <2>1 DEF RoutineOK, JobAt, JobPointsAt
  <2>3. RunAt(k)'
    <3>1. run[k] \in RunStatus /\ rpc[k] \in RunnerPC
      BY DEF RInv, RunTypeOK
    <3> QED
      BY <2>1, <3>1 DEF RoutineOK, RunAt, RunsAt, RunnerPC, RunStatus, ActiveRun,
                        SettledRun, Bookkeeping
  <2>4. OutcomeAt(k)' /\ SettledAt(k)' /\ Agrees(k)' /\ SweptAt(k)'
    BY <2>1 DEF RoutineOK, OutcomeAt, SettledAt, Agrees, SweptAt, Unborn, Dead
  <2> QED BY <2>2, <2>3, <2>4 DEF RoutineOK
<1> QED BY <1>1, <1>2, <1>3, <1>4 DEF RInv

\* The sweep runs before anything is launched, so that it finds only runs of
\* processes that are gone.
LEMMA SweepRunsStep ==
    ASSUME RInv, BootSweepRuns
    PROVE  RInv'
<1>0. /\ server = "booting" /\ server' = "serving"
      /\ UNCHANGED <<pc, mem, rpc, reported, found, runStale>>
      /\ runsSwept' = (pool /\ pgUp)
      /\ \A k \in Routine : run'[k] = IF pool /\ pgUp /\ run[k] \in ActiveRun
                                      THEN "failed" ELSE run[k]
  BY DEF BootSweepRuns, SweepRuns, BootServe
<1>1. IInv'
  BY InvStep DEF RInv, Next, Boot, BootSweepRuns, SweepRuns
<1>2. RunTypeOK'
  BY DEF RInv, IInv, TypeOK, RunTypeOK, RunStatus, SettledRun, BootSweepRuns, SweepRuns
<1>3. NobodyLaunchesAtBoot'
  BY <1>0 DEF NobodyLaunchesAtBoot
<1>4. ASSUME NEW k \in Routine PROVE RoutineOK(k)'
  <2>1. /\ k \in Job /\ RoutineOK(k) /\ rpc[k] \in {"idle", "gone"}
        /\ pc[k] \in {Unborn, Dead} /\ mem[k].status = "absent"
    <3>1. k \in Job /\ RoutineOK(k) /\ rpc[k] \in {"idle", "gone"}
      BY <1>0, RoutineAssumption DEF RInv, NobodyLaunchesAtBoot
    <3>2. pc[k] \in {Unborn, Dead}
      BY <3>1 DEF RoutineOK, JobAt, JobPointsAt
    <3>3. mem[k].status = "absent"
      BY <3>1, <3>2 DEF RInv, IInv, MemoryAt, StatusesAt, Unborn, Dead
    <3> QED BY <3>1, <3>2, <3>3
  <2>2. JobAt(k)' /\ RunAt(k)'
    BY <1>0, <2>1 DEF RoutineOK, JobAt, JobPointsAt, RunAt, RunsAt, ActiveRun, SettledRun,
                      Bookkeeping
  <2>3. OutcomeAt(k)' /\ SettledAt(k)' /\ Agrees(k)'
    BY <1>0, <2>1 DEF RoutineOK, OutcomeAt, SettledAt, Agrees, Unborn, Dead
  <2>4. SweptAt(k)'
    BY <1>0, <2>1 DEF SweptAt, ActiveRun
  <2> QED BY <2>2, <2>3, <2>4 DEF RoutineOK
<1> QED BY <1>1, <1>2, <1>3, <1>4 DEF RInv

LEMMA RunInvStep == RInv /\ [RoutineNext]_allVars => RInv'
<1> SUFFICES ASSUME RInv, [RoutineNext]_allVars PROVE RInv'
  OBVIOUS
<1>1. CASE CrashWithRuns
  BY <1>1, CrashRunStep
<1>2. CASE BootSweepRuns
  BY <1>2, SweepRunsStep
<1>3. CASE /\ PostgresStops \/ PostgresStarts \/ LazyConnect \/ BootInitDb \/ BootSweep
           /\ UNCHANGED runVars
  BY <1>3, EnvironmentRunStep
<1>4. ASSUME NEW j \in Routine,
             CreateRun(j) \/ Handler(j) \/ RunnerStep(j) \/ DeleteRun(j)
      PROVE  RInv'
  BY <1>4, LaunchStep, RunnerOwnStep, RunnerJobStep DEF RunnerStep
<1>5. ASSUME NEW j \in Job \ Routine,
             (Submit(j) \/ PersistQueued(j) \/ Worker(j)) /\ UNCHANGED runVars
      PROVE  RInv'
  BY <1>5, OtherJobStep
<1>6. CASE UNCHANGED allVars
  BY <1>6, EnvironmentRunStep
<1> QED BY <1>1, <1>2, <1>3, <1>4, <1>5, <1>6 DEF RoutineNext

LEMMA RunInvariance == RoutineSpec => []RInv
BY RunInit, RunInvStep, PTL DEF RoutineSpec

-----------------------------------------------------------------------------
(* The theorems.                                                           *)

\* Routines drive their jobs within the lifecycle of Jobs: the detailed machine,
\* seen through the variables of the job core, is the job core.
THEOREM RoutinesImplementJobs == RoutineSpec => JobsSpec
<1>1. RoutineInit => Init
  BY DEF RoutineInit
<1> QED
  BY <1>1, RoutineStepsAreJobSteps, RunInvariance, PTL DEF RoutineSpec, JobsSpec, Spec

\* So the rows of routine jobs trail memory as those of every other job do.
THEOREM RoutineRowsTrail == RoutineSpec => []RowTrailsMemory
BY RoutinesImplementJobs, RowsTrail, PTL DEF JobsSpec

\* And code reviews and bug hunts are under the lock of their project.
THEOREM RoutinesRespectLock == RoutineSpec => LockSpec
BY RoutinesImplementJobs, ImplementsLock, PTL DEF JobsSpec

\* Whatever was refused, deleted or swept: a done run has its findings, a job
\* that failed has no done run, and a failed run under a job that succeeded is
\* one whose findings were lost.
THEOREM RunOutcomesAgree == RoutineSpec => []OutcomesAgree
<1>1. RInv => OutcomesAgree
  BY DEF RInv, RoutineOK, Agrees, OutcomesAgree
<1> QED BY <1>1, RunInvariance, PTL

\* When the job of a routine is terminal its run is settled, unless its row was
\* refused; and no sweep leaves a run of a dead process queued or running.
THEOREM RunsAreSettled == RoutineSpec => []RunsSettle
<1>1. RInv => RunsSettle
  <2> SUFFICES ASSUME RInv, NEW j \in Routine
               PROVE  /\ mem[j].status \in Terminal /\ j \notin runStale
                            => run[j] \in SettledRun \union {"deleted"}
                      /\ runsSwept /\ rpc[j] = "gone" => run[j] \notin ActiveRun
    BY DEF RunsSettle
  <2>1. /\ j \in Job /\ RoutineOK(j) /\ rpc[j] \in RunnerPC
        /\ mem[j].status \in StatusesAt(pc[j])
    BY RoutineAssumption DEF RInv, IInv, MemoryAt, RunTypeOK
  <2>2. ASSUME mem[j].status \in Terminal PROVE rpc[j] = "returned"
    BY <2>1, <2>2 DEF RoutineOK, JobAt, JobPointsAt, StatusesAt, Terminal, RunnerPC,
                      Bookkeeping, Unborn, Dead
  <2> QED BY <2>1, <2>2 DEF RoutineOK, SettledAt, SweptAt
<1> QED BY <1>1, RunInvariance, PTL

\* What a step may do to one run row.
RunStepsForward(j) ==
    /\ run[j] \in SettledRun => run'[j] \in {run[j], "deleted"}
    /\ run[j] = "running" => run'[j] # "queued"
    /\ run[j] = "deleted" => run'[j] = "deleted"

LEMMA RunForward ==
    ASSUME RInv, [RoutineNext]_allVars, NEW j \in Routine
    PROVE  RunStepsForward(j)
<1>0. /\ RunTypeOK /\ RoutineOK(j) /\ run[j] \in RunStatus
  BY DEF RInv, RunTypeOK
<1> USE DEF RunStatus, ActiveRun, SettledRun, Bookkeeping
<1>1. CASE run'[j] = run[j]
  BY <1>1 DEF RunStepsForward
<1>2. CASE BootSweepRuns
  <2>1. run'[j] \in {run[j], "failed"} /\ (run'[j] # run[j] => run[j] \in ActiveRun)
    BY <1>2 DEF BootSweepRuns, SweepRuns
  <2> QED BY <2>1 DEF RunStepsForward
<1>3. CASE CreateRun(j)
  BY <1>0, <1>3 DEF CreateRun, At, RoutineOK, RunAt, RunsAt, RunStepsForward
<1>4. CASE DeleteRun(j)
  BY <1>0, <1>4 DEF DeleteRun, RunTypeOK, RunStepsForward
<1>5. ASSUME NEW s \in {"running", "failed", "done", "deleted"}, UpdateRun(j, s),
             rpc[j] \in {"conflict", "markRunning", "coreRaised", "markDone", "markLost"}
      PROVE  RunStepsForward(j)
  <2>1. run[j] \in {"queued", "running", "deleted"}
    BY <1>0, <1>5 DEF RoutineOK, RunAt, RunsAt
  <2>2. /\ run[j] = "deleted" => run'[j] = "deleted"
        /\ run'[j] \in {s, "deleted", run[j]}
    BY <1>0, <1>5, UpdateRunEffect
  <2> QED BY <1>5, <2>1, <2>2 DEF RunStepsForward
<1>6. CASE CleanUp(j) \/ MarkRunning(j) \/ MarkRaised(j) \/ MarkDone(j) \/ MarkLost(j)
  BY <1>5, <1>6 DEF CleanUp, MarkRunning, MarkRaised, MarkDone, MarkLost, At
<1>7. ASSUME NEW k \in Routine, k # j,
             CreateRun(k) \/ Handler(k) \/ RunnerStep(k) \/ DeleteRun(k)
      PROVE  run'[j] = run[j]
  <2>1. CASE CreateRun(k) \/ DeleteRun(k)
    BY <1>0, <1>7, <2>1 DEF CreateRun, DeleteRun, RunTypeOK
  <2>2. CASE \E s \in RunStatus : UpdateRun(k, s)
    BY <1>0, <1>7, <2>2, UpdateRunEffect
  <2>3. \/ run' = run \/ CreateRun(k) \/ DeleteRun(k)
        \/ \E s \in RunStatus : UpdateRun(k, s)
    BY <1>7 DEF Handler, RunnerStep, Launch, Conflict, CleanUp, MarkRunning, Emit,
                CoreReturns, CoreRaises, MarkRaised, InsertFindings, MarkDone, MarkLost,
                RunnerReturns, RunnerRaises, JobPlumbing
  <2> QED BY <2>1, <2>2, <2>3
<1>8. \/ run'[j] = run[j] \/ BootSweepRuns \/ CreateRun(j) \/ DeleteRun(j) \/ CleanUp(j)
      \/ MarkRunning(j) \/ MarkRaised(j) \/ MarkDone(j) \/ MarkLost(j)
  BY <1>7 DEF RoutineNext, CrashWithRuns, Handler, RunnerStep, Launch, Conflict, Emit,
              CoreReturns, CoreRaises, InsertFindings, RunnerReturns, RunnerRaises,
              JobPlumbing
<1> QED BY <1>1, <1>2, <1>3, <1>4, <1>6, <1>8

\* A run goes from queued to running to one outcome and keeps it, across crashes,
\* sweeps and refused writes.
THEOREM RunsMoveForward == RoutineSpec => RunMovesForward
<1>1. RInv /\ [RoutineNext]_allVars =>
        [\A j \in Routine :
            /\ run[j] \in SettledRun => run'[j] \in {run[j], "deleted"}
            /\ run[j] = "running" => run'[j] # "queued"
            /\ run[j] = "deleted" => run'[j] = "deleted"]_allVars
  BY RunForward DEF RunStepsForward
<1> QED BY <1>1, RunInvariance, PTL DEF RoutineSpec, RunMovesForward

-----------------------------------------------------------------------------
(* The clients of a job.  A job that succeeded has its result.             *)
Complete ==
    \A j \in Job :
        /\ pc[j] = "returned" \/ mem[j].status = "succeeded" => mem[j].result
        /\ row[j].status = "succeeded" => row[j].result
        /\ pc[j] = Unborn => row[j] = Absent

\* The statuses the job has had, as far as the memory of the server tells.
Had ==
    {s \in Status :
        \/ s = "absent"
        \/ /\ pc[job] # Unborn
           /\ InMemory(job) => /\ Rank(s) =< Rank(mem[job].status)
                               /\ s \in Terminal => s = mem[job].status}

\* The whole copies of the job, and the frames made of them.
Copies == {c \in Snapshot : c.status \in Had /\ (c.status = "succeeded" => c.result)}

Events ==
    {f \in [event : {"none", "job", "done"}, job : Copies] :
        f.event = "done" => pc[job] # Unborn /\ (InMemory(job) => f.job.status \in Terminal)}

\* Where the clients are.
Follows == [at : {"connect", "sse", "poll", "copy", "returned", "notFound", "error"},
            last : Snapshot, copy : Snapshot]
Screens == [shown : Status, key : BOOLEAN, stream : BOOLEAN, processed : BOOLEAN,
            toasts : Nat, told : {"none", "succeeded", "failed"}]
ListRequests == [at : {"free", "rows", "answer"}, status : Status]

ClientTypeOK ==
    /\ world \in Worlds
    /\ spc \in [Reader -> {"off", "poll", "type", "copyStatus", "copyRest", "done", "doneHistory"}]
    /\ rjob \in [Reader -> Job] /\ rterm \in [Reader -> BOOLEAN] /\ frame \in [Reader -> Snapshot]
    /\ follow \in Follows
    /\ screen \in Screens
    /\ poll \in [world.polls -> ListRequests]

\* One client: the other's state is as it was.
OneClient ==
    /\ me = "cli" => ~screen.stream /\ screen.told = "none"
    /\ me = "web" => follow.at = "connect" /\ follow.last = Absent

\* What the generator has read so far.
StreamReads ==
    /\ spc[me] \in Streaming => InMemory(job)
    /\ spc[me] = "copyStatus" /\ rterm[me] => mem[job].status \in Terminal
    /\ spc[me] = "copyRest" =>
          /\ frame[me].status \in Had /\ (rterm[me] => frame[me].status \in Terminal)
          /\ Rank(sent.job.status) =< Rank(frame[me].status)
    /\ sent.event = "done" => spc[me] \notin Streaming

\* What was sent and heard, and what followJob has yielded.
Told ==
    /\ sent \in Events /\ heard \in Events
    /\ follow.last \in Copies /\ follow.copy.status \in Had
    /\ follow.at = "returned" => follow.last.status \in Terminal
    /\ follow.at \in {"connect", "sse"} /\ InMemory(job)
          => Rank(follow.last.status) =< Rank(sent.job.status)
    /\ follow.at = "copy" => Rank(follow.last.status) =< Rank(follow.copy.status)

\* What the screen has told.
Toasts ==
    /\ screen.told # "none" => pc[job] # Unborn /\ (InMemory(job) => screen.told = mem[job].status)
    /\ screen.toasts = IF screen.processed THEN 1 ELSE 0

\* What a client's parser makes of a text.
Read(client, text) == IF client = "cli" THEN Paired(text) ELSE LinesEnded(text)
Line == Wire(sent.event, sent.job, world.eol)

\* The frame last sent has been heard, or is on the wire, or is cut in two.
Flows ==
    \/ wire = <<>> /\ buffer = <<>> /\ heard = sent
    \/ /\ sent.event # "none"
       /\ \/ wire = Line /\ buffer = <<>>
          \/ \E n \in 1 .. Len(Line) - 1 :
                wire = SubSeq(Line, n + 1, Len(Line)) /\ buffer = Read(me, SubSeq(Line, 1, n))

\* The client reads a stream.
Connected == IF me = "cli" THEN follow.at = "sse" ELSE screen.stream

\* What a connection's state implies about the client, and the other way round.
Connection ==
    /\ Connected => Flows
    /\ spc[me] \in Streaming => Connected \/ follow.at = "returned"
    /\ follow.at = "connect" /\ spc[me] = "off" /\ ~Connected => wire = <<>> /\ buffer = <<>>
    /\ me = "cli" /\ follow.at = "connect" => spc[me] = "off" /\ sent = Nothing /\ heard = Nothing

\* The inductive invariant of the clients, along with IInv.
CInv == Complete /\ ClientTypeOK /\ OneClient /\ StreamReads /\ Told /\ Toasts /\ Connection

-----------------------------------------------------------------------------
\* A job only moves on while it is in memory, keeps the status it ended with,
\* and is not created twice.
LEMMA JobForward ==
    ASSUME IInv, [Next]_vars, NEW j \in Job, pc[j] # Unborn
    PROVE  /\ pc'[j] # Unborn
           /\ InMemory(j)' => /\ InMemory(j)
                              /\ Rank(mem[j].status) =< Rank(mem'[j].status)
                              /\ mem[j].status \in Terminal => mem'[j].status = mem[j].status
<1> USE DEF IInv
<1>0. /\ Rank("absent") = 0 /\ Rank("queued") = 1 /\ Rank("running") = 2
      /\ \A s \in Terminal : Rank(s) = 3
      /\ \A s : Rank(s) \in 0 .. 3
  BY DEF Rank, Terminal
<1>1. CASE mem'[j] = mem[j] /\ pc'[j] # Unborn
  BY <1>0, <1>1 DEF InMemory
<1>2. CASE Crash
  <2>1. mem'[j] = Absent
    BY <1>2 DEF Crash
  <2>2. pc'[j] = Dead
    BY <1>2 DEF Crash
  <2> QED BY <2>1, <2>2, Constants DEF InMemory, Unborn, Dead
<1>3. CASE Worker(j)
  <2>1. pc'[j] # Unborn /\ pc[j] \notin {Unborn, Dead} /\ mem[j] \in Snapshot /\ mem'[j].status \in StatusesAt(pc'[j])
        /\ mem[j].status \in StatusesAt(pc[j])
    BY <1>3, WorkerEffect DEF TypeOK, MemoryAt
  <2>2. CASE StartWorker(j)
    <3>1. mem[j].status = "queued" /\ mem'[j].status = "running"
      BY <2>1, <2>2 DEF StartWorker, Step, StatusesAt, Unborn, Dead, TypeOK, Snapshot
    <3> QED BY <1>0, <2>1, <3>1 DEF InMemory, Terminal
  <2>3. CASE SetSucceeded(j)
    <3>1. mem[j].status = "running" /\ mem'[j].status = "succeeded"
      BY <2>1, <2>3 DEF SetSucceeded, Step, StatusesAt, Unborn, Dead, TypeOK, Snapshot
    <3> QED BY <1>0, <2>1, <3>1 DEF InMemory, Terminal
  <2>4. CASE SetFailed(j)
    <3>1. mem[j].status = "running" /\ mem'[j].status = "failed"
      BY <2>1, <2>4 DEF SetFailed, Step, StatusesAt, Unborn, Dead, TypeOK, Snapshot
    <3> QED BY <1>0, <2>1, <3>1 DEF InMemory, Terminal
  <2>5. CASE ~(StartWorker(j) \/ SetSucceeded(j) \/ SetFailed(j))
    <3>1. mem'[j].status = mem[j].status
      <4> USE DEF TypeOK, Snapshot, Step
      <4>1. CASE PersistRunning(j) BY <4>1 DEF PersistRunning
      <4>2. CASE Report(j) BY <2>1, <4>2 DEF Report
      <4>3. CASE SetResult(j) BY <2>1, <4>3 DEF SetResult
      <4>4. CASE SetStageDone(j) BY <2>1, <4>4 DEF SetStageDone
      <4>5. CASE SetError(j) BY <2>1, <4>5 DEF SetError
      <4>6. CASE StampTerminal(j) BY <4>6 DEF StampTerminal
      <4>7. CASE PersistTerminal(j) BY <4>7 DEF PersistTerminal
      <4> QED BY <1>3, <2>5, <4>1, <4>2, <4>3, <4>4, <4>5, <4>6, <4>7 DEF Worker
    <3> QED BY <1>0, <2>1, <3>1 DEF InMemory
  <2> QED BY <2>2, <2>3, <2>4, <2>5
<1>4. (mem'[j] = mem[j] /\ pc'[j] # Unborn) \/ Crash \/ Worker(j)
  <2>1. CASE UNCHANGED vars
    BY <2>1
  <2>2. CASE Environment \/ Boot
    BY <2>2 DEF Environment, Boot, PostgresStops, PostgresStarts, LazyConnect, BootInitDb,
                BootSweep, BootServe
  <2>3. ASSUME NEW k \in Job, Submit(k) PROVE mem'[j] = mem[j] /\ pc'[j] # Unborn
    <3>1. k # j
      BY <2>3 DEF Submit
    <3> QED BY <2>3, <3>1 DEF Submit, TypeOK
  <2>4. ASSUME NEW k \in Job, PersistQueued(k) PROVE mem'[j] = mem[j] /\ pc'[j] # Unborn
    BY <2>4 DEF PersistQueued, TypeOK, Unborn
  <2>5. ASSUME NEW k \in Job, k # j, Worker(k) PROVE mem'[j] = mem[j] /\ pc'[j] # Unborn
    BY <2>5, WorkerEffect
  <2> QED BY <2>1, <2>2, <2>3, <2>4, <2>5 DEF Next
<1> QED BY <1>1, <1>2, <1>3, <1>4

\* A job that succeeded has its result, in memory and in its row.
LEMMA CompleteStep ==
    ASSUME IInv, Complete, [Next]_vars
    PROVE  Complete'
<1> USE DEF IInv
<1> SUFFICES ASSUME NEW j \in Job
             PROVE  /\ pc'[j] = "returned" \/ mem'[j].status = "succeeded" => mem'[j].result
                    /\ row'[j].status = "succeeded" => row'[j].result
                    /\ pc'[j] = Unborn => row'[j] = Absent
  BY DEF Complete
<1>1. ASSUME NEW k \in Job, Worker(k)
      PROVE  pc'[j] = "returned" \/ mem'[j].status = "succeeded" => mem'[j].result
  <2>1. CASE k # j
    BY <1>1, <2>1, WorkerEffect DEF Complete
  <2>2. CASE k = j
    <3> USE DEF Complete, TypeOK, Snapshot, Step
    <3>0. mem[j] \in Snapshot /\ mem[j].status \in StatusesAt(pc[j])
      BY DEF MemoryAt
    <3> USE DEF StatusesAt, Unborn, Dead, Terminal
    <3>1. CASE StartWorker(j) BY <3>0, <3>1 DEF StartWorker
    <3>2. CASE PersistRunning(j) BY <3>0, <3>2 DEF PersistRunning
    <3>3. CASE Report(j) BY <3>0, <3>3 DEF Report
    <3>4. CASE SetResult(j) BY <3>0, <3>4 DEF SetResult
    <3>5. CASE SetSucceeded(j) BY <3>0, <3>5 DEF SetSucceeded
    <3>6. CASE SetStageDone(j) BY <3>0, <3>6 DEF SetStageDone
    <3>7. CASE SetFailed(j) BY <3>0, <3>7 DEF SetFailed
    <3>8. CASE SetError(j) BY <3>0, <3>8 DEF SetError
    <3>9. CASE StampTerminal(j) BY <3>0, <3>9 DEF StampTerminal
    <3>10. CASE PersistTerminal(j) BY <3>0, <3>10 DEF PersistTerminal
    <3> QED
      BY <1>1, <2>2, <3>1, <3>2, <3>3, <3>4, <3>5, <3>6, <3>7, <3>8, <3>9, <3>10 DEF Worker
  <2> QED BY <2>1, <2>2
<1>2. CASE UNCHANGED vars
  BY <1>2 DEF Complete
<1>3. CASE Environment \/ Boot
  <2>1. CASE Crash
    <3>1. mem'[j] = Absent /\ pc'[j] \in {Unborn, Dead} /\ (pc'[j] = Unborn => pc[j] = Unborn) /\ row' = row
      BY <2>1 DEF Crash, Unborn, Dead
    <3> QED BY <3>1, Constants DEF Complete, Unborn, Dead
  <2>2. CASE BootSweep
    <3>1. mem' = mem /\ pc' = pc
      BY <2>2 DEF BootSweep
    <3>2. row'[j] = row[j] \/ (row[j].status \in Active /\ row'[j].status = "failed")
      BY <2>2, InterruptedType DEF BootSweep, TypeOK
    <3>3. pc[j] = Unborn => row[j].status = "absent"
      BY Constants DEF Complete
    <3> QED BY <3>1, <3>2, <3>3 DEF Complete, Active
  <2>3. CASE UNCHANGED <<mem, pc, row>>
    BY <2>3 DEF Complete
  <2> QED BY <1>3, <2>1, <2>2, <2>3 DEF Environment, Boot, PostgresStops, PostgresStarts,
                                        LazyConnect, BootInitDb, BootServe
<1>4. ASSUME NEW k \in Job, Submit(k)
      PROVE  /\ pc'[j] = "returned" \/ mem'[j].status = "succeeded" => mem'[j].result
             /\ row' = row /\ (pc'[j] = Unborn => pc[j] = Unborn)
  <2>1. CASE k = j
    <3>1. mem'[j] = Queued /\ pc'[j] = "persistQueued" /\ row' = row
      BY <1>4, <2>1 DEF Submit, TypeOK
    <3> QED BY <3>1, Constants DEF Unborn
  <2>2. CASE k # j
    BY <1>4, <2>2 DEF Submit, TypeOK, Complete
  <2> QED BY <2>1, <2>2
<1>5. ASSUME NEW k \in Job, PersistQueued(k)
      PROVE  /\ mem' = mem /\ (pc'[j] = "returned" => pc[j] = "returned")
             /\ pc'[j] = Unborn => k # j /\ pc[j] = Unborn
  BY <1>5 DEF PersistQueued, TypeOK, Unborn
<1>6. ASSUME NEW k \in Job, WriteRow(k) \/ UNCHANGED row
      PROVE  row'[j] = row[j] \/ (k = j /\ row'[j] = mem[j])
  BY <1>6, WriteRowEffect
<1>7. ASSUME NEW k \in Job, Worker(k)
      PROVE  (WriteRow(k) \/ UNCHANGED row) /\ (pc'[j] = Unborn => k # j /\ pc[j] = Unborn)
  <2>1. WriteRow(k) \/ UNCHANGED row
    BY <1>7, WorkerRows DEF PersistRunning, PersistTerminal
  <2>2. pc'[j] = Unborn => k # j /\ pc[j] = Unborn
    BY <1>7, WorkerEffect
  <2> QED BY <2>1, <2>2
<1>8. CASE \E k \in Job : Submit(k)
  BY <1>4, <1>8 DEF Complete
<1>9. CASE \E k \in Job : PersistQueued(k)
  <2>1. PICK k \in Job : PersistQueued(k)
    BY <1>9
  <2>2. row'[j] = row[j] \/ (k = j /\ row'[j] = mem[j])
    BY <1>6, <2>1 DEF PersistQueued
  <2> QED BY <1>5, <2>1, <2>2 DEF Complete
<1>10. CASE \E k \in Job : Worker(k)
  <2>1. PICK k \in Job : Worker(k)
    BY <1>10
  <2>2. row'[j] = row[j] \/ (k = j /\ row'[j] = mem[j])
    BY <1>6, <1>7, <2>1
  <2> QED BY <1>1, <1>7, <2>1, <2>2 DEF Complete
<1> QED BY <1>2, <1>3, <1>8, <1>9, <1>10 DEF Next

\* Induction over the naturals, from their being well-founded.
LEMMA LeastNatural ==
    ASSUME NEW T \in SUBSET Nat, T # {}
    PROVE  \E x \in T : \A y \in T : x =< y
<1>1. IsWellFoundedOn(OpToRel(<, Nat), Nat)
  BY NatLessThanWellFounded
<1>2. PICK x \in T : \A y \in T : ~ (<<y, x>> \in OpToRel(<, Nat))
  BY <1>1, WFMin
<1>3. \A y \in Nat : y < x => <<y, x>> \in OpToRel(<, Nat)
  BY <1>2 DEF OpToRel
<1>4. ASSUME NEW y \in T PROVE x =< y
  <2>1. x \in Nat /\ y \in Nat /\ ~ (y < x)
    BY <1>2, <1>3
  <2> QED BY <2>1
<1> QED BY <1>2, <1>4

LEMMA Induction ==
    ASSUME NEW T, 0 \in T, \A n \in Nat : n \in T => n + 1 \in T
    PROVE  Nat \subseteq T
<1> SUFFICES ASSUME ~(Nat \subseteq T) PROVE FALSE
  OBVIOUS
<1> DEFINE U == Nat \ T
<1>1. U \in SUBSET Nat /\ U # {}
  OBVIOUS
<1>2. PICK x \in U : \A y \in U : x =< y
  BY <1>1, LeastNatural
<1>3. x \in Nat /\ x # 0 /\ x \notin T
  BY <1>2
<1>4. x - 1 \in Nat /\ x - 1 \notin U
  BY <1>2, <1>3
<1>5. x - 1 + 1 = x
  BY <1>3
<1> QED BY <1>3, <1>4, <1>5

\* What N steps go through, the k-th of which may depend on k.
Iterates(W, S, a, f, N) ==
    W \in [0 .. N -> S] /\ W[0] = a /\ \A k \in 1 .. N : W[k] = f[<<k, W[k - 1]>>]

\* What a recursive function on 0 .. N computes exists and is of its type.
LEMMA Iteration ==
    ASSUME NEW S, NEW a \in S, NEW N \in Nat, NEW f \in [(1 .. N) \X S -> S]
    PROVE  \E W : Iterates(W, S, a, f, N)
<1> DEFINE Runs(j) == {W \in [0 .. j -> S] : W[0] = a /\ \A k \in 1 .. j : W[k] = f[<<k, W[k - 1]>>]}
           T == {j \in Nat : j =< N => Runs(j) # {}}
<1>1. 0 \in T
  <2> DEFINE W == [k \in 0 .. 0 |-> a]
  <2>1. W \in Runs(0)
    OBVIOUS
  <2> QED BY <2>1
<1>2. ASSUME NEW j \in Nat, j \in T PROVE j + 1 \in T
  <2>0. SUFFICES ASSUME j + 1 =< N PROVE Runs(j + 1) # {}
    OBVIOUS
  <2>1. PICK W \in [0 .. j -> S] : W[0] = a /\ \A k \in 1 .. j : W[k] = f[<<k, W[k - 1]>>]
    BY <1>2, <2>0
  <2> DEFINE new == f[<<j + 1, W[j]>>]
             V == [k \in 0 .. j + 1 |-> IF k = j + 1 THEN new ELSE W[k]]
  <2>2. V \in [0 .. j + 1 -> S] /\ V[0] = a
    <3>1. <<j + 1, W[j]>> \in (1 .. N) \X S
      BY <2>0, <2>1
    <3>2. new \in S
      BY <3>1
    <3>3. W \in [0 .. j -> S] /\ W[0] = a
      BY <2>1
    <3> HIDE DEF new, T, Runs
    <3>4. \A k \in 0 .. j + 1 : k # j + 1 => k \in 0 .. j
      OBVIOUS
    <3> QED BY <3>2, <3>3, <3>4
  <2>3. ASSUME NEW k \in 1 .. j + 1 PROVE V[k] = f[<<k, V[k - 1]>>]
    <3>1. CASE k = j + 1
      <4>1. V[j + 1] = new /\ V[j] = W[j] /\ k - 1 = j
        <5> HIDE DEF new
        <5> QED BY <3>1
      <4> HIDE DEF V
      <4> QED BY <3>1, <4>1
    <3>2. CASE k \in 1 .. j
      <4>1. V[k] = W[k] /\ V[k - 1] = W[k - 1]
        BY <3>2
      <4> QED BY <2>1, <3>2, <4>1
    <3> QED BY <3>1, <3>2
  <2> HIDE DEF V
  <2>4. V \in Runs(j + 1)
    BY <2>2, <2>3
  <2> QED BY <2>4
<1>3. Nat \subseteq T
  <2> HIDE DEF T
  <2> QED BY <1>1, <1>2, Induction
<1>4. PICK W \in Runs(N) : TRUE
  BY <1>3
<1> QED BY <1>4 DEF Iterates


-----------------------------------------------------------------------------
(* The parsers.                                                            *)

\* The letters of a frame differ.
LEMMA Letters ==
    /\ LF # CR
    /\ \A x : <<"event", x>> # LF /\ <<"event", x>> # CR /\ <<"data", x>> # LF /\ <<"data", x>> # CR
    /\ \A x, y : <<"event", x>> # <<"data", y>>
<1>1. Len(LF) = 1 /\ Len(CR) = 1 /\ LF[1] = "lf" /\ CR[1] = "cr"
  BY DEF LF, CR
<1>2. \A x, y : Len(<<x, y>>) = 2
  OBVIOUS
<1>3. LF # CR
  BY <1>1
<1>4. \A x, y : <<"event", x>>[1] = "event" /\ <<"data", y>>[1] = "data"
  OBVIOUS
<1>5. \A x, y : <<"event", x>> # <<"data", y>>
  BY <1>4
<1>6. \A x, y : <<x, y>> # LF /\ <<x, y>> # CR
  BY <1>1, <1>2
<1> QED BY <1>3, <1>5, <1>6

\* At the positions g, in order, text has the characters of p, and the others
\* are carriage returns before a line feed.
Picks(C, text, p, g) ==
    /\ text \in Seq(C) /\ p \in Seq(C) /\ g \in [1 .. Len(p) -> 1 .. Len(text)]
    /\ \A i, j \in 1 .. Len(p) : i < j => g[i] < g[j]
    /\ \A k \in 1 .. Len(text) : ~StartsPair(text, k) => \E i \in 1 .. Len(p) : g[i] = k
    /\ \A i \in 1 .. Len(p) : ~StartsPair(text, g[i]) /\ p[i] = text[g[i]]

\* What the command line's replace of CR LF by LF makes of a text: the loop, step by step.
LEMMA PairedIs ==
    ASSUME NEW C, NEW text, NEW p, NEW g, Picks(C, text, p, g)
    PROVE  Paired(text) = p
<1> DEFINE M == Len(p)
<1>0. /\ M \in Nat /\ p = [i \in 1 .. M |-> p[i]]
      /\ g \in [1 .. M -> 1 .. Len(text)]
      /\ \A i, j \in 1 .. M : i < j => g[i] < g[j]
      /\ \A k \in 1 .. Len(text) : ~StartsPair(text, k) <=> \E i \in 1 .. M : g[i] = k
      /\ \A i \in 1 .. M : p[i] = text[g[i]]
  BY DEF Picks
<1> text \in Seq(C) /\ p \in Seq(C)
  BY DEF Picks
<1> HIDE DEF M
<1> DEFINE N == Len(text)
           S == Seq(C)
           f == [e \in (1 .. N) \X S |-> IF StartsPair(text, e[1]) THEN e[2] ELSE Append(e[2], text[e[1]])]
           Is(V) == V = [k \in 0 .. N |->
                           IF k = 0 THEN <<>>
                           ELSE IF StartsPair(text, k) THEN V[k - 1] ELSE Append(V[k - 1], text[k])]
<1>1. N \in Nat /\ <<>> \in S /\ \A k \in 1 .. N : text[k] \in C
  OBVIOUS
<1>2. \A k \in 1 .. N, x \in S : f[<<k, x>>] = IF StartsPair(text, k) THEN x ELSE Append(x, text[k])
  OBVIOUS
<1>3. ASSUME NEW k \in 1 .. N, NEW x \in S
      PROVE  (IF StartsPair(text, k) THEN x ELSE Append(x, text[k])) \in S
  BY <1>1
<1>4. f \in [(1 .. N) \X S -> S]
  <2> HIDE DEF N, S
  <2>1. \A e \in (1 .. N) \X S : (IF StartsPair(text, e[1]) THEN e[2] ELSE Append(e[2], text[e[1]])) \in S
    BY <1>3
  <2> QED BY <2>1
<1> HIDE DEF f, S, N
<1>5. PICK W : Iterates(W, S, <<>>, f, N)
  BY <1>1, <1>4, Iteration
<1>6. W \in [0 .. N -> S] /\ W[0] = <<>> /\ \A k \in 1 .. N : W[k] = f[<<k, W[k - 1]>>]
  BY <1>5 DEF Iterates
<1>7. ASSUME NEW k \in 1 .. N
      PROVE  W[k] = IF StartsPair(text, k) THEN W[k - 1] ELSE Append(W[k - 1], text[k])
  <2>1. k - 1 \in 0 .. N
    BY <1>1
  <2>2. W[k - 1] \in S
    BY <1>6, <2>1
  <2> QED BY <1>2, <1>6, <2>2
<1>8. Is(W)
  <2>1. \A k \in 0 .. N : W[k] = IF k = 0 THEN <<>>
                                 ELSE IF StartsPair(text, k) THEN W[k - 1] ELSE Append(W[k - 1], text[k])
    <3>1. \A k \in 0 .. N : k = 0 \/ k \in 1 .. N
      BY <1>1
    <3>2. \A k \in 1 .. N : k # 0
      BY <1>1
    <3> QED BY <1>6, <1>7, <3>1, <3>2
  <2> QED BY <1>6, <2>1
<1> DEFINE U == CHOOSE V : Is(V)
<1>9. Paired(text) = U[N]
  BY DEF Paired, N
<1> HIDE DEF Is
<1>10. Is(U)
  BY <1>8
<1> HIDE DEF U
<1>11. \A k \in 0 .. N : U[k] = IF k = 0 THEN <<>>
                                ELSE IF StartsPair(text, k) THEN U[k - 1] ELSE Append(U[k - 1], text[k])
  BY <1>10 DEF Is
<1> DEFINE Taken(k, m) ==
             /\ U[k] = [i \in 1 .. m |-> text[g[i]]]
             /\ \A i \in 1 .. M : i =< m <=> g[i] =< k
           T == {k \in Nat : k =< N => \E m \in 0 .. M : Taken(k, m)}
<1>12. g \in [1 .. M -> 1 .. N] /\ \A i \in 1 .. M : g[i] \in 1 .. N
  BY <1>0 DEF N
<1>13. 0 \in T
  <2>1. U[0] = [i \in 1 .. 0 |-> text[g[i]]]
    BY <1>1, <1>11
  <2>2. Taken(0, 0)
    BY <1>0, <1>1, <1>12, <2>1
  <2>3. 0 \in 0 .. M
    BY <1>0
  <2>4. \E m \in 0 .. M : Taken(0, m)
    <3> HIDE DEF Taken
    <3> QED BY <2>2, <2>3
  <2> HIDE DEF Taken
  <2> QED BY <2>4
<1>14. ASSUME NEW k \in Nat, k \in T PROVE k + 1 \in T
  <2> SUFFICES ASSUME k + 1 =< N PROVE \E m \in 0 .. M : Taken(k + 1, m)
    <3> HIDE DEF Taken
    <3> QED OBVIOUS
  <2>1. k + 1 \in 1 .. N /\ k \in 0 .. N
    BY <1>1
  <2>2. PICK m \in 0 .. M : Taken(k, m)
    <3> HIDE DEF Taken
    <3> QED BY <1>1, <1>14
  <2>3. U[k + 1] = IF StartsPair(text, k + 1) THEN U[k] ELSE Append(U[k], text[k + 1])
    BY <1>1, <1>11
  <2>4. CASE StartsPair(text, k + 1)
    <3>1. \A i \in 1 .. M : g[i] # k + 1
      BY <1>0, <2>1, <2>4 DEF N
    <3>2. \A i \in 1 .. M : g[i] =< k <=> g[i] =< k + 1
      BY <1>0, <1>1, <1>0, <1>12, <3>1
    <3>3. Taken(k + 1, m)
      BY <2>2, <2>3, <2>4, <3>2
    <3> QED BY <3>3
  <2>5. CASE ~StartsPair(text, k + 1)
    <3>1. PICK n \in 1 .. M : g[n] = k + 1
      BY <1>0, <2>1, <2>5 DEF N
    <3>2. m < n
      BY <1>0, <1>12, <2>2, <3>1
    <3>3. n = m + 1
      <4> SUFFICES ASSUME n > m + 1 PROVE FALSE
        BY <1>0, <3>2
      <4>1. m + 1 \in 1 .. M
        BY <1>0, <3>2
      <4>2. g[m + 1] < g[n]
        BY <1>0, <3>1, <4>1
      <4>3. ~(g[m + 1] =< k)
        BY <2>2, <4>1
      <4> QED BY <1>0, <1>12, <3>1, <4>1, <4>2, <4>3
    <3>4. U[k + 1] = Append(U[k], text[g[m + 1]])
      BY <2>3, <2>5, <3>1, <3>3
    <3>5. U[k] \in Seq(C) /\ Len(U[k]) = m
      <4>1. \A i \in 1 .. m : text[g[i]] \in C
        BY <1>0, <1>1, <1>12
      <4> QED BY <2>2, <4>1
    <3>6. U[k + 1] = [i \in 1 .. m + 1 |-> text[g[i]]]
      <4>1. text[g[m + 1]] \in C
        BY <1>0, <1>1, <1>12, <3>3
      <4> DEFINE R == [i \in 1 .. m + 1 |-> text[g[i]]]
                 V == Append(U[k], text[g[m + 1]])
      <4>2. V \in Seq(C) /\ Len(V) = m + 1 /\ V[m + 1] = text[g[m + 1]] /\ \A i \in 1 .. m : V[i] = U[k][i]
        <5> DEFINE u == U[k]
                   c == text[g[m + 1]]
        <5>1. u \in Seq(C) /\ Len(u) = m /\ c \in C
          BY <3>5, <4>1
        <5> HIDE DEF u, c
        <5>2. Append(u, c) \in Seq(C) /\ Len(Append(u, c)) = m + 1 /\ Append(u, c)[m + 1] = c
              /\ \A i \in 1 .. m : Append(u, c)[i] = u[i]
          BY <5>1
        <5> QED BY <5>2 DEF u, c
      <4>3. \A i \in 1 .. m : U[k][i] = text[g[i]]
        BY <2>2
      <4> HIDE DEF V
      <4>4. V \in [1 .. m + 1 -> C] /\ \A i \in 1 .. m + 1 : V[i] = text[g[i]]
        BY <4>2, <4>3
      <4>5. V = [i \in 1 .. m + 1 |-> text[g[i]]]
        BY <4>4
      <4> QED BY <3>4, <4>5 DEF V
    <3>7. \A i \in 1 .. M : i =< m + 1 <=> g[i] =< k + 1
      <4> SUFFICES ASSUME NEW i \in 1 .. M PROVE i =< m + 1 <=> g[i] =< k + 1
        OBVIOUS
      <4>1. CASE i =< m
        BY <1>0, <1>12, <2>2, <4>1
      <4>2. CASE i = m + 1
        BY <1>0, <3>1, <3>3, <4>2
      <4>3. CASE i > m + 1
        <5>1. g[m + 1] < g[i]
          BY <1>0, <3>3, <4>3
        <5> QED BY <1>0, <1>12, <3>1, <3>3, <4>3, <5>1
      <4> QED BY <4>1, <4>2, <4>3
    <3>8. Taken(k + 1, m + 1) /\ m + 1 \in 0 .. M
      BY <1>0, <3>3, <3>6, <3>7
    <3> QED BY <3>8
  <2> QED BY <2>4, <2>5
<1> HIDE DEF T
<1>15. Nat \subseteq T
  BY <1>13, <1>14, Induction
<1>16. PICK m \in 0 .. M : Taken(N, m)
  <2>1. N \in T
    BY <1>1, <1>15
  <2> HIDE DEF Taken
  <2> QED BY <2>1 DEF T
<1>17. m = M
  <2> SUFFICES ASSUME m < M PROVE FALSE
    BY <1>0
  <2>1. M \in 1 .. M /\ g[M] =< N
    BY <1>0, <1>1, <1>12
  <2> QED BY <1>16, <2>1
<1>18. \A i \in 1 .. M : p[i] = text[g[i]]
  BY <1>0
<1>19. U[N] = p
  BY <1>0, <1>16, <1>17, <1>18
<1> QED BY <1>9, <1>19

\* A text without a pair stays as it is.
LEMMA NoPairs ==
    ASSUME NEW C, NEW text \in Seq(C), \A k \in 1 .. Len(text) : ~StartsPair(text, k)
    PROVE  Paired(text) = text
<1> DEFINE M == Len(text)
           g == [i \in 1 .. M |-> i]
<1>1. M \in Nat /\ text = [i \in 1 .. M |-> text[i]]
  OBVIOUS
<1>2. g \in [1 .. M -> 1 .. Len(text)] /\ \A i \in 1 .. M : g[i] = i
  BY <1>1
<1> HIDE DEF g
<1>3. \A i, j \in 1 .. M : i < j => g[i] < g[j]
  BY <1>2
<1>4. \A k \in 1 .. Len(text) : ~StartsPair(text, k) => \E i \in 1 .. M : g[i] = k
  BY <1>2
<1>5. (\A i \in 1 .. M : ~StartsPair(text, g[i])) /\ \A i \in 1 .. M : text[i] = text[g[i]]
  BY <1>2
<1>6. Picks(C, text, text, g)
  BY <1>2, <1>3, <1>4, <1>5 DEF Picks
<1> QED BY <1>6, PairedIs

\* A sequence is what its letters are.
LEMMA Spelt ==
    ASSUME NEW C, NEW s \in Seq(C)
    PROVE  /\ Len(s) = 1 => s = <<s[1]>>
           /\ Len(s) = 2 => s = <<s[1], s[2]>>
           /\ Len(s) = 3 => s = <<s[1], s[2], s[3]>>
           /\ Len(s) = 4 => s = <<s[1], s[2], s[3], s[4]>>
           /\ Len(s) = 5 => s = <<s[1], s[2], s[3], s[4], s[5]>>
           /\ Len(s) = 6 => s = <<s[1], s[2], s[3], s[4], s[5], s[6]>>
           /\ Len(s) = 7 => s = <<s[1], s[2], s[3], s[4], s[5], s[6], s[7]>>
           /\ Len(s) = 8 => s = <<s[1], s[2], s[3], s[4], s[5], s[6], s[7], s[8]>>
OBVIOUS

\* The letters of a frame.
Alphabet(C, e, d) ==
    e \in C /\ d \in C /\ CR \in C /\ LF \in C /\ e \notin {CR, LF} /\ d \notin {CR, LF}

Plain(e, d) == <<e, LF, d, LF, LF>>
Crlf(e, d) == <<e, CR, LF, d, CR, LF, CR, LF>>

Spell(C, e, d, x, y) == Alphabet(C, e, d) /\ e = <<"event", x>> /\ d = <<"data", y>>

\* The texts there are with the line ends CR LF: a frame, its beginnings, and a
\* beginning that was normalised with the rest behind it.
LEMMA PairedTexts ==
    ASSUME NEW C, NEW e, NEW d, Alphabet(C, e, d)
    PROVE  /\ Paired(<<e, CR, LF, d, CR, LF, CR, LF>>) = <<e, LF, d, LF, LF>>
           /\ Paired(<<e, CR, LF>>) = <<e, LF>>
           /\ Paired(<<e, CR, LF, d>>) = <<e, LF, d>>
           /\ Paired(<<e, CR, LF, d, CR>>) = <<e, LF, d, CR>>
           /\ Paired(<<e, CR, LF, d, CR, LF>>) = <<e, LF, d, LF>>
           /\ Paired(<<e, CR, LF, d, CR, LF, CR>>) = <<e, LF, d, LF, CR>>
           /\ Paired(<<e, LF, d, CR, LF, CR, LF>>) = <<e, LF, d, LF, LF>>
           /\ Paired(<<e, LF, d, LF, CR, LF>>) = <<e, LF, d, LF, LF>>
<1> e \in C /\ d \in C /\ CR \in C /\ LF \in C
  BY DEF Alphabet
<1>0. LF # CR /\ e \notin {CR, LF} /\ d \notin {CR, LF}
  BY Letters DEF Alphabet
<1>1. Paired(<<e, CR, LF, d, CR, LF, CR, LF>>) = <<e, LF, d, LF, LF>>
  <2> DEFINE text == <<e, CR, LF, d, CR, LF, CR, LF>>
             g == <<1, 3, 4, 6, 8>>
             p == <<e, LF, d, LF, LF>>
  <2>1. text \in Seq(C) /\ Len(text) = 8 /\ text[1] = e /\ text[2] = CR /\ text[3] = LF /\ text[4] = d /\ text[5] = CR /\ text[6] = LF /\ text[7] = CR /\ text[8] = LF
    OBVIOUS
  <2>2. g \in [1 .. 5 -> 1 .. 8] /\ g[1] = 1 /\ g[2] = 3 /\ g[3] = 4 /\ g[4] = 6 /\ g[5] = 8
    OBVIOUS
  <2>3. p \in Seq(C) /\ Len(p) = 5 /\ p[1] = e /\ p[2] = LF /\ p[3] = d /\ p[4] = LF /\ p[5] = LF
    OBVIOUS
  <2> HIDE DEF text, g, p
  <2>5. \A k \in 1 .. Len(text) : ~StartsPair(text, k) => \E i \in 1 .. Len(p) : g[i] = k
    <3>1. \A k \in 1 .. 8 : k = 1 \/ k = 2 \/ k = 3 \/ k = 4 \/ k = 5 \/ k = 6 \/ k = 7 \/ k = 8
      OBVIOUS
    <3>2. ~StartsPair(text, 1) /\ StartsPair(text, 2) /\ ~StartsPair(text, 3) /\ ~StartsPair(text, 4) /\ StartsPair(text, 5) /\ ~StartsPair(text, 6) /\ StartsPair(text, 7) /\ ~StartsPair(text, 8)
      BY <1>0, <2>1 DEF StartsPair
    <3>3. \A k : (\E i \in 1 .. Len(p) : g[i] = k) <=> k = 1 \/ k = 3 \/ k = 4 \/ k = 6 \/ k = 8
      BY <2>2, <2>3
    <3> QED BY <2>1, <3>1, <3>2, <3>3
  <2>6. g \in [1 .. Len(p) -> 1 .. Len(text)]
    BY <2>1, <2>2, <2>3
  <2>7. \A i \in 1 .. Len(p) : ~StartsPair(text, g[i])
    BY <1>0, <2>1, <2>2, <2>3 DEF StartsPair
  <2>8. \A i \in 1 .. Len(p) : p[i] = text[g[i]]
    BY <1>0, <2>1, <2>2, <2>3
  <2>9. \A i, j \in 1 .. Len(p) : i < j => g[i] < g[j]
    BY <2>2, <2>3
  <2>10. Paired(text) = p
    <3>1. Picks(C, text, p, g)
      BY <2>1, <2>3, <2>5, <2>6, <2>7, <2>8, <2>9 DEF Picks
    <3> QED BY <3>1, PairedIs
  <2> QED BY <2>10 DEF text, p
<1>2. Paired(<<e, CR, LF>>) = <<e, LF>>
  <2> DEFINE text == <<e, CR, LF>>
             g == <<1, 3>>
             p == <<e, LF>>
  <2>1. text \in Seq(C) /\ Len(text) = 3 /\ text[1] = e /\ text[2] = CR /\ text[3] = LF
    OBVIOUS
  <2>2. g \in [1 .. 2 -> 1 .. 3] /\ g[1] = 1 /\ g[2] = 3
    OBVIOUS
  <2>3. p \in Seq(C) /\ Len(p) = 2 /\ p[1] = e /\ p[2] = LF
    OBVIOUS
  <2> HIDE DEF text, g, p
  <2>5. \A k \in 1 .. Len(text) : ~StartsPair(text, k) => \E i \in 1 .. Len(p) : g[i] = k
    <3>1. \A k \in 1 .. 3 : k = 1 \/ k = 2 \/ k = 3
      OBVIOUS
    <3>2. ~StartsPair(text, 1) /\ StartsPair(text, 2) /\ ~StartsPair(text, 3)
      BY <1>0, <2>1 DEF StartsPair
    <3>3. \A k : (\E i \in 1 .. Len(p) : g[i] = k) <=> k = 1 \/ k = 3
      BY <2>2, <2>3
    <3> QED BY <2>1, <3>1, <3>2, <3>3
  <2>6. g \in [1 .. Len(p) -> 1 .. Len(text)]
    BY <2>1, <2>2, <2>3
  <2>7. \A i \in 1 .. Len(p) : ~StartsPair(text, g[i])
    BY <1>0, <2>1, <2>2, <2>3 DEF StartsPair
  <2>8. \A i \in 1 .. Len(p) : p[i] = text[g[i]]
    BY <1>0, <2>1, <2>2, <2>3
  <2>9. \A i, j \in 1 .. Len(p) : i < j => g[i] < g[j]
    BY <2>2, <2>3
  <2>10. Paired(text) = p
    <3>1. Picks(C, text, p, g)
      BY <2>1, <2>3, <2>5, <2>6, <2>7, <2>8, <2>9 DEF Picks
    <3> QED BY <3>1, PairedIs
  <2> QED BY <2>10 DEF text, p
<1>3. Paired(<<e, CR, LF, d>>) = <<e, LF, d>>
  <2> DEFINE text == <<e, CR, LF, d>>
             g == <<1, 3, 4>>
             p == <<e, LF, d>>
  <2>1. text \in Seq(C) /\ Len(text) = 4 /\ text[1] = e /\ text[2] = CR /\ text[3] = LF /\ text[4] = d
    OBVIOUS
  <2>2. g \in [1 .. 3 -> 1 .. 4] /\ g[1] = 1 /\ g[2] = 3 /\ g[3] = 4
    OBVIOUS
  <2>3. p \in Seq(C) /\ Len(p) = 3 /\ p[1] = e /\ p[2] = LF /\ p[3] = d
    OBVIOUS
  <2> HIDE DEF text, g, p
  <2>5. \A k \in 1 .. Len(text) : ~StartsPair(text, k) => \E i \in 1 .. Len(p) : g[i] = k
    <3>1. \A k \in 1 .. 4 : k = 1 \/ k = 2 \/ k = 3 \/ k = 4
      OBVIOUS
    <3>2. ~StartsPair(text, 1) /\ StartsPair(text, 2) /\ ~StartsPair(text, 3) /\ ~StartsPair(text, 4)
      BY <1>0, <2>1 DEF StartsPair
    <3>3. \A k : (\E i \in 1 .. Len(p) : g[i] = k) <=> k = 1 \/ k = 3 \/ k = 4
      BY <2>2, <2>3
    <3> QED BY <2>1, <3>1, <3>2, <3>3
  <2>6. g \in [1 .. Len(p) -> 1 .. Len(text)]
    BY <2>1, <2>2, <2>3
  <2>7. \A i \in 1 .. Len(p) : ~StartsPair(text, g[i])
    BY <1>0, <2>1, <2>2, <2>3 DEF StartsPair
  <2>8. \A i \in 1 .. Len(p) : p[i] = text[g[i]]
    BY <1>0, <2>1, <2>2, <2>3
  <2>9. \A i, j \in 1 .. Len(p) : i < j => g[i] < g[j]
    BY <2>2, <2>3
  <2>10. Paired(text) = p
    <3>1. Picks(C, text, p, g)
      BY <2>1, <2>3, <2>5, <2>6, <2>7, <2>8, <2>9 DEF Picks
    <3> QED BY <3>1, PairedIs
  <2> QED BY <2>10 DEF text, p
<1>4. Paired(<<e, CR, LF, d, CR>>) = <<e, LF, d, CR>>
  <2> DEFINE text == <<e, CR, LF, d, CR>>
             g == <<1, 3, 4, 5>>
             p == <<e, LF, d, CR>>
  <2>1. text \in Seq(C) /\ Len(text) = 5 /\ text[1] = e /\ text[2] = CR /\ text[3] = LF /\ text[4] = d /\ text[5] = CR
    OBVIOUS
  <2>2. g \in [1 .. 4 -> 1 .. 5] /\ g[1] = 1 /\ g[2] = 3 /\ g[3] = 4 /\ g[4] = 5
    OBVIOUS
  <2>3. p \in Seq(C) /\ Len(p) = 4 /\ p[1] = e /\ p[2] = LF /\ p[3] = d /\ p[4] = CR
    OBVIOUS
  <2> HIDE DEF text, g, p
  <2>5. \A k \in 1 .. Len(text) : ~StartsPair(text, k) => \E i \in 1 .. Len(p) : g[i] = k
    <3>1. \A k \in 1 .. 5 : k = 1 \/ k = 2 \/ k = 3 \/ k = 4 \/ k = 5
      OBVIOUS
    <3>2. ~StartsPair(text, 1) /\ StartsPair(text, 2) /\ ~StartsPair(text, 3) /\ ~StartsPair(text, 4) /\ ~StartsPair(text, 5)
      BY <1>0, <2>1 DEF StartsPair
    <3>3. \A k : (\E i \in 1 .. Len(p) : g[i] = k) <=> k = 1 \/ k = 3 \/ k = 4 \/ k = 5
      BY <2>2, <2>3
    <3> QED BY <2>1, <3>1, <3>2, <3>3
  <2>6. g \in [1 .. Len(p) -> 1 .. Len(text)]
    BY <2>1, <2>2, <2>3
  <2>7. \A i \in 1 .. Len(p) : ~StartsPair(text, g[i])
    BY <1>0, <2>1, <2>2, <2>3 DEF StartsPair
  <2>8. \A i \in 1 .. Len(p) : p[i] = text[g[i]]
    BY <1>0, <2>1, <2>2, <2>3
  <2>9. \A i, j \in 1 .. Len(p) : i < j => g[i] < g[j]
    BY <2>2, <2>3
  <2>10. Paired(text) = p
    <3>1. Picks(C, text, p, g)
      BY <2>1, <2>3, <2>5, <2>6, <2>7, <2>8, <2>9 DEF Picks
    <3> QED BY <3>1, PairedIs
  <2> QED BY <2>10 DEF text, p
<1>5. Paired(<<e, CR, LF, d, CR, LF>>) = <<e, LF, d, LF>>
  <2> DEFINE text == <<e, CR, LF, d, CR, LF>>
             g == <<1, 3, 4, 6>>
             p == <<e, LF, d, LF>>
  <2>1. text \in Seq(C) /\ Len(text) = 6 /\ text[1] = e /\ text[2] = CR /\ text[3] = LF /\ text[4] = d /\ text[5] = CR /\ text[6] = LF
    OBVIOUS
  <2>2. g \in [1 .. 4 -> 1 .. 6] /\ g[1] = 1 /\ g[2] = 3 /\ g[3] = 4 /\ g[4] = 6
    OBVIOUS
  <2>3. p \in Seq(C) /\ Len(p) = 4 /\ p[1] = e /\ p[2] = LF /\ p[3] = d /\ p[4] = LF
    OBVIOUS
  <2> HIDE DEF text, g, p
  <2>5. \A k \in 1 .. Len(text) : ~StartsPair(text, k) => \E i \in 1 .. Len(p) : g[i] = k
    <3>1. \A k \in 1 .. 6 : k = 1 \/ k = 2 \/ k = 3 \/ k = 4 \/ k = 5 \/ k = 6
      OBVIOUS
    <3>2. ~StartsPair(text, 1) /\ StartsPair(text, 2) /\ ~StartsPair(text, 3) /\ ~StartsPair(text, 4) /\ StartsPair(text, 5) /\ ~StartsPair(text, 6)
      BY <1>0, <2>1 DEF StartsPair
    <3>3. \A k : (\E i \in 1 .. Len(p) : g[i] = k) <=> k = 1 \/ k = 3 \/ k = 4 \/ k = 6
      BY <2>2, <2>3
    <3> QED BY <2>1, <3>1, <3>2, <3>3
  <2>6. g \in [1 .. Len(p) -> 1 .. Len(text)]
    BY <2>1, <2>2, <2>3
  <2>7. \A i \in 1 .. Len(p) : ~StartsPair(text, g[i])
    BY <1>0, <2>1, <2>2, <2>3 DEF StartsPair
  <2>8. \A i \in 1 .. Len(p) : p[i] = text[g[i]]
    BY <1>0, <2>1, <2>2, <2>3
  <2>9. \A i, j \in 1 .. Len(p) : i < j => g[i] < g[j]
    BY <2>2, <2>3
  <2>10. Paired(text) = p
    <3>1. Picks(C, text, p, g)
      BY <2>1, <2>3, <2>5, <2>6, <2>7, <2>8, <2>9 DEF Picks
    <3> QED BY <3>1, PairedIs
  <2> QED BY <2>10 DEF text, p
<1>6. Paired(<<e, CR, LF, d, CR, LF, CR>>) = <<e, LF, d, LF, CR>>
  <2> DEFINE text == <<e, CR, LF, d, CR, LF, CR>>
             g == <<1, 3, 4, 6, 7>>
             p == <<e, LF, d, LF, CR>>
  <2>1. text \in Seq(C) /\ Len(text) = 7 /\ text[1] = e /\ text[2] = CR /\ text[3] = LF /\ text[4] = d /\ text[5] = CR /\ text[6] = LF /\ text[7] = CR
    OBVIOUS
  <2>2. g \in [1 .. 5 -> 1 .. 7] /\ g[1] = 1 /\ g[2] = 3 /\ g[3] = 4 /\ g[4] = 6 /\ g[5] = 7
    OBVIOUS
  <2>3. p \in Seq(C) /\ Len(p) = 5 /\ p[1] = e /\ p[2] = LF /\ p[3] = d /\ p[4] = LF /\ p[5] = CR
    OBVIOUS
  <2> HIDE DEF text, g, p
  <2>5. \A k \in 1 .. Len(text) : ~StartsPair(text, k) => \E i \in 1 .. Len(p) : g[i] = k
    <3>1. \A k \in 1 .. 7 : k = 1 \/ k = 2 \/ k = 3 \/ k = 4 \/ k = 5 \/ k = 6 \/ k = 7
      OBVIOUS
    <3>2. ~StartsPair(text, 1) /\ StartsPair(text, 2) /\ ~StartsPair(text, 3) /\ ~StartsPair(text, 4) /\ StartsPair(text, 5) /\ ~StartsPair(text, 6) /\ ~StartsPair(text, 7)
      BY <1>0, <2>1 DEF StartsPair
    <3>3. \A k : (\E i \in 1 .. Len(p) : g[i] = k) <=> k = 1 \/ k = 3 \/ k = 4 \/ k = 6 \/ k = 7
      BY <2>2, <2>3
    <3> QED BY <2>1, <3>1, <3>2, <3>3
  <2>6. g \in [1 .. Len(p) -> 1 .. Len(text)]
    BY <2>1, <2>2, <2>3
  <2>7. \A i \in 1 .. Len(p) : ~StartsPair(text, g[i])
    BY <1>0, <2>1, <2>2, <2>3 DEF StartsPair
  <2>8. \A i \in 1 .. Len(p) : p[i] = text[g[i]]
    BY <1>0, <2>1, <2>2, <2>3
  <2>9. \A i, j \in 1 .. Len(p) : i < j => g[i] < g[j]
    BY <2>2, <2>3
  <2>10. Paired(text) = p
    <3>1. Picks(C, text, p, g)
      BY <2>1, <2>3, <2>5, <2>6, <2>7, <2>8, <2>9 DEF Picks
    <3> QED BY <3>1, PairedIs
  <2> QED BY <2>10 DEF text, p
<1>7. Paired(<<e, LF, d, CR, LF, CR, LF>>) = <<e, LF, d, LF, LF>>
  <2> DEFINE text == <<e, LF, d, CR, LF, CR, LF>>
             g == <<1, 2, 3, 5, 7>>
             p == <<e, LF, d, LF, LF>>
  <2>1. text \in Seq(C) /\ Len(text) = 7 /\ text[1] = e /\ text[2] = LF /\ text[3] = d /\ text[4] = CR /\ text[5] = LF /\ text[6] = CR /\ text[7] = LF
    OBVIOUS
  <2>2. g \in [1 .. 5 -> 1 .. 7] /\ g[1] = 1 /\ g[2] = 2 /\ g[3] = 3 /\ g[4] = 5 /\ g[5] = 7
    OBVIOUS
  <2>3. p \in Seq(C) /\ Len(p) = 5 /\ p[1] = e /\ p[2] = LF /\ p[3] = d /\ p[4] = LF /\ p[5] = LF
    OBVIOUS
  <2> HIDE DEF text, g, p
  <2>5. \A k \in 1 .. Len(text) : ~StartsPair(text, k) => \E i \in 1 .. Len(p) : g[i] = k
    <3>1. \A k \in 1 .. 7 : k = 1 \/ k = 2 \/ k = 3 \/ k = 4 \/ k = 5 \/ k = 6 \/ k = 7
      OBVIOUS
    <3>2. ~StartsPair(text, 1) /\ ~StartsPair(text, 2) /\ ~StartsPair(text, 3) /\ StartsPair(text, 4) /\ ~StartsPair(text, 5) /\ StartsPair(text, 6) /\ ~StartsPair(text, 7)
      BY <1>0, <2>1 DEF StartsPair
    <3>3. \A k : (\E i \in 1 .. Len(p) : g[i] = k) <=> k = 1 \/ k = 2 \/ k = 3 \/ k = 5 \/ k = 7
      BY <2>2, <2>3
    <3> QED BY <2>1, <3>1, <3>2, <3>3
  <2>6. g \in [1 .. Len(p) -> 1 .. Len(text)]
    BY <2>1, <2>2, <2>3
  <2>7. \A i \in 1 .. Len(p) : ~StartsPair(text, g[i])
    BY <1>0, <2>1, <2>2, <2>3 DEF StartsPair
  <2>8. \A i \in 1 .. Len(p) : p[i] = text[g[i]]
    BY <1>0, <2>1, <2>2, <2>3
  <2>9. \A i, j \in 1 .. Len(p) : i < j => g[i] < g[j]
    BY <2>2, <2>3
  <2>10. Paired(text) = p
    <3>1. Picks(C, text, p, g)
      BY <2>1, <2>3, <2>5, <2>6, <2>7, <2>8, <2>9 DEF Picks
    <3> QED BY <3>1, PairedIs
  <2> QED BY <2>10 DEF text, p
<1>8. Paired(<<e, LF, d, LF, CR, LF>>) = <<e, LF, d, LF, LF>>
  <2> DEFINE text == <<e, LF, d, LF, CR, LF>>
             g == <<1, 2, 3, 4, 6>>
             p == <<e, LF, d, LF, LF>>
  <2>1. text \in Seq(C) /\ Len(text) = 6 /\ text[1] = e /\ text[2] = LF /\ text[3] = d /\ text[4] = LF /\ text[5] = CR /\ text[6] = LF
    OBVIOUS
  <2>2. g \in [1 .. 5 -> 1 .. 6] /\ g[1] = 1 /\ g[2] = 2 /\ g[3] = 3 /\ g[4] = 4 /\ g[5] = 6
    OBVIOUS
  <2>3. p \in Seq(C) /\ Len(p) = 5 /\ p[1] = e /\ p[2] = LF /\ p[3] = d /\ p[4] = LF /\ p[5] = LF
    OBVIOUS
  <2> HIDE DEF text, g, p
  <2>5. \A k \in 1 .. Len(text) : ~StartsPair(text, k) => \E i \in 1 .. Len(p) : g[i] = k
    <3>1. \A k \in 1 .. 6 : k = 1 \/ k = 2 \/ k = 3 \/ k = 4 \/ k = 5 \/ k = 6
      OBVIOUS
    <3>2. ~StartsPair(text, 1) /\ ~StartsPair(text, 2) /\ ~StartsPair(text, 3) /\ ~StartsPair(text, 4) /\ StartsPair(text, 5) /\ ~StartsPair(text, 6)
      BY <1>0, <2>1 DEF StartsPair
    <3>3. \A k : (\E i \in 1 .. Len(p) : g[i] = k) <=> k = 1 \/ k = 2 \/ k = 3 \/ k = 4 \/ k = 6
      BY <2>2, <2>3
    <3> QED BY <2>1, <3>1, <3>2, <3>3
  <2>6. g \in [1 .. Len(p) -> 1 .. Len(text)]
    BY <2>1, <2>2, <2>3
  <2>7. \A i \in 1 .. Len(p) : ~StartsPair(text, g[i])
    BY <1>0, <2>1, <2>2, <2>3 DEF StartsPair
  <2>8. \A i \in 1 .. Len(p) : p[i] = text[g[i]]
    BY <1>0, <2>1, <2>2, <2>3
  <2>9. \A i, j \in 1 .. Len(p) : i < j => g[i] < g[j]
    BY <2>2, <2>3
  <2>10. Paired(text) = p
    <3>1. Picks(C, text, p, g)
      BY <2>1, <2>3, <2>5, <2>6, <2>7, <2>8, <2>9 DEF Picks
    <3> QED BY <3>1, PairedIs
  <2> QED BY <2>10 DEF text, p
<1> QED BY <1>1, <1>2, <1>3, <1>4, <1>5, <1>6, <1>7, <1>8

\* A text without carriage returns is read as it is, by both parsers.
LEMMA PlainText ==
    ASSUME NEW C, NEW text \in Seq(C), \A k \in 1 .. Len(text) : text[k] # CR
    PROVE  Paired(text) = text /\ LinesEnded(text) = text
<1>1. Paired(text) = text
  <2>1. \A k \in 1 .. Len(text) : ~StartsPair(text, k)
    BY DEF StartsPair
  <2> QED BY <2>1, NoPairs
<1>2. DOMAIN text = 1 .. Len(text) /\ text = [i \in 1 .. Len(text) |-> text[i]]
  OBVIOUS
<1>3. LinesEnded(text) = [i \in 1 .. Len(text) |-> IF text[i] = CR THEN LF ELSE text[i]]
  BY <1>1, <1>2 DEF LinesEnded
<1>4. \A i \in 1 .. Len(text) : (IF text[i] = CR THEN LF ELSE text[i]) = text[i]
  OBVIOUS
<1> QED BY <1>1, <1>2, <1>3, <1>4

\* What a frame is on the wire, with each of the two line ends.
LEMMA WireIs ==
    ASSUME NEW C, NEW x, NEW y, NEW e, NEW d, Spell(C, e, d, x, y)
    PROVE  Wire(x, y, <<LF>>) = Plain(e, d) /\ Wire(x, y, <<CR, LF>>) = Crlf(e, d)
<1> e \in C /\ d \in C /\ CR \in C /\ LF \in C
  BY DEF Spell, Alphabet
<1>0. e = <<"event", x>> /\ d = <<"data", y>>
  BY DEF Spell
<1>1. /\ Wire(x, y, <<LF>>) = <<e>> \o <<LF>> \o <<d>> \o <<LF>> \o <<LF>>
      /\ Wire(x, y, <<CR, LF>>) = <<e>> \o <<CR, LF>> \o <<d>> \o <<CR, LF>> \o <<CR, LF>>
  BY <1>0 DEF Wire
<1> DEFINE a1 == <<e>> \o <<LF>>
           a2 == <<e, LF>> \o <<d>>
           a3 == <<e, LF, d>> \o <<LF>>
           a4 == <<e, LF, d, LF>> \o <<LF>>
           b1 == <<e>> \o <<CR, LF>>
           b2 == <<e, CR, LF>> \o <<d>>
           b3 == <<e, CR, LF, d>> \o <<CR, LF>>
           b4 == <<e, CR, LF, d, CR, LF>> \o <<CR, LF>>
<1>2. a1 = <<e, LF>>
  <2>1. a1 \in Seq(C) /\ Len(a1) = 2 /\ a1[1] = e /\ a1[2] = LF
    OBVIOUS
  <2> HIDE DEF a1
  <2> QED BY <2>1, Spelt
<1>3. a2 = <<e, LF, d>>
  <2>1. a2 \in Seq(C) /\ Len(a2) = 3 /\ a2[1] = e /\ a2[2] = LF /\ a2[3] = d
    OBVIOUS
  <2> HIDE DEF a2
  <2> QED BY <2>1, Spelt
<1>4. a3 = <<e, LF, d, LF>>
  <2>1. a3 \in Seq(C) /\ Len(a3) = 4 /\ a3[1] = e /\ a3[2] = LF /\ a3[3] = d /\ a3[4] = LF
    OBVIOUS
  <2> HIDE DEF a3
  <2> QED BY <2>1, Spelt
<1>5. a4 = <<e, LF, d, LF, LF>>
  <2>1. a4 \in Seq(C) /\ Len(a4) = 5 /\ a4[1] = e /\ a4[2] = LF /\ a4[3] = d /\ a4[4] = LF /\ a4[5] = LF
    OBVIOUS
  <2> HIDE DEF a4
  <2> QED BY <2>1, Spelt
<1>6. b1 = <<e, CR, LF>>
  <2>1. b1 \in Seq(C) /\ Len(b1) = 3 /\ b1[1] = e /\ b1[2] = CR /\ b1[3] = LF
    OBVIOUS
  <2> HIDE DEF b1
  <2> QED BY <2>1, Spelt
<1>7. b2 = <<e, CR, LF, d>>
  <2>1. b2 \in Seq(C) /\ Len(b2) = 4 /\ b2[1] = e /\ b2[2] = CR /\ b2[3] = LF /\ b2[4] = d
    OBVIOUS
  <2> HIDE DEF b2
  <2> QED BY <2>1, Spelt
<1>8. b3 = <<e, CR, LF, d, CR, LF>>
  <2>1. b3 \in Seq(C) /\ Len(b3) = 6 /\ b3[1] = e /\ b3[2] = CR /\ b3[3] = LF /\ b3[4] = d /\ b3[5] = CR /\ b3[6] = LF
    OBVIOUS
  <2> HIDE DEF b3
  <2> QED BY <2>1, Spelt
<1>9. b4 = <<e, CR, LF, d, CR, LF, CR, LF>>
  <2>1. b4 \in Seq(C) /\ Len(b4) = 8 /\ b4[1] = e /\ b4[2] = CR /\ b4[3] = LF /\ b4[4] = d /\ b4[5] = CR /\ b4[6] = LF
        /\ b4[7] = CR /\ b4[8] = LF
    OBVIOUS
  <2> HIDE DEF b4
  <2> QED BY <2>1, Spelt
<1>10. Wire(x, y, <<LF>>) = a4
  BY <1>1, <1>2, <1>3, <1>4 DEF a1, a2, a3, a4
<1>11. Wire(x, y, <<CR, LF>>) = b4
  BY <1>1, <1>6, <1>7, <1>8 DEF b1, b2, b3, b4
<1> QED BY <1>5, <1>9, <1>10, <1>11 DEF Plain, Crlf

\* What is cut out of a normalised frame.
Framed(x, y) == [raw |-> << << <<"event", x>>, LF, <<"data", y>> >> >>, rest |-> <<>>]

\* A normalised frame is cut out whole and parsed as what it was.
LEMMA FrameCut ==
    ASSUME NEW C, NEW x, NEW y, NEW e, NEW d, Spell(C, e, d, x, y)
    PROVE  CutFrames(Plain(e, d)) = Framed(x, y)
<1> e \in C /\ d \in C /\ CR \in C /\ LF \in C
  BY DEF Spell, Alphabet
<1>0. e = <<"event", x>> /\ d = <<"data", y>>
  BY DEF Spell
<1> DEFINE text == <<e, LF, d, LF, LF>>
           empty == {i \in 1 .. (Len(text) - 1) : text[i] = LF /\ text[i + 1] = LF}
           first == CHOOSE i \in empty : \A j \in empty : i <= j
           raw == <<e, LF, d>>
<1>1. d # LF /\ e # LF
  BY <1>0, Letters
<1>2. text \in Seq(C) /\ Len(text) = 5 /\ text[1] = e /\ text[2] = LF /\ text[3] = d /\ text[4] = LF /\ text[5] = LF
  OBVIOUS
<1>3. raw \in Seq(C) /\ Len(raw) = 3 /\ raw[1] = e /\ raw[2] = LF /\ raw[3] = d
  OBVIOUS
<1> HIDE DEF text, raw
<1>4. empty = {4}
  BY <1>1, <1>2
<1>5. first = 4
  BY <1>4
<1>6. SubSeq(text, 1, 3) = raw
  <2> DEFINE p == SubSeq(text, 1, 3)
  <2>1. p \in Seq(C) /\ Len(p) = 3 /\ p[1] = e /\ p[2] = LF /\ p[3] = d
    BY DEF text
  <2> HIDE DEF p
  <2>2. p = <<e, LF, d>>
    BY <2>1, Spelt
  <2> QED BY <2>2 DEF p, raw
<1>7. SubSeq(text, 6, 5) = <<>>
  BY <1>2, SubSeqEmpty
<1>8. CutFrames(text) = IF empty = {} THEN [raw |-> <<>>, rest |-> text]
                        ELSE [raw |-> <<SubSeq(text, 1, first - 1)>>, rest |-> SubSeq(text, first + 2, Len(text))]
  BY DEF CutFrames
<1>9. CutFrames(text) = [raw |-> <<raw>>, rest |-> <<>>]
  <2>1. empty # {} /\ first - 1 = 3 /\ first + 2 = 6 /\ Len(text) = 5
    BY <1>2, <1>4, <1>5
  <2> HIDE DEF empty, first
  <2> QED BY <1>6, <1>7, <1>8, <2>1
<1>10. Framed(x, y) = [raw |-> <<raw>>, rest |-> <<>>]
  BY <1>0 DEF Framed, raw
<1> QED BY <1>9, <1>10 DEF text, Plain

\* The event read of a frame is the one written.
LEMMA FrameIs ==
    ASSUME NEW C, NEW x, NEW y, NEW e, NEW d, Spell(C, e, d, x, y)
    PROVE  /\ Frames(Framed(x, y).raw) = <<[event |-> x, job |-> y]>> /\ Framed(x, y).rest = <<>>
<1> e \in C /\ d \in C /\ CR \in C /\ LF \in C
  BY DEF Spell, Alphabet
<1>0. e = <<"event", x>> /\ d = <<"data", y>>
  BY DEF Spell
<1> DEFINE raw == <<e, LF, d>>
<1>3. raw \in Seq(C) /\ Len(raw) = 3 /\ raw[1] = e /\ raw[2] = LF /\ raw[3] = d
  OBVIOUS
<1> HIDE DEF raw
<1>10. /\ {i \in DOMAIN raw : raw[i][1] = "event"} = {1}
       /\ {i \in DOMAIN raw : raw[i][1] = "data"} = {3}
       /\ raw[1][2] = x /\ raw[3][2] = y
  <2>1. LF[1] = "lf" /\ e[1] = "event" /\ d[1] = "data" /\ e[2] = x /\ d[2] = y
    BY <1>0 DEF LF
  <2>2. DOMAIN raw = 1 .. 3
    BY <1>3
  <2> QED BY <1>3, <2>1, <2>2
<1>11. HasData(raw) /\ Parsed(raw) = [event |-> x, job |-> y]
  <2>1. LastOf(raw, "event") = x /\ LastOf(raw, "data") = y
    BY <1>10 DEF LastOf
  <2>2. \E i \in DOMAIN raw : raw[i][1] = "event"
    BY <1>10
  <2> QED BY <1>10, <2>1, <2>2 DEF HasData, Parsed
<1>12. Frames(<<raw>>) = <<Parsed(raw)>>
  BY <1>11 DEF Frames
<1>13. Framed(x, y) = [raw |-> <<raw>>, rest |-> <<>>]
  BY <1>0 DEF Framed, raw
<1>14. Framed(x, y).raw = <<raw>> /\ Framed(x, y).rest = <<>>
  BY <1>13
<1> QED BY <1>11, <1>12, <1>14

Uncut(text) == [raw |-> <<>>, rest |-> text]

\* s is cut into p and q.
CutAt(s, n, p, q) == n \in 1 .. Len(s) - 1 /\ p = SubSeq(s, 1, n) /\ q = SubSeq(s, n + 1, Len(s))

\* A sequence is all of itself.
LEMMA Whole ==
    ASSUME NEW C, NEW s \in Seq(C)
    PROVE  SubSeq(s, 1, Len(s)) = s /\ SubSeq(s, Len(s) + 1, Len(s)) = <<>>
<1>1. Len(s) \in Nat
  OBVIOUS
<1> QED BY <1>1, SubSeqFull, SubSeqEmpty

\* The two parts of a cut sequence.
LEMMA Split ==
    ASSUME NEW C, NEW s \in Seq(C), NEW n, NEW p, NEW q, CutAt(s, n, p, q)
    PROVE  /\ p \in Seq(C) /\ Len(p) = n /\ \A i \in 1 .. n : p[i] = s[i]
           /\ q \in Seq(C) /\ Len(q) = Len(s) - n /\ \A i \in 1 .. Len(q) : n + i \in 1 .. Len(s) /\ q[i] = s[n + i]
           /\ p \o q = s
<1>1. /\ Len(s) \in Nat /\ n \in 1 .. Len(s) - 1
      /\ p = SubSeq(s, 1, n) /\ q = SubSeq(s, n + 1, Len(s))
  BY DEF CutAt
<1>2. p \in Seq(C) /\ Len(p) = n /\ \A i \in 1 .. n : p[i] = s[i]
  BY <1>1
<1>3. q \in Seq(C) /\ Len(q) = Len(s) - n /\ \A i \in 1 .. Len(q) : q[i] = s[n + i]
  BY <1>1
<1>4. \A i \in 1 .. Len(q) : n + i \in 1 .. Len(s)
  BY <1>1, <1>3
<1>5. p \o q = s
  <2>1. 1 \in 1 .. Len(s) + 1 /\ n \in 1 - 1 .. Len(s) /\ Len(s) \in n .. Len(s)
    BY <1>1
  <2>2. SubSeq(s, 1, n) \o SubSeq(s, n + 1, Len(s)) = SubSeq(s, 1, Len(s))
    BY <1>1, <2>1, ConcatAdjacentSubSeq
  <2> QED BY <1>1, <2>2, Whole
<1> QED BY <1>2, <1>3, <1>4, <1>5

\* A text without an empty line stays in the buffer.
LEMMA NoEmptyLine ==
    ASSUME NEW C, NEW text \in Seq(C), \A i \in 1 .. Len(text) - 1 : text[i] # LF \/ text[i + 1] # LF
    PROVE  CutFrames(text) = Uncut(text)
<1> DEFINE empty == {i \in 1 .. (Len(text) - 1) : text[i] = LF /\ text[i + 1] = LF}
<1>1. empty = {}
  OBVIOUS
<1> QED BY <1>1 DEF CutFrames, Uncut

\* With the line ends CR LF, wherever the frame is cut: the beginning waits in
\* the buffer, and normalised again with the rest it is the normalised frame.
LEMMA CrlfReads ==
    ASSUME NEW C, NEW e, NEW d, Alphabet(C, e, d), NEW n, NEW p, NEW q, CutAt(Crlf(e, d), n, p, q)
    PROVE  /\ Paired(p) # <<>>
           /\ CutFrames(Paired(p)) = Uncut(Paired(p))
           /\ Paired(Paired(p) \o q) = Plain(e, d)
<1> e \in C /\ d \in C /\ CR \in C /\ LF \in C
  BY DEF Alphabet
<1>0. LF # CR /\ e \notin {CR, LF} /\ d \notin {CR, LF}
  BY Letters DEF Alphabet
<1> DEFINE L == <<e, CR, LF, d, CR, LF, CR, LF>>
<1>8. n \in 1 .. 7 /\ p = SubSeq(L, 1, n) /\ q = SubSeq(L, n + 1, 8)
  <2>1. Len(L) = 8
    OBVIOUS
  <2> QED BY <2>1 DEF CutAt, Crlf
<1>1. CASE n = 1
  <2> DEFINE t == <<e>>
             u == t \o <<CR, LF, d, CR, LF, CR, LF>>
  <2>1. p \in Seq(C) /\ Len(p) = 1 /\ p[1] = e
    BY <1>1, <1>8
  <2>2. q \in Seq(C) /\ Len(q) = 7 /\ q[1] = CR /\ q[2] = LF /\ q[3] = d /\ q[4] = CR /\ q[5] = LF /\ q[6] = CR /\ q[7] = LF
    BY <1>1, <1>8
  <2>3. t \in Seq(C) /\ Len(t) = 1 /\ t[1] = e
    OBVIOUS
  <2>4. u \in Seq(C) /\ Len(u) = 8 /\ u[1] = e /\ u[2] = CR /\ u[3] = LF /\ u[4] = d /\ u[5] = CR /\ u[6] = LF /\ u[7] = CR /\ u[8] = LF
    OBVIOUS
  <2>5. p = <<e>> /\ q = <<CR, LF, d, CR, LF, CR, LF>>
    BY <2>1, <2>2, Spelt
  <2>6. Paired(p) = t
    <3>1. t \in Seq(C) /\ \A k \in 1 .. Len(t) : ~StartsPair(t, k)
      BY <1>0, <2>3 DEF StartsPair
    <3> QED BY <2>5, <3>1, NoPairs
  <2> HIDE DEF u
  <2>7. u = <<e, CR, LF, d, CR, LF, CR, LF>>
    BY <2>4, Spelt
  <2>8. Paired(u) = <<e, LF, d, LF, LF>>
    BY <2>7, PairedTexts
  <2>9. t # <<>> /\ CutFrames(t) = Uncut(t)
    <3>1. \A i \in 1 .. Len(t) - 1 : t[i] # LF \/ t[i + 1] # LF
      BY <1>0, <2>3
    <3>2. t \in Seq(C) /\ t # <<>>
      BY <2>3
    <3> HIDE DEF t
    <3> QED BY <3>1, <3>2, NoEmptyLine
  <2>10. t \o q = u
    BY <2>5 DEF u
  <2> HIDE DEF t
  <2>11. Paired(p) # <<>> /\ CutFrames(Paired(p)) = Uncut(Paired(p)) /\ Paired(Paired(p) \o q) = <<e, LF, d, LF, LF>>
    BY <2>6, <2>8, <2>9, <2>10
  <2> QED BY <2>11 DEF Plain
<1>2. CASE n = 2
  <2> DEFINE t == <<e, CR>>
             u == t \o <<LF, d, CR, LF, CR, LF>>
  <2>1. p \in Seq(C) /\ Len(p) = 2 /\ p[1] = e /\ p[2] = CR
    BY <1>2, <1>8
  <2>2. q \in Seq(C) /\ Len(q) = 6 /\ q[1] = LF /\ q[2] = d /\ q[3] = CR /\ q[4] = LF /\ q[5] = CR /\ q[6] = LF
    BY <1>2, <1>8
  <2>3. t \in Seq(C) /\ Len(t) = 2 /\ t[1] = e /\ t[2] = CR
    OBVIOUS
  <2>4. u \in Seq(C) /\ Len(u) = 8 /\ u[1] = e /\ u[2] = CR /\ u[3] = LF /\ u[4] = d /\ u[5] = CR /\ u[6] = LF /\ u[7] = CR /\ u[8] = LF
    OBVIOUS
  <2>5. p = <<e, CR>> /\ q = <<LF, d, CR, LF, CR, LF>>
    BY <2>1, <2>2, Spelt
  <2>6. Paired(p) = t
    <3>1. t \in Seq(C) /\ \A k \in 1 .. Len(t) : ~StartsPair(t, k)
      BY <1>0, <2>3 DEF StartsPair
    <3> QED BY <2>5, <3>1, NoPairs
  <2> HIDE DEF u
  <2>7. u = <<e, CR, LF, d, CR, LF, CR, LF>>
    BY <2>4, Spelt
  <2>8. Paired(u) = <<e, LF, d, LF, LF>>
    BY <2>7, PairedTexts
  <2>9. t # <<>> /\ CutFrames(t) = Uncut(t)
    <3>1. \A i \in 1 .. Len(t) - 1 : t[i] # LF \/ t[i + 1] # LF
      BY <1>0, <2>3
    <3>2. t \in Seq(C) /\ t # <<>>
      BY <2>3
    <3> HIDE DEF t
    <3> QED BY <3>1, <3>2, NoEmptyLine
  <2>10. t \o q = u
    BY <2>5 DEF u
  <2> HIDE DEF t
  <2>11. Paired(p) # <<>> /\ CutFrames(Paired(p)) = Uncut(Paired(p)) /\ Paired(Paired(p) \o q) = <<e, LF, d, LF, LF>>
    BY <2>6, <2>8, <2>9, <2>10
  <2> QED BY <2>11 DEF Plain
<1>3. CASE n = 3
  <2> DEFINE t == <<e, LF>>
             u == t \o <<d, CR, LF, CR, LF>>
  <2>1. p \in Seq(C) /\ Len(p) = 3 /\ p[1] = e /\ p[2] = CR /\ p[3] = LF
    BY <1>3, <1>8
  <2>2. q \in Seq(C) /\ Len(q) = 5 /\ q[1] = d /\ q[2] = CR /\ q[3] = LF /\ q[4] = CR /\ q[5] = LF
    BY <1>3, <1>8
  <2>3. t \in Seq(C) /\ Len(t) = 2 /\ t[1] = e /\ t[2] = LF
    OBVIOUS
  <2>4. u \in Seq(C) /\ Len(u) = 7 /\ u[1] = e /\ u[2] = LF /\ u[3] = d /\ u[4] = CR /\ u[5] = LF /\ u[6] = CR /\ u[7] = LF
    OBVIOUS
  <2>5. p = <<e, CR, LF>> /\ q = <<d, CR, LF, CR, LF>>
    BY <2>1, <2>2, Spelt
  <2>6. Paired(p) = t
    BY <2>5, PairedTexts
  <2> HIDE DEF u
  <2>7. u = <<e, LF, d, CR, LF, CR, LF>>
    BY <2>4, Spelt
  <2>8. Paired(u) = <<e, LF, d, LF, LF>>
    BY <2>7, PairedTexts
  <2>9. t # <<>> /\ CutFrames(t) = Uncut(t)
    <3>1. \A i \in 1 .. Len(t) - 1 : t[i] # LF \/ t[i + 1] # LF
      BY <1>0, <2>3
    <3>2. t \in Seq(C) /\ t # <<>>
      BY <2>3
    <3> HIDE DEF t
    <3> QED BY <3>1, <3>2, NoEmptyLine
  <2>10. t \o q = u
    BY <2>5 DEF u
  <2> HIDE DEF t
  <2>11. Paired(p) # <<>> /\ CutFrames(Paired(p)) = Uncut(Paired(p)) /\ Paired(Paired(p) \o q) = <<e, LF, d, LF, LF>>
    BY <2>6, <2>8, <2>9, <2>10
  <2> QED BY <2>11 DEF Plain
<1>4. CASE n = 4
  <2> DEFINE t == <<e, LF, d>>
             u == t \o <<CR, LF, CR, LF>>
  <2>1. p \in Seq(C) /\ Len(p) = 4 /\ p[1] = e /\ p[2] = CR /\ p[3] = LF /\ p[4] = d
    BY <1>4, <1>8
  <2>2. q \in Seq(C) /\ Len(q) = 4 /\ q[1] = CR /\ q[2] = LF /\ q[3] = CR /\ q[4] = LF
    BY <1>4, <1>8
  <2>3. t \in Seq(C) /\ Len(t) = 3 /\ t[1] = e /\ t[2] = LF /\ t[3] = d
    OBVIOUS
  <2>4. u \in Seq(C) /\ Len(u) = 7 /\ u[1] = e /\ u[2] = LF /\ u[3] = d /\ u[4] = CR /\ u[5] = LF /\ u[6] = CR /\ u[7] = LF
    OBVIOUS
  <2>5. p = <<e, CR, LF, d>> /\ q = <<CR, LF, CR, LF>>
    BY <2>1, <2>2, Spelt
  <2>6. Paired(p) = t
    BY <2>5, PairedTexts
  <2> HIDE DEF u
  <2>7. u = <<e, LF, d, CR, LF, CR, LF>>
    BY <2>4, Spelt
  <2>8. Paired(u) = <<e, LF, d, LF, LF>>
    BY <2>7, PairedTexts
  <2>9. t # <<>> /\ CutFrames(t) = Uncut(t)
    <3>1. \A i \in 1 .. Len(t) - 1 : t[i] # LF \/ t[i + 1] # LF
      BY <1>0, <2>3
    <3>2. t \in Seq(C) /\ t # <<>>
      BY <2>3
    <3> HIDE DEF t
    <3> QED BY <3>1, <3>2, NoEmptyLine
  <2>10. t \o q = u
    BY <2>5 DEF u
  <2> HIDE DEF t
  <2>11. Paired(p) # <<>> /\ CutFrames(Paired(p)) = Uncut(Paired(p)) /\ Paired(Paired(p) \o q) = <<e, LF, d, LF, LF>>
    BY <2>6, <2>8, <2>9, <2>10
  <2> QED BY <2>11 DEF Plain
<1>5. CASE n = 5
  <2> DEFINE t == <<e, LF, d, CR>>
             u == t \o <<LF, CR, LF>>
  <2>1. p \in Seq(C) /\ Len(p) = 5 /\ p[1] = e /\ p[2] = CR /\ p[3] = LF /\ p[4] = d /\ p[5] = CR
    BY <1>5, <1>8
  <2>2. q \in Seq(C) /\ Len(q) = 3 /\ q[1] = LF /\ q[2] = CR /\ q[3] = LF
    BY <1>5, <1>8
  <2>3. t \in Seq(C) /\ Len(t) = 4 /\ t[1] = e /\ t[2] = LF /\ t[3] = d /\ t[4] = CR
    OBVIOUS
  <2>4. u \in Seq(C) /\ Len(u) = 7 /\ u[1] = e /\ u[2] = LF /\ u[3] = d /\ u[4] = CR /\ u[5] = LF /\ u[6] = CR /\ u[7] = LF
    OBVIOUS
  <2>5. p = <<e, CR, LF, d, CR>> /\ q = <<LF, CR, LF>>
    BY <2>1, <2>2, Spelt
  <2>6. Paired(p) = t
    BY <2>5, PairedTexts
  <2> HIDE DEF u
  <2>7. u = <<e, LF, d, CR, LF, CR, LF>>
    BY <2>4, Spelt
  <2>8. Paired(u) = <<e, LF, d, LF, LF>>
    BY <2>7, PairedTexts
  <2>9. t # <<>> /\ CutFrames(t) = Uncut(t)
    <3>1. \A i \in 1 .. Len(t) - 1 : t[i] # LF \/ t[i + 1] # LF
      BY <1>0, <2>3
    <3>2. t \in Seq(C) /\ t # <<>>
      BY <2>3
    <3> HIDE DEF t
    <3> QED BY <3>1, <3>2, NoEmptyLine
  <2>10. t \o q = u
    BY <2>5 DEF u
  <2> HIDE DEF t
  <2>11. Paired(p) # <<>> /\ CutFrames(Paired(p)) = Uncut(Paired(p)) /\ Paired(Paired(p) \o q) = <<e, LF, d, LF, LF>>
    BY <2>6, <2>8, <2>9, <2>10
  <2> QED BY <2>11 DEF Plain
<1>6. CASE n = 6
  <2> DEFINE t == <<e, LF, d, LF>>
             u == t \o <<CR, LF>>
  <2>1. p \in Seq(C) /\ Len(p) = 6 /\ p[1] = e /\ p[2] = CR /\ p[3] = LF /\ p[4] = d /\ p[5] = CR /\ p[6] = LF
    BY <1>6, <1>8
  <2>2. q \in Seq(C) /\ Len(q) = 2 /\ q[1] = CR /\ q[2] = LF
    BY <1>6, <1>8
  <2>3. t \in Seq(C) /\ Len(t) = 4 /\ t[1] = e /\ t[2] = LF /\ t[3] = d /\ t[4] = LF
    OBVIOUS
  <2>4. u \in Seq(C) /\ Len(u) = 6 /\ u[1] = e /\ u[2] = LF /\ u[3] = d /\ u[4] = LF /\ u[5] = CR /\ u[6] = LF
    OBVIOUS
  <2>5. p = <<e, CR, LF, d, CR, LF>> /\ q = <<CR, LF>>
    BY <2>1, <2>2, Spelt
  <2>6. Paired(p) = t
    BY <2>5, PairedTexts
  <2> HIDE DEF u
  <2>7. u = <<e, LF, d, LF, CR, LF>>
    BY <2>4, Spelt
  <2>8. Paired(u) = <<e, LF, d, LF, LF>>
    BY <2>7, PairedTexts
  <2>9. t # <<>> /\ CutFrames(t) = Uncut(t)
    <3>1. \A i \in 1 .. Len(t) - 1 : t[i] # LF \/ t[i + 1] # LF
      BY <1>0, <2>3
    <3>2. t \in Seq(C) /\ t # <<>>
      BY <2>3
    <3> HIDE DEF t
    <3> QED BY <3>1, <3>2, NoEmptyLine
  <2>10. t \o q = u
    BY <2>5 DEF u
  <2> HIDE DEF t
  <2>11. Paired(p) # <<>> /\ CutFrames(Paired(p)) = Uncut(Paired(p)) /\ Paired(Paired(p) \o q) = <<e, LF, d, LF, LF>>
    BY <2>6, <2>8, <2>9, <2>10
  <2> QED BY <2>11 DEF Plain
<1>7. CASE n = 7
  <2> DEFINE t == <<e, LF, d, LF, CR>>
             u == t \o <<LF>>
  <2>1. p \in Seq(C) /\ Len(p) = 7 /\ p[1] = e /\ p[2] = CR /\ p[3] = LF /\ p[4] = d /\ p[5] = CR /\ p[6] = LF /\ p[7] = CR
    BY <1>7, <1>8
  <2>2. q \in Seq(C) /\ Len(q) = 1 /\ q[1] = LF
    BY <1>7, <1>8
  <2>3. t \in Seq(C) /\ Len(t) = 5 /\ t[1] = e /\ t[2] = LF /\ t[3] = d /\ t[4] = LF /\ t[5] = CR
    OBVIOUS
  <2>4. u \in Seq(C) /\ Len(u) = 6 /\ u[1] = e /\ u[2] = LF /\ u[3] = d /\ u[4] = LF /\ u[5] = CR /\ u[6] = LF
    OBVIOUS
  <2>5. p = <<e, CR, LF, d, CR, LF, CR>> /\ q = <<LF>>
    BY <2>1, <2>2, Spelt
  <2>6. Paired(p) = t
    BY <2>5, PairedTexts
  <2> HIDE DEF u
  <2>7. u = <<e, LF, d, LF, CR, LF>>
    BY <2>4, Spelt
  <2>8. Paired(u) = <<e, LF, d, LF, LF>>
    BY <2>7, PairedTexts
  <2>9. t # <<>> /\ CutFrames(t) = Uncut(t)
    <3>1. \A i \in 1 .. Len(t) - 1 : t[i] # LF \/ t[i + 1] # LF
      BY <1>0, <2>3
    <3>2. t \in Seq(C) /\ t # <<>>
      BY <2>3
    <3> HIDE DEF t
    <3> QED BY <3>1, <3>2, NoEmptyLine
  <2>10. t \o q = u
    BY <2>5 DEF u
  <2> HIDE DEF t
  <2>11. Paired(p) # <<>> /\ CutFrames(Paired(p)) = Uncut(Paired(p)) /\ Paired(Paired(p) \o q) = <<e, LF, d, LF, LF>>
    BY <2>6, <2>8, <2>9, <2>10
  <2> QED BY <2>11 DEF Plain
<1> QED BY <1>8, <1>1, <1>2, <1>3, <1>4, <1>5, <1>6, <1>7

\* What a client's parser makes of a chunk behind its buffer.
Buffers(client, text, chunk) == IF client = "cli" THEN CliBuffer(text, chunk) ELSE WebBuffer(text, chunk)

\* The same with line feeds only, for both parsers.
LEMMA LfWhole ==
    ASSUME NEW C, NEW e, NEW d, Alphabet(C, e, d), NEW L, L = Plain(e, d)
    PROVE  /\ L \in Seq(C) /\ Len(L) = 5 /\ L[1] = e /\ L[2] = LF /\ L[3] = d /\ L[4] = LF /\ L[5] = LF
           /\ \A k \in 1 .. 5 : L[k] # CR
           /\ Paired(L) = L /\ LinesEnded(L) = L
<1> e \in C /\ d \in C /\ CR \in C /\ LF \in C
  BY DEF Alphabet
<1>1. LF # CR /\ e \notin {CR, LF} /\ d \notin {CR, LF}
  BY Letters DEF Alphabet
<1>2. L \in Seq(C) /\ Len(L) = 5 /\ L[1] = e /\ L[2] = LF /\ L[3] = d /\ L[4] = LF /\ L[5] = LF
  BY DEF Plain
<1>3. \A k \in 1 .. 5 : L[k] # CR
  BY <1>1, <1>2
<1>4. Paired(L) = L /\ LinesEnded(L) = L
  BY <1>2, <1>3, PlainText
<1> QED BY <1>2, <1>3, <1>4

\* A frame with LF line ends, cut in two.
LEMMA LfReads ==
    ASSUME NEW C, NEW e, NEW d, Alphabet(C, e, d), NEW n, NEW p, NEW q, CutAt(Plain(e, d), n, p, q)
    PROVE  /\ p # <<>> /\ CutFrames(p) = Uncut(p) /\ p \o q = Plain(e, d)
           /\ Paired(p) = p /\ LinesEnded(p) = p /\ LinesEnded(q) = q
<1> PICK L : L = Plain(e, d)
  OBVIOUS
<1>0. LF # CR /\ e \notin {CR, LF} /\ d \notin {CR, LF}
  BY Letters DEF Alphabet
<1>1. /\ L \in Seq(C) /\ Len(L) = 5 /\ L[1] = e /\ L[2] = LF /\ L[3] = d /\ L[4] = LF /\ L[5] = LF
      /\ \A k \in 1 .. 5 : L[k] # CR
  BY LfWhole
<1>2. L \in Seq(C)
  BY <1>1
<1>3. /\ p \in Seq(C) /\ Len(p) = n /\ \A i \in 1 .. n : p[i] = L[i]
      /\ q \in Seq(C) /\ Len(q) = Len(L) - n /\ \A i \in 1 .. Len(q) : n + i \in 1 .. Len(L) /\ q[i] = L[n + i]
      /\ p \o q = L
  BY <1>2, Split
<1>4. n \in 1 .. 4
  BY <1>1 DEF CutAt
<1>5. \A k \in 1 .. Len(p) : p[k] # CR
  <2>1. \A k \in 1 .. Len(p) : k \in 1 .. 5
    BY <1>3, <1>4
  <2> QED BY <1>1, <1>3, <2>1
<1>6. \A k \in 1 .. Len(q) : q[k] # CR
  <2>1. \A k \in 1 .. Len(q) : n + k \in 1 .. 5 /\ q[k] = L[n + k]
    BY <1>1, <1>3
  <2> QED BY <1>1, <2>1
<1>7. \A i \in 1 .. Len(p) - 1 : p[i] # LF \/ p[i + 1] # LF
  <2>1. ASSUME NEW i \in 1 .. Len(p) - 1 PROVE i \in {1, 2, 3} /\ p[i] = L[i] /\ p[i + 1] = L[i + 1]
    <3>1. i \in 1 .. n /\ i + 1 \in 1 .. n /\ i \in {1, 2, 3}
      BY <1>3, <1>4
    <3> QED BY <1>3, <3>1
  <2>2. ASSUME NEW i \in {1, 2, 3} PROVE L[i] # LF \/ L[i + 1] # LF
    BY <1>0, <1>1
  <2> QED BY <2>1, <2>2
<1>8. p # <<>>
  BY <1>3, <1>4
<1>9. CutFrames(p) = Uncut(p)
  <2>1. p \in Seq(C)
    BY <1>3
  <2> QED BY <1>7, <2>1, NoEmptyLine
<1>10. Paired(p) = p /\ LinesEnded(p) = p
  <2>1. p \in Seq(C)
    BY <1>3
  <2> QED BY <1>5, <2>1, PlainText
<1>11. LinesEnded(q) = q
  <2>1. q \in Seq(C)
    BY <1>3
  <2> QED BY <1>6, <2>1, PlainText
<1> QED BY <1>3, <1>8, <1>9, <1>10, <1>11

\* What the buffer becomes is one record.
LEMMA BuffersAre ==
    ASSUME NEW t, NEW u
    PROVE  /\ Buffers("cli", t, u) = {CutFrames(Paired(t \o u))}
           /\ Buffers("web", t, u) = {CutFrames(t \o LinesEnded(u))}
<1>1. \A v : {Paired(w) : w \in {v}} = {Paired(v)} /\ {LinesEnded(w) : w \in {v}} = {LinesEnded(v)}
             /\ {CutFrames(w) : w \in {v}} = {CutFrames(v)} /\ {t \o w : w \in {v}} = {t \o v}
  OBVIOUS
<1> DEFINE P == {Paired(w) : w \in {t \o u}}
           Q == {LinesEnded(w) : w \in {u}}
           V == {t \o w : w \in Q}
<1>2. CliBuffer(t, u) = {CutFrames(w) : w \in P} /\ WebBuffer(t, u) = {CutFrames(w) : w \in V}
  BY DEF CliBuffer, WebBuffer
<1>3. P = {Paired(t \o u)}
  BY <1>1
<1>4. Q = {LinesEnded(u)}
  BY <1>1
<1>5. V = {t \o LinesEnded(u)}
  BY <1>1, <1>4
<1> HIDE DEF P, Q, V
<1>6. CliBuffer(t, u) = {CutFrames(Paired(t \o u))} /\ WebBuffer(t, u) = {CutFrames(t \o LinesEnded(u))}
  BY <1>1, <1>2, <1>3, <1>5
<1> QED BY <1>6 DEF Buffers

\* However a frame L is cut in two, the parser keeps what it made of the
\* beginning p and reads the frame with the rest q.
ReadsIn(client, x, y, L, p, q) ==
    /\ Read(client, p) # <<>>
    /\ Buffers(client, <<>>, p) = {Uncut(Read(client, p))}
    /\ Buffers(client, Read(client, p), q) = {Framed(x, y)}

IsLine(L, w, x, y) == L = Wire(x, y, w.eol)

LineReads(client, x, y, L) ==
    /\ \E C : L \in Seq(C)
    /\ Len(L) \in Nat /\ Len(L) > 1
    /\ Buffers(client, <<>>, L) = {Framed(x, y)}
    /\ \A n, p, q : CutAt(L, n, p, q) => ReadsIn(client, x, y, L, p, q)

\* Both ways to write a frame are read back, cut or whole.
LEMMA SpelledReads ==
    ASSUME NEW w \in Worlds, NEW x, NEW y, NEW C, NEW e, NEW d, Spell(C, e, d, x, y),
           NEW L, IsLine(L, w, x, y)
    PROVE  LineReads(w.client, x, y, L)
<1> DEFINE F == Plain(e, d)
           G == Crlf(e, d)
<1>0. Alphabet(C, e, d)
  BY DEF Spell
<1>2. CutFrames(F) = Framed(x, y)
  <2>1. CutFrames(Plain(e, d)) = Framed(x, y)
    BY FrameCut
  <2> QED BY <2>1
<1>3. Wire(x, y, <<LF>>) = F /\ Wire(x, y, <<CR, LF>>) = G
  BY WireIs
<1>4. w.client \in {"cli", "web"} /\ (w.eol = <<LF>> \/ (w.eol = <<CR, LF>> /\ w.client = "cli"))
  BY WorldsAssumption
<1>5. F \in Seq(C) /\ Len(F) = 5 /\ G \in Seq(C) /\ Len(G) = 8
  <2>1. e \in C /\ d \in C /\ CR \in C /\ LF \in C
    BY <1>0 DEF Alphabet
  <2> QED BY <2>1 DEF Plain, Crlf
<1>6. Paired(F) = F /\ LinesEnded(F) = F /\ Paired(G) = F
  <2>1. Paired(F) = F /\ LinesEnded(F) = F
    BY <1>0, LfWhole
  <2>2. Paired(G) = F
    BY <1>0, PairedTexts DEF Plain, Crlf
  <2> QED BY <2>1, <2>2
<1>7. ASSUME NEW n, NEW p, NEW q, CutAt(F, n, p, q)
      PROVE  /\ p # <<>> /\ CutFrames(p) = Uncut(p) /\ p \o q = F
             /\ Paired(p) = p /\ LinesEnded(p) = p /\ LinesEnded(q) = q
  BY <1>0, <1>7, LfReads
<1>8. ASSUME NEW n, NEW p, NEW q, CutAt(G, n, p, q)
      PROVE  Paired(p) # <<>> /\ CutFrames(Paired(p)) = Uncut(Paired(p)) /\ Paired(Paired(p) \o q) = F
  BY <1>0, <1>8, CrlfReads
<1>9. L = F \/ (L = G /\ w.client = "cli")
  BY <1>3, <1>4 DEF IsLine
<1> HIDE DEF F, G
<1>10. L \in Seq(C) /\ Len(L) \in Nat /\ Len(L) > 1
  <2>1. L \in Seq(C) /\ (Len(L) = 5 \/ Len(L) = 8)
    <3> HIDE DEF IsLine
    <3> QED BY <1>5, <1>9, Zenon
  <2>2. Len(L) \in Nat /\ Len(L) > 1
    <3> DEFINE k == Len(L)
    <3>1. k = 5 \/ k = 8
      BY <2>1
    <3> HIDE DEF k
    <3>2. k \in Nat /\ k > 1
      BY <3>1
    <3> QED BY <3>2 DEF k
  <2> QED BY <2>1, <2>2
<1>11. <<>> \o L = L
  BY <1>10, ConcatEmptySeq
<1>12. Buffers(w.client, <<>>, L) = {Framed(x, y)}
  <2>1. CASE w.client = "cli"
    <3>1. Buffers("cli", <<>>, L) = {CutFrames(Paired(<<>> \o L))}
      BY BuffersAre
    <3>2. Paired(L) = F
      BY <1>6, <1>9
    <3> QED BY <1>2, <1>11, <2>1, <3>1, <3>2
  <2>2. CASE w.client = "web"
    <3>1. Buffers("web", <<>>, L) = {CutFrames(<<>> \o LinesEnded(L))}
      BY BuffersAre
    <3>2. L = F /\ LinesEnded(L) = L
      BY <1>6, <1>9, <2>2
    <3> QED BY <1>2, <1>11, <2>2, <3>1, <3>2
  <2> QED BY <1>4, <2>1, <2>2
<1>13. ASSUME NEW n, NEW p, NEW q, CutAt(L, n, p, q)
       PROVE  ReadsIn(w.client, x, y, L, p, q)
  <2>1. <<>> \o p = p
    <3>1. p \in Seq(C)
      BY <1>10, <1>13, Split
    <3> QED BY <3>1, ConcatEmptySeq
  <2>2. CASE L = F
    <3>1. /\ p # <<>> /\ CutFrames(p) = Uncut(p) /\ p \o q = F
          /\ Paired(p) = p /\ LinesEnded(p) = p /\ LinesEnded(q) = q
      BY <1>7, <1>13, <2>2
    <3>2. CASE w.client = "cli"
      <4>1. Buffers("cli", <<>>, p) = {CutFrames(Paired(<<>> \o p))} /\ Buffers("cli", p, q) = {CutFrames(Paired(p \o q))}
        BY BuffersAre
      <4>2. Read("cli", p) = p
        BY <3>1 DEF Read
      <4> QED BY <1>2, <1>6, <2>1, <2>2, <3>1, <3>2, <4>1, <4>2 DEF ReadsIn
    <3>3. CASE w.client = "web"
      <4>1. Buffers("web", <<>>, p) = {CutFrames(<<>> \o LinesEnded(p))} /\ Buffers("web", p, q) = {CutFrames(p \o LinesEnded(q))}
        BY BuffersAre
      <4>2. Read("web", p) = p
        BY <3>1 DEF Read
      <4> QED BY <1>2, <1>6, <2>1, <2>2, <3>1, <3>3, <4>1, <4>2 DEF ReadsIn
    <3> QED BY <1>4, <3>2, <3>3
  <2>3. CASE L = G /\ w.client = "cli"
    <3>1. Paired(p) # <<>> /\ CutFrames(Paired(p)) = Uncut(Paired(p)) /\ Paired(Paired(p) \o q) = F
      BY <1>8, <1>13, <2>3
    <3>2. Buffers("cli", <<>>, p) = {CutFrames(Paired(<<>> \o p))}
          /\ Buffers("cli", Paired(p), q) = {CutFrames(Paired(Paired(p) \o q))}
      BY BuffersAre
    <3>3. Read("cli", p) = Paired(p)
      BY DEF Read
    <3> QED BY <1>2, <2>1, <2>3, <3>1, <3>2, <3>3 DEF ReadsIn
  <2> QED BY <1>9, <2>2, <2>3
<1> QED BY <1>10, <1>12, <1>13 DEF LineReads

\* What the parsed frames are.
LEMMA FrameReads ==
    ASSUME NEW w \in Worlds, NEW x, NEW y, NEW L, IsLine(L, w, x, y)
    PROVE  LineReads(w.client, x, y, L)
<1> PICK e : e = <<"event", x>>
  OBVIOUS
<1> PICK d : d = <<"data", y>>
  OBVIOUS
<1> PICK C : C = {e, d, CR, LF}
  OBVIOUS
<1>1. Spell(C, e, d, x, y)
  <2>1. e \notin {CR, LF} /\ d \notin {CR, LF}
    BY Letters
  <2> QED BY <2>1 DEF Spell, Alphabet
<1> QED BY <1>1, SpelledReads

\* What is read of a whole frame and of a beginning.
LEMMA ParsedIs ==
    ASSUME NEW x, NEW y
    PROVE  /\ Frames(Framed(x, y).raw) = <<[event |-> x, job |-> y]>> /\ Framed(x, y).rest = <<>>
           /\ \A t : Frames(Uncut(t).raw) = <<>> /\ Uncut(t).rest = t
<1> PICK e : e = <<"event", x>>
  OBVIOUS
<1> PICK d : d = <<"data", y>>
  OBVIOUS
<1> PICK C : C = {e, d, CR, LF}
  OBVIOUS
<1>1. Spell(C, e, d, x, y)
  <2>1. e \notin {CR, LF} /\ d \notin {CR, LF}
    BY Letters
  <2> QED BY <2>1 DEF Spell, Alphabet
<1>2. Frames(<<>>) = <<>>
  BY DEF Frames
<1>3. \A t : Uncut(t).raw = <<>> /\ Uncut(t).rest = t
  BY DEF Uncut
<1> QED BY <1>1, <1>2, <1>3, FrameIs

-----------------------------------------------------------------------------
(* The clients' invariant.                                                 *)

\* The order of the statuses.
LEMMA Ranks ==
    /\ Rank("absent") = 0 /\ Rank("queued") = 1 /\ Rank("running") = 2
    /\ \A s \in Terminal : Rank(s) = 3
    /\ \A s : Rank(s) \in 0 .. 3
BY DEF Rank, Terminal

\* Who the client is and which job it follows.
LEMMA Following ==
    ASSUME TypeOK, ClientTypeOK
    PROVE  /\ me \in Reader /\ me \in {"cli", "web"} /\ job \in Job
           /\ mem[job] \in Snapshot /\ row[job] \in Snapshot
BY WorldsAssumption DEF TypeOK, ClientTypeOK, me, job

\* What the live job and its row are to a client.
LEMMA CopiesOf ==
    ASSUME IInv, CInv
    PROVE  /\ InMemory(job) => pc[job] # Unborn /\ mem[job].status \in Had
           /\ row[job] \in Copies /\ (row[job] # Absent => pc[job] # Unborn)
           /\ \A s \in Had : InMemory(job) => /\ Rank(s) =< Rank(mem[job].status)
                                              /\ s \in Terminal => s = mem[job].status
                                              /\ [mem[job] EXCEPT !.status = s] \in Copies
           /\ Absent \in Copies /\ "absent" \in Had /\ Nothing \in Events
<1> USE DEF IInv, CInv
<1>1. /\ job \in Job /\ mem[job] \in Snapshot /\ row[job] \in Snapshot
      /\ mem[job].status \in Status /\ row[job].status \in Status
  BY Following DEF Snapshot
<1>2. InMemory(job) => pc[job] # Unborn
  BY <1>1 DEF MemoryAt, StatusesAt, InMemory, Unborn, Dead, Terminal
<1>3. InMemory(job) => mem[job].status \in Had
  <2>1. Rank(mem[job].status) =< Rank(mem[job].status)
    BY Ranks
  <2> QED BY <1>1, <1>2, <2>1 DEF Had
<1>4. row[job] # Absent => pc[job] # Unborn
  BY <1>1 DEF Complete
<1>5. row[job] \in Copies
  <2>1. row[job].status = "succeeded" => row[job].result
    BY <1>1 DEF Complete
  <2>2. CASE row[job] = Absent
    BY <1>1, <2>1, <2>2, Constants DEF Copies, Had
  <2>3. CASE row[job] # Absent
    <3>1. InMemory(job) => /\ Rank(row[job].status) =< Rank(mem[job].status)
                           /\ row[job].status \in Terminal => row[job] = mem[job]
      <4>1. RowTrailsMemory
        BY TrailingRows
      <4> QED BY <1>1, <4>1 DEF RowTrailsMemory
    <3> QED BY <1>1, <1>4, <2>1, <2>3, <3>1 DEF Copies, Had
  <2> QED BY <2>2, <2>3
<1>6. ASSUME NEW s \in Had, InMemory(job)
      PROVE  /\ Rank(s) =< Rank(mem[job].status)
             /\ s \in Terminal => s = mem[job].status
             /\ [mem[job] EXCEPT !.status = s] \in Copies
  <2>1. /\ Rank(s) =< Rank(mem[job].status)
        /\ s \in Terminal => s = mem[job].status
    <3>1. CASE s = "absent"
      BY <3>1, Ranks DEF Terminal
    <3>2. CASE s # "absent"
      BY <1>6, <3>2 DEF Had
    <3> QED BY <3>1, <3>2
  <2>2. [mem[job] EXCEPT !.status = s] \in Snapshot
    BY <1>1 DEF Snapshot, Had
  <2>3. [mem[job] EXCEPT !.status = s].status = s /\ [mem[job] EXCEPT !.status = s].result = mem[job].result
    BY <1>1 DEF Snapshot
  <2>4. s = "succeeded" => mem[job].result
    BY <1>1, <2>1 DEF Complete, Terminal
  <2> QED BY <2>1, <2>2, <2>3, <2>4 DEF Copies
<1>7. Absent \in Copies /\ "absent" \in Had
  BY Constants DEF Copies, Had, Status
<1>8. Nothing \in Events
  BY <1>7 DEF Nothing, Events
<1> QED BY <1>2, <1>3, <1>4, <1>5, <1>6, <1>7, <1>8

\* Whatever has been copied stays a copy of the job, until and after a crash.
LEMMA CopiesStay ==
    ASSUME IInv, CInv, [Next]_vars, job' = job
    PROVE  /\ Had \subseteq Had' /\ Copies \subseteq Copies' /\ Events \subseteq Events'
           /\ pc[job] # Unborn => pc'[job] # Unborn
           /\ pc[job] # Unborn /\ InMemory(job)' => InMemory(job)
           /\ InMemory(job)' /\ mem[job].status \in Terminal => mem'[job].status = mem[job].status
           /\ ~InMemory(job) => \A s \in Had : InMemory(job)' => s = "absent"
<1> USE DEF IInv, CInv
<1>0. job \in Job
  BY Following
<1>1. pc[job] # Unborn => /\ pc'[job] # Unborn
                          /\ InMemory(job)' => /\ InMemory(job)
                                               /\ Rank(mem[job].status) =< Rank(mem'[job].status)
                                               /\ mem[job].status \in Terminal => mem'[job].status = mem[job].status
  BY <1>0, JobForward DEF InMemory
<1>2. mem[job].status \in Terminal => pc[job] # Unborn
  BY <1>0 DEF MemoryAt, StatusesAt, Terminal, Unborn, Dead
<1>3. Had \subseteq Had'
  <2> SUFFICES ASSUME NEW s \in Had, s # "absent" PROVE s \in Had'
    BY DEF Had
  <2>1. s \in Status /\ pc[job] # Unborn /\ (InMemory(job) => /\ Rank(s) =< Rank(mem[job].status)
                               /\ (s \in Terminal => s = mem[job].status))
    BY DEF Had
  <2>2. InMemory(job)' => Rank(s) =< Rank(mem'[job].status) /\ (s \in Terminal => s = mem'[job].status)
    <3>1. Rank(s) \in Nat /\ Rank(mem[job].status) \in Nat /\ Rank(mem'[job].status) \in Nat
      BY Ranks
    <3> QED BY <1>1, <2>1, <3>1
  <2> QED BY <1>1, <2>1, <2>2 DEF Had
<1>4. Copies \subseteq Copies'
  BY <1>3 DEF Copies
<1>5. Events \subseteq Events'
  BY <1>1, <1>4 DEF Events, InMemory
<1> QED BY <1>0, <1>1, <1>2, <1>3, <1>4, <1>5 DEF Had

\* Only a crash empties the memory.
LEMMA JobStays ==
    ASSUME IInv, [Next]_vars, server' # "down" \/ server' = server, NEW j \in Job, InMemory(j)
    PROVE  InMemory(j)'
<1> USE DEF IInv
<1>1. ~Crash
  BY DEF Crash
<1>2. CASE mem'[j] = mem[j]
  BY <1>2 DEF InMemory
<1>3. CASE Worker(j)
  BY <1>3, WorkerEffect DEF StatusesAt, InMemory, Unborn, Dead, Terminal
<1>4. CASE Submit(j)
  BY <1>4, Constants DEF Submit, InMemory, TypeOK
<1>5. mem'[j] = mem[j] \/ Worker(j) \/ Submit(j)
  <2>1. CASE UNCHANGED vars
    BY <2>1
  <2>2. CASE Environment \/ Boot
    BY <1>1, <2>2 DEF Environment, Boot, PostgresStops, PostgresStarts, LazyConnect, BootInitDb,
                      BootSweep, BootServe
  <2>3. ASSUME NEW k \in Job, k # j, Submit(k) PROVE mem'[j] = mem[j]
    BY <2>3 DEF Submit, TypeOK
  <2>4. ASSUME NEW k \in Job, PersistQueued(k) PROVE mem'[j] = mem[j]
    BY <2>4 DEF PersistQueued
  <2>5. ASSUME NEW k \in Job, k # j, Worker(k) PROVE mem'[j] = mem[j]
    BY <2>5, WorkerEffect
  <2> QED BY <2>1, <2>2, <2>3, <2>4, <2>5 DEF Next
<1> QED BY <1>2, <1>3, <1>4, <1>5

-----------------------------------------------------------------------------
(* What each kind of step does to the invariant.                           *)

\* The jobs, their rows and Postgres move; the streams and the clients do not.
LEMMA JobsMove ==
    ASSUME IInv, CInv, [Next]_vars, UNCHANGED <<streamVars, clientVars, world>>,
           server' # "down" \/ server' = server
    PROVE  CInv'
<1> USE DEF CInv
<1>1. me' = me /\ job' = job
  BY DEF me, job, streamVars
<1>2. Complete'
  BY CompleteStep
<1>3. ClientTypeOK' /\ OneClient'
  BY <1>1 DEF ClientTypeOK, OneClient, streamVars, clientVars, wireVars
<1>4. Connection'
  <2>1. Connected' <=> Connected
    BY <1>1 DEF Connected, clientVars
  <2>2. Flows' <=> Flows
    BY <1>1 DEF Flows, Line, clientVars, wireVars
  <2> QED BY <1>1, <2>1, <2>2 DEF Connection, streamVars, clientVars, wireVars
<1>5. /\ Had \subseteq Had' /\ Copies \subseteq Copies' /\ Events \subseteq Events'
      /\ pc[job] # Unborn => pc'[job] # Unborn
      /\ pc[job] # Unborn /\ InMemory(job)' => InMemory(job)
      /\ InMemory(job)' /\ mem[job].status \in Terminal => mem'[job].status = mem[job].status
  BY <1>1, CopiesStay
<1>6. InMemory(job) => InMemory(job)'
  BY <1>1, Following, JobStays DEF IInv, InMemory
<1>7. StreamReads'
  BY <1>1, <1>5, <1>6 DEF StreamReads, streamVars, clientVars, wireVars, InMemory, Streaming
<1>8. follow.at \in {"connect", "sse"} /\ InMemory(job)' => Rank(follow.last.status) =< Rank(sent.job.status)
  <2>1. CASE InMemory(job)
    BY <2>1 DEF Told
  <2>2. CASE ~InMemory(job) /\ InMemory(job)'
    <3>1. follow.last.status = "absent"
      <4>1. follow.last.status \in Had
        BY DEF Told, Copies
      <4> QED BY <1>1, <2>2, <4>1, CopiesStay
    <3> QED BY <3>1, Ranks
  <2> QED BY <2>1, <2>2
<1>9. Told'
  BY <1>1, <1>5, <1>8 DEF Told, clientVars, wireVars
<1>10. Toasts'
  <2>1. InMemory(job)' /\ pc[job] # Unborn /\ screen.told = mem[job].status /\ screen.told # "none"
            => mem'[job].status = screen.told
    BY <1>5 DEF ClientTypeOK, Terminal, Screens
  <2> QED BY <1>1, <1>5, <2>1 DEF Toasts, clientVars, InMemory
<1> QED BY <1>2, <1>3, <1>4, <1>7, <1>9, <1>10

\* A crash cuts the streams; what is on its way still arrives.
LEMMA CrashMoves ==
    ASSUME IInv, CInv, CrashCutsStreams, UNCHANGED <<clientVars, world>>
    PROVE  CInv'
<1> USE DEF CInv
<1>1. me' = me /\ job' = job /\ Crash
  BY DEF me, job, CrashCutsStreams
<1>2. [Next]_vars
  BY <1>1 DEF Next, Environment
<1>3. Complete'
  BY <1>2, CompleteStep
<1>4. spc'[me] = IF spc[me] \in Streaming THEN "off" ELSE spc[me]
  BY <1>1, Following DEF CrashCutsStreams, ClientTypeOK, IInv
<1>5. ClientTypeOK' /\ OneClient'
  <2>1. /\ spc' \in [Reader -> {"off", "poll", "type", "copyStatus", "copyRest", "done", "doneHistory"}]
        /\ rjob' \in [Reader -> Job] /\ rterm' \in [Reader -> BOOLEAN] /\ frame' \in [Reader -> Snapshot]
    BY Constants DEF CrashCutsStreams, ClientTypeOK
  <2> QED BY <1>1, <2>1 DEF ClientTypeOK, OneClient, clientVars, wireVars
<1>6. ~InMemory(job)'
  BY <1>1, Following DEF Crash, InMemory, Absent, IInv
<1>7. Connection'
  <2>1. Connected' <=> Connected
    BY <1>1 DEF Connected, clientVars
  <2>2. Flows' <=> Flows
    BY <1>1 DEF Flows, Line, clientVars, wireVars
  <2>3. spc[me] \in Streaming /\ follow.at = "connect" => Connected
    BY DEF Connection
  <2> QED BY <1>1, <1>4, <2>1, <2>2, <2>3 DEF Connection, Streaming, clientVars, wireVars
<1>8. /\ Had \subseteq Had' /\ Copies \subseteq Copies' /\ Events \subseteq Events'
      /\ pc[job] # Unborn => pc'[job] # Unborn
  BY <1>1, <1>2, CopiesStay
<1>9. StreamReads'
  <2>1. spc'[me] \notin Streaming
    BY <1>4 DEF Streaming
  <2>2. spc'[me] # "copyStatus" /\ spc'[me] # "copyRest"
    BY <2>1 DEF Streaming
  <2> QED BY <1>1, <2>1, <2>2 DEF StreamReads
<1>10. Told'
  BY <1>1, <1>6, <1>8 DEF Told, clientVars, wireVars
<1>11. Toasts'
  BY <1>1, <1>6, <1>8 DEF Toasts, clientVars
<1> QED BY <1>3, <1>5, <1>7, <1>9, <1>10, <1>11

\* The generator notices a change, chooses the event's type, copies the status.
LEMMA StreamMoves ==
    ASSUME IInv, CInv, ServerStreams, UNCHANGED world
    PROVE  CInv'
<1> USE DEF CInv
<1>1. me' = me /\ job' = job /\ UNCHANGED vars /\ UNCHANGED clientVars
  BY DEF me, job, ServerStreams, Notice, ChooseType, CopyStatus
<1>2. Complete'
  BY <1>1 DEF Complete
<1>3. me \in Reader /\ mem[job].status \in Status /\ mem[job] \in Snapshot
  BY Following DEF Snapshot, IInv
<1>4. ClientTypeOK' /\ OneClient'
  <2>1. \A r \in Reader, s \in Status : [frame EXCEPT ![r].status = s] \in [Reader -> Snapshot]
    <3> SUFFICES ASSUME NEW r \in Reader, NEW s \in Status
                 PROVE  [frame EXCEPT ![r].status = s] \in [Reader -> Snapshot]
      OBVIOUS
    <3>1. frame[r] \in Snapshot /\ frame \in [Reader -> Snapshot]
      BY DEF ClientTypeOK
    <3>2. [frame[r] EXCEPT !.status = s] \in Snapshot
      BY <3>1 DEF Snapshot
    <3> QED BY <3>1, <3>2
  <2>2. /\ spc' \in [Reader -> {"off", "poll", "type", "copyStatus", "copyRest", "done", "doneHistory"}]
        /\ rjob' = rjob /\ rterm' \in [Reader -> BOOLEAN] /\ frame' \in [Reader -> Snapshot]
    <3>1. CASE Notice(me)
      BY <1>3, <3>1 DEF Notice, ClientTypeOK
    <3>2. CASE ChooseType(me)
      BY <1>3, <3>2 DEF ChooseType, ClientTypeOK
    <3>3. CASE CopyStatus(me)
      BY <1>3, <2>1, <3>3 DEF CopyStatus, ClientTypeOK, job
    <3> QED BY <3>1, <3>2, <3>3 DEF ServerStreams
  <2> QED BY <1>1, <2>2 DEF ClientTypeOK, OneClient, clientVars, wireVars
<1>5. spc[me] \in Streaming /\ spc'[me] \in Streaming
  BY <1>3 DEF ServerStreams, Notice, ChooseType, CopyStatus, Streaming, ClientTypeOK
<1>6. Connection'
  <2>1. Connected' <=> Connected
    BY <1>1 DEF Connected, clientVars
  <2>2. Flows' <=> Flows
    BY <1>1 DEF Flows, Line, clientVars, wireVars
  <2> QED BY <1>1, <1>5, <2>1, <2>2 DEF Connection, Streaming, clientVars, wireVars
<1>7. Had' = Had /\ Copies' = Copies /\ Events' = Events /\ InMemory(job)' = InMemory(job)
  <2>1. Had' = Had
    BY <1>1 DEF Had, InMemory
  <2>2. Copies' = Copies
    BY <2>1 DEF Copies
  <2> QED BY <1>1, <2>1, <2>2 DEF Events, InMemory
<1>8. InMemory(job) /\ sent.event # "done"
  BY <1>5 DEF StreamReads
<1>9. /\ spc'[me] = "copyStatus" /\ rterm'[me] => mem[job].status \in Terminal
      /\ spc'[me] = "copyRest" =>
          /\ frame'[me].status \in Had /\ (rterm'[me] => frame'[me].status \in Terminal)
          /\ Rank(sent.job.status) =< Rank(frame'[me].status)
  <2>1. CASE Notice(me)
    BY <1>3, <2>1 DEF Notice, ClientTypeOK
  <2>2. CASE ChooseType(me)
    BY <1>3, <2>2 DEF ChooseType, ClientTypeOK, job
  <2>3. CASE CopyStatus(me)
    <3>1. spc[me] = "copyStatus" /\ spc'[me] = "copyRest" /\ rterm' = rterm /\ frame'[me].status = mem[job].status
      BY <1>3, <2>3 DEF CopyStatus, ClientTypeOK, job, Snapshot
    <3>2. mem[job].status \in Had
      BY <1>8, CopiesOf
    <3>3. sent.job.status \in Had
      BY DEF Told, Events, Copies
    <3>4. Rank(sent.job.status) =< Rank(mem[job].status)
      BY <1>8, <3>3, CopiesOf
    <3> QED BY <3>1, <3>2, <3>4 DEF StreamReads
  <2> QED BY <2>1, <2>2, <2>3 DEF ServerStreams
<1>10. StreamReads'
  BY <1>1, <1>7, <1>8, <1>9 DEF StreamReads, clientVars, wireVars
<1>11. Told'
  BY <1>1, <1>7 DEF Told, clientVars, wireVars
<1>12. Toasts'
  BY <1>1, <1>7 DEF Toasts, clientVars
<1> QED BY <1>2, <1>4, <1>6, <1>10, <1>11, <1>12

-----------------------------------------------------------------------------
(* The wire.                                                               *)

\* A chunk arrives: the frame is heard, or its beginning is in the buffer.
LEMMA Receiving ==
    ASSUME world \in Worlds, world' = world, sent \in Events, sent' = sent, Flows,
           NEW n \in Chunks, NEW cut \in Buffers(me, buffer, Chunk(n)), Receives(n, cut)
    PROVE  /\ Flows' /\ sent.event # "none"
           /\ \/ Frames(cut.raw) = <<>> /\ heard' = heard
              \/ Frames(cut.raw) # <<>> /\ heard' = sent /\ wire' = <<>> /\ buffer' = <<>>
<1> PICK x : x = sent.event
  OBVIOUS
<1> PICK y : y = sent.job
  OBVIOUS
<1> PICK L : L = Line
  OBVIOUS
<1>1. sent = [event |-> x, job |-> y]
  BY DEF Events
<1>2. LineReads(me, x, y, L)
  <2>1. IsLine(L, world, x, y)
    BY DEF IsLine, Line
  <2> QED BY <2>1, FrameReads DEF me
<1>3. PICK C : L \in Seq(C)
  BY <1>2 DEF LineReads
<1>4. Len(L) \in Nat /\ Len(L) > 1
  BY <1>2 DEF LineReads
<1>5. me' = me /\ Line' = L
  BY DEF me, Line
<1>6. wire' = SubSeq(wire, n + 1, Len(wire)) /\ buffer' = cut.rest
      /\ heard' = (IF Frames(cut.raw) = <<>> THEN heard ELSE Frames(cut.raw)[1])
  BY DEF Receives
<1>7. \/ n \in Nat /\ n # 0 /\ n < Len(wire) /\ buffer = <<>>
      \/ n = Len(wire) /\ n # 0
  BY WorldsAssumption DEF Chunks
<1>8. wire # <<>>
  <2>1. Len(<<>>) = 0
    OBVIOUS
  <2> QED BY <1>7, <2>1
<1>9. ASSUME cut = Framed(x, y), n = Len(wire), Len(wire) \in Nat, NEW D, wire \in Seq(D)
      PROVE  Frames(cut.raw) # <<>> /\ heard' = sent /\ wire' = <<>> /\ buffer' = <<>>
  <2>1. Frames(cut.raw) = <<[event |-> x, job |-> y]>> /\ cut.rest = <<>>
    BY <1>9, ParsedIs
  <2>2. SubSeq(wire, n + 1, Len(wire)) = <<>>
    BY <1>9, SubSeqEmpty
  <2>3. heard' = [event |-> x, job |-> y]
    BY <1>6, <2>1
  <2> QED BY <1>1, <1>6, <2>1, <2>2, <2>3
<1>10. CASE wire = L /\ buffer = <<>> /\ x # "none"
  <2>1. CASE n = Len(L)
    <3>1. Chunk(n) = L
      BY <1>3, <1>10, <2>1, SubSeqFull DEF Chunk
    <3>2. cut = Framed(x, y)
      BY <1>2, <1>10, <3>1 DEF LineReads
    <3> QED BY <1>3, <1>4, <1>9, <1>10, <2>1, <3>2 DEF Flows
  <2>2. CASE n # Len(L)
    <3>1. CutAt(L, n, Chunk(n), wire')
      <4>1. n \in 1 .. Len(L) - 1
        BY <1>4, <1>7, <1>10, <2>2
      <4> QED BY <1>6, <1>10, <4>1 DEF CutAt, Chunk
    <3>2. ReadsIn(me, x, y, L, Chunk(n), wire')
      BY <1>2, <3>1 DEF LineReads
    <3>3. cut = Uncut(Read(me, Chunk(n)))
      BY <1>10, <3>2 DEF ReadsIn
    <3>4. Frames(cut.raw) = <<>> /\ cut.rest = Read(me, Chunk(n))
      BY <3>3, ParsedIs
    <3>5. Flows'
      <4>1. n \in 1 .. Len(L) - 1 /\ wire' = SubSeq(L, n + 1, Len(L)) /\ buffer' = Read(me, SubSeq(L, 1, n))
        BY <1>6, <1>10, <3>1, <3>4 DEF CutAt, Chunk
      <4> QED BY <1>5, <1>10, <4>1 DEF Flows
    <3> QED BY <1>6, <1>10, <3>4, <3>5
  <2> QED BY <2>1, <2>2
<1>11. ASSUME x # "none", NEW m \in 1 .. Len(L) - 1,
              wire = SubSeq(L, m + 1, Len(L)), buffer = Read(me, SubSeq(L, 1, m))
       PROVE  Frames(cut.raw) # <<>> /\ heard' = sent /\ wire' = <<>> /\ buffer' = <<>>
  <2>1. CutAt(L, m, SubSeq(L, 1, m), wire)
    BY <1>11 DEF CutAt
  <2>2. ReadsIn(me, x, y, L, SubSeq(L, 1, m), wire)
    BY <1>2, <2>1 DEF LineReads
  <2>3. n = Len(wire)
    BY <1>7, <1>11, <2>2 DEF ReadsIn
  <2>4. wire \in Seq(C) /\ Len(wire) \in Nat
    BY <1>3, <2>1, Split
  <2>5. Chunk(n) = wire
    BY <2>3, <2>4, SubSeqFull DEF Chunk
  <2>6. cut = Framed(x, y)
    BY <1>11, <2>2, <2>5 DEF ReadsIn
  <2> QED BY <1>9, <2>3, <2>4, <2>6
<1>12. \/ wire = L /\ buffer = <<>> /\ x # "none"
       \/ x # "none" /\ \E m \in 1 .. Len(L) - 1 :
             wire = SubSeq(L, m + 1, Len(L)) /\ buffer = Read(me, SubSeq(L, 1, m))
  BY <1>8 DEF Flows
<1> QED BY <1>10, <1>11, <1>12 DEF Flows

\* An empty wire has delivered everything.
LEMMA Delivered ==
    ASSUME world \in Worlds, Flows, wire = <<>>
    PROVE  buffer = <<>> /\ heard = sent
<1> PICK x : x = sent.event
  OBVIOUS
<1> PICK y : y = sent.job
  OBVIOUS
<1> PICK L : L = Line
  OBVIOUS
<1>1. LineReads(me, x, y, L)
  <2>1. IsLine(L, world, x, y)
    BY DEF IsLine, Line
  <2> QED BY <2>1, FrameReads DEF me
<1>2. PICK C : L \in Seq(C)
  BY <1>1 DEF LineReads
<1>3. L # <<>>
  <2>1. Len(L) > 1 /\ Len(<<>>) = 0
    BY <1>1 DEF LineReads
  <2> QED BY <2>1
<1>4. ASSUME NEW m \in 1 .. Len(L) - 1, wire = SubSeq(L, m + 1, Len(L))
      PROVE  FALSE
  <2>1. CutAt(L, m, SubSeq(L, 1, m), wire)
    BY <1>4 DEF CutAt
  <2>2. wire \in Seq(C) /\ Len(wire) = Len(L) - m
    BY <1>2, <2>1, Split
  <2>3. Len(L) \in Nat /\ Len(L) - m # 0
    BY <1>1, <1>4 DEF LineReads
  <2>4. Len(wire) = 0
    OBVIOUS
  <2> QED BY <2>2, <2>3, <2>4
<1> QED BY <1>3, <1>4 DEF Flows

\* Every frame that arrives is one the server sent whole.
LEMMA Arrives == IInv /\ CInv => FramesArrive
<1> SUFFICES ASSUME IInv, CInv, wire = <<>>, follow.at = "sse" \/ screen.stream
             PROVE  buffer = <<>> /\ heard = sent
  BY DEF FramesArrive
<1>1. me \in {"cli", "web"}
  BY Following DEF IInv, CInv
<1>2. Connected
  BY <1>1 DEF CInv, OneClient, Connected
<1> QED BY <1>2, Delivered DEF CInv, Connection, ClientTypeOK

\* The state of a connection that has been opened or closed.
LEMMA Hanging ==
    ASSUME IInv, CInv, Hangs, [Next]_vars, job' = job
    PROVE  Flows' /\ sent' \in Events' /\ heard' \in Events' /\ wire' = <<>> /\ buffer' = <<>>
           /\ sent' = Nothing /\ heard' = Nothing
           /\ sent'.event = "none" /\ sent'.job.status = "absent"
           /\ Nothing.job.status = "absent" /\ Nothing.event = "none"
<1>1. Nothing \in Events /\ Events \subseteq Events'
  BY CopiesOf, CopiesStay
<1> QED BY <1>1, Constants DEF Hangs, Flows, Nothing

\* Steps that leave the jobs alone leave alone what a copy of them is.
LEMMA SameJobs ==
    ASSUME UNCHANGED <<mem, pc>>, job' = job
    PROVE  Had' = Had /\ Copies' = Copies /\ Events' = Events /\ InMemory(job)' = InMemory(job)
<1>1. Had' = Had
  BY DEF Had, InMemory
<1>2. Copies' = Copies
  BY <1>1 DEF Copies
<1> QED BY <1>1, <1>2 DEF Events, InMemory

\* The generator yields a frame.
LEMMA SendMoves ==
    ASSUME IInv, CInv, ServerSends, UNCHANGED world
    PROVE  CInv'
<1> USE DEF CInv
<1>1. me' = me /\ job' = job /\ UNCHANGED vars /\ UNCHANGED <<buffer, heard, follow, screen, poll>>
  BY DEF me, job, ServerSends, CopyRest
<1>2. Complete'
  BY <1>1 DEF Complete
<1>3. me \in Reader /\ me \in {"cli", "web"} /\ mem[job] \in Snapshot
  BY Following DEF IInv
<1>4. Had' = Had /\ Copies' = Copies /\ Events' = Events /\ InMemory(job)' = InMemory(job)
  BY <1>1, SameJobs
<1>5. spc[me] = "copyRest" /\ spc[me] \in Streaming /\ InMemory(job) /\ sent.event # "done" /\ wire = <<>>
  BY DEF ServerSends, CopyRest, StreamReads, Streaming
<1>6. frame[me].status \in Had /\ (rterm[me] => frame[me].status \in Terminal)
      /\ Rank(sent.job.status) =< Rank(frame[me].status)
  BY <1>5 DEF StreamReads
<1> DEFINE copy == [mem[job] EXCEPT !.status = frame[me].status]
<1>7. copy \in Copies /\ copy.status = frame[me].status
  <2>1. copy \in Copies
    BY <1>5, <1>6, CopiesOf
  <2>2. copy.status = frame[me].status
    BY <1>3 DEF Snapshot
  <2> QED BY <2>1, <2>2
<1>8. spc' = [spc EXCEPT ![me] = IF rterm[me] THEN "done" ELSE "poll"]
      /\ frame' = [frame EXCEPT ![me] = copy] /\ rterm' = rterm /\ rjob' = rjob
  BY DEF ServerSends, CopyRest, job
<1> HIDE DEF copy
<1>9. ClientTypeOK' /\ OneClient'
  <2>1. copy \in Snapshot
    BY <1>7 DEF Copies
  <2>2. /\ spc' \in [Reader -> {"off", "poll", "type", "copyStatus", "copyRest", "done", "doneHistory"}]
        /\ frame' \in [Reader -> Snapshot]
    BY <1>3, <1>8, <2>1 DEF ClientTypeOK
  <2> QED BY <1>1, <1>8, <2>2 DEF ClientTypeOK, OneClient
<1>10. frame'[me] = copy /\ spc'[me] = IF rterm[me] THEN "done" ELSE "poll"
  BY <1>3, <1>8 DEF ClientTypeOK
<1>11. sent'.job = copy /\ sent'.event \in {"done", "job"} /\ (sent'.event = "done" <=> rterm[me])
       /\ sent' = [event |-> sent'.event, job |-> copy]
       /\ wire' = Wire(sent'.event, sent'.job, world.eol)
  BY <1>10 DEF ServerSends
<1>12. sent' \in Events
  <2>1. pc[job] # Unborn
    BY <1>5, CopiesOf
  <2>2. rterm[me] => copy.status \in Terminal
    BY <1>6, <1>7
  <2>3. \A f : f = [event |-> sent'.event, job |-> copy] => f \in Events
    BY <1>7, <1>11, <2>1, <2>2 DEF Events
  <2> QED BY <1>11, <2>3
<1>13. Connection'
  <2>1. Connected' <=> Connected
    BY <1>1 DEF Connected
  <2>2. Connected \/ follow.at = "returned"
    BY <1>5 DEF Connection
  <2>3. ASSUME Connected PROVE Flows'
    <3>1. buffer = <<>>
      BY <1>5, <2>3, Delivered DEF Connection, ClientTypeOK
    <3>2. wire' = Line' /\ sent'.event # "none"
      BY <1>11 DEF Line
    <3> QED BY <1>1, <3>1, <3>2 DEF Flows
  <2>4. ~(me = "cli" /\ follow.at = "connect")
    BY <1>5 DEF Connection
  <2>5. spc'[me] # "off"
    BY <1>10
  <2> QED BY <1>1, <2>1, <2>2, <2>3, <2>4, <2>5 DEF Connection
<1>14. StreamReads'
  <2>1. spc'[me] # "copyStatus" /\ spc'[me] # "copyRest" /\ (sent'.event = "done" => spc'[me] \notin Streaming)
    BY <1>10, <1>11 DEF Streaming
  <2> QED BY <1>1, <1>4, <1>5, <2>1 DEF StreamReads
<1>15. Told'
  <2>1. follow.at \in {"connect", "sse"} => Rank(follow.last.status) =< Rank(sent'.job.status)
    <3>1. follow.at \in {"connect", "sse"} => Rank(follow.last.status) =< Rank(sent.job.status)
      BY <1>5 DEF Told
    <3>2. sent'.job.status = frame[me].status
      BY <1>7, <1>11
    <3>3. Rank(follow.last.status) \in Nat /\ Rank(sent.job.status) \in Nat /\ Rank(frame[me].status) \in Nat
      BY Ranks
    <3> QED BY <1>6, <3>1, <3>2, <3>3
  <2> QED BY <1>1, <1>4, <1>12, <2>1 DEF Told
<1>16. Toasts'
  BY <1>1, <1>4 DEF Toasts
<1> QED BY <1>2, <1>9, <1>13, <1>14, <1>15, <1>16

-----------------------------------------------------------------------------
(* followJob.                                                              *)

\* Where the web client's state stays as it is.
LEMMA CliStays ==
    ASSUME CInv, me = "cli", UNCHANGED screen, job' = job, Had' = Had, Copies' = Copies,
           UNCHANGED <<mem, pc>>
    PROVE  Toasts' /\ screen'.told = "none" /\ ~screen'.stream
BY DEF CInv, Toasts, OneClient, InMemory

\* The state of followJob after a snapshot is yielded, or none is.
LEMMA FollowTypes ==
    ASSUME ClientTypeOK
    PROVE  /\ follow.last \in Snapshot /\ follow.copy \in Snapshot
           /\ \A place \in {"connect", "sse", "poll", "copy", "returned", "notFound", "error"} :
                 LET f == [follow EXCEPT !.at = place]
                 IN  /\ f.at = place /\ f.last = follow.last /\ f.copy = follow.copy
                     /\ f \in Follows
           /\ \A s \in Snapshot, next \in {"sse", "poll"} :
                 LET f == Yields(s, next)
                 IN  /\ f.last = s /\ f.copy = Absent
                     /\ f.at = IF s.status \in Terminal THEN "returned" ELSE next
                     /\ f \in Follows
BY Constants DEF ClientTypeOK, Yields, Follows

\* followJob moves on without a snapshot, and not over a stream.
LEMMA GoesOn ==
    ASSUME IInv, CInv, me = "cli", [Next]_vars, UNCHANGED <<mem, pc, row, rjob, world, wireVars>>,
           follow.at # "sse",
           CliGoes("poll") \/ CliGoes("notFound") \/ CliGoes("error"),
           spc' = spc /\ rterm' = rterm /\ frame' = frame,
           spc[me] \notin Streaming
    PROVE  CInv'
<1> USE DEF CInv
<1>1. me' = me /\ job' = job /\ UNCHANGED <<screen, poll>>
  BY DEF me, job, CliGoes
<1>2. Complete'
  BY DEF Complete
<1>3. Had' = Had /\ Copies' = Copies /\ Events' = Events /\ InMemory(job)' = InMemory(job)
  BY <1>1, SameJobs
<1>4. /\ follow'.at \in {"poll", "notFound", "error"} /\ follow'.last = follow.last /\ follow'.copy = follow.copy
      /\ follow' \in Follows
  BY FollowTypes DEF CliGoes
<1>5. Toasts' /\ screen'.told = "none" /\ ~screen'.stream
  BY <1>1, <1>3, CliStays
<1>6. ClientTypeOK' /\ OneClient'
  BY <1>1, <1>4, <1>5 DEF ClientTypeOK, OneClient, wireVars
<1>7. StreamReads'
  BY <1>1, <1>3 DEF StreamReads, wireVars
<1>8. Told'
  BY <1>3, <1>4 DEF Told, wireVars
<1>9. Connection'
  BY <1>1, <1>4 DEF Connection, Connected
<1> QED BY <1>2, <1>5, <1>6, <1>7, <1>8, <1>9

\* followJob opens the stream, is told there is no such job, or falls back.
LEMMA ConnectMoves ==
    ASSUME IInv, CInv, CliConnects, UNCHANGED world
    PROVE  CInv' /\ [Next]_vars
<1> USE DEF CInv
<1>0. me = "cli" /\ follow.at = "connect" /\ spc[me] = "off" /\ sent = Nothing /\ heard = Nothing
  BY DEF CliConnects, Connection
<1>00. me \in Reader /\ row[job] \in Snapshot /\ job = rjob[me]
  BY Following DEF IInv, job
<1>1. CASE OpenLive /\ CliGoes("sse")
  <2>1. me' = me /\ job' = job /\ UNCHANGED <<screen, poll, rjob, rterm, frame>> /\ UNCHANGED vars
    BY <1>1 DEF me, job, CliGoes, OpenLive, ConnectLive
  <2>2. spc'[me] = "poll" /\ InMemory(job)
        /\ spc' \in [Reader -> {"off", "poll", "type", "copyStatus", "copyRest", "done", "doneHistory"}]
    BY <1>00, <1>1 DEF OpenLive, ConnectLive, ClientTypeOK
  <2>3. Had' = Had /\ Copies' = Copies /\ Events' = Events /\ InMemory(job)' = InMemory(job)
    BY <2>1, SameJobs
  <2>4. /\ follow'.at = "sse" /\ follow'.last = follow.last /\ follow'.copy = follow.copy
        /\ follow' \in Follows
    BY <1>1, FollowTypes DEF CliGoes
  <2>5. Toasts' /\ screen'.told = "none" /\ ~screen'.stream
    BY <1>0, <2>1, <2>3, CliStays
  <2>6. /\ Flows' /\ sent' \in Events' /\ heard' \in Events'
        /\ sent' = Nothing /\ sent'.event = "none"
    BY <1>1, <2>1, Hanging DEF OpenLive
  <2>7. ClientTypeOK' /\ OneClient'
    BY <1>0, <2>1, <2>2, <2>4, <2>5 DEF ClientTypeOK, OneClient
  <2>8. StreamReads'
    BY <2>1, <2>2, <2>3, <2>6 DEF StreamReads
  <2>9. Told'
    <3>1. Rank(follow.last.status) =< Rank(sent'.job.status)
      BY <1>0, <2>2, <2>6 DEF Told
    <3> QED BY <2>3, <2>4, <2>6, <3>1 DEF Told
  <2>10. Connection'
    BY <1>0, <2>1, <2>4, <2>6 DEF Connection, Connected
  <2>11. Complete'
    BY <2>1 DEF Complete
  <2> QED BY <2>1, <2>5, <2>7, <2>8, <2>9, <2>10, <2>11
<1>2. CASE OpenHistory /\ CliGoes("sse")
  <2>1. me' = me /\ job' = job /\ UNCHANGED <<screen, poll, rjob, rterm, heard, buffer, mem, pc, row>>
        /\ UNCHANGED <<server, pgUp, swept, jobVars>> /\ server = "serving" /\ GetPool
    BY <1>2 DEF me, job, CliGoes, OpenHistory, ConnectHistory
  <2>2. [Next]_vars
    BY <2>1, PoolStep DEF IInv
  <2>3. ~InMemory(job) /\ row[job] # Absent /\ spc' = [spc EXCEPT ![me] = "doneHistory"]
        /\ frame' = [frame EXCEPT ![me] = row[job]]
    <3>1. spc'[me] = "doneHistory" /\ spc'[me] # spc[me]
      BY <1>0, <1>2 DEF OpenHistory
    <3> QED BY <1>00, <1>2, <3>1 DEF OpenHistory, ConnectHistory
  <2>4. spc'[me] = "doneHistory" /\ frame'[me] = row[job]
        /\ spc' \in [Reader -> {"off", "poll", "type", "copyStatus", "copyRest", "done", "doneHistory"}]
        /\ frame' \in [Reader -> Snapshot]
    BY <1>00, <2>3 DEF ClientTypeOK
  <2>5. Had' = Had /\ Copies' = Copies /\ Events' = Events /\ InMemory(job)' = InMemory(job)
    BY <2>1, SameJobs
  <2>6. /\ follow'.at = "sse" /\ follow'.last = follow.last /\ follow'.copy = follow.copy
        /\ follow' \in Follows
    BY <1>2, FollowTypes DEF CliGoes
  <2>7. Toasts' /\ screen'.told = "none" /\ ~screen'.stream
    BY <1>0, <2>1, <2>5, CliStays
  <2>8. sent' = [event |-> "done", job |-> row[job]] /\ wire' = Wire("done", row[job], world.eol)
    BY <1>2, <2>4 DEF OpenHistory
  <2>9. sent' \in Events
    <3>1. row[job] \in Copies /\ pc[job] # Unborn
      BY <2>3, CopiesOf
    <3>2. \A f : f = [event |-> "done", job |-> row[job]] => f \in Events
      BY <2>3, <3>1 DEF Events
    <3> QED BY <2>8, <3>2
  <2>10. Flows'
    <3>1. wire' = Line' /\ sent'.event # "none"
      BY <2>8 DEF Line
    <3>2. buffer = <<>>
      BY <1>0 DEF Connection, Connected
    <3> QED BY <2>1, <3>1, <3>2 DEF Flows
  <2>11. ClientTypeOK' /\ OneClient'
    BY <1>0, <2>1, <2>4, <2>6, <2>7 DEF ClientTypeOK, OneClient
  <2>12. StreamReads'
    BY <2>1, <2>4 DEF StreamReads, Streaming
  <2>13. Told'
    BY <2>1, <2>3, <2>5, <2>6, <2>9 DEF Told
  <2>14. Connection'
    BY <1>0, <2>1, <2>4, <2>6, <2>10 DEF Connection, Connected, Streaming
  <2>15. Complete'
    BY <2>1 DEF Complete
  <2> QED BY <2>2, <2>7, <2>11, <2>12, <2>13, <2>14, <2>15
<1>3. CASE NotFound /\ CliGoes("notFound")
  <2>1. UNCHANGED <<rjob, rterm, mem, pc, row>> /\ UNCHANGED wireVars
        /\ UNCHANGED <<server, pgUp, swept, jobVars>> /\ server = "serving" /\ GetPool
    BY <1>3 DEF NotFound, ConnectHistory
  <2>2. [Next]_vars
    BY <2>1, PoolStep DEF IInv
  <2>3. spc' = spc /\ frame' = frame
    <3>1. spc'[me] = "off"
      BY <1>3 DEF NotFound
    <3>2. [spc EXCEPT ![me] = "doneHistory"][me] = "doneHistory"
      BY <1>00 DEF ClientTypeOK
    <3> QED BY <1>3, <3>1, <3>2 DEF NotFound, ConnectHistory
  <2>4. CInv'
    BY <1>0, <1>3, <2>1, <2>2, <2>3, GoesOn DEF Streaming
  <2> QED BY <2>2, <2>4
<1>4. CASE CliGoes("poll") /\ UNCHANGED <<watchedVars, wireVars>>
  BY <1>0, <1>4, GoesOn DEF Streaming, watchedVars, streamVars
<1> QED BY <1>1, <1>2, <1>3, <1>4 DEF CliConnects

\* Each client parses with its own parser.
LEMMA ParserOf ==
    \A t, u : Buffers("cli", t, u) = CliBuffer(t, u) /\ Buffers("web", t, u) = WebBuffer(t, u)
BY DEF Buffers

\* A chunk is read from the stream, and a whole frame is yielded.
LEMMA CliReceiveMoves ==
    ASSUME IInv, CInv, CliReceives, UNCHANGED world
    PROVE  CInv' /\ follow'.last \in {follow.last, sent.job}
<1> USE DEF CInv
<1>1. me = "cli" /\ follow.at = "sse" /\ UNCHANGED <<watchedVars, screen, poll>>
  BY DEF CliReceives
<1> PICK n \in Chunks : \E cut \in CliBuffer(buffer, Chunk(n)) :
        /\ Receives(n, cut)
        /\ follow' = IF Frames(cut.raw) # <<>> /\ heard'.event \in {"job", "done"}
                     THEN Yields(heard'.job, "sse") ELSE follow
  BY DEF CliReceives
<1>2. PICK cut \in CliBuffer(buffer, Chunk(n)) :
        /\ Receives(n, cut)
        /\ follow' = IF Frames(cut.raw) # <<>> /\ heard'.event \in {"job", "done"}
                     THEN Yields(heard'.job, "sse") ELSE follow
  OBVIOUS
<1>3. me' = me /\ job' = job /\ UNCHANGED vars /\ UNCHANGED streamVars /\ sent' = sent
  BY <1>1, <1>2 DEF me, job, watchedVars, streamVars, Receives
<1>4. Had' = Had /\ Copies' = Copies /\ Events' = Events /\ InMemory(job)' = InMemory(job)
  BY <1>3, SameJobs
<1>5. Toasts' /\ screen'.told = "none" /\ ~screen'.stream
  BY <1>1, <1>3, <1>4, CliStays
<1>6. /\ Flows' /\ sent.event # "none"
      /\ \/ Frames(cut.raw) = <<>> /\ heard' = heard
         \/ Frames(cut.raw) # <<>> /\ heard' = sent /\ wire' = <<>> /\ buffer' = <<>>
  <2>1. cut \in Buffers(me, buffer, Chunk(n))
    BY <1>1, ParserOf
  <2>2. Flows /\ sent \in Events /\ world \in Worlds
    BY <1>1 DEF Connection, Connected, Told, ClientTypeOK
  <2> QED BY <1>2, <1>3, <2>1, <2>2, Receiving
<1>7. sent.job \in Copies /\ sent.job \in Snapshot /\ sent.event \in {"job", "done"}
  BY <1>6 DEF Told, Events, Copies
<1>8. \/ follow' = follow /\ heard' = heard
      \/ /\ follow'.at = (IF sent.job.status \in Terminal THEN "returned" ELSE "sse")
         /\ follow'.last = sent.job /\ follow'.copy = Absent /\ heard' = sent
  BY <1>2, <1>6, <1>7, FollowTypes
<1>9. follow' \in Follows
  BY <1>2, <1>6, <1>7, FollowTypes DEF ClientTypeOK
<1>10. Complete' /\ ClientTypeOK' /\ OneClient'
  BY <1>1, <1>3, <1>5, <1>9 DEF Complete, ClientTypeOK, OneClient, streamVars
<1>11. StreamReads'
  BY <1>3, <1>4 DEF StreamReads, streamVars
<1>12. Told'
  <2>1. CASE follow' = follow /\ heard' = heard
    BY <1>3, <1>4, <2>1 DEF Told
  <2>2. CASE /\ follow'.at = (IF sent.job.status \in Terminal THEN "returned" ELSE "sse")
             /\ follow'.last = sent.job /\ follow'.copy = Absent /\ heard' = sent
    <3>2. Rank(sent.job.status) =< Rank(sent.job.status)
      BY Ranks
    <3>3. Absent.status \in Had
      BY CopiesOf, Constants
    <3> QED BY <1>3, <1>4, <1>7, <2>2, <3>2, <3>3 DEF Told
  <2> QED BY <1>8, <2>1, <2>2
<1>13. Connection'
  <2>1. follow'.at \in {"sse", "returned"}
    BY <1>1, <1>8
  <2> QED BY <1>1, <1>3, <1>6, <2>1 DEF Connection, Connected, streamVars
<1> QED BY <1>5, <1>8, <1>10, <1>11, <1>12, <1>13

\* The stream is over before a terminal frame, was cut, or is given up: polling.
LEMMA CliLeaves ==
    ASSUME IInv, CInv, CliStreamEnds \/ Watchdog, UNCHANGED world
    PROVE  CInv'
<1> USE DEF CInv
<1>1. me = "cli" /\ follow.at = "sse" /\ Hangs /\ CliGoes("poll")
  BY DEF CliStreamEnds, Watchdog
<1>2. me' = me /\ job' = job /\ UNCHANGED vars /\ UNCHANGED <<screen, poll, rjob>>
  BY <1>1 DEF me, job, CliStreamEnds, Watchdog, Disconnect, CliGoes, watchedVars, streamVars
<1>3. me \in Reader
  BY Following DEF IInv
<1>4. spc'[me] \notin Streaming
      /\ spc' \in [Reader -> {"off", "poll", "type", "copyStatus", "copyRest", "done", "doneHistory"}]
      /\ rterm' \in [Reader -> BOOLEAN] /\ frame' \in [Reader -> Snapshot]
  <2>1. CASE CliStreamEnds
    <3>1. UNCHANGED streamVars /\ spc[me] \in {"off", "done", "doneHistory"}
      BY <2>1 DEF CliStreamEnds, watchedVars
    <3> QED BY <3>1 DEF streamVars, ClientTypeOK, Streaming
  <2>2. CASE Watchdog
    BY <1>3, <2>2, Constants DEF Watchdog, Disconnect, ClientTypeOK, Streaming
  <2> QED BY <2>1, <2>2
<1>5. Had' = Had /\ Copies' = Copies /\ Events' = Events /\ InMemory(job)' = InMemory(job)
  BY <1>2, SameJobs
<1>6. Toasts' /\ screen'.told = "none" /\ ~screen'.stream
  BY <1>1, <1>2, <1>5, CliStays
<1>7. /\ follow'.at = "poll" /\ follow'.last = follow.last /\ follow'.copy = follow.copy
      /\ follow' \in Follows
  BY <1>1, FollowTypes DEF CliGoes
<1>8. sent' \in Events' /\ heard' \in Events'
  BY <1>1, <1>2, Hanging
<1>9. Complete' /\ ClientTypeOK' /\ OneClient'
  BY <1>1, <1>2, <1>4, <1>6, <1>7 DEF Complete, ClientTypeOK, OneClient
<1>10. StreamReads'
  <2>1. spc'[me] # "copyStatus" /\ spc'[me] # "copyRest"
    BY <1>4 DEF Streaming
  <2> QED BY <1>2, <1>4, <2>1 DEF StreamReads
<1>11. Told'
  BY <1>5, <1>7, <1>8 DEF Told
<1>12. Connection'
  BY <1>1, <1>2, <1>4, <1>7 DEF Connection, Connected
<1> QED BY <1>6, <1>9, <1>10, <1>11, <1>12

\* A snapshot is yielded that did not come by the stream.
LEMMA PollYields ==
    ASSUME IInv, CInv, me = "cli", [Next]_vars, UNCHANGED <<mem, pc, row, streamVars, world, wireVars>>,
           follow.at \in {"poll", "copy"}, UNCHANGED <<screen, poll>>,
           NEW s \in Copies, follow' = Yields(s, "poll")
    PROVE  CInv'
<1> USE DEF CInv
<1>1. me' = me /\ job' = job
  BY DEF me, job, streamVars
<1>2. Had' = Had /\ Copies' = Copies /\ Events' = Events /\ InMemory(job)' = InMemory(job)
  BY <1>1, SameJobs
<1>3. Toasts' /\ screen'.told = "none" /\ ~screen'.stream
  BY <1>1, <1>2, CliStays
<1>4. s \in Snapshot
  BY DEF Copies
<1>5. /\ follow'.last = s /\ follow'.copy = Absent
      /\ follow'.at = (IF s.status \in Terminal THEN "returned" ELSE "poll")
      /\ follow' \in Follows
  BY <1>4, FollowTypes
<1>6. spc[me] \notin Streaming
  BY DEF Connection, Connected
<1>7. Complete' /\ ClientTypeOK' /\ OneClient'
  BY <1>1, <1>3, <1>5 DEF Complete, ClientTypeOK, OneClient, streamVars, wireVars
<1>8. StreamReads'
  BY <1>1, <1>2 DEF StreamReads, streamVars, wireVars
<1>9. Absent.status \in Had
  BY CopiesOf, Constants
<1>10. Told'
  BY <1>2, <1>5, <1>9 DEF Told, wireVars
<1>11. Connection'
  BY <1>1, <1>5, <1>6 DEF Connection, Connected, streamVars
<1> QED BY <1>3, <1>7, <1>8, <1>10, <1>11

\* A poll: the copy of a live job begins, or its row is yielded.
LEMMA PollMoves ==
    ASSUME IInv, CInv, CliPolls, UNCHANGED world
    PROVE  CInv' /\ [Next]_vars
<1> USE DEF CInv
<1>1. me = "cli" /\ follow.at = "poll" /\ UNCHANGED wireVars
  BY DEF CliPolls
<1>2. spc[me] \notin Streaming
  BY <1>1 DEF Connection, Connected
<1>3. CASE server # "serving" /\ CliGoes("error") /\ UNCHANGED watchedVars
  BY <1>1, <1>2, <1>3, GoesOn DEF watchedVars, streamVars
<1>4. CASE /\ server = "serving" /\ InMemory(job)
           /\ follow' = [follow EXCEPT !.at = "copy", !.copy.status = mem[job].status]
           /\ UNCHANGED <<watchedVars, screen, poll>>
  <2>1. me' = me /\ job' = job /\ UNCHANGED vars /\ UNCHANGED streamVars
    BY <1>4 DEF me, job, watchedVars, streamVars
  <2>2. Had' = Had /\ Copies' = Copies /\ Events' = Events /\ InMemory(job)' = InMemory(job)
    BY <2>1, SameJobs
  <2>3. Toasts' /\ screen'.told = "none" /\ ~screen'.stream
    BY <1>1, <1>4, <2>1, <2>2, CliStays
  <2>4. mem[job].status \in Status /\ mem[job].status \in Had
    BY <1>4, CopiesOf DEF Had
  <2>5. /\ follow'.at = "copy" /\ follow'.last = follow.last /\ follow'.copy.status = mem[job].status
        /\ follow' \in Follows
    <3>1. [follow.copy EXCEPT !.status = mem[job].status] \in Snapshot
          /\ [follow.copy EXCEPT !.status = mem[job].status].status = mem[job].status
      <4>1. follow.copy \in Snapshot
        BY FollowTypes
      <4> QED BY <2>4, <4>1 DEF Snapshot
    <3>2. follow' = [follow EXCEPT !.at = "copy", !.copy = [follow.copy EXCEPT !.status = mem[job].status]]
      BY <1>4 DEF ClientTypeOK, Follows
    <3> HIDE DEF CInv
    <3>3. follow \in Follows
      BY DEF CInv, ClientTypeOK
    <3> QED BY <3>1, <3>2, <3>3 DEF Follows
  <2>6. Complete' /\ ClientTypeOK' /\ OneClient'
    BY <1>1, <1>4, <2>1, <2>3, <2>5 DEF Complete, ClientTypeOK, OneClient, streamVars, wireVars
  <2>7. StreamReads'
    BY <1>1, <2>1, <2>2 DEF StreamReads, streamVars, wireVars
  <2>8. Told'
    <3>1. follow.last.status \in Had
      BY DEF Told, Copies
    <3>2. Rank(follow.last.status) =< Rank(mem[job].status)
      BY <1>4, <3>1, CopiesOf
    <3> QED BY <1>1, <2>2, <2>4, <2>5, <3>2 DEF Told, wireVars
  <2>9. Connection'
    BY <1>1, <1>2, <2>1, <2>5 DEF Connection, Connected, streamVars
  <2> QED BY <2>1, <2>3, <2>6, <2>7, <2>8, <2>9
<1>5. ASSUME server = "serving", GetPool, UNCHANGED <<server, pgUp, swept, jobVars, streamVars>>,
             IF pgUp /\ row[job] # Absent
             THEN follow' = Yields(row[job], "poll") /\ UNCHANGED <<screen, poll>>
             ELSE CliGoes("notFound")
      PROVE  CInv' /\ [Next]_vars
  <2>1. [Next]_vars
    BY <1>5, PoolStep DEF IInv
  <2>2. CASE follow' = Yields(row[job], "poll") /\ UNCHANGED <<screen, poll>>
    <3>1. row[job] \in Copies
      BY CopiesOf
    <3>2. CInv'
      BY <1>1, <1>5, <2>1, <2>2, <3>1, PollYields
    <3> QED BY <2>1, <3>2
  <2>3. CASE CliGoes("notFound")
    BY <1>1, <1>2, <1>5, <2>1, <2>3, GoesOn DEF streamVars
  <2> QED BY <1>5, <2>2, <2>3
<1> QED BY <1>3, <1>4, <1>5 DEF CliPolls

\* A poll: the copy of a live job ends.
LEMMA CopyMoves ==
    ASSUME IInv, CInv, CliCopies, UNCHANGED world
    PROVE  CInv'
<1> USE DEF CInv
<1>1. me = "cli" /\ follow.at = "copy" /\ UNCHANGED <<watchedVars, wireVars>> /\ UNCHANGED vars
  BY DEF CliCopies, watchedVars
<1>2. spc[me] \notin Streaming
  BY <1>1 DEF Connection, Connected
<1>3. CASE InMemory(job) /\ follow' = Yields([mem[job] EXCEPT !.status = follow.copy.status], "poll")
           /\ UNCHANGED <<screen, poll>>
  <2>1. [mem[job] EXCEPT !.status = follow.copy.status] \in Copies
    BY <1>3, CopiesOf DEF Told
  <2> QED BY <1>1, <1>3, <2>1, PollYields DEF watchedVars
<1>4. CASE CliGoes("error")
  BY <1>1, <1>2, <1>4, GoesOn DEF watchedVars, streamVars
<1> QED BY <1>3, <1>4 DEF CliCopies

-----------------------------------------------------------------------------
(* The list of instances.                                                  *)

\* The list shows another status, or a request of it moves on.
LEMMA ListMoves ==
    ASSUME IInv, CInv, [Next]_vars, UNCHANGED <<mem, pc, row, streamVars, world, wireVars, follow>>,
           screen' \in Screens, poll' \in [world.polls -> ListRequests],
           screen'.stream = screen.stream, screen'.told = screen.told,
           screen'.toasts = screen.toasts, screen'.processed = screen.processed
    PROVE  CInv'
<1> USE DEF CInv
<1>1. me' = me /\ job' = job
  BY DEF me, job, streamVars
<1>2. Had' = Had /\ Copies' = Copies /\ Events' = Events /\ InMemory(job)' = InMemory(job)
  BY <1>1, SameJobs
<1>3. Complete'
  BY DEF Complete
<1>4. ClientTypeOK'
  BY DEF ClientTypeOK, streamVars, Follows, Screens, ListRequests
<1>5. OneClient' /\ Toasts'
  BY <1>1, <1>2 DEF OneClient, Toasts
<1>6. StreamReads'
  BY <1>1, <1>2 DEF StreamReads, streamVars, wireVars
<1>7. Told'
  BY <1>2 DEF Told, wireVars
<1>8. Connection'
  <2>1. Connected' <=> Connected
    BY <1>1 DEF Connected
  <2>2. Flows' <=> Flows
    BY <1>1 DEF Flows, Line, wireVars
  <2> QED BY <1>1, <2>1, <2>2 DEF Connection, streamVars, wireVars
<1> QED BY <1>3, <1>4, <1>5, <1>6, <1>7, <1>8

\* A request of the list.
LEMMA PollStepMoves ==
    ASSUME IInv, CInv, NEW p \in world.polls, PollStep(p), UNCHANGED world
    PROVE  CInv' /\ [Next]_vars
<1> USE DEF CInv
<1>1. poll \in [world.polls -> ListRequests] /\ screen \in Screens
  BY DEF ClientTypeOK
<1>2. mem[job].status \in Status /\ row[job].status \in Status
  BY Following DEF IInv, Snapshot
<1>3. CASE WebPolls(p) \/ WebPollFails(p)
  <2>1. UNCHANGED vars /\ UNCHANGED <<streamVars, wireVars, follow, screen>>
    BY <1>3 DEF WebPolls, WebPollFails, watchedVars
  <2>2. [at |-> IF InMemory(job) THEN "answer" ELSE "rows", status |-> mem[job].status] \in ListRequests
        /\ NoPoll \in ListRequests
    BY <1>2 DEF ListRequests, NoPoll, Status
  <2>3. poll' \in [world.polls -> ListRequests]
    BY <1>1, <1>3, <2>2 DEF WebPolls, WebPollFails, Asked
  <2> QED BY <1>1, <2>1, <2>3, ListMoves
<1>4. CASE WebPollReadsRows(p)
  <2>1. [Next]_vars
    BY <1>4, PoolStep DEF IInv, WebPollReadsRows
  <2>2. [at |-> "answer", status |-> IF pgUp THEN row[job].status ELSE "absent"] \in ListRequests
    BY <1>2 DEF ListRequests, Status
  <2>3. poll' \in [world.polls -> ListRequests]
    BY <1>1, <1>4, <2>2 DEF WebPollReadsRows
  <2>4. CInv'
    BY <1>1, <1>4, <2>1, <2>3, ListMoves DEF WebPollReadsRows
  <2> QED BY <2>1, <2>4
<1>5. CASE WebPollAnswers(p)
  <2>1. UNCHANGED vars /\ UNCHANGED <<streamVars, wireVars, follow>>
    BY <1>5 DEF WebPollAnswers, watchedVars
  <2>2. NoPoll \in ListRequests /\ poll[p].status \in Status
    BY <1>1 DEF ListRequests, NoPoll, Status
  <2>3. poll' \in [world.polls -> ListRequests]
    BY <1>1, <1>5, <2>2 DEF WebPollAnswers
  <2>4. screen' \in Screens /\ screen'.stream = screen.stream /\ screen'.told = screen.told
        /\ screen'.toasts = screen.toasts /\ screen'.processed = screen.processed
    BY <1>1, <1>5, <2>2 DEF WebPollAnswers, Screens
  <2> QED BY <2>1, <2>3, <2>4, ListMoves
<1> QED BY <1>3, <1>4, <1>5 DEF PollStep

\* The key of the live jobs changes, and a stream may open.
LEMMA EffectMoves ==
    ASSUME IInv, CInv, WebEffect, UNCHANGED world
    PROVE  CInv' /\ [Next]_vars
<1> USE DEF CInv
<1>1. me = "web" /\ UNCHANGED <<follow, poll>> /\ follow.at = "connect" /\ follow.last = Absent
  BY DEF WebEffect, OneClient
<1>2. me \in Reader /\ row[job] \in Snapshot /\ job = rjob[me]
      /\ poll \in [world.polls -> ListRequests] /\ screen \in Screens
  BY Following DEF IInv, job, ClientTypeOK
<1> DEFINE keyed == [screen EXCEPT !.key = Live(screen.shown)]
           open == [keyed EXCEPT !.stream = TRUE]
<1>3. /\ keyed \in Screens /\ keyed.stream = screen.stream /\ keyed.told = screen.told
      /\ keyed.toasts = screen.toasts /\ keyed.processed = screen.processed
      /\ open \in Screens /\ open.stream = TRUE /\ open.told = screen.told
      /\ open.toasts = screen.toasts /\ open.processed = screen.processed
  <2>1. Live(screen.shown) \in BOOLEAN
    BY DEF Live
  <2> DEFINE k == Live(screen.shown)
  <2>2. k \in BOOLEAN
    BY <2>1
  <2> HIDE DEF k
  <2>3. keyed = [screen EXCEPT !.key = k]
    BY DEF k
  <2> HIDE DEF keyed
  <2>4. /\ keyed \in Screens /\ keyed.stream = screen.stream /\ keyed.told = screen.told
        /\ keyed.toasts = screen.toasts /\ keyed.processed = screen.processed
    BY <1>2, <2>2, <2>3 DEF Screens
  <2>5. open = [keyed EXCEPT !.stream = TRUE]
    OBVIOUS
  <2> HIDE DEF open
  <2>6. /\ open \in Screens /\ open.stream = TRUE /\ open.told = keyed.told
        /\ open.toasts = keyed.toasts /\ open.processed = keyed.processed
    BY <2>4, <2>5 DEF Screens
  <2> QED BY <2>4, <2>6
<1>4. \/ ~screen.stream /\ OpenLive /\ screen' = open
      \/ ~screen.stream /\ OpenHistory /\ screen' = open
      \/ NotFound /\ screen' = keyed
      \/ screen' = keyed /\ UNCHANGED <<watchedVars, wireVars>>
  BY DEF WebEffect
<1> HIDE DEF keyed, open
<1>5. CASE ~screen.stream /\ OpenLive /\ screen' = open
  <2>1. me' = me /\ job' = job /\ UNCHANGED <<rjob, rterm, frame>> /\ UNCHANGED vars
    BY <1>5 DEF me, job, OpenLive, ConnectLive
  <2>2. spc'[me] = "poll" /\ InMemory(job)
        /\ spc' \in [Reader -> {"off", "poll", "type", "copyStatus", "copyRest", "done", "doneHistory"}]
    BY <1>2, <1>5 DEF OpenLive, ConnectLive, ClientTypeOK
  <2>3. Had' = Had /\ Copies' = Copies /\ Events' = Events /\ InMemory(job)' = InMemory(job)
    BY <2>1, SameJobs
  <2>4. /\ Flows' /\ sent' \in Events' /\ heard' \in Events'
        /\ sent' = Nothing /\ sent'.event = "none"
    BY <1>5, <2>1, Hanging DEF OpenLive
  <2>5. ClientTypeOK' /\ OneClient' /\ Toasts' /\ Complete'
    BY <1>1, <1>3, <1>5, <2>1, <2>2, <2>3 DEF ClientTypeOK, OneClient, Toasts, Complete, Follows, Screens, ListRequests
  <2>6. StreamReads'
    BY <2>1, <2>2, <2>3, <2>4 DEF StreamReads
  <2>7. Told'
    <3>1. Rank(follow.last.status) =< Rank(sent'.job.status)
      BY <1>1, <2>4, Ranks, Constants DEF Nothing
    <3> QED BY <1>1, <2>3, <2>4, <3>1 DEF Told
  <2>8. Connection'
    BY <1>1, <1>3, <1>5, <2>1, <2>4 DEF Connection, Connected
  <2> QED BY <2>1, <2>5, <2>6, <2>7, <2>8
<1>6. CASE ~screen.stream /\ OpenHistory /\ screen' = open
  <2>1. me' = me /\ job' = job /\ UNCHANGED <<rjob, rterm, heard, buffer, mem, pc, row>>
        /\ UNCHANGED <<server, pgUp, swept, jobVars>> /\ server = "serving" /\ GetPool
    BY <1>6 DEF me, job, OpenHistory, ConnectHistory
  <2>2. [Next]_vars
    BY <2>1, PoolStep DEF IInv
  <2>3. ~InMemory(job) /\ row[job] # Absent /\ spc' = [spc EXCEPT ![me] = "doneHistory"]
        /\ frame' = [frame EXCEPT ![me] = row[job]] /\ spc[me] = "off"
    <3>1. spc'[me] = "doneHistory" /\ spc[me] = "off"
      BY <1>6 DEF OpenHistory, ConnectHistory
    <3> QED BY <1>2, <1>6, <3>1 DEF OpenHistory, ConnectHistory
  <2>4. spc'[me] = "doneHistory" /\ frame'[me] = row[job]
        /\ spc' \in [Reader -> {"off", "poll", "type", "copyStatus", "copyRest", "done", "doneHistory"}]
        /\ frame' \in [Reader -> Snapshot]
    BY <1>2, <2>3 DEF ClientTypeOK
  <2>5. Had' = Had /\ Copies' = Copies /\ Events' = Events /\ InMemory(job)' = InMemory(job)
    BY <2>1, SameJobs
  <2>6. sent' = [event |-> "done", job |-> row[job]] /\ wire' = Wire("done", row[job], world.eol)
    BY <1>6, <2>4 DEF OpenHistory
  <2>7. sent' \in Events
    <3>1. row[job] \in Copies /\ pc[job] # Unborn
      BY <2>3, CopiesOf
    <3>2. \A f : f = [event |-> "done", job |-> row[job]] => f \in Events
      BY <2>3, <3>1 DEF Events
    <3> QED BY <2>6, <3>2
  <2>8. Flows'
    <3>1. wire' = Line' /\ sent'.event # "none"
      BY <2>6 DEF Line
    <3>2. buffer = <<>>
      BY <1>1, <1>6, <2>3 DEF Connection, Connected
    <3> QED BY <2>1, <3>1, <3>2 DEF Flows
  <2>9. ClientTypeOK' /\ OneClient' /\ Toasts' /\ Complete'
    BY <1>1, <1>3, <1>6, <2>1, <2>4, <2>5 DEF ClientTypeOK, OneClient, Toasts, Complete, Follows, Screens, ListRequests
  <2>10. StreamReads'
    BY <2>1, <2>4 DEF StreamReads, Streaming
  <2>11. Told'
    BY <1>1, <2>1, <2>3, <2>5, <2>7 DEF Told
  <2>12. Connection'
    BY <1>1, <1>3, <1>6, <2>1, <2>4, <2>8 DEF Connection, Connected, Streaming
  <2> QED BY <2>2, <2>9, <2>10, <2>11, <2>12
<1>7. CASE NotFound /\ screen' = keyed
  <2>1. UNCHANGED <<rjob, rterm, rlast, mem, pc, row>> /\ UNCHANGED wireVars
        /\ UNCHANGED <<server, pgUp, swept, jobVars>> /\ server = "serving" /\ GetPool
    BY <1>7 DEF NotFound, ConnectHistory
  <2>2. [Next]_vars
    BY <2>1, PoolStep DEF IInv
  <2>3. spc' = spc /\ frame' = frame
    <3>1. spc'[me] = "off"
      BY <1>7 DEF NotFound
    <3>2. [spc EXCEPT ![me] = "doneHistory"][me] = "doneHistory"
      BY <1>2 DEF ClientTypeOK
    <3> QED BY <1>7, <3>1, <3>2 DEF NotFound, ConnectHistory
  <2>4. CInv'
    BY <1>1, <1>2, <1>3, <1>7, <2>1, <2>2, <2>3, ListMoves DEF streamVars
  <2> QED BY <2>2, <2>4
<1>8. CASE screen' = keyed /\ UNCHANGED <<watchedVars, wireVars>>
  <2>1. UNCHANGED vars /\ UNCHANGED streamVars
    BY <1>8 DEF watchedVars
  <2> QED BY <1>1, <1>2, <1>3, <1>8, <2>1, ListMoves
<1> QED BY <1>4, <1>5, <1>6, <1>7, <1>8

\* What the screen becomes with a frame.
LEMMA ShowTypes ==
    ASSUME screen \in Screens, NEW f, f.job.status \in Status
    PROVE  /\ Shows(f) \in Screens
           /\ f.event # "done" => /\ Shows(f).stream = screen.stream /\ Shows(f).told = screen.told
                                  /\ Shows(f).toasts = screen.toasts
                                  /\ Shows(f).processed = screen.processed
           /\ f.event = "done" =>
                 /\ ~Shows(f).stream /\ Shows(f).processed
                 /\ screen.processed => Shows(f).told = screen.told /\ Shows(f).toasts = screen.toasts
                 /\ ~screen.processed => /\ Shows(f).toasts = screen.toasts + 1
                                         /\ Shows(f).told = IF f.job.status = "succeeded"
                                                            THEN "succeeded" ELSE "failed"
<1> PICK shown : shown = IF screen.shown = "absent" THEN screen.shown ELSE f.job.status
  OBVIOUS
<1>0. shown \in Status
  BY DEF Screens
<1> PICK s : s = [screen EXCEPT !.shown = shown]
  OBVIOUS
<1>1. /\ s \in Screens /\ s.stream = screen.stream /\ s.told = screen.told
      /\ s.toasts = screen.toasts /\ s.processed = screen.processed
  BY <1>0 DEF Screens
<1>2. Shows(f) = IF f.event = "done" THEN Done(s, f.job.status) ELSE s
  BY DEF Shows
<1>3. CASE f.event # "done"
  BY <1>1, <1>2, <1>3
<1>4. CASE f.event = "done"
  <2>1. Shows(f) = Done(s, f.job.status)
    BY <1>2, <1>4
  <2>2. CASE s.processed
    <3>1. Shows(f) = [s EXCEPT !.stream = FALSE]
      BY <2>1, <2>2 DEF Done
    <3> QED BY <1>1, <1>4, <2>2, <3>1 DEF Screens
  <2>3. CASE ~s.processed
    <3> PICK t : t = IF f.job.status = "succeeded" THEN "succeeded" ELSE "failed"
      OBVIOUS
    <3>1. t \in {"none", "succeeded", "failed"} /\ s.toasts + 1 \in Nat
      BY <1>1 DEF Screens
    <3>2. Shows(f) = [s EXCEPT !.stream = FALSE, !.processed = TRUE, !.toasts = s.toasts + 1, !.told = t]
      BY <2>1, <2>3 DEF Done
    <3> QED BY <1>1, <1>4, <2>3, <3>1, <3>2 DEF Screens
  <2> QED BY <2>2, <2>3
<1> QED BY <1>3, <1>4

\* A chunk is read from the stream of the list, and a whole frame is shown.
LEMMA WebReceiveMoves ==
    ASSUME IInv, CInv, WebReceives, UNCHANGED world
    PROVE  CInv'
<1> USE DEF CInv
<1>1. me = "web" /\ screen.stream /\ UNCHANGED <<watchedVars, follow>>
      /\ follow.at = "connect" /\ follow.last = Absent
  BY DEF WebReceives, OneClient
<1> PICK n \in Chunks : \E cut \in WebBuffer(buffer, Chunk(n)) :
        LET told == Frames(cut.raw) # <<>> /\ heard'.event = "done" /\ ~screen.processed
            free == {p \in world.polls : Asks(p)}
        IN /\ Receives(n, cut)
           /\ screen' = IF Frames(cut.raw) = <<>> THEN screen ELSE Shows(heard')
           /\ IF told /\ free # {} THEN \E p \in free : poll' = Asked(p) ELSE UNCHANGED poll
  BY DEF WebReceives
<1>2. PICK cut \in WebBuffer(buffer, Chunk(n)) :
        /\ Receives(n, cut)
        /\ screen' = IF Frames(cut.raw) = <<>> THEN screen ELSE Shows(heard')
        /\ (\E p \in world.polls : poll' = Asked(p)) \/ UNCHANGED poll
  OBVIOUS
<1>3. me' = me /\ job' = job /\ UNCHANGED vars /\ UNCHANGED streamVars /\ sent' = sent
  BY <1>1, <1>2 DEF me, job, watchedVars, streamVars, Receives
<1>4. Had' = Had /\ Copies' = Copies /\ Events' = Events /\ InMemory(job)' = InMemory(job)
  BY <1>3, SameJobs
<1>5. /\ Flows' /\ sent.event # "none"
      /\ \/ Frames(cut.raw) = <<>> /\ heard' = heard
         \/ Frames(cut.raw) # <<>> /\ heard' = sent /\ wire' = <<>> /\ buffer' = <<>>
  <2>1. cut \in Buffers(me, buffer, Chunk(n))
    BY <1>1, ParserOf
  <2>2. Flows /\ sent \in Events /\ world \in Worlds
    BY <1>1 DEF Connection, Connected, Told, ClientTypeOK
  <2> QED BY <1>2, <1>3, <2>1, <2>2, Receiving
<1>6. sent \in Events /\ sent.job.status \in Status /\ sent.job.status \in Had /\ screen \in Screens
  BY DEF Told, Events, Copies, Had, ClientTypeOK
<1>7. \/ screen' = screen /\ heard' = heard
      \/ screen' = Shows(sent) /\ heard' = sent /\ wire' = <<>> /\ buffer' = <<>>
  BY <1>2, <1>5
<1>8. screen' \in Screens
  BY <1>6, <1>7, ShowTypes
<1>9. poll' \in [world.polls -> ListRequests]
  <2>1. [at |-> IF InMemory(job) THEN "answer" ELSE "rows", status |-> mem[job].status] \in ListRequests
    BY Following DEF ListRequests, IInv, Snapshot
  <2>2. poll \in [world.polls -> ListRequests]
    BY DEF ClientTypeOK
  <2> QED BY <1>2, <2>1, <2>2 DEF Asked
<1>10. Complete' /\ ClientTypeOK' /\ OneClient'
  BY <1>1, <1>3, <1>8, <1>9 DEF Complete, ClientTypeOK, OneClient, streamVars, Follows, Screens, ListRequests
<1>11. StreamReads'
  BY <1>3, <1>4 DEF StreamReads, streamVars
<1>12. Told'
  BY <1>1, <1>3, <1>4, <1>6, <1>7 DEF Told
<1>13. CASE screen' = screen /\ heard' = heard
  <2>1. Toasts'
    BY <1>3, <1>4, <1>13 DEF Toasts
  <2>2. Connection'
    BY <1>1, <1>3, <1>5, <1>13 DEF Connection, Connected, streamVars
  <2> QED BY <1>10, <1>11, <1>12, <2>1, <2>2
<1>14. CASE screen' = Shows(sent) /\ heard' = sent /\ wire' = <<>> /\ buffer' = <<>>
  <2>1. CASE sent.event # "done"
    <3>1. /\ screen'.stream = screen.stream /\ screen'.told = screen.told
          /\ screen'.toasts = screen.toasts /\ screen'.processed = screen.processed
      BY <1>6, <1>14, <2>1, ShowTypes
    <3>2. Toasts'
      BY <1>3, <1>4, <3>1 DEF Toasts
    <3>3. Connection'
      BY <1>1, <1>3, <1>5, <3>1 DEF Connection, Connected, streamVars
    <3> QED BY <1>10, <1>11, <1>12, <3>2, <3>3
  <2>2. CASE sent.event = "done"
    <3>1. /\ ~screen'.stream /\ screen'.processed
          /\ screen.processed => screen'.told = screen.told /\ screen'.toasts = screen.toasts
          /\ ~screen.processed => /\ screen'.toasts = screen.toasts + 1
                                  /\ screen'.told = IF sent.job.status = "succeeded"
                                                    THEN "succeeded" ELSE "failed"
      BY <1>6, <1>14, <2>2, ShowTypes
    <3>2. pc[job] # Unborn /\ (InMemory(job) => sent.job.status \in Terminal)
      BY <1>6, <2>2 DEF Events
    <3>3. InMemory(job) => sent.job.status = mem[job].status
      BY <1>6, <3>2, CopiesOf
    <3>4. InMemory(job) /\ ~screen.processed => screen'.told = mem[job].status
      BY <3>1, <3>2, <3>3 DEF Terminal
    <3>5. screen'.toasts = 1
      BY <3>1 DEF Toasts
    <3>6. Toasts'
      BY <1>3, <1>4, <3>1, <3>2, <3>4, <3>5 DEF Toasts
    <3>7. spc[me] \notin Streaming
      BY <2>2 DEF StreamReads
    <3>8. Connection'
      BY <1>1, <1>3, <1>14, <3>1, <3>7 DEF Connection, Connected, streamVars
    <3> QED BY <1>10, <1>11, <1>12, <3>6, <3>8
  <2> QED BY <2>1, <2>2
<1> QED BY <1>7, <1>13, <1>14

\* The connection of the list was cut, or its request is over.
LEMMA WebLeaves ==
    ASSUME IInv, CInv, WebStreamCut \/ WebStreamOver, UNCHANGED world
    PROVE  CInv'
<1> USE DEF CInv
<1>1. me = "web" /\ Hangs /\ UNCHANGED <<follow, poll>> /\ follow.at = "connect" /\ follow.last = Absent
  BY DEF WebStreamCut, WebStreamOver, OneClient
<1>2. me' = me /\ job' = job /\ UNCHANGED vars /\ UNCHANGED rjob
  BY <1>1 DEF me, job, WebStreamCut, WebStreamOver, Disconnect, watchedVars, streamVars
<1>3. me \in Reader /\ screen \in Screens
  BY Following DEF IInv, ClientTypeOK
<1>4. spc'[me] = "off"
      /\ spc' \in [Reader -> {"off", "poll", "type", "copyStatus", "copyRest", "done", "doneHistory"}]
      /\ rterm' \in [Reader -> BOOLEAN] /\ frame' \in [Reader -> Snapshot]
  <2>1. CASE WebStreamCut
    <3>1. UNCHANGED streamVars /\ spc[me] = "off"
      BY <2>1 DEF WebStreamCut, watchedVars
    <3> QED BY <3>1 DEF streamVars, ClientTypeOK
  <2>2. CASE WebStreamOver
    BY <1>3, <2>2, Constants DEF WebStreamOver, Disconnect, ClientTypeOK
  <2> QED BY <2>1, <2>2
<1>5. /\ screen' \in Screens /\ ~screen'.stream /\ screen'.told = screen.told
      /\ screen'.toasts = screen.toasts /\ screen'.processed = screen.processed
  BY <1>3 DEF WebStreamCut, WebStreamOver, Screens
<1>6. Had' = Had /\ Copies' = Copies /\ Events' = Events /\ InMemory(job)' = InMemory(job)
  BY <1>2, SameJobs
<1>7. sent' \in Events' /\ heard' \in Events' /\ sent' = Nothing /\ wire' = <<>> /\ buffer' = <<>>
  BY <1>1, <1>2, Hanging
<1>8. Complete' /\ ClientTypeOK' /\ OneClient' /\ Toasts'
  BY <1>1, <1>2, <1>4, <1>5, <1>6
     DEF Complete, ClientTypeOK, OneClient, Toasts, Follows, Screens, ListRequests
<1>9. StreamReads'
  BY <1>2, <1>4 DEF StreamReads, Streaming
<1>10. Told'
  <2>1. Rank(follow.last.status) =< Rank(sent'.job.status)
    BY <1>1, <1>7, Ranks, Constants DEF Nothing
  <2> QED BY <1>1, <1>6, <1>7, <2>1 DEF Told
<1>11. Connection'
  BY <1>1, <1>2, <1>4, <1>5, <1>7 DEF Connection, Connected, Streaming
<1> QED BY <1>8, <1>9, <1>10, <1>11

-----------------------------------------------------------------------------
(* The theorems.                                                           *)

\* Nothing is followed yet.
LEMMA ClientInitInv == ClientInit => IInv /\ CInv
<1> SUFFICES ASSUME ClientInit PROVE IInv /\ CInv
  OBVIOUS
<1>1. Init /\ IInv
  BY InvInit DEF ClientInit, StreamInit
<1>2. \A j \in Job : pc[j] = Unborn /\ mem[j] = Absent /\ row[j] = Absent
  BY <1>1 DEF Init
<1>3. ClientTypeOK
  <2>1. /\ spc \in [Reader -> {"off", "poll", "type", "copyStatus", "copyRest", "done", "doneHistory"}]
        /\ rjob \in [Reader -> Job] /\ rterm \in [Reader -> BOOLEAN] /\ frame \in [Reader -> Snapshot]
    BY Constants DEF ClientInit, StreamInit
  <2>2. follow \in Follows /\ screen \in Screens
    BY Constants DEF ClientInit, Follows, Screens, Status
  <2>3. poll \in [world.polls -> ListRequests]
    BY DEF ClientInit, NoPoll, ListRequests, Status
  <2> QED BY <2>1, <2>2, <2>3 DEF ClientInit, ClientTypeOK
<1>4. me \in Reader /\ job \in Job
  BY <1>1, <1>3, Following DEF IInv
<1>5. ~InMemory(job) /\ spc[me] = "off"
  BY <1>2, <1>4, Constants DEF InMemory, ClientInit, StreamInit
<1>6. Complete
  BY <1>2, Constants DEF Complete, Unborn, Absent
<1>7. Absent \in Copies /\ "absent" \in Had /\ Nothing \in Events
  <2>1. "absent" \in Had
    BY DEF Had, Status
  <2>2. Absent \in Copies
    BY <2>1, Constants DEF Copies
  <2>3. Nothing \in Events
    BY <2>2 DEF Nothing, Events
  <2> QED BY <2>1, <2>2, <2>3
<1>8. OneClient /\ Toasts
  BY DEF ClientInit, OneClient, Toasts
<1>9. StreamReads
  BY <1>5 DEF StreamReads, Streaming
<1>10. Told
  BY <1>5, <1>7, Constants DEF ClientInit, Told
<1>11. Connection
  BY <1>5 DEF ClientInit, Connection, Connected, Flows, Streaming
<1> QED BY <1>1, <1>3, <1>6, <1>8, <1>9, <1>10, <1>11 DEF CInv

\* Every step keeps the invariant, and is a step of the jobs or none.
LEMMA ClientInvStep == IInv /\ CInv /\ [ClientNext]_everything => IInv' /\ CInv' /\ [Next]_vars
<1> SUFFICES ASSUME IInv, CInv, [ClientNext]_everything PROVE CInv' /\ [Next]_vars
  BY InvStep
<1>1. CASE UNCHANGED everything
  <2>1. UNCHANGED vars /\ UNCHANGED <<streamVars, clientVars, world>>
    BY <1>1 DEF everything, watchedVars
  <2> QED BY <2>1, JobsMove
<1>2. CASE Faults /\ UNCHANGED world
  <2>1. CASE CrashCutsStreams /\ UNCHANGED clientVars
    <3>1. [Next]_vars
      BY <2>1 DEF CrashCutsStreams, Next, Environment
    <3> QED BY <1>2, <2>1, <3>1, CrashMoves
  <2>2. CASE PostgresStops /\ UNCHANGED streamVars /\ UNCHANGED clientVars
    <3>1. [Next]_vars /\ server' = server
      BY <2>2 DEF PostgresStops, Next, Environment
    <3> QED BY <1>2, <2>2, <3>1, JobsMove
  <2> QED BY <1>2, <2>1, <2>2 DEF Faults
<1>3. CASE Server /\ UNCHANGED world
  <2>1. CASE (PostgresStarts \/ LazyConnect \/ Boot) /\ UNCHANGED <<streamVars, clientVars>>
    <3>1. [Next]_vars
      BY <2>1 DEF Next, Environment
    <3>2. server' # "down" \/ server' = server
      BY <2>1 DEF PostgresStarts, LazyConnect, Boot, BootInitDb, BootSweep, BootServe
    <3> QED BY <1>3, <2>1, <3>1, <3>2, JobsMove
  <2>2. CASE (\E j \in Job : JobStep(j)) /\ UNCHANGED <<streamVars, clientVars>>
    <3>1. [Next]_vars
      BY <2>2 DEF Next, JobStep
    <3>2. server' = server
      <4>1. ASSUME NEW j \in Job, Worker(j) PROVE server' = server
        BY <4>1, WorkerEffect DEF IInv
      <4>2. ASSUME NEW j \in Job, Submit(j) \/ PersistQueued(j) PROVE server' = server
        BY <4>2 DEF Submit, PersistQueued
      <4> QED BY <2>2, <4>1, <4>2 DEF JobStep
    <3> QED BY <1>3, <2>2, <3>1, <3>2, JobsMove
  <2>3. CASE ServerSends
    <3>1. UNCHANGED vars
      BY <2>3 DEF ServerSends, CopyRest
    <3> QED BY <1>3, <2>3, <3>1, SendMoves
  <2>4. CASE ServerStreams
    <3>1. UNCHANGED vars
      BY <2>4 DEF ServerStreams, Notice, ChooseType, CopyStatus
    <3> QED BY <1>3, <2>4, <3>1, StreamMoves
  <2> QED BY <1>3, <2>1, <2>2, <2>3, <2>4 DEF Server
<1>4. CASE Client /\ UNCHANGED world
  <2>1. CASE CliConnects
    BY <1>4, <2>1, ConnectMoves
  <2>2. CASE CliReceives
    <3>1. UNCHANGED vars
      BY <2>2 DEF CliReceives, watchedVars
    <3> QED BY <1>4, <2>2, <3>1, CliReceiveMoves
  <2>3. CASE CliStreamEnds \/ Watchdog
    <3>1. UNCHANGED vars
      BY <2>3 DEF CliStreamEnds, Watchdog, Disconnect, watchedVars
    <3> QED BY <1>4, <2>3, <3>1, CliLeaves
  <2>4. CASE CliPolls
    BY <1>4, <2>4, PollMoves
  <2>5. CASE CliCopies
    <3>1. UNCHANGED vars
      BY <2>5 DEF CliCopies, watchedVars
    <3> QED BY <1>4, <2>5, <3>1, CopyMoves
  <2>6. CASE WebEffect
    BY <1>4, <2>6, EffectMoves
  <2>7. CASE WebReceives
    <3>1. UNCHANGED vars
      BY <2>7 DEF WebReceives, watchedVars
    <3> QED BY <1>4, <2>7, <3>1, WebReceiveMoves
  <2>8. CASE WebStreamCut \/ WebStreamOver
    <3>1. UNCHANGED vars
      BY <2>8 DEF WebStreamCut, WebStreamOver, Disconnect, watchedVars
    <3> QED BY <1>4, <2>8, <3>1, WebLeaves
  <2>9. ASSUME NEW p \in world.polls, PollStep(p) PROVE CInv' /\ [Next]_vars
    BY <1>4, <2>9, PollStepMoves
  <2> QED BY <1>4, <2>1, <2>2, <2>3, <2>4, <2>5, <2>6, <2>7, <2>8, <2>9
          DEF Client, CliStep, WebStep, WebStream
<1> QED BY <1>1, <1>2, <1>3, <1>4 DEF ClientNext

\* The invariant holds always.
LEMMA ClientInvariance == ClientSpec => [](IInv /\ CInv)
<1> DEFINE Both == IInv /\ CInv
<1>1. ClientInit => Both
  BY ClientInitInv
<1>2. Both /\ [ClientNext]_everything => Both'
  BY ClientInvStep
<1>3. ClientSpec => ClientInit /\ [][ClientNext]_everything
  BY PTL DEF ClientSpec
<1> HIDE DEF Both
<1>4. ClientSpec => []Both
  BY <1>1, <1>2, <1>3, PTL
<1> QED BY <1>4 DEF Both

\* With its clients the server is still the job core: what was shown of jobs
\* holds of jobs that are followed.
THEOREM ClientsFollowJobs == ClientSpec => Spec
<1>1. ClientInit => Init
  BY DEF ClientInit, StreamInit
<1>2. IInv /\ CInv /\ [ClientNext]_everything => [Next]_vars
  BY ClientInvStep
<1>3. ClientSpec => ClientInit /\ [][ClientNext]_everything
  BY PTL DEF ClientSpec
<1> QED BY <1>1, <1>2, <1>3, ClientInvariance, PTL DEF Spec

\* Cut into chunks of any length, with the line ends the client's parser takes,
\* every frame the server sends arrives, and nothing else.
THEOREM FramesAlwaysArrive == ClientSpec => []FramesArrive
BY Arrives, ClientInvariance, PTL

\* What a client is told at the end is how the job ended.
THEOREM OutcomeIsAlwaysTold == ClientSpec => []OutcomeIsTold
<1>1. IInv /\ CInv => OutcomeIsTold
  <2> SUFFICES ASSUME IInv, CInv PROVE OutcomeIsTold
    OBVIOUS
  <2>1. follow.last.status \in Had /\ (follow.last.status = "succeeded" => follow.last.result)
    BY DEF CInv, Told, Copies
  <2>2. InMemory(job) /\ follow.last.status \in Terminal => follow.last.status = mem[job].status
    BY <2>1, CopiesOf
  <2>3. screen.toasts =< 1
    BY DEF CInv, Toasts
  <2> QED BY <2>1, <2>2, <2>3 DEF OutcomeIsTold, CInv, Told, Toasts
<1> QED BY <1>1, ClientInvariance, PTL

\* The progress that followJob prints never goes back, whichever way it came.
LEMMA ProgressStep ==
    ASSUME IInv, CInv, ClientNext, InMemory(job)'
    PROVE  Rank(follow.last.status) =< Rank(follow'.last.status)
<1> USE DEF CInv
<1>1. CASE follow'.last = follow.last
  BY <1>1, Ranks
<1>2. CASE CliReceives
  <2>1. follow'.last \in {follow.last, sent.job} /\ follow.at = "sse" /\ InMemory(job)
    <3>1. follow'.last \in {follow.last, sent.job}
      BY <1>2, CliReceiveMoves DEF ClientNext
    <3>2. UNCHANGED watchedVars /\ world' = world /\ follow.at = "sse"
      BY <1>2 DEF CliReceives, ClientNext
    <3> QED BY <3>1, <3>2 DEF watchedVars, streamVars, InMemory, job, me
  <2> QED BY <1>1, <2>1 DEF Told
<1>3. CASE CliPolls /\ follow'.last # follow.last
  <2>1. ~InMemory(job) /\ UNCHANGED <<mem, rjob>> /\ world' = world
    BY <1>3, FollowTypes DEF CliPolls, ClientNext, CliGoes, ClientTypeOK, Follows, streamVars
  <2> QED BY <2>1 DEF InMemory, job, me
<1>4. CASE CliCopies /\ follow'.last # follow.last
  <2>1. /\ follow' = Yields([mem[job] EXCEPT !.status = follow.copy.status], "poll")
        /\ follow.at = "copy" /\ InMemory(job)
    BY <1>4, FollowTypes DEF CliCopies, CliGoes
  <2>2. mem[job] \in Snapshot /\ follow.copy.status \in Status
    BY Following DEF IInv, Told, Had
  <2>3. [mem[job] EXCEPT !.status = follow.copy.status] \in Snapshot
        /\ [mem[job] EXCEPT !.status = follow.copy.status].status = follow.copy.status
    BY <2>2 DEF Snapshot
  <2>4. follow'.last.status = follow.copy.status
    BY <2>1, <2>3, FollowTypes
  <2> QED BY <2>1, <2>4 DEF Told
<1>5. CASE CliConnects \/ CliStreamEnds \/ Watchdog
  <2>1. \E place \in {"sse", "notFound", "poll"} : CliGoes(place)
    BY <1>5 DEF CliConnects, CliStreamEnds, Watchdog
  <2> QED BY <1>1, <2>1, FollowTypes DEF CliGoes
<1>6. CASE Faults \/ Server
  BY <1>1, <1>6 DEF Faults, Server, ServerSends, ServerStreams, clientVars
<1>7. CASE WebStep
  BY <1>1, <1>7 DEF WebStep, WebEffect, WebStream, WebReceives, WebStreamCut, WebStreamOver,
                    PollStep, WebPolls, WebPollReadsRows, WebPollAnswers, WebPollFails
<1> QED BY <1>1, <1>2, <1>3, <1>4, <1>5, <1>6, <1>7 DEF ClientNext, Client, CliStep

\* Over stream, watchdog and polls, followJob never prints that a live job has
\* gone back.
THEOREM ProgressAlwaysGrows == ClientSpec => ProgressOnlyGrows
<1>1. IInv /\ CInv /\ [ClientNext]_everything
          => [InMemory(job)' => Rank(follow.last.status) =< Rank(follow'.last.status)]_everything
  BY ProgressStep
<1>2. ClientSpec => ClientInit /\ [][ClientNext]_everything
  BY PTL DEF ClientSpec
<1> QED BY <1>1, <1>2, ClientInvariance, PTL DEF ProgressOnlyGrows
=============================================================================
