---------------------------- MODULE ProjectLock ----------------------------
(***************************************************************************)
(* What services.jobs promises its callers about a project: at any time at *)
(* most one job of any kind holds it, a job takes it once, gives it back   *)
(* once, and loses it only with the process.                               *)
(***************************************************************************)
CONSTANTS Job, Project, ProjectOf

VARIABLES
    holder,   \* the jobs that hold each project
    over      \* the jobs that once held their project and do not any more

vars == <<holder, over>>

Init ==
    /\ holder = [p \in Project |-> {}]
    /\ over = {}

Acquire(j) ==
    /\ j \notin over
    /\ holder[ProjectOf[j]] = {}
    /\ holder' = [holder EXCEPT ![ProjectOf[j]] = {j}]
    /\ over' = over

Release(j) ==
    /\ j \in holder[ProjectOf[j]]
    /\ holder' = [holder EXCEPT ![ProjectOf[j]] = {}]
    /\ over' = over \union {j}

LoseAll ==
    /\ holder' = [p \in Project |-> {}]
    /\ over' = over \union UNION {holder[p] : p \in Project}

Next == LoseAll \/ \E j \in Job : Acquire(j) \/ Release(j)

Spec == Init /\ [][Next]_vars
=============================================================================
