------------------------------ MODULE Requests ------------------------------
(***************************************************************************)
(* The API process as its request handlers see it: a handler is a           *)
(* coroutine that runs from one await to the next, so a step of this        *)
(* specification is what happens between two awaits, usually one statement  *)
(* of Postgres.  A crash ends every handler at once and a request that is   *)
(* answered leaves nothing behind.  Components keep what a handler holds    *)
(* across its awaits in call[r]; pc names the await it is suspended at.     *)
(***************************************************************************)
EXTENDS Naturals

CONSTANTS Slots,         \* how many requests may be in progress at once
          MaxRequests,   \* bound on the requests of a behaviour
          MaxFaults      \* bound on the faults: Postgres stops, the process dies, or both

ASSUME BoundsAssumption ==
    /\ MaxRequests \in Nat
    /\ MaxFaults \in Nat

VARIABLES serving,    \* the process is up and past its lifespan hook
          postgres,   \* Postgres answers
          call,       \* what the handler in a slot holds; Idle when free
          requests,   \* requests accepted so far
          faults      \* faults so far

requestVars == <<serving, postgres, call, requests, faults>>

Idle == [pc |-> "idle"]

At(r, pc) == call[r].pc = pc

(* A statement of r reaches Postgres.  When it does not, the component says  *)
(* what becomes of the handler.                                             *)
Reaches(r, pc) == At(r, pc) /\ postgres

InitRequests ==
    /\ serving = TRUE /\ postgres = TRUE
    /\ call = [r \in Slots |-> Idle]
    /\ requests = 0 /\ faults = 0

Begin(r, c) ==
    /\ serving /\ At(r, "idle") /\ requests < MaxRequests
    /\ call' = [call EXCEPT ![r] = c]
    /\ requests' = requests + 1
    /\ UNCHANGED <<serving, postgres, faults>>

Advance(r, c) ==
    /\ call' = [call EXCEPT ![r] = c]
    /\ UNCHANGED <<serving, postgres, requests, faults>>

Moves(r, pc) == Advance(r, [call[r] EXCEPT !.pc = pc])

Answer(r) == Advance(r, Idle)

PostgresFails ==
    /\ postgres /\ faults < MaxFaults
    /\ postgres' = FALSE /\ faults' = faults + 1
    /\ UNCHANGED <<serving, call, requests>>

PostgresReturns ==
    /\ ~postgres /\ postgres' = TRUE
    /\ UNCHANGED <<serving, call, requests, faults>>

(* The process dies alone, or with the host it shares with Postgres. *)
ProcessDies ==
    /\ serving /\ faults < MaxFaults
    /\ serving' = FALSE /\ faults' = faults + 1
    /\ postgres' \in {postgres, FALSE}
    /\ call' = [r \in Slots |-> Idle]
    /\ UNCHANGED requests

ProcessBoots ==
    /\ ~serving /\ serving' = TRUE
    /\ UNCHANGED <<postgres, call, requests, faults>>
=============================================================================
