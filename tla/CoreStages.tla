----------------------------- MODULE CoreStages -----------------------------
(***************************************************************************)
(* The stages that review and bug hunt share: the resolution of the model,  *)
(* the playbooks and the summary (services/routines/review.py, reused by    *)
(* bughunt.py).  A stage that raises fails the run, which the engine        *)
(* records; the stages run one after the other in the job's worker.         *)
(***************************************************************************)
EXTENDS Documents, Integers

VARIABLE run

NoLine == -99      \* a start_line that is null or not a number, below every line
Infinite == 99     \* 1e999: JSON that parses to a float that int() refuses

Goes(stage) == run' = [run EXCEPT !.stage = stage]
Fails(cause) == run' = [run EXCEPT !.stage = "failed", !.cause = cause]

(* _resolve_llm: nothing configured, a provider that needs a key it has     *)
(* not, or a model that its health check does not find.                     *)
ResolveLlm(next) ==
    /\ run.stage = "resolve"
    /\ Goes(next) \/ Fails("llm")

(* _stage_playbooks, and the bodies as the system prompt takes them. *)
LoadPlaybooks(next) == \E reached \in BOOLEAN :
    /\ run.stage = "playbooks"
    /\ LET names == FetchedPlaybooks(run.names, reached)
           sizes == [i \in DOMAIN names |-> playbooks[names[i]].size]
       IN  run' = [run EXCEPT !.stage = next, !.sizes = sizes, !.got = Included(sizes, InjectionMax)]

(* _stage_summarize: one more chat call, which may raise. *)
Summarize ==
    /\ run.stage = "summarize"
    /\ Goes("done") \/ Fails("provider")

Ended == run.stage \in {"done", "failed"}

(* Whatever was edited between launch and fetch, the injected playbooks     *)
(* stay under their cap, fill it when anything was cut, and give way from   *)
(* the last one on.                                                         *)
PlaybooksKeepPriority == KeepsPriority(run.sizes, run.got, InjectionMax)
=============================================================================
