------------------------------ MODULE BugHunt ------------------------------
(***************************************************************************)
(* The bug hunt of services/routines/bughunt.py: one agent loop, a verdict  *)
(* parsed with one retry, at most one pushback (a second loop) for findings *)
(* reported without reading code, then validation and summary.              *)
(***************************************************************************)
EXTENDS AgentLoop, CoreStages

CONSTANTS PushbackRounds,   \* PUSHBACK_MAX_ROUNDS
          Spans,            \* graph files -> line spans of their entities
          DiskFiles,        \* files under repo_path that the graph lacks
          InScope           \* files under path_prefix

ASSUME PushbackAssumption == PushbackRounds \in Nat \ {0}

ReadTools == {"get_entity", "get_file"}

NewHunt(names) ==
    [kind |-> "bughunt", stage |-> "resolve", cause |-> "none", names |-> names,
     sizes |-> <<>>, got |-> <<>>, findings |-> <<>>,
     pushed |-> FALSE, earlier |-> {}, skills |-> <<>>, answer |-> NoAnswer]

At(stage) == run.kind = "bughunt" /\ run.stage = stage

OpenClient ==
    /\ At("client")
    /\ \/ /\ run' = [run EXCEPT !.stage = "loop"]
          /\ loop' = NewLoop(MaxRounds)
       \/ Fails("weaviate") /\ UNCHANGED loop

(* chat_with_tools raises. *)
ChatRaises == At("loop") /\ loop.at = "chat" /\ Fails("provider") /\ UNCHANGED loop

(* run_agent_loop has returned: its answer is parsed. *)
LoopReturns ==
    /\ At("loop") /\ loop.at = "answered"
    /\ run' = [run EXCEPT !.stage = IF loop.answer.ok THEN "judge" ELSE "retry", !.answer = loop.answer]
    /\ UNCHANGED loop

(* One plain chat call that asks for the JSON alone. *)
RetryParse ==
    /\ At("retry")
    /\ \/ \E answer \in Answers : run' = [run EXCEPT !.stage = "judge", !.answer = answer]
       \/ Fails("provider")
    /\ UNCHANGED loop

(* run_bughunt adds up the two loops: tools as a set, skills without repeats. *)
AllTools == run.earlier \cup ToolsCalled(loop)
AllSkills ==
    LET news == {k \in DOMAIN loop.loaded : \A i \in DOMAIN run.skills : run.skills[i] # loop.loaded[k]}
    IN  run.skills \o Sublist(loop.loaded, news)

(* Mutants: findings are believed at once; every unread answer is pushed back. *)
NeedsPushbackNever == FALSE
NeedsPushbackAlways == run.answer.ok /\ run.answer.raw # <<>> /\ AllTools \cap ReadTools = {}

NeedsPushback ==
    /\ ~run.pushed /\ run.answer.ok /\ run.answer.raw # <<>>
    /\ AllTools \cap ReadTools = {}

PushBack ==
    /\ At("judge") /\ NeedsPushback
    /\ run' = [run EXCEPT !.stage = "loop", !.pushed = TRUE, !.earlier = AllTools, !.skills = AllSkills]
    /\ loop' = NewLoop(PushbackRounds)

(* A verdict that did not parse, the second one too, degrades the run: it   *)
(* is done without findings.                                                *)
HuntEnds ==
    /\ At("judge") /\ ~NeedsPushback
    /\ run' = [run EXCEPT !.stage = IF run.answer.ok THEN "findings" ELSE "done",
                          !.skills = AllSkills, !.earlier = AllTools]
    /\ loop' = NoLoop

-----------------------------------------------------------------------------
(* _validate_finding: a finding is kept when it is complete and its file,   *)
(* made relative to the repository, is in scope and in the graph or on      *)
(* disk; its line anchors it when an entity of that file spans it.          *)
IsKept(raw) ==
    /\ raw.titled /\ raw.file \in InScope
    /\ raw.file \in DOMAIN Spans \cup DiskFiles

IsAnchored(raw) ==
    /\ raw.file \in DOMAIN Spans /\ raw.line # NoLine
    /\ \E span \in Spans[raw.file] : span[1] <= raw.line /\ raw.line <= span[2]

Finding(raw) == [file |-> raw.file, line |-> raw.line, anchored |-> IsAnchored(raw)]

ValidateFindings ==
    /\ At("findings")
    /\ LET raw == run.answer.raw
           kept == Sublist(raw, {i \in DOMAIN raw : IsKept(raw[i])})
       IN  IF \E i \in DOMAIN kept : kept[i].line = Infinite
           THEN Fails("noise")
           ELSE run' = [run EXCEPT !.stage = "summarize", !.findings = [i \in DOMAIN kept |-> Finding(kept[i])]]
    /\ UNCHANGED loop

HuntStep ==
    \/ /\ run.kind = "bughunt"
       /\ ResolveLlm("playbooks") \/ LoadPlaybooks("client") \/ Summarize
       /\ UNCHANGED loop
    \/ OpenClient \/ ChatRaises \/ LoopReturns \/ RetryParse \/ PushBack \/ HuntEnds \/ ValidateFindings
    \/ At("loop") /\ LoopStep /\ UNCHANGED run

-----------------------------------------------------------------------------
(* "A verdict with findings but no get_entity/get_file call anywhere in the *)
(* loop is not evidence-backed": what a hunt reports was preceded by a call *)
(* of a reading tool, in the first loop or in the one that demanded it, or  *)
(* at least by the demand.                                                  *)
EvidenceOrPushback ==
    run.kind = "bughunt" /\ run.stage \in {"summarize", "done"} /\ run.findings # <<>>
        => run.pushed \/ run.earlier \cap ReadTools # {}

(* "At most 3 skills may be loaded per run" (the description of load_skill). *)
SkillCapHolds == run.kind = "bughunt" /\ loop # NoLoop => Len(AllSkills) <= MaxLoadedSkills
=============================================================================
