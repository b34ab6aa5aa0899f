------------------------------- MODULE Review -------------------------------
(***************************************************************************)
(* The code review of services/routines/review.py: diff, context, skills    *)
(* and the analysis of each file.  Every git command resolves the target's  *)
(* name again, so the branch may move between the diff and the reads of     *)
(* the files.                                                               *)
(***************************************************************************)
EXTENDS GitDiff, CoreStages

CONSTANTS MaxFiles,            \* changed files of a review, at most
          MaxSelectedSkills,
          SkillInjectionMax,   \* SKILL_INJECTION_MAX_CHARS
          Picks,               \* what the model may answer when it selects skills
          Findings             \* what it may answer for a file: sequences of raw findings

RawFinding == [line : Int, path : STRING, file : STRING, titled : BOOLEAN]

ASSUME ReviewAssumption ==
    /\ {MaxFiles, MaxSelectedSkills, SkillInjectionMax} \subseteq Nat
    /\ Findings \subseteq Seq(RawFinding)

(* What git diff may list: a path is named twice only when the file was     *)
(* replaced by one of another kind, once as deleted.                        *)
Entry == [path : STRING, kind : {"text", "binary", "deleted", "mode"}, script : Seq(Letter)]
IsDiff(files) ==
    /\ files \in Seq(Entry)
    /\ \A i, j \in DOMAIN files :
          files[i].path = files[j].path /\ files[i].kind = "text" /\ files[j].kind = "text" => i = j

VARIABLES target,   \* the files that differ at the target now, and then when it moves
          moved

NoScript == <<>>

NewReview(names) ==
    [kind |-> "review", stage |-> "resolve", cause |-> "none", names |-> names,
     sizes |-> <<>>, got |-> <<>>, findings |-> <<>>,
     files |-> <<>>, seen |-> FALSE, next |-> 1, contexts |-> <<>>,
     picked |-> <<>>, skillSizes |-> <<>>, skillGot |-> <<>>]

Reviewing(stage) == run.kind = "review" /\ run.stage = stage
Tip == target[IF moved THEN 2 ELSE 1]

(* Someone commits to the target while the review runs. *)
TargetMoves ==
    /\ run.kind = "review" /\ run.stage \in {"resolve", "diff", "graph", "context"} /\ ~moved
    /\ moved' = TRUE
    /\ UNCHANGED <<run, target>>

-----------------------------------------------------------------------------
(* _stage_diff: what is reviewed is text with hunks; binary, deleted and    *)
(* mode-only entries are skipped.                                           *)
Reviewable(files) ==
    Sublist(files, {i \in DOMAIN files : files[i].kind = "text" /\ Changed(files[i].script) # {}})

ReadDiff ==
    /\ Reviewing("diff")
    /\ \/ Fails("git")
       \/ Tip = <<>> /\ Fails("empty")
       \/ Len(Tip) > MaxFiles /\ Fails("tooMany")
       \/ /\ Tip # <<>> /\ Len(Tip) <= MaxFiles
          /\ run' = [run EXCEPT !.stage = "graph", !.files = Reviewable(Tip), !.seen = moved]
    /\ UNCHANGED <<target, moved>>

(* No graph, or no Weaviate: the stage goes on without what they add. *)
OpenGraph ==
    /\ Reviewing("graph")
    /\ Goes("context")
    /\ UNCHANGED <<target, moved>>

NoContext == [excerpts |-> <<>>, truncated |-> FALSE, read |-> FALSE]

(* show_file at the target, as it is now. *)
ScriptNow(path) ==
    LET at == {i \in DOMAIN Tip : Tip[i].path = path /\ Tip[i].kind = "text"}
    IN  IF at = {} THEN NoScript ELSE Tip[CHOOSE i \in at : TRUE].script

NextFile(context) ==
    [run EXCEPT !.contexts = Append(@, context), !.next = @ + 1]

(* A file that is gone or that git fails to read has no excerpts; one that  *)
(* is not UTF-8 outside its hunks fails the run.                            *)
ReadFile ==
    /\ Reviewing("context") /\ run.next <= Len(run.files)
    /\ LET file == run.files[run.next]
           n == ContentLines(ScriptNow(file.path))
           ranges == ChangedRanges(file.script)
           cut == Excerpts(ranges, n)
       IN  \/ run' = NextFile(NoContext)
           \/ Fails("undecodable")
           \/ /\ ScriptNow(file.path) # NoScript
              /\ IF Raises(cut.of, n) THEN Fails("excerpt")
                 ELSE run' = NextFile([excerpts |-> cut.of, truncated |-> cut.truncated,
                                       read |-> run.seen = moved])
    /\ UNCHANGED <<target, moved>>

ContextEnds ==
    /\ Reviewing("context") /\ run.next > Len(run.files)
    /\ run' = [run EXCEPT !.stage = "playbooks", !.next = 1]
    /\ UNCHANGED <<target, moved>>

-----------------------------------------------------------------------------
(* _stage_skills: a catalog, a selection with one retry, a fetch of each.   *)
(* Only the first few names count, known or not.                            *)
Selected(pick, catalog) ==
    Sublist(pick, {i \in 1 .. Least(Len(pick), MaxSelectedSkills) : pick[i] \in catalog})

SelectSkills == \E reached \in BOOLEAN :
    /\ Reviewing("skills")
    /\ IF Catalog(reached) = {} THEN Goes("prompt")
       ELSE \/ Fails("provider")
            \/ \E pick \in Picks : run' = [run EXCEPT !.stage = "fetch", !.picked = Selected(pick, Catalog(reached))]
    /\ UNCHANGED <<target, moved>>

FetchSkill == \E reached \in BOOLEAN :
    /\ Reviewing("fetch")
    /\ IF run.picked = <<>> THEN Goes("prompt")
       ELSE run' = [run EXCEPT !.picked = Tail(@),
                               !.skillSizes = IF Found(Head(run.picked), reached)
                                              THEN Append(@, skills[Head(run.picked)]) ELSE @]
    /\ UNCHANGED <<target, moved>>

(* _build_analyze_system_prompt, the skills' part. *)
BuildPrompt ==
    /\ Reviewing("prompt")
    /\ run' = [run EXCEPT !.stage = "analyze", !.skillGot = Included(run.skillSizes, SkillInjectionMax)]
    /\ UNCHANGED <<target, moved>>

-----------------------------------------------------------------------------
(* _validate_finding: complete, and about this file or one of its name;     *)
(* anchored or not, it quotes the nearest hunk as its evidence.             *)
IsAbout(raw) == raw.titled /\ raw.path \in {"same", "basename"}

Validated(raw) ==
    [file |-> run.next, line |-> raw.line,
     hunk |-> NearestHunk(run.files[run.next].script, raw.line),
     anchored |-> raw.line # NoLine /\ Anchors(raw.line, ChangedRanges(run.files[run.next].script))]

(* One file: a chat call, a retry when it does not parse, then each finding *)
(* is validated; a file whose answer never parses has none.                 *)
AnalyzeFile ==
    /\ Reviewing("analyze") /\ run.next <= Len(run.files)
    /\ \/ Fails("provider")
       \/ run' = [run EXCEPT !.next = @ + 1]
       \/ \E raw \in Findings :
            LET kept == Sublist(raw, {i \in DOMAIN raw : IsAbout(raw[i])})
            IN  IF \E i \in DOMAIN kept : kept[i].line = Infinite
                THEN Fails("noise")
                ELSE run' = [run EXCEPT !.next = @ + 1,
                                        !.findings = @ \o [i \in DOMAIN kept |-> Validated(kept[i])]]
    /\ UNCHANGED <<target, moved>>

AnalysisEnds ==
    /\ Reviewing("analyze") /\ run.next > Len(run.files)
    /\ Goes("summarize")
    /\ UNCHANGED <<target, moved>>

ReviewStep ==
    \/ /\ run.kind = "review"
       /\ ResolveLlm("diff") \/ LoadPlaybooks("skills") \/ Summarize
       /\ UNCHANGED <<target, moved>>
    \/ ReadDiff \/ OpenGraph \/ ReadFile \/ ContextEnds
    \/ SelectSkills \/ FetchSkill \/ BuildPrompt \/ AnalyzeFile \/ AnalysisEnds

-----------------------------------------------------------------------------
(* Properties *)

ByNewlines(file) == Returns(file.script) = {}

(* The ranges that anchor findings are the change: for each run of changed  *)
(* lines, the added lines as git numbers them, or the place of a deletion   *)
(* (but a lone carriage return before them shifts the numbers).             *)
RangesAreTheChange ==
    run.kind = "review" => \A i \in DOMAIN run.files : ByNewlines(run.files[i]) =>
        LET s == run.files[i].script
            runs == Runs(s)
            added(r) == {TargetLine(s, j) : j \in {k \in r[1]..r[2] : s[k] = "+"}}
            place(r) == IF TargetLine(s, Len(s)) = 0 THEN 0 ELSE TargetLine(s, r[1]) + 1
            ranges == ChangedRanges(s)
        IN  /\ Len(ranges) = Len(runs)
            /\ \A k \in DOMAIN runs :
                  ranges[k][1]..ranges[k][2] = IF added(runs[k]) # {} THEN added(runs[k]) ELSE {place(runs[k])}

(* Excerpts that were read at the commit of the diff are lines of the file, *)
(* and show every added line unless they were cut to the budget.            *)
ChangeIsShown ==
    run.kind = "review" =>
        /\ \A i \in DOMAIN run.contexts :
              LET file == run.files[i]  context == run.contexts[i]  s == file.script
                  shown == UNION {context.excerpts[k][1]..context.excerpts[k][2] : k \in DOMAIN context.excerpts}
              IN  context.read /\ ByNewlines(file) =>
                    /\ shown \subseteq 1..ContentLines(s)
                    /\ ~context.truncated =>
                          {TargetLine(s, j) : j \in {k \in DOMAIN s : s[k] = "+"}} \subseteq shown
        /\ run.cause = "excerpt" => run.seen # moved

(* A finding that is called anchored and whose line exists in the target    *)
(* file is about a line that its evidence, the hunk nearest to it, shows.   *)
AnchoredInHunk ==
    run.kind = "review" => \A i \in DOMAIN run.findings :
        LET f == run.findings[i]  file == run.files[f.file]  s == file.script
        IN  f.anchored /\ ByNewlines(file) /\ f.line \in 1..TargetLine(s, Len(s))
              => \E j \in f.hunk[1]..f.hunk[2] : s[j] # "-" /\ TargetLine(s, j) = f.line

SkillsKeepPriority ==
    run.kind = "review" /\ run.stage \in {"analyze", "summarize", "done"}
        => KeepsPriority(run.skillSizes, run.skillGot, SkillInjectionMax)

=============================================================================
