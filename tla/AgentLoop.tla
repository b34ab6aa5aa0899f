----------------------------- MODULE AgentLoop -----------------------------
(***************************************************************************)
(* The bounded tool loop of services/routines/agent_loop.py: rounds of chat *)
(* and of the tool calls the model asked for, until it answers in plain     *)
(* content or the last round, which offers no tools.  A call that the model *)
(* wrote into its content instead (extract_fallback_tool_call) is a round   *)
(* of one call.  A tool's result is its length; an answer is a verdict      *)
(* that parses, or not.                                                     *)
(***************************************************************************)
EXTENDS Documents, Integers, FiniteSets

CONSTANTS Tools,             \* names of build_tools that the model may call
          Args,              \* arguments, compared as the sorted JSON of a signature
          MaxCalls,          \* calls of one round, at most
          MaxRounds,
          PayloadBudget,     \* TOOL_PAYLOAD_CHAR_BUDGET
          BudgetTruncate,    \* BUDGET_TRUNCATE_CHARS, with the note it ends in
          ResultSizes,       \* lengths of results and of error texts
          MaxLoadedSkills,
          Answers            \* final contents: [ok, raw], raw the verdict's findings

ASSUME LoopAssumption ==
    /\ {MaxCalls, PayloadBudget, BudgetTruncate} \subseteq Nat
    /\ {MaxRounds, MaxLoadedSkills} \subseteq Nat \ {0}
    /\ ResultSizes \subseteq Nat

VARIABLE loop

Malformed == "malformed"   \* arguments that are not a JSON object
NoLoop == [at |-> "none"]
NoAnswer == [ok |-> FALSE, raw |-> <<>>]

(* What the model may ask for: a tool, or a name that is none, with         *)
(* arguments; load_skill's argument is the name of a skill.                 *)
Calls == (((Tools \ {"load_skill"}) \cup {"unknown"}) \X (Args \cup {Malformed}))
            \cup ({"load_skill"} \cap Tools) \X SkillNames

(* One loop's own counters; nothing of an earlier loop of the run remains. *)
NewLoop(max) ==
    [at |-> "chat", round |-> 1, max |-> max, pending |-> <<>>, signatures |-> {},
     loaded |-> <<>>, payload |-> 0, answer |-> NoAnswer]

ToolsCalled(l) == {s[1] : s \in l.signatures}

(* The last round offers no tools, and whatever it brings is the answer. *)
ForcesAnswer == loop.round = loop.max

ChatAnswers == \E answer \in Answers :
    /\ loop.at = "chat"
    /\ loop' = [loop EXCEPT !.at = "answered", !.answer = answer]

ChatCallsTools == \E n \in 1..MaxCalls : \E calls \in [1..n -> Calls] :
    /\ loop.at = "chat"
    /\ loop' = IF ForcesAnswer THEN [loop EXCEPT !.at = "answered"]
               ELSE [loop EXCEPT !.at = "tools", !.pending = calls]

-----------------------------------------------------------------------------
(* One tool call *)

Call == Head(loop.pending)

(* The next call of the round, or the next round. *)
Rest(l) == IF Len(l.pending) > 1 THEN [l EXCEPT !.pending = Tail(@)]
           ELSE [l EXCEPT !.at = "chat", !.round = @ + 1, !.pending = <<>>]

(* Arguments that do not parse, an unknown tool, or a call made before with *)
(* the same arguments are answered with an error text that is not counted.  *)
IsRefused == Call[2] = Malformed \/ Call[1] \notin Tools \/ Call \in loop.signatures

Refuse ==
    /\ loop.at = "tools" /\ IsRefused
    /\ loop' = Rest(loop)

(* The budget is looked at before a result is added to it. *)
Counted(l, size) ==
    IF l.payload > PayloadBudget
    THEN [l EXCEPT !.payload = @ + (IF size > BudgetTruncate THEN BudgetTruncate ELSE size)]
    ELSE [l EXCEPT !.payload = @ + size]

Signed == [loop EXCEPT !.signatures = @ \cup {Call}]

(* A handler that raises gives an error text, and its tool counts as called. *)
RunTool == \E size \in ResultSizes :
    /\ loop.at = "tools" /\ ~IsRefused /\ Call[1] # "load_skill"
    /\ loop' = Rest(Counted(Signed, size))

(* _dispatch_load_skill: over the cap, found, or not (or without a name). *)
SkillCapMet(name) ==
    /\ \A i \in DOMAIN loop.loaded : loop.loaded[i] # name
    /\ Len(loop.loaded) >= MaxLoadedSkills

LoadSkill == \E size \in ResultSizes, reached \in BOOLEAN :
    /\ loop.at = "tools" /\ ~IsRefused /\ Call[1] = "load_skill"
    /\ LET name == Call[2]
           found == ~SkillCapMet(name) /\ Found(name, reached)
           text == IF found THEN skills[name] ELSE size
           news == found /\ \A i \in DOMAIN loop.loaded : loop.loaded[i] # name
       IN  loop' = Rest(Counted([Signed EXCEPT !.loaded = IF news THEN Append(@, name) ELSE @], text))

LoopStep == ChatAnswers \/ ChatCallsTools \/ Refuse \/ RunTool \/ LoadSkill

=============================================================================
