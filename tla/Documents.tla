----------------------------- MODULE Documents -----------------------------
(***************************************************************************)
(* Playbooks and skills: services/routines/documents.py, the document       *)
(* routes of controllers/routines.py, and what a run injects of them into   *)
(* its system prompt.  People edit the tables while runs read them; a read  *)
(* by a worker that cannot reach Postgres comes back empty and is no error. *)
(* A document is its size in characters, frontmatter and padding removed.   *)
(***************************************************************************)
EXTENDS Naturals, Sequences

CONSTANTS PlaybookNames, SkillNames,
          BodySizes,        \* sizes of documents
          MaxContent,       \* _MAX_CONTENT_BYTES
          InjectionMax,     \* PLAYBOOK_INJECTION_MAX_CHARS
          MaxPlaybooks      \* playbooks of a launch, at most

ASSUME DocumentsAssumption ==
    /\ BodySizes \subseteq Nat /\ {MaxContent, InjectionMax, MaxPlaybooks} \subseteq Nat

VARIABLES playbooks,   \* the playbooks table: a function of the stored names
          skills,      \* the skills table
          edits        \* bound: the edits still to come while the run is on its way

documentVars == <<playbooks, skills, edits>>

Kinds == {"review", "bughunt"}
WellSized(size) == size <= MaxContent

-----------------------------------------------------------------------------
(* The routes *)

(* Create and update: a name is taken once, and an update is of a stored    *)
(* name and may change the kinds of run that the playbook is for.           *)
PutPlaybook == \E n \in PlaybookNames, size \in BodySizes, kinds \in SUBSET Kinds :
    /\ WellSized(size)
    /\ playbooks' = [m \in DOMAIN playbooks \cup {n} |->
                        IF m = n THEN [size |-> size, kinds |-> kinds] ELSE playbooks[m]]
    /\ UNCHANGED skills

DeletePlaybook == \E n \in DOMAIN playbooks :
    /\ playbooks' = [m \in DOMAIN playbooks \ {n} |-> playbooks[m]]
    /\ UNCHANGED skills

PutSkill == \E n \in SkillNames, size \in BodySizes :
    /\ WellSized(size)
    /\ skills' = [m \in DOMAIN skills \cup {n} |-> IF m = n THEN size ELSE skills[m]]
    /\ UNCHANGED playbooks

DeleteSkill == \E n \in DOMAIN skills :
    /\ skills' = [m \in DOMAIN skills \ {n} |-> skills[m]]
    /\ UNCHANGED playbooks

EditDocuments ==
    /\ edits > 0 /\ edits' = edits - 1
    /\ PutPlaybook \/ DeletePlaybook \/ PutSkill \/ DeleteSkill

-----------------------------------------------------------------------------
(* What a run reads *)

(* The elements of a sequence at some of its positions, in order. *)
Sublist(s, at) ==
    LET upTo[k \in 0 .. Len(s)] ==
            IF k = 0 THEN <<>> ELSE IF k \in at THEN Append(upTo[k - 1], s[k]) ELSE upTo[k - 1]
    IN  upTo[Len(s)]

(* launch_routine: what a launch may name, checked before the job exists. *)
Launchable(names, kind) ==
    /\ Len(names) <= MaxPlaybooks
    /\ \A i \in DOMAIN names : names[i] \in DOMAIN playbooks /\ kind \in playbooks[names[i]].kinds

(* fetch_playbooks_sync: in the order of the names, the lost ones skipped. *)
FetchedPlaybooks(names, reached) ==
    IF reached THEN Sublist(names, {i \in DOMAIN names : names[i] \in DOMAIN playbooks}) ELSE <<>>

Catalog(reached) == IF reached THEN DOMAIN skills ELSE {}
Found(skill, reached) == reached /\ skill \in DOMAIN skills

(* Mutant: a body that does not fit is left out, and smaller ones go in. *)
CutIfWhole(size, left) == IF size > left THEN 0 ELSE size

(* What goes in of a body where so many characters are left. *)
Cut(size, left) == IF size > left THEN left ELSE size

(* How many characters of each body go in: greedily in order, the one that  *)
(* meets the cap cut, the ones after it left out.                           *)
Included(sizes, cap) ==
    LET used[k \in 0 .. Len(sizes)] ==
            IF k = 0 THEN 0 ELSE used[k - 1] + Cut(sizes[k], cap - used[k - 1])
    IN  [k \in 1 .. Len(sizes) |-> Cut(sizes[k], cap - used[k - 1])]

Injected(got) ==
    LET sum[k \in 0 .. Len(got)] == IF k = 0 THEN 0 ELSE sum[k - 1] + got[k]
    IN  sum[Len(got)]

(* A bound on an injected prompt, and whose text gives way first:           *)
(* "Lowest-priority (last-selected) playbooks are truncated first" (review).*)
KeepsPriority(sizes, got, cap) ==
    /\ Injected(got) <= cap
    /\ \A i, j \in DOMAIN sizes : i < j /\ got[i] < sizes[i] => got[j] = 0
    /\ (\E i \in DOMAIN sizes : got[i] < sizes[i]) => Injected(got) = cap

InitDocuments(books, skillTable, n) ==
    /\ playbooks = books /\ skills = skillTable /\ edits = n
=============================================================================
