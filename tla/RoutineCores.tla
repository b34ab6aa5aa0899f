---------------------------- MODULE RoutineCores ----------------------------
(***************************************************************************)
(* What runs inside a routine's job: the engine starts the review or the    *)
(* bug hunt that launch_routine admitted, while people edit the documents.  *)
(***************************************************************************)
EXTENDS BugHunt, Review

CONSTANTS Launches   \* the launches considered: kind, names, target, playbooks, skills, edits

(* A name is a playbook's, a document has a size, a diff lists files. *)
ASSUME LaunchesAssumption == \A launch \in Launches :
    /\ launch.kind \in Kinds /\ launch.names \in Seq(PlaybookNames)
    /\ launch.playbooks \in [DOMAIN launch.playbooks -> [size : Nat, kinds : SUBSET Kinds]]
    /\ launch.skills \in [DOMAIN launch.skills -> Nat]
    /\ IsDiff(launch.target[1]) /\ IsDiff(launch.target[2])

coreVars == <<run, loop, target, moved, documentVars>>

Init == \E launch \in Launches :
    /\ InitDocuments(launch.playbooks, launch.skills, launch.edits)
    /\ Launchable(launch.names, launch.kind)
    /\ run = IF launch.kind = "review" THEN NewReview(launch.names) ELSE NewHunt(launch.names)
    /\ loop = NoLoop
    /\ target = launch.target /\ moved = FALSE

Work ==
    \/ HuntStep /\ UNCHANGED <<target, moved, documentVars>>
    \/ ReviewStep /\ UNCHANGED <<loop, documentVars>>

(* Edits that no stage of the run can still see are left out. *)
Editing ==
    /\ ~Ended /\ EditDocuments
    /\ UNCHANGED <<run, loop, target, moved>>

Moving == TargetMoves /\ UNCHANGED <<loop, documentVars>>

Next == Work \/ Editing \/ Moving

(* The worker runs on; a chat call returns or raises. *)
Spec == Init /\ [][Next]_coreVars /\ WF_coreVars(Work)

(* "the loop always terminates with an answer" (run_agent_loop), one        *)
(* pushback at most, and every run of either kind ends.                     *)
RunEnds == <>Ended

(* Whatever is edited between the launch and the reads, what is injected of *)
(* playbooks and skills gives way from the last document on.                *)
DocumentsKeepPriority == PlaybooksKeepPriority /\ SkillsKeepPriority
=============================================================================
