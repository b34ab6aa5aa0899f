------------------------------- MODULE Server -------------------------------
(***************************************************************************)
(* The API process with the components its requests share: accounts guard   *)
(* every other router, the LLM configuration serves the turns, and one      *)
(* process and one Postgres live and die for all of them.                   *)
(***************************************************************************)
EXTENDS Accounts, Conversations

CONSTANTS StartUsers,                  \* users tables a behaviour may start from
          LoggedIn,                    \* ids that have a session in them
          StartHistory,                \* the transcript of conversation 0, or <<>>
          StartFile                    \* the providers file of the first process

ASSUME StartAssumption ==
    StartUsers \subseteq Seq([name : Names, pw : Passwords, role : {"admin", "user", "viewer"}])

ASSUME TranscriptAssumption ==
    /\ StartHistory \in Seq([role : {"question", "answer"}, turn : Nat, size : Nat, cut : BOOLEAN])
    /\ AnswersFollow(StartHistory)

serverVars == <<requestVars, accountVars, configVars, convs>>

Init ==
    /\ InitRequests
    /\ \E rows \in StartUsers, owner \in [Tokens -> Ids \cup {0}] :
          /\ \A i \in DOMAIN rows \cap LoggedIn : \E t \in Tokens : owner[t] = i
          /\ \A t \in Tokens : owner[t] # 0 =>
                owner[t] \in DOMAIN rows \cap LoggedIn /\ \A u \in Tokens : owner[u] = owner[t] => u = t
          /\ InitAccounts(rows, owner)
    /\ InitConfig(StartFile)
    /\ InitConversations(StartHistory)

(* require_auth and require_role run before the handler of every router:    *)
(* a turn or a deletion needs a writer's session, a config write an admin's. *)
AsWriter == \E t \in Tokens : Writer(t)
AsAdmin == \E t \in Tokens : Admin(t)

Accounting(r) == AccountStep(r) /\ UNCHANGED <<configVars, convs>>

Chatting(r) ==
    /\ At(r, "idle") => AsWriter
    /\ ConversationStep(r)
    /\ UNCHANGED accountVars

Configuring(r) ==
    /\ At(r, "idle") => AsAdmin
    /\ ConfigStep(r)
    /\ UNCHANGED <<accountVars, convs>>

Expiry == \E t \in Tokens : SessionExpires(t) /\ UNCHANGED <<configVars, convs>>

Outage == (PostgresFails \/ PostgresReturns) /\ UNCHANGED <<accountVars, configVars, convs>>

Death == ProcessDies /\ AccountsDie /\ UNCHANGED <<configVars, convs>>

(* lifespan: the users are seeded, then the configuration is loaded. *)
Boot == ProcessBoots /\ SeedAtBoot /\ BootConfig /\ UNCHANGED convs

Next ==
    \/ \E r \in Slots : Accounting(r) \/ Chatting(r) \/ Configuring(r)
    \/ Expiry \/ Outage \/ Death \/ Boot

Spec == Init /\ [][Next]_serverVars

=============================================================================
