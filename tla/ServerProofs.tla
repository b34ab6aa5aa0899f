---------------------------- MODULE ServerProofs ----------------------------
(***************************************************************************)
(* Theorems about module Server, for any number of handlers, requests,     *)
(* faults, users, tokens, providers and conversations, and any sizes.      *)
(*                                                                         *)
(* Each component is shown to keep to its own points of a handler          *)
(* (AccountingFrame, ChattingFrame, ConfiguringFrame).  With that, the     *)
(* configuration (ConfigInv), the accounts (AccountInv) and the            *)
(* conversations (ChatInv, WindowInv) are followed each through its own    *)
(* steps and through outages, deaths and boots.                            *)
(*                                                                         *)
(* ChatInv: a turn between its two saves finds its question in its         *)
(* conversation, unless a deletion has marked it (Asked).  Deletions mark  *)
(* the turns they cut, and other turns only append.                        *)
(*                                                                         *)
(* WindowInv: while turns do not overlap, answers stay apart, in the       *)
(* store and in the history a turn has read.  What _fit_messages makes of  *)
(* such a history (FitOpensOnQuestion) and of the room that                *)
(* _fitted_context_chars leaves (SliceIsLeft, FitKeeps) is shown for every *)
(* history and budget; the cost of messages, a running sum, is typed by    *)
(* induction (RunningSum, CostType).                                       *)
(***************************************************************************)
EXTENDS Server, FiniteSetTheorems, WellFoundedInduction, TLAPS

ConfigPoints == {"probe", "persist"}
Points == AccountPoints \union ConfigPoints \union TurnPoints \union {"idle"}

\* A handler is at one of its points, and at none while the process is down.
CallInv ==
    /\ call = [r \in Slots |-> call[r]]
    /\ \A r \in Slots : "pc" \in DOMAIN call[r] /\ call[r].pc \in Points
    /\ ~serving => \A r \in Slots : call[r].pc = "idle"

\* A step of r that takes it from one of some points to another, and moves
\* nobody else.
Within(r, points) ==
    /\ call[r].pc \in points \union {"idle"}
    /\ call' = [q \in Slots |-> call'[q]]
    /\ "pc" \in DOMAIN call'[r] /\ call'[r].pc \in points \union {"idle"}
    /\ \A q \in Slots \ {r} : call'[q] = call[q]
    /\ call[r].pc = "idle" => serving
    /\ UNCHANGED serving /\ requests' \in {requests, requests + 1}

USE DEF requestVars, accountVars, configVars, serverVars

-----------------------------------------------------------------------------
(* What a step does to the handlers.                                       *)

LEMMA BeginEffect ==
    ASSUME CallInv, NEW r \in Slots, NEW c, NEW points, Begin(r, c),
           "pc" \in DOMAIN c, c.pc \in points \union {"idle"}
    PROVE  Within(r, points) /\ call'[r] = c
BY DEF CallInv, Within, Begin, At

LEMMA AdvanceEffect ==
    ASSUME CallInv, NEW r \in Slots, NEW c, NEW points, Advance(r, c),
           "pc" \in DOMAIN c, c.pc \in points \union {"idle"},
           call[r].pc \in points, "idle" \notin points
    PROVE  Within(r, points) /\ call'[r] = c
BY DEF CallInv, Within, Advance

LEMMA AnswerEffect ==
    ASSUME CallInv, NEW r \in Slots, NEW points, Answer(r),
           call[r].pc \in points, "idle" \notin points
    PROVE  Within(r, points) /\ call'[r] = Idle
BY AdvanceEffect DEF Answer, Idle

LEMMA MovesEffect ==
    ASSUME CallInv, NEW r \in Slots, NEW points, NEW to \in points, Moves(r, to),
           call[r].pc \in points, "idle" \notin points
    PROVE  Within(r, points) /\ call'[r] = [call[r] EXCEPT !.pc = to] /\ call'[r].pc = to
<1>1. "pc" \in DOMAIN [call[r] EXCEPT !.pc = to] /\ [call[r] EXCEPT !.pc = to].pc = to
  BY DEF CallInv
<1> QED BY <1>1, AdvanceEffect DEF Moves

LEMMA AccountingFrame ==
    ASSUME CallInv, NEW r \in Slots, Accounting(r)
    PROVE  Within(r, AccountPoints) /\ UNCHANGED <<configVars, convs>>
<1>0. UNCHANGED <<configVars, convs>> /\ AccountStep(r)
  BY DEF Accounting
<1> SUFFICES Within(r, AccountPoints)
  BY <1>0
<1> USE DEF AccountPoints
<1>1. CASE Login(r)
  BY <1>1, BeginEffect DEF Login
<1>2. CASE SeedCount(r)
  BY <1>2, MovesEffect DEF SeedCount, Reaches, At
<1>3. CASE SeedInsert(r)
  BY <1>3, MovesEffect DEF SeedInsert, Reaches, At
<1>4. CASE SeedReadRow(r)
  <2>1. call[r].pc = "seedRow"
    BY <1>4 DEF SeedReadRow, Reaches, At
  <2>2. Moves(r, "purge") \/ \E c : Advance(r, c) /\ "pc" \in DOMAIN c /\ c.pc = "rotate"
    BY <1>4 DEF SeedReadRow
  <2> QED BY <2>1, <2>2, MovesEffect, AdvanceEffect
<1>5. CASE SeedRotate(r)
  BY <1>5, AnswerEffect, AdvanceEffect DEF SeedRotate, Reaches, At
<1>6. CASE PurgeExpired(r)
  BY <1>6, MovesEffect DEF PurgeExpired, Reaches, At
<1>7. CASE LookupUser(r)
  BY <1>7, AnswerEffect, AdvanceEffect DEF LookupUser, Reaches, At
<1>8. CASE CreateSession(r)
  BY <1>8, AnswerEffect DEF CreateSession, Reaches, At
<1>9. CASE Logout(r) \/ CreateUser(r)
  BY <1>9, BeginEffect DEF Logout, CreateUser, Idle
<1>10. CASE RemoveUser(r)
  BY <1>10, BeginEffect DEF RemoveUser
<1>11. CASE CountAdmins(r)
  BY <1>11, MovesEffect, AnswerEffect DEF CountAdmins, Reaches, At
<1>12. CASE DeleteUser(r)
  BY <1>12, AnswerEffect DEF DeleteUser, Reaches, At
<1>13. CASE ChangePassword(r)
  BY <1>13, BeginEffect DEF ChangePassword
<1>14. CASE VerifyOld(r)
  BY <1>14, MovesEffect, AnswerEffect DEF VerifyOld, Reaches, At
<1>15. CASE SetPassword(r)
  BY <1>15, MovesEffect DEF SetPassword, Reaches, At
<1>16. CASE DropOthers(r)
  BY <1>16, AnswerEffect DEF DropOthers, Reaches, At
<1>17. CASE AccountLost(r)
  BY <1>17, AnswerEffect DEF AccountLost
<1> QED BY <1>0, <1>1, <1>2, <1>3, <1>4, <1>5, <1>6, <1>7, <1>8, <1>9, <1>10, <1>11, <1>12,
           <1>13, <1>14, <1>15, <1>16, <1>17 DEF AccountStep

LEMMA ConfiguringFrame ==
    ASSUME CallInv, NEW r \in Slots, Configuring(r)
    PROVE  Within(r, ConfigPoints) /\ UNCHANGED <<accountVars, convs>>
<1>0. UNCHANGED <<accountVars, convs>> /\ ConfigStep(r)
  BY DEF Configuring
<1> SUFFICES Within(r, ConfigPoints)
  BY <1>0
<1> USE DEF ConfigPoints
<1>1. CASE SetConfig(r)
  BY <1>1, BeginEffect DEF SetConfig
<1>2. CASE ProbeAccepts(r)
  BY <1>2, AdvanceEffect DEF ProbeAccepts, At
<1>3. CASE ProbeRefuses(r)
  BY <1>3, AnswerEffect DEF ProbeRefuses, At
<1>4. CASE PersistConfig(r)
  BY <1>4, AnswerEffect DEF PersistConfig, At
<1> QED BY <1>0, <1>1, <1>2, <1>3, <1>4 DEF ConfigStep

\* A deletion also marks the turns of its conversation; no turn moves.
OnlyTurns(r) ==
    /\ call' = [q \in Slots |-> call'[q]]
    /\ \A q \in Slots :
          \/ call'[q] = call[q]
          \/ /\ call[q].pc \in TurnPoints \union {"idle"}
             /\ "pc" \in DOMAIN call'[q] /\ call'[q].pc \in TurnPoints \union {"idle"}
             /\ call[q].pc = "idle" => serving
    /\ UNCHANGED serving /\ requests' \in {requests, requests + 1}

LEMMA ChattingFrame ==
    ASSUME CallInv, NEW r \in Slots, Chatting(r)
    PROVE  OnlyTurns(r) /\ UNCHANGED <<accountVars, configVars>>
<1> USE DEF TurnPoints
<1>0. UNCHANGED accountVars /\ ConversationStep(r)
  BY DEF Chatting
<1>1. Within(r, TurnPoints) => OnlyTurns(r)
  BY DEF Within, OnlyTurns
<1>2. ASSUME NEW c, NEW msgs, NEW mixed, WithHistory(r, c, msgs, mixed), "pc" \in DOMAIN c,
             call[r].pc \in TurnPoints
      PROVE  Within(r, TurnPoints)
  <2>1. CASE ~ProviderReady
    BY <1>2, <2>1, AnswerEffect DEF WithHistory
  <2>2. CASE ProviderReady
    <3>1. PICK b \in Windows :
            Advance(r, [c EXCEPT !.pc = "retrieve", !.history = msgs, !.budget = b, !.mixed = mixed])
      BY <1>2, <2>2 DEF WithHistory
    <3>2. /\ "pc" \in DOMAIN [c EXCEPT !.pc = "retrieve", !.history = msgs, !.budget = b, !.mixed = mixed]
          /\ [c EXCEPT !.pc = "retrieve", !.history = msgs, !.budget = b, !.mixed = mixed].pc = "retrieve"
      BY <1>2
    <3> QED BY <1>2, <3>1, <3>2, AdvanceEffect
  <2> QED BY <2>1, <2>2
<1>3. CASE NewConversation(r)
  <2>1. PICK q \in QuestionSizes, b \in Windows :
          Begin(r, [NewTurn(requests + 1, "retrieve", q) EXCEPT !.budget = b])
    BY <1>3 DEF NewConversation
  <2>2. Within(r, TurnPoints)
    BY <2>1, BeginEffect DEF NewTurn
  <2> QED BY <1>0, <1>1, <1>3, <2>2 DEF NewConversation
<1>4. CASE Continue(r)
  BY <1>0, <1>1, <1>4, BeginEffect DEF Continue, NewTurn
<1>5. CASE DeleteConversation(r)
  <2>1. PICK c \in ConvIds :
          call' = [q \in Slots |-> IF InTurn(q, c) THEN [call[q] EXCEPT !.cut = TRUE] ELSE call[q]]
    BY <1>5 DEF DeleteConversation
  <2>2. UNCHANGED serving /\ UNCHANGED configVars /\ requests' = requests + 1
    BY <1>5 DEF DeleteConversation
  <2>3. ASSUME NEW q \in Slots, InTurn(q, c)
        PROVE  /\ call[q].pc \in TurnPoints /\ call[q].pc # "idle"
               /\ "pc" \in DOMAIN call'[q] /\ call'[q].pc = call[q].pc
    BY <2>1, <2>3 DEF InTurn, CallInv
  <2> QED BY <1>0, <2>1, <2>2, <2>3 DEF OnlyTurns
<1>6. CASE ReadConversation(r)
  <2>1. "pc" \in DOMAIN [call[r] EXCEPT !.conv = call[r].turn, !.cut = FALSE]
    BY DEF CallInv
  <2>2. call[r].pc \in TurnPoints /\ "readMessages" \in TurnPoints
    BY <1>6 DEF ReadConversation, Reaches, At
  <2> QED BY <1>0, <1>1, <1>2, <1>6, <2>1, <2>2, MovesEffect DEF ReadConversation
<1>7. CASE ReadMessages(r)
  BY <1>0, <1>1, <1>2, <1>7 DEF ReadMessages, Reaches, At, CallInv
<1>8. CASE Retrieve(r)
  <2>1. call[r].pc = "retrieve" /\ UNCHANGED configVars
    BY <1>8 DEF Retrieve, At
  <2>2. Answer(r) \/ \E c : Advance(r, c) /\ "pc" \in DOMAIN c /\ c.pc = "saveQuestion"
    BY <1>8 DEF Retrieve
  <2> QED BY <1>0, <1>1, <2>1, <2>2, AnswerEffect, AdvanceEffect
<1>9. CASE SaveQuestion(r)
  BY <1>0, <1>1, <1>9, AdvanceEffect DEF SaveQuestion, Saving, Reaches, At
<1>10. CASE RereadQuestion(r)
  BY <1>0, <1>1, <1>10, MovesEffect, AnswerEffect DEF RereadQuestion, Reaches, At
<1>11. CASE StreamAnswer(r)
  BY <1>0, <1>1, <1>11, AdvanceEffect, AnswerEffect DEF StreamAnswer, At
<1>12. CASE SaveAnswer(r)
  BY <1>0, <1>1, <1>12, AdvanceEffect DEF SaveAnswer, Saving, Reaches, At
<1>13. CASE RereadAnswer(r)
  BY <1>0, <1>1, <1>13, AnswerEffect DEF RereadAnswer, Reaches, At
<1>14. CASE Disconnect(r) \/ TurnLost(r)
  BY <1>0, <1>1, <1>14, AnswerEffect DEF Disconnect, TurnLost
<1> QED BY <1>0, <1>3, <1>4, <1>5, <1>6, <1>7, <1>8, <1>9, <1>10, <1>11, <1>12, <1>13, <1>14
       DEF ConversationStep

LEMMA CallInvariance ==
    /\ Init => CallInv
    /\ CallInv /\ [Next]_serverVars => CallInv'
<1>1. Init => CallInv
  BY DEF Init, InitRequests, CallInv, Idle, Points
<1>2. ASSUME CallInv, [Next]_serverVars PROVE CallInv'
  <2>1. ASSUME NEW r \in Slots, NEW points \in SUBSET Points, Within(r, points) PROVE CallInv'
    BY <1>2, <2>1 DEF CallInv, Within, Points
  <2>2. ASSUME NEW r \in Slots, Accounting(r) PROVE CallInv'
    BY <1>2, <2>1, <2>2, AccountingFrame DEF Points
  <2>3. ASSUME NEW r \in Slots, Configuring(r) PROVE CallInv'
    BY <1>2, <2>1, <2>3, ConfiguringFrame DEF Points
  <2>4. ASSUME NEW r \in Slots, Chatting(r) PROVE CallInv'
    BY <1>2, <2>4, ChattingFrame DEF CallInv, OnlyTurns, Points
  <2>5. CASE Death
    BY <2>5 DEF Death, ProcessDies, CallInv, Idle, Points
  <2>6. CASE Expiry \/ Outage \/ Boot \/ UNCHANGED serverVars
    BY <1>2, <2>6 DEF Expiry, SessionExpires, Outage, PostgresFails, PostgresReturns, Boot,
                      ProcessBoots, CallInv
  <2> QED BY <1>2, <2>2, <2>3, <2>4, <2>5, <2>6 DEF Next
<1> QED BY <1>1, <1>2

-----------------------------------------------------------------------------
(* The configuration.                                                      *)

\* A body that passed the checks before its probe gets a provider, and unless a
\* race or an outage set them apart, what is about to be written is active.
ConfigInv ==
    /\ ChecksAgree
    /\ ~drift => \A r \in Slots : At(r, "persist") => call[r].config = active
    /\ QuietConfigIsDurable

\* What the checks admit, the registry provides.
LEMMA WellFormedProvides ==
    ASSUME NEW q, WellFormed(q)
    PROVE  Provides(Stored(q))
<1>1. CASE q.local
  BY <1>1 DEF Stored, Provides
<1>2. CASE ~q.local
  <2>1. /\ Stored(q).name = q.name /\ Stored(q).base = q.base /\ Stored(q).key = q.key
    BY <1>2 DEF Stored
  <2>2. CASE q.name \notin DOMAIN registry
    BY <1>2, <2>1, <2>2 DEF WellFormed, Provides
  <2>3. CASE q.name \in DOMAIN registry
    <3>1. KeyRequired(q.name) => q.key
      BY <1>2 DEF WellFormed
    <3> QED BY <2>1, <2>3, <3>1 DEF KeyRequired, Provides, HasKey
  <2> QED BY <2>2, <2>3
<1> QED BY <1>1, <1>2

\* Handlers that are elsewhere leave the configuration as it is.
LEMMA ConfigUnconcerned ==
    ASSUME CallInv, ConfigInv, UNCHANGED configVars, serving' => serving,
           \A r \in Slots : call'[r] = call[r] \/ (/\ call[r].pc \notin ConfigPoints
                                                   /\ call'[r].pc \notin ConfigPoints)
    PROVE  ConfigInv'
<1>1. \A r \in Slots : At(r, "probe")' => At(r, "probe") /\ call'[r] = call[r]
  BY DEF At, ConfigPoints
<1>2. \A r \in Slots : (At(r, "persist")' <=> At(r, "persist"))
                       /\ (At(r, "persist") => call'[r] = call[r])
  BY DEF At, ConfigPoints
<1>3. ChecksAgree'
  BY <1>1 DEF ConfigInv, ChecksAgree, Provides, HasKey
<1>4. QuietConfigIsDurable'
  BY <1>2 DEF ConfigInv, QuietConfigIsDurable, Persisting
<1> QED BY <1>2, <1>3, <1>4 DEF ConfigInv

LEMMA ConfiguringStep ==
    ASSUME CallInv, ConfigInv, NEW r \in Slots, Configuring(r)
    PROVE  ConfigInv'
<1>0. /\ call' = [q \in Slots |-> call'[q]] /\ \A q \in Slots \ {r} : call'[q] = call[q]
      /\ UNCHANGED serving /\ ConfigStep(r)
  BY ConfiguringFrame DEF Within, Configuring
<1>1. CASE SetConfig(r)
  <2>1. PICK q \in ConfigRequests : WellFormed(q) /\ Begin(r, [pc |-> "probe", body |-> q])
    BY <1>1 DEF SetConfig
  <2>2. UNCHANGED configVars /\ call'[r] = [pc |-> "probe", body |-> q] /\ call[r].pc = "idle"
    BY <1>1, <2>1 DEF SetConfig, Begin, At, CallInv
  <2>3. Provides(Stored(q))'
    BY <2>1, <2>2, WellFormedProvides DEF Provides, HasKey
  <2>4. ChecksAgree'
    <3>1. ASSUME NEW s \in Slots, At(s, "probe")' PROVE Provides(Stored(call[s].body))'
      <4>1. CASE s = r
        BY <2>2, <2>3, <4>1
      <4>2. CASE s # r
        BY <1>0, <2>2, <3>1, <4>2 DEF ConfigInv, ChecksAgree, At, Provides, HasKey
      <4> QED BY <4>1, <4>2
    <3> QED BY <3>1 DEF ChecksAgree
  <2>5. \A s \in Slots : At(s, "persist")' => At(s, "persist") /\ call'[s] = call[s]
    BY <1>0, <2>2 DEF At
  <2>6. QuietConfigIsDurable'
    BY <1>0, <2>2 DEF ConfigInv, QuietConfigIsDurable, Persisting, At
  <2> QED BY <2>2, <2>4, <2>5, <2>6 DEF ConfigInv
<1>2. ASSUME UNCHANGED <<registry, exported>>, call'[r].pc # "probe" PROVE ChecksAgree'
  BY <1>0, <1>2 DEF ConfigInv, ChecksAgree, At, Provides, HasKey
<1>3. CASE ProbeAccepts(r)
  <2>1. /\ call'[r] = [pc |-> "persist", config |-> active'] /\ call[r].pc = "probe"
        /\ drift' = (drift \/ Persisting # {}) /\ UNCHANGED <<registry, exported, row>>
    BY <1>3 DEF ProbeAccepts, Advance, At, CallInv
  <2>2. ~drift' => \A s \in Slots : At(s, "persist")' => s = r
    BY <1>0, <2>1 DEF Persisting, At
  <2>3. r \in Persisting'
    BY <2>1 DEF Persisting, At
  <2> QED BY <1>2, <2>1, <2>2, <2>3 DEF ConfigInv, QuietConfigIsDurable
<1>4. CASE ProbeRefuses(r)
  <2>1. UNCHANGED configVars /\ call'[r].pc = "idle" /\ call[r].pc = "probe"
    BY <1>4 DEF ProbeRefuses, Answer, Advance, Idle, At, CallInv
  <2>2. \A s \in Slots : (At(s, "persist")' <=> At(s, "persist"))
                         /\ (At(s, "persist") => call'[s] = call[s])
    BY <1>0, <2>1 DEF At
  <2>3. QuietConfigIsDurable'
    BY <1>0, <2>1, <2>2 DEF ConfigInv, QuietConfigIsDurable, Persisting
  <2> QED BY <1>2, <2>1, <2>2, <2>3 DEF ConfigInv
<1>5. CASE PersistConfig(r)
  <2>1. /\ call[r].pc = "persist" /\ call'[r].pc = "idle" /\ UNCHANGED <<registry, exported, active>>
        /\ row' = IF postgres THEN call[r].config ELSE row
        /\ drift' = IF ~postgres THEN TRUE
                    ELSE drift /\ (call[r].config # active \/ Persisting # {r})
    BY <1>5 DEF PersistConfig, Answer, Advance, Idle, At, CallInv
  <2>2. \A s \in Slots : At(s, "persist")' => At(s, "persist") /\ call'[s] = call[s]
    BY <1>0, <2>1 DEF At
  <2>3. ~drift' => row' = active
    BY <2>1 DEF ConfigInv, At
  <2>4. ASSUME ~drift', NEW s \in Slots, At(s, "persist")' PROVE call'[s].config = active'
    <3>1. s # r /\ At(s, "persist") /\ call'[s] = call[s]
      BY <2>1, <2>2, <2>4 DEF At
    <3>2. Persisting # {r}
      BY <3>1 DEF Persisting
    <3>3. ~drift
      BY <2>1, <2>4, <3>2
    <3> QED BY <2>1, <3>1, <3>3 DEF ConfigInv
  <2> QED BY <1>2, <2>1, <2>3, <2>4 DEF ConfigInv, QuietConfigIsDurable
<1> QED BY <1>0, <1>1, <1>3, <1>4, <1>5 DEF ConfigStep

LEMMA ConfigInvariance ==
    /\ Init => ConfigInv
    /\ CallInv /\ ConfigInv /\ [Next]_serverVars => ConfigInv'
<1>1. ASSUME Init PROVE ConfigInv
  BY <1>1 DEF Init, InitRequests, InitConfig, Idle, At, ConfigInv, ChecksAgree, QuietConfigIsDurable
<1>2. ASSUME CallInv, ConfigInv, [Next]_serverVars PROVE ConfigInv'
  <2>1. ASSUME NEW r \in Slots, Accounting(r) PROVE ConfigInv'
    <3>1. Within(r, AccountPoints) /\ UNCHANGED configVars
      BY <1>2, <2>1, AccountingFrame
    <3>2. \A q \in Slots : call'[q] = call[q] \/ (call[q].pc \notin ConfigPoints
                                                 /\ call'[q].pc \notin ConfigPoints)
      BY <3>1 DEF Within, AccountPoints, ConfigPoints
    <3> QED BY <1>2, <3>1, <3>2, ConfigUnconcerned DEF Within
  <2>2. ASSUME NEW r \in Slots, Chatting(r) PROVE ConfigInv'
    <3>1. OnlyTurns(r) /\ UNCHANGED configVars
      BY <1>2, <2>2, ChattingFrame
    <3>2. \A q \in Slots : call'[q] = call[q] \/ (call[q].pc \notin ConfigPoints
                                                 /\ call'[q].pc \notin ConfigPoints)
      BY <3>1 DEF OnlyTurns, TurnPoints, ConfigPoints
    <3> QED BY <1>2, <3>1, <3>2, ConfigUnconcerned DEF OnlyTurns
  <2>3. CASE Expiry \/ Outage \/ UNCHANGED serverVars
    <3>1. UNCHANGED <<configVars, call, serving>>
      BY <2>3 DEF Expiry, SessionExpires, Outage, PostgresFails, PostgresReturns
    <3> QED BY <1>2, <3>1, ConfigUnconcerned
  <2>4. CASE Death
    BY <1>2, <2>4 DEF Death, ProcessDies, Idle, At, ConfigInv, ChecksAgree, QuietConfigIsDurable
  <2>5. CASE Boot
    <3>1. \A r \in Slots : call'[r] = call[r] /\ call[r].pc = "idle"
      BY <1>2, <2>5 DEF Boot, ProcessBoots, CallInv
    <3>2. drift' = ~postgres /\ row' = row /\ (postgres /\ row # NoConfig => active' = row)
      BY <2>5 DEF Boot, BootConfig
    <3> QED BY <3>1, <3>2 DEF At, ConfigInv, ChecksAgree, QuietConfigIsDurable
  <2> QED BY <1>2, <2>1, <2>2, <2>3, <2>4, <2>5, ConfiguringStep DEF Next
<1> QED BY <1>1, <1>2

(* What passes the checks of the body before the network is touched is a    *)
(* configuration that get_provider serves (validate_and_save_config).       *)
THEOREM ChecksAlwaysAgree == Spec => []ChecksAgree
<1>1. CallInv /\ ConfigInv /\ [Next]_serverVars => CallInv' /\ ConfigInv'
  BY CallInvariance, ConfigInvariance
<1>2. Init => CallInv /\ ConfigInv
  BY CallInvariance, ConfigInvariance
<1>3. ConfigInv => ChecksAgree
  BY DEF ConfigInv
<1> QED BY <1>1, <1>2, <1>3, PTL DEF Spec

(* When no save is in progress, none has failed and none has overlapped     *)
(* another, a restart loads the configuration that is active.               *)
THEOREM QuietConfigHolds == Spec => []QuietConfigIsDurable
<1>1. CallInv /\ ConfigInv /\ [Next]_serverVars => CallInv' /\ ConfigInv'
  BY CallInvariance, ConfigInvariance
<1>2. Init => CallInv /\ ConfigInv
  BY CallInvariance, ConfigInvariance
<1>3. ConfigInv => QuietConfigIsDurable
  BY DEF ConfigInv
<1> QED BY <1>1, <1>2, <1>3, PTL DEF Spec

-----------------------------------------------------------------------------
(* The accounts.                                                           *)

ChangePoints == {"verify", "newPassword", "dropOthers"}

\* The tables are consistent: ids are not used twice and a session has its user.
TablesOK ==
    /\ users = [i \in Ids |-> users[i]]
    /\ sessions = [t \in Tokens |-> sessions[t]]
    /\ nextId \in Nat
    /\ \A i \in Ids : Exists(i) => "pw" \in DOMAIN users[i] /\ i < nextId
    /\ \A t \in Tokens : IsOpen(t) =>
          /\ {"user", "live", "pw", "late"} \subseteq DOMAIN sessions[t]
          /\ sessions[t].user \in Ids /\ Exists(sessions[t].user)

\* A password change knows whose session made it.
ChangeOK(r) ==
    /\ {"token", "user", "new"} \subseteq DOMAIN call[r]
    /\ call[r].token \in Tokens
    /\ IsOpen(call[r].token) => sessions[call[r].token].user = call[r].user

ChangesOK == \A r \in Slots : call[r].pc \in ChangePoints => ChangeOK(r)

\* A login that is about to open a session has found a user.
LoginsOK == \A r \in Slots : At(r, "newSession") => call[r].user \in Ids

\* A change that is about to drop session t.
WillDrop(r, t) == At(r, "dropOthers") /\ call[r].user = sessions[t].user /\ call[r].token # t

\* Why t may be open: SessionsMatchPassword, with the change named.
Justified(t) ==
    \/ sessions[t].pw = users[sessions[t].user].pw
    \/ sessions[t].late
    \/ \E r \in Slots : WillDrop(r, t)
    \/ sessions[t].user \in torn

PasswordsOK == \A t \in Tokens : IsOpen(t) => Justified(t)

AccountInv == TablesOK /\ ChangesOK /\ LoginsOK /\ PasswordsOK

\* A step that no password change is part of: what stays open stays as it was.
Keeps ==
    /\ \A t \in Tokens : IsOpen(t)' =>
          /\ IsOpen(t)
          /\ sessions'[t].user = sessions[t].user /\ sessions'[t].pw = sessions[t].pw
          /\ sessions'[t].late = sessions[t].late
          /\ users'[sessions[t].user].pw = users[sessions[t].user].pw
          /\ sessions[t].user \in torn => sessions[t].user \in torn'

LEMMA AccountsUnconcerned ==
    ASSUME AccountInv, TablesOK', Keeps,
           \A r \in Slots : call'[r] = call[r] \/ (/\ call[r].pc \notin ChangePoints
                                                   /\ call'[r].pc \notin ChangePoints),
           LoginsOK'
    PROVE  AccountInv'
<1>1. ChangesOK'
  <2>1. SUFFICES ASSUME NEW r \in Slots, call'[r].pc \in ChangePoints
                 PROVE  ChangeOK(r)'
    BY DEF ChangesOK
  <2>2. call'[r] = call[r] /\ call[r].pc \in ChangePoints
    BY <2>1
  <2> QED BY <2>2 DEF AccountInv, ChangesOK, ChangeOK, Keeps
<1>2. PasswordsOK'
  <2>1. SUFFICES ASSUME NEW t \in Tokens, IsOpen(t)' PROVE Justified(t)'
    BY DEF PasswordsOK
  <2>2. /\ IsOpen(t) /\ Justified(t)
        /\ sessions'[t].user = sessions[t].user /\ sessions'[t].pw = sessions[t].pw
        /\ sessions'[t].late = sessions[t].late
        /\ users'[sessions[t].user].pw = users[sessions[t].user].pw
        /\ sessions[t].user \in torn => sessions[t].user \in torn'
    BY <2>1 DEF Keeps, AccountInv, PasswordsOK
  <2>3. ASSUME NEW r \in Slots, WillDrop(r, t) PROVE WillDrop(r, t)'
    BY <2>2, <2>3 DEF WillDrop, At, ChangePoints
  <2>4. CASE sessions[t].late
    BY <2>2, <2>4 DEF Justified
  <2> QED BY <2>2, <2>3, <2>4 DEF Justified
<1> QED BY <1>1, <1>2 DEF AccountInv

-----------------------------------------------------------------------------
(* What a statement does to the tables.                                    *)

LEMMA InsertKeeps ==
    ASSUME AccountInv, NEW n, NEW p, NEW role, nextId \in Ids, InsertUser(n, p, role),
           UNCHANGED <<sessions, torn>>
    PROVE  TablesOK' /\ Keeps
<1>1. ~Exists(nextId)
  BY DEF AccountInv, TablesOK
<1>2. users' = [users EXCEPT ![nextId] = [name |-> n, pw |-> p, role |-> role]] /\ nextId' = nextId + 1
  BY DEF InsertUser
<1>3. TablesOK'
  <2>1. users' = [i \in Ids |-> users'[i]] /\ nextId' \in Nat
        /\ sessions' = [t \in Tokens |-> sessions'[t]]
    BY <1>2 DEF AccountInv, TablesOK
  <2>2. ASSUME NEW i \in Ids, Exists(i)' PROVE "pw" \in DOMAIN users'[i] /\ i < nextId'
    BY <1>2, <2>2 DEF AccountInv, TablesOK, Exists, Ids
  <2>3. ASSUME NEW t \in Tokens, IsOpen(t)'
        PROVE  /\ {"user", "live", "pw", "late"} \subseteq DOMAIN sessions'[t]
               /\ sessions'[t].user \in Ids /\ Exists(sessions[t].user)'
    <3>1. IsOpen(t) /\ sessions'[t] = sessions[t]
      BY <2>3 DEF IsOpen
    <3>2. sessions[t].user \in Ids /\ Exists(sessions[t].user) /\ sessions[t].user # nextId
      BY <1>1, <3>1 DEF AccountInv, TablesOK
    <3> QED BY <1>2, <3>1, <3>2 DEF AccountInv, TablesOK, Exists
  <2> QED BY <2>1, <2>2, <2>3 DEF TablesOK
<1>4. Keeps
  <2>1. ASSUME NEW t \in Tokens, IsOpen(t)'
        PROVE  IsOpen(t) /\ users'[sessions[t].user] = users[sessions[t].user]
    <3>1. IsOpen(t) /\ sessions[t].user \in Ids /\ sessions[t].user # nextId
      BY <1>1, <2>1 DEF AccountInv, TablesOK, IsOpen
    <3> QED BY <1>2, <3>1 DEF AccountInv, TablesOK
  <2> QED BY <2>1 DEF Keeps
<1> QED BY <1>3, <1>4

\* Sessions are closed or run out, and the rows of users without one may change.
LEMMA DropKeeps ==
    ASSUME AccountInv, NEW gone,
           users' = [i \in Ids |-> users'[i]], sessions' = [t \in Tokens |-> sessions'[t]],
           nextId' = nextId, torn' \in {torn, torn \ gone},
           \A i \in Ids : /\ i \notin gone => users'[i] = users[i]
                          /\ Exists(i)' => Exists(i) /\ "pw" \in DOMAIN users'[i],
           \A t \in Tokens : IsOpen(t)' =>
              /\ IsOpen(t) /\ DOMAIN sessions'[t] = DOMAIN sessions[t]
              /\ sessions[t].user \notin gone /\ sessions'[t].user = sessions[t].user
              /\ sessions'[t].pw = sessions[t].pw /\ sessions'[t].late = sessions[t].late
    PROVE  TablesOK' /\ Keeps
<1>1. ASSUME NEW t \in Tokens, IsOpen(t)'
      PROVE  /\ {"user", "live", "pw", "late"} \subseteq DOMAIN sessions'[t]
             /\ sessions'[t].user \in Ids /\ Exists(sessions[t].user)'
             /\ users'[sessions[t].user] = users[sessions[t].user]
  BY <1>1 DEF AccountInv, TablesOK, Exists
<1>2. TablesOK'
  BY <1>1 DEF AccountInv, TablesOK
<1>3. Keeps
  BY <1>1 DEF Keeps
<1> QED BY <1>2, <1>3

LEMMA UnchangedKeeps ==
    ASSUME AccountInv, UNCHANGED accountVars
    PROVE  TablesOK' /\ Keeps
BY DEF AccountInv, TablesOK, Keeps, Exists, IsOpen

\* The sessions of one user are dropped.
LEMMA DroppedSessions ==
    ASSUME AccountInv, NEW gone, NEW keep, sessions' = Dropped(gone, keep)
    PROVE  /\ sessions' = [t \in Tokens |-> sessions'[t]]
           /\ \A t \in Tokens : IsOpen(t)' => /\ IsOpen(t) /\ sessions'[t] = sessions[t]
                                              /\ sessions[t].user \notin gone \/ t \in keep
BY DEF Dropped, IsOpen

LEMMA FieldsStay ==
    ASSUME NEW f, NEW D, f = [k \in D |-> f[k]], NEW i \in D, NEW n, NEW p, NEW g,
           g = [f EXCEPT ![i].name = n, ![i].pw = p]
    PROVE  DOMAIN g[i] = DOMAIN f[i]
OBVIOUS

LEMMA ClosingKeeps ==
    ASSUME AccountInv, UNCHANGED <<users, nextId, torn>>, sessions' = [t \in Tokens |-> sessions'[t]],
           \A t \in Tokens : IsOpen(t)' => IsOpen(t) /\ sessions'[t] = sessions[t]
    PROVE  TablesOK' /\ Keeps
BY DEF AccountInv, TablesOK, Keeps, Exists

LEMMA ExpiryKeeps ==
    ASSUME AccountInv, UNCHANGED <<users, nextId, torn>>, NEW t \in Tokens, IsOpen(t),
           sessions' = [sessions EXCEPT ![t].live = FALSE]
    PROVE  TablesOK' /\ Keeps
<1>1. \A u \in Tokens : u # t => sessions'[u] = sessions[u]
  BY DEF AccountInv, TablesOK
<1>2. sessions'[t] = [sessions[t] EXCEPT !.live = FALSE]
  BY DEF AccountInv, TablesOK
<1>3. {"user", "live", "pw", "late"} \subseteq DOMAIN sessions[t]
  BY DEF AccountInv, TablesOK
<1>4. /\ DOMAIN sessions'[t] = DOMAIN sessions[t] /\ sessions'[t].user = sessions[t].user
      /\ sessions'[t].pw = sessions[t].pw /\ sessions'[t].late = sessions[t].late
  BY <1>2, <1>3
<1>5. \A u \in Tokens : IsOpen(u)' => IsOpen(u)
  BY <1>1 DEF IsOpen
<1>6. sessions' = [u \in Tokens |-> sessions'[u]]
  BY DEF AccountInv, TablesOK
<1>7. TablesOK'
  BY <1>1, <1>4, <1>5, <1>6 DEF AccountInv, TablesOK, Exists
<1>8. Keeps
  BY <1>1, <1>4, <1>5 DEF Keeps
<1> QED BY <1>7, <1>8

LEMMA RotateKeeps ==
    ASSUME AccountInv, NEW rowRead, RotateRoot(rowRead)
    PROVE  TablesOK' /\ Keeps
<1>1. sessions' = Dropped({1}, {}) /\ torn' = torn \ {1} /\ nextId' = nextId
  BY DEF RotateRoot
<1>2. users' = [i \in Ids |-> users'[i]] /\ \A i \in Ids : i # 1 => users'[i] = users[i]
  BY DEF RotateRoot, AccountInv, TablesOK
<1>3. ASSUME NEW i \in Ids, Exists(i)' PROVE Exists(i) /\ "pw" \in DOMAIN users'[i]
  <2>1. CASE i # 1 \/ ~Exists(1)
    BY <1>3, <2>1 DEF RotateRoot, AccountInv, TablesOK, Exists
  <2>2. CASE i = 1 /\ Exists(1)
    <3>1. users' = [users EXCEPT ![1].name = Rotated(rowRead).name, ![1].pw = Rotated(rowRead).pw]
      BY <2>2 DEF RotateRoot
    <3>2. users = [k \in Ids |-> users[k]] /\ 1 \in Ids
      BY <2>2 DEF AccountInv, TablesOK
    <3>3. DOMAIN users'[1] = DOMAIN users[1]
      BY <3>1, <3>2, FieldsStay
    <3> QED BY <1>3, <2>2, <3>3 DEF AccountInv, TablesOK
  <2> QED BY <2>1, <2>2
<1>4. /\ sessions' = [t \in Tokens |-> sessions'[t]]
      /\ \A t \in Tokens : IsOpen(t)' => /\ IsOpen(t) /\ sessions'[t] = sessions[t]
                                         /\ sessions[t].user \notin {1}
  BY <1>1, DroppedSessions
<1>5. \A i \in Ids : i \notin {1} => users'[i] = users[i]
  BY <1>2
<1>6. torn' \in {torn, torn \ {1}}
  BY <1>1
<1> QED BY <1>1, <1>2, <1>3, <1>4, <1>5, <1>6, DropKeeps

-----------------------------------------------------------------------------
(* The statements of a password change, of a login and of a removal.       *)

\* Nobody but r moves, and r stays away from a password change.
Apart(r) ==
    /\ call[r].pc \notin ChangePoints /\ call'[r].pc \notin ChangePoints
    /\ call'[r].pc = "newSession" => call'[r].user \in Ids
    /\ \A q \in Slots \ {r} : call'[q] = call[q]

LEMMA ApartKeeps ==
    ASSUME AccountInv, NEW r \in Slots, Apart(r), TablesOK', Keeps
    PROVE  AccountInv'
<1>1. LoginsOK'
  BY DEF AccountInv, LoginsOK, Apart, At
<1> QED BY <1>1, AccountsUnconcerned DEF Apart

LEMMA CreateSessionStep ==
    ASSUME CallInv, AccountInv, NEW r \in Slots, CreateSession(r)
    PROVE  AccountInv'
<1>1. /\ Apart(r) /\ UNCHANGED <<users, nextId, torn>>
  <2>1. call[r].pc = "newSession" /\ Answer(r) /\ UNCHANGED <<users, nextId, torn>>
    BY DEF CreateSession, Reaches, At
  <2>2. Within(r, AccountPoints) /\ call'[r].pc = "idle"
    BY <2>1, AnswerEffect DEF AccountPoints, Idle
  <2> QED BY <2>1, <2>2 DEF Within, Apart, ChangePoints
<1>2. CASE ~Exists(call[r].user)
  BY <1>1, <1>2, UnchangedKeeps, ApartKeeps DEF CreateSession
<1>3. CASE Exists(call[r].user)
  <2> DEFINE u == call[r].user
             opened == [user |-> u, live |-> TRUE, pw |-> call[r].pw, late |-> users[u].pw # call[r].pw]
  <2>1. PICK t \in Tokens :
          /\ ~IsOpen(t)
          /\ \A q \in Slots : call[q].pc \in ChangePoints => call[q].token # t
          /\ sessions' = [sessions EXCEPT ![t] = opened]
    BY <1>3 DEF CreateSession, ChangePoints
  <2>2. u \in Ids
    BY DEF AccountInv, LoginsOK, CreateSession, Reaches
  <2>3. sessions'[t] = opened /\ \A s \in Tokens \ {t} : sessions'[s] = sessions[s]
    BY <2>1 DEF AccountInv, TablesOK
  <2>4. \A q \in Slots : call'[q] = call[q] \/ (call[q].pc \notin ChangePoints
                                               /\ call'[q].pc \notin ChangePoints)
    BY <1>1 DEF Apart
  <2>5. TablesOK'
    <3>1. sessions' = [s \in Tokens |-> sessions'[s]]
      BY <2>1 DEF AccountInv, TablesOK
    <3>2. ASSUME NEW s \in Tokens, IsOpen(s)'
          PROVE  /\ {"user", "live", "pw", "late"} \subseteq DOMAIN sessions'[s]
                 /\ sessions'[s].user \in Ids /\ Exists(sessions'[s].user)
      BY <1>3, <2>2, <2>3, <3>2 DEF AccountInv, TablesOK, IsOpen
    <3> QED BY <1>1, <3>1, <3>2 DEF AccountInv, TablesOK, Exists
  <2>6. ChangesOK'
    BY <2>1, <2>3, <2>4 DEF AccountInv, ChangesOK, ChangeOK, IsOpen
  <2>7. LoginsOK'
    BY <1>1 DEF AccountInv, LoginsOK, Apart, At
  <2>8. ASSUME NEW s \in Tokens, IsOpen(s)' PROVE Justified(s)'
    <3>1. CASE s = t
      <4>1. CASE users[u].pw = call[r].pw
        BY <1>1, <2>3, <3>1, <4>1 DEF Justified
      <4>2. CASE users[u].pw # call[r].pw
        <5>1. sessions'[s].late = (users[u].pw # call[r].pw)
          BY <2>3, <3>1
        <5>2. sessions'[s].late
          BY <4>2, <5>1
        <5> QED BY <5>2 DEF Justified
      <4> QED BY <4>1, <4>2
    <3>2. CASE s # t
      <4>1. sessions'[s] = sessions[s] /\ IsOpen(s) /\ Justified(s)
        BY <2>3, <2>8, <3>2 DEF IsOpen, AccountInv, PasswordsOK
      <4>2. \A q \in Slots : WillDrop(q, s) => WillDrop(q, s)'
        BY <2>4, <4>1 DEF WillDrop, At, ChangePoints
      <4> QED BY <1>1, <4>1, <4>2 DEF Justified
    <3> QED BY <3>1, <3>2
  <2> QED BY <2>5, <2>6, <2>7, <2>8 DEF AccountInv, PasswordsOK
<1> QED BY <1>2, <1>3

\* A change that moves on is the same change.
LEMMA SameChange ==
    ASSUME NEW r \in Slots, NEW to, call'[r] = [call[r] EXCEPT !.pc = to], ChangeOK(r),
           sessions'[call[r].token].user = sessions[call[r].token].user,
           IsOpen(call[r].token)' => IsOpen(call[r].token)
    PROVE  ChangeOK(r)' /\ call'[r].token = call[r].token /\ call'[r].user = call[r].user
<1>1. /\ call'[r].token = call[r].token /\ call'[r].user = call[r].user
      /\ DOMAIN call'[r] = DOMAIN call[r]
  BY DEF ChangeOK
<1> QED BY <1>1 DEF ChangeOK, IsOpen

\* A handler enters or leaves a password change, short of its second statement.
LEMMA PasswordsStay ==
    ASSUME AccountInv, NEW r \in Slots, UNCHANGED accountVars,
           \A q \in Slots : q # r => call'[q] = call[q],
           call[r].pc # "dropOthers", call'[r].pc \notin {"dropOthers", "newSession"},
           call'[r].pc \in ChangePoints => ChangeOK(r)'
    PROVE  AccountInv'
<1>1. TablesOK'
  BY UnchangedKeeps
<1>2. ChangesOK'
  <2>1. ASSUME NEW q \in Slots, q # r, call'[q].pc \in ChangePoints PROVE ChangeOK(q)'
    BY <2>1 DEF AccountInv, ChangesOK, ChangeOK, IsOpen
  <2> QED BY <2>1 DEF ChangesOK
<1>3. LoginsOK'
  BY DEF AccountInv, LoginsOK, At
<1>4. PasswordsOK'
  <2>1. SUFFICES ASSUME NEW t \in Tokens, IsOpen(t)' PROVE Justified(t)'
    BY DEF PasswordsOK
  <2>2. IsOpen(t) /\ Justified(t)
    BY <2>1 DEF IsOpen, AccountInv, PasswordsOK
  <2>3. \A q \in Slots : WillDrop(q, t) => WillDrop(q, t)'
    BY DEF WillDrop, At
  <2> QED BY <2>2, <2>3 DEF Justified
<1> QED BY <1>1, <1>2, <1>3, <1>4 DEF AccountInv

LEMMA ChangePasswordStep ==
    ASSUME CallInv, AccountInv, NEW r \in Slots, ChangePassword(r)
    PROVE  AccountInv'
<1>1. PICK t \in Tokens, old \in Passwords, new \in Passwords :
        /\ Resolves(t)
        /\ Begin(r, [pc |-> "verify", token |-> t, user |-> sessions[t].user,
                     name |-> users[sessions[t].user].name, old |-> old, new |-> new])
        /\ UNCHANGED accountVars
  BY DEF ChangePassword
<1> DEFINE c == [pc |-> "verify", token |-> t, user |-> sessions[t].user,
                 name |-> users[sessions[t].user].name, old |-> old, new |-> new]
<1>2. Within(r, AccountPoints) /\ call'[r] = c /\ call[r].pc = "idle"
  <2>1. Begin(r, c) /\ "pc" \in DOMAIN c /\ c.pc \in AccountPoints
    BY <1>1 DEF AccountPoints
  <2>2. Within(r, AccountPoints) /\ call'[r] = c
    BY <2>1, BeginEffect
  <2>3. call[r].pc = "idle"
    BY <2>1 DEF Begin, At
  <2> QED BY <2>2, <2>3
<1>3. \A q \in Slots : q # r => call'[q] = call[q]
  BY <1>2 DEF Within
<1>4. ChangeOK(r)'
  BY <1>1, <1>2 DEF ChangeOK, IsOpen
<1>5. call'[r].pc = "verify"
  BY <1>2
<1> QED BY <1>1, <1>2, <1>3, <1>4, <1>5, PasswordsStay

LEMMA VerifyOldStep ==
    ASSUME CallInv, AccountInv, NEW r \in Slots, VerifyOld(r)
    PROVE  AccountInv'
<1>1. call[r].pc = "verify" /\ UNCHANGED accountVars /\ (Moves(r, "newPassword") \/ Answer(r))
  BY DEF VerifyOld, Reaches, At
<1>2. CASE Answer(r)
  <2>1. Within(r, AccountPoints) /\ call'[r].pc = "idle"
    BY <1>1, <1>2, AnswerEffect DEF AccountPoints, Idle
  <2>2. /\ call'[r].pc = "idle" /\ \A q \in Slots : q # r => call'[q] = call[q]
        /\ UNCHANGED accountVars
    BY <1>1, <2>1 DEF Within
  <2>3. call'[r].pc \notin ChangePoints
    BY <2>2 DEF ChangePoints
  <2> QED BY <1>1, <2>2, <2>3, PasswordsStay
<1>3. CASE Moves(r, "newPassword")
  <2>1. /\ Within(r, AccountPoints)
        /\ call'[r] = [call[r] EXCEPT !.pc = "newPassword"] /\ call'[r].pc = "newPassword"
    BY <1>1, <1>3, MovesEffect DEF AccountPoints
  <2>2. /\ \A q \in Slots : q # r => call'[q] = call[q]
        /\ UNCHANGED accountVars
    BY <1>1, <2>1 DEF Within
  <2>3. ChangeOK(r)'
    <3>1. ChangeOK(r) /\ call[r].pc \in ChangePoints
      BY <1>1 DEF AccountInv, ChangesOK, ChangePoints
    <3>2. sessions' = sessions /\ call'[r] = [call[r] EXCEPT !.pc = "newPassword"]
      BY <2>1, <2>2
    <3>3. IsOpen(call[r].token)' => IsOpen(call[r].token)
      BY <3>2 DEF IsOpen
    <3> QED BY <3>1, <3>2, <3>3, SameChange
  <2> QED BY <1>1, <2>1, <2>2, <2>3, PasswordsStay
<1> QED BY <1>1, <1>2, <1>3

LEMMA SetPasswordStep ==
    ASSUME CallInv, AccountInv, NEW r \in Slots, SetPassword(r)
    PROVE  AccountInv'
<1> DEFINE i == call[r].user
           t == call[r].token
<1>1. /\ call[r].pc = "newPassword" /\ Moves(r, "dropOthers") /\ UNCHANGED <<nextId, torn>>
      /\ users' = IF Exists(i) THEN [users EXCEPT ![i].pw = call[r].new] ELSE users
      /\ sessions' = IF IsOpen(t) THEN [sessions EXCEPT ![t].pw = call[r].new] ELSE sessions
  BY DEF SetPassword, Reaches, At
<1>2. /\ call'[r] = [call[r] EXCEPT !.pc = "dropOthers"] /\ call'[r].pc = "dropOthers"
      /\ \A q \in Slots : q # r => call'[q] = call[q]
  <2>1. call[r].pc \in AccountPoints /\ "dropOthers" \in AccountPoints /\ "idle" \notin AccountPoints
    BY <1>1 DEF AccountPoints
  <2> QED BY <1>1, <2>1, MovesEffect DEF Within
<1>3. ChangeOK(r)
  BY <1>1 DEF AccountInv, ChangesOK, ChangePoints
<1>4. ASSUME NEW s \in Tokens
      PROVE  /\ IsOpen(s)' <=> IsOpen(s)
             /\ IsOpen(s) => /\ DOMAIN sessions'[s] = DOMAIN sessions[s]
                             /\ sessions'[s].user = sessions[s].user
                             /\ sessions'[s].late = sessions[s].late
                             /\ s = t => sessions'[s].pw = call[r].new
                             /\ s # t => sessions'[s] = sessions[s]
  <2>1. CASE ~IsOpen(t) \/ s # t
    BY <1>1, <2>1 DEF IsOpen, AccountInv, TablesOK
  <2>2. CASE IsOpen(t) /\ s = t
    <3>1. sessions' = [sessions EXCEPT ![s].pw = call[r].new] /\ sessions = [u \in Tokens |-> sessions[u]]
      BY <1>1, <2>2 DEF AccountInv, TablesOK
    <3>2. {"user", "live", "pw", "late"} \subseteq DOMAIN sessions[s] /\ IsOpen(s)
      BY <2>2 DEF AccountInv, TablesOK
    <3>3. sessions'[s] = [sessions[s] EXCEPT !.pw = call[r].new]
      BY <3>1
    <3>4. /\ DOMAIN sessions'[s] = DOMAIN sessions[s] /\ sessions'[s].user = sessions[s].user
          /\ sessions'[s].late = sessions[s].late /\ sessions'[s].pw = call[r].new
      BY <3>2, <3>3
    <3>5. sessions'[s] # NoSession
      BY <3>2, <3>4 DEF NoSession
    <3> QED BY <2>2, <3>2, <3>4, <3>5 DEF IsOpen
  <2> QED BY <2>1, <2>2
<1>5. ASSUME NEW j \in Ids
      PROVE  /\ Exists(j)' <=> Exists(j)
             /\ Exists(j) => /\ DOMAIN users'[j] = DOMAIN users[j]
                             /\ j = i => users'[j].pw = call[r].new
             /\ j # i => users'[j] = users[j]
  <2>1. CASE ~Exists(i) \/ j # i
    BY <1>1, <2>1 DEF Exists, AccountInv, TablesOK
  <2>2. CASE Exists(i) /\ j = i
    <3>1. users' = [users EXCEPT ![j].pw = call[r].new] /\ users = [k \in Ids |-> users[k]]
      BY <1>1, <2>2 DEF AccountInv, TablesOK
    <3>2. "pw" \in DOMAIN users[j] /\ Exists(j)
      BY <2>2 DEF AccountInv, TablesOK
    <3>3. users'[j] = [users[j] EXCEPT !.pw = call[r].new]
      BY <3>1
    <3>4. DOMAIN users'[j] = DOMAIN users[j] /\ users'[j].pw = call[r].new
      BY <3>2, <3>3
    <3>5. users'[j] # NoUser
      BY <3>2, <3>4 DEF NoUser
    <3> QED BY <2>2, <3>2, <3>4, <3>5 DEF Exists
  <2> QED BY <2>1, <2>2
<1>6. TablesOK'
  <2>1. users' = [j \in Ids |-> users'[j]] /\ sessions' = [s \in Tokens |-> sessions'[s]]
    BY <1>1 DEF AccountInv, TablesOK
  <2>2. \A j \in Ids : Exists(j)' => "pw" \in DOMAIN users'[j] /\ j < nextId'
    BY <1>1, <1>5 DEF AccountInv, TablesOK
  <2>3. ASSUME NEW s \in Tokens, IsOpen(s)'
        PROVE  /\ {"user", "live", "pw", "late"} \subseteq DOMAIN sessions'[s]
               /\ sessions'[s].user \in Ids /\ Exists(sessions[s].user)'
               /\ sessions'[s].user = sessions[s].user
    <3>1. /\ IsOpen(s) /\ {"user", "live", "pw", "late"} \subseteq DOMAIN sessions[s]
          /\ sessions[s].user \in Ids /\ Exists(sessions[s].user)
      BY <1>4, <2>3 DEF AccountInv, TablesOK
    <3> QED BY <1>4, <1>5, <3>1
  <2> QED BY <1>1, <2>1, <2>2, <2>3 DEF AccountInv, TablesOK, Exists
<1>7. ChangesOK'
  <2>1. ASSUME NEW q \in Slots, call'[q].pc \in ChangePoints PROVE ChangeOK(q)'
    <3>1. ChangeOK(q)
      BY <1>2, <1>3, <2>1 DEF AccountInv, ChangesOK
    <3>2. /\ call'[q].token = call[q].token /\ call'[q].user = call[q].user
          /\ DOMAIN call'[q] = DOMAIN call[q]
      <4>1. CASE q = r
        BY <1>2, <3>1, <4>1 DEF ChangeOK
      <4>2. CASE q # r
        BY <1>2, <4>2
      <4> QED BY <4>1, <4>2
    <3>3. IsOpen(call[q].token)' => IsOpen(call[q].token)
                                    /\ sessions'[call[q].token].user = sessions[call[q].token].user
      BY <1>4, <3>1, <3>2 DEF ChangeOK, IsOpen
    <3> QED BY <3>1, <3>2, <3>3 DEF ChangeOK, IsOpen
  <2> QED BY <2>1 DEF ChangesOK
<1>8. LoginsOK'
  BY <1>2 DEF AccountInv, LoginsOK, At
<1>9. ASSUME NEW s \in Tokens, IsOpen(s)' PROVE Justified(s)'
  <2>1. /\ IsOpen(s) /\ Justified(s) /\ sessions'[s].user = sessions[s].user
        /\ sessions[s].user \in Ids /\ Exists(sessions[s].user)
        /\ sessions'[s].late = sessions[s].late
    BY <1>4, <1>9 DEF AccountInv, PasswordsOK, TablesOK
  <2>2. CASE s = t
    <3>1. sessions[s].user = i
      BY <1>3, <2>1, <2>2 DEF ChangeOK
    <3>2. sessions'[s].pw = users'[sessions'[s].user].pw
      BY <1>4, <1>5, <2>1, <2>2, <3>1
    <3> QED BY <3>2 DEF Justified
  <2>3. CASE s # t /\ sessions[s].user = i
    <3>1. call'[r].user = i /\ call'[r].token = t
      BY <1>2, <1>3 DEF ChangeOK
    <3>2. WillDrop(r, s)'
      BY <1>2, <2>1, <2>3, <3>1 DEF WillDrop, At
    <3> QED BY <3>2 DEF Justified
  <2>4. CASE s # t /\ sessions[s].user # i
    <3>1. sessions'[s] = sessions[s] /\ users'[sessions[s].user] = users[sessions[s].user]
      BY <1>4, <1>5, <2>1, <2>4
    <3>2. ASSUME NEW q \in Slots, WillDrop(q, s) PROVE WillDrop(q, s)'
      <4>1. q # r
        BY <1>1, <3>2 DEF WillDrop, At
      <4>2. call'[q] = call[q]
        BY <1>2, <4>1
      <4> QED BY <3>1, <3>2, <4>2 DEF WillDrop, At
    <3>3. CASE sessions[s].late
      BY <2>1, <3>3 DEF Justified
    <3>4. CASE sessions[s].pw = users[sessions[s].user].pw
      BY <3>1, <3>4 DEF Justified
    <3>5. CASE sessions[s].user \in torn
      BY <1>1, <3>1, <3>5 DEF Justified
    <3> QED BY <2>1, <3>2, <3>3, <3>4, <3>5 DEF Justified
  <2> QED BY <2>2, <2>3, <2>4
<1> QED BY <1>6, <1>7, <1>8, <1>9 DEF AccountInv, PasswordsOK

LEMMA DropOthersStep ==
    ASSUME CallInv, AccountInv, NEW r \in Slots, DropOthers(r)
    PROVE  AccountInv'
<1> DEFINE i == call[r].user
           t == call[r].token
<1>1. /\ call[r].pc = "dropOthers" /\ Answer(r) /\ UNCHANGED <<users, nextId>>
      /\ sessions' = Dropped({i}, {t})
      /\ torn' = IF IsOpen(t) /\ sessions[t].pw # users[i].pw THEN torn ELSE torn \ {i}
  BY DEF DropOthers, Reaches, At
<1>2. call'[r].pc = "idle" /\ \A q \in Slots : q # r => call'[q] = call[q]
  <2>1. call[r].pc \in AccountPoints /\ "idle" \notin AccountPoints
    BY <1>1 DEF AccountPoints
  <2> QED BY <1>1, <2>1, AnswerEffect DEF Within, Idle
<1>3. ChangeOK(r)
  BY <1>1 DEF AccountInv, ChangesOK, ChangePoints
<1>4. /\ sessions' = [s \in Tokens |-> sessions'[s]]
      /\ \A s \in Tokens : IsOpen(s)' => /\ IsOpen(s) /\ sessions'[s] = sessions[s]
                                         /\ sessions[s].user # i \/ s = t
  BY <1>1, DroppedSessions
<1>5. TablesOK'
  BY <1>1, <1>4 DEF AccountInv, TablesOK, Exists
<1>6. ChangesOK'
  <2>1. ASSUME NEW q \in Slots, call'[q].pc \in ChangePoints PROVE ChangeOK(q)'
    <3>1. call'[q] = call[q] /\ ChangeOK(q)
      BY <1>2, <2>1 DEF AccountInv, ChangesOK, ChangePoints
    <3> QED BY <1>4, <3>1 DEF ChangeOK
  <2> QED BY <2>1 DEF ChangesOK
<1>7. LoginsOK'
  BY <1>2 DEF AccountInv, LoginsOK, At
<1>8. ASSUME NEW s \in Tokens, IsOpen(s)' PROVE Justified(s)'
  <2>1. IsOpen(s) /\ Justified(s) /\ sessions'[s] = sessions[s] /\ users' = users
    BY <1>1, <1>4, <1>8 DEF AccountInv, PasswordsOK
  <2>2. ASSUME NEW q \in Slots, WillDrop(q, s) PROVE WillDrop(q, s)'
    <3>1. q # r
      BY <1>4, <1>8, <2>2 DEF WillDrop
    <3> QED BY <1>2, <2>1, <2>2, <3>1 DEF WillDrop, At
  <2>3. CASE sessions[s].user \in torn
    <3>1. CASE sessions[s].user # i
      BY <1>1, <2>1, <2>3, <3>1 DEF Justified
    <3>2. CASE sessions[s].user = i
      BY <1>1, <1>4, <1>8, <2>1, <2>3, <3>2 DEF Justified
    <3> QED BY <3>1, <3>2
  <2> QED BY <2>1, <2>2, <2>3 DEF Justified
<1> QED BY <1>5, <1>6, <1>7, <1>8 DEF AccountInv, PasswordsOK

\* Handlers end without a statement; the changes among them are recorded as torn.
LEMMA HandlersEnd ==
    ASSUME AccountInv, UNCHANGED <<users, nextId, sessions>>, NEW S \in SUBSET Slots,
           \A q \in Slots : IF q \in S THEN call'[q].pc = "idle" ELSE call'[q] = call[q],
           torn' = torn \union Tears(S)
    PROVE  AccountInv'
<1>1. TablesOK'
  BY DEF AccountInv, TablesOK, Exists, IsOpen
<1>2. ChangesOK' /\ LoginsOK'
  BY DEF AccountInv, ChangesOK, ChangeOK, LoginsOK, ChangePoints, At, IsOpen
<1>3. ASSUME NEW s \in Tokens, IsOpen(s)' PROVE Justified(s)'
  <2>1. IsOpen(s) /\ Justified(s)
    BY <1>3 DEF IsOpen, AccountInv, PasswordsOK
  <2>2. ASSUME NEW q \in Slots, WillDrop(q, s) PROVE WillDrop(q, s)' \/ sessions[s].user \in torn'
    <3>1. CASE q \in S
      BY <2>2, <3>1 DEF WillDrop, Tears
    <3>2. CASE q \notin S
      BY <2>2, <3>2 DEF WillDrop, At
    <3> QED BY <3>1, <3>2
  <2> QED BY <2>1, <2>2 DEF Justified
<1> QED BY <1>1, <1>2, <1>3 DEF AccountInv, PasswordsOK

\* Every other statement of an account handler stays apart from a password change.
LEMMA AccountStepKeeps ==
    ASSUME CallInv, AccountInv, NEW r \in Slots, Accounting(r)
    PROVE  AccountInv'
<1>0. Within(r, AccountPoints) /\ AccountStep(r)
  BY AccountingFrame DEF Accounting
<1>a. "idle" \notin AccountPoints
  BY DEF AccountPoints
<1>1. ASSUME NEW c, call'[r] = c, c.pc \notin ChangePoints \union {"newSession"},
             call[r].pc \notin ChangePoints
      PROVE  Apart(r)
  BY <1>0, <1>1 DEF Within, Apart
<1>2. ASSUME UNCHANGED accountVars, Apart(r) PROVE AccountInv'
  BY <1>2, UnchangedKeeps, ApartKeeps
<1>3. ASSUME NEW p, call[r].pc = p, p \notin ChangePoints, Answer(r), p \in AccountPoints
      PROVE  Apart(r)
  <2>1. call'[r] = Idle
    BY <1>a, <1>3, AnswerEffect
  <2> QED BY <1>1, <1>3, <2>1 DEF Idle, ChangePoints
<1>4. ASSUME NEW p, call[r].pc = p, p \notin ChangePoints, p \in AccountPoints,
             NEW to \in AccountPoints, to \notin ChangePoints \union {"newSession"}, Moves(r, to)
      PROVE  Apart(r)
  <2>1. call'[r].pc = to
    BY <1>a, <1>4, MovesEffect
  <2> QED BY <1>1, <1>4, <2>1
<1>5. ASSUME NEW c, Begin(r, c), c.pc \notin ChangePoints \union {"newSession"},
             "pc" \in DOMAIN c, c.pc \in AccountPoints \union {"idle"}
      PROVE  Apart(r)
  <2>1. call'[r] = c /\ call[r].pc = "idle"
    BY <1>5, BeginEffect DEF Begin, At
  <2> QED BY <1>1, <1>5, <2>1 DEF ChangePoints
<1>6. ASSUME NEW c, Advance(r, c), c.pc \notin ChangePoints \union {"newSession"},
             call[r].pc \in AccountPoints, call[r].pc \notin ChangePoints,
             "pc" \in DOMAIN c, c.pc \in AccountPoints
      PROVE  Apart(r)
  <2>1. call'[r] = c
    BY <1>6, AdvanceEffect DEF AccountPoints
  <2> QED BY <1>1, <1>6, <2>1
<1> USE DEF AccountPoints, ChangePoints
<1>7. CASE Login(r)
  BY <1>2, <1>5, <1>7 DEF Login
<1>8. CASE SeedCount(r)
  BY <1>2, <1>4, <1>8 DEF SeedCount, Reaches, At
<1>9. CASE SeedInsert(r)
  <2>1. Apart(r)
    BY <1>4, <1>9 DEF SeedInsert, Reaches, At
  <2>2. CASE UNCHANGED <<users, nextId>>
    BY <1>2, <1>9, <2>1, <2>2 DEF SeedInsert
  <2>3. CASE nextId \in Ids /\ InsertUser(SeedRow.name, SeedRow.pw, "admin")
    BY <1>9, <2>1, <2>3, InsertKeeps, ApartKeeps DEF SeedInsert
  <2> QED BY <1>9, <2>2, <2>3 DEF SeedInsert
<1>10. CASE SeedReadRow(r)
  <2>1. call[r].pc = "seedRow" /\ UNCHANGED accountVars
    BY <1>10 DEF SeedReadRow, Reaches, At
  <2>2. Moves(r, "purge") \/ \E c : Advance(r, c) /\ "pc" \in DOMAIN c /\ c.pc = "rotate"
    BY <1>10 DEF SeedReadRow
  <2> QED BY <1>2, <1>4, <1>6, <2>1, <2>2
<1>11. CASE SeedRotate(r)
  <2>1. call[r].pc = "rotate"
    BY <1>11 DEF SeedRotate, Reaches, At
  <2>2. CASE Answer(r) /\ UNCHANGED accountVars
    BY <1>2, <1>3, <2>1, <2>2
  <2>3. ASSUME NEW c, RotateRoot(call[r].row), Advance(r, c), "pc" \in DOMAIN c, c.pc = "purge"
        PROVE  AccountInv'
    BY <1>6, <2>1, <2>3, RotateKeeps, ApartKeeps
  <2> QED BY <1>11, <2>2, <2>3 DEF SeedRotate
<1>12. CASE PurgeExpired(r)
  <2>1. Apart(r) /\ UNCHANGED <<users, nextId, torn>>
    BY <1>4, <1>12 DEF PurgeExpired, Reaches, At
  <2>2. \A t \in Tokens : IsOpen(t)' => IsOpen(t) /\ sessions'[t] = sessions[t]
    BY <1>12 DEF PurgeExpired, IsOpen
  <2>3. sessions' = [t \in Tokens |-> sessions'[t]]
    BY <1>12 DEF PurgeExpired
  <2> QED BY <2>1, <2>2, <2>3, ClosingKeeps, ApartKeeps
<1>13. CASE LookupUser(r)
  <2>1. call[r].pc = "lookup" /\ UNCHANGED accountVars
    BY <1>13 DEF LookupUser, Reaches, At
  <2>2. CASE Answer(r)
    BY <1>2, <1>3, <2>1, <2>2
  <2>3. ASSUME NEW u \in UserIds, Advance(r, [pc |-> "newSession", user |-> u, pw |-> call[r].pw])
        PROVE  AccountInv'
    <3>0. call'[r] = [pc |-> "newSession", user |-> u, pw |-> call[r].pw]
      BY <2>3 DEF Advance, CallInv
    <3>1. call'[r].pc = "newSession" /\ call'[r].user = u
      BY <3>0
    <3>2. Apart(r)
      BY <1>0, <2>1, <3>1 DEF Within, Apart, UserIds
    <3> QED BY <1>2, <2>1, <3>2
  <2> QED BY <1>13, <2>2, <2>3 DEF LookupUser
<1>14. CASE CreateSession(r)
  BY <1>14, CreateSessionStep
<1>15. CASE Logout(r)
  <2>1. PICK t \in Tokens : /\ Begin(r, Idle) /\ UNCHANGED <<users, nextId, torn>>
                            /\ sessions' = [sessions EXCEPT ![t] = NoSession]
    BY <1>15 DEF Logout
  <2>2. Apart(r)
    BY <1>5, <2>1 DEF Idle
  <2>3. /\ sessions' = [u \in Tokens |-> sessions'[u]]
        /\ \A u \in Tokens : IsOpen(u)' => IsOpen(u) /\ sessions'[u] = sessions[u]
    BY <2>1 DEF IsOpen, AccountInv, TablesOK
  <2> QED BY <2>1, <2>2, <2>3, ClosingKeeps, ApartKeeps
<1>16. CASE CreateUser(r)
  <2>1. PICK n \in NewUsers : /\ Begin(r, Idle) /\ InsertUser(n.name, n.pw, n.role)
                              /\ nextId \in Ids /\ UNCHANGED <<sessions, torn>>
    BY <1>16 DEF CreateUser
  <2>2. Apart(r)
    BY <1>5, <2>1 DEF Idle
  <2> QED BY <2>1, <2>2, InsertKeeps, ApartKeeps
<1>17. CASE RemoveUser(r)
  BY <1>2, <1>5, <1>17 DEF RemoveUser
<1>18. CASE CountAdmins(r)
  <2>1. call[r].pc = "listUsers" /\ UNCHANGED accountVars /\ (Moves(r, "deleteUser") \/ Answer(r))
    BY <1>18 DEF CountAdmins, Reaches, At
  <2> QED BY <1>2, <1>3, <1>4, <2>1
<1>19. CASE DeleteUser(r)
  <2> DEFINE i == call[r].target
  <2>1. /\ call[r].pc = "deleteUser" /\ Answer(r) /\ nextId' = nextId
        /\ users' = [users EXCEPT ![i] = NoUser]
        /\ sessions' = Dropped({i}, {}) /\ torn' = torn \ {i}
    BY <1>19 DEF DeleteUser, Reaches, At
  <2>2. Apart(r)
    BY <1>3, <2>1
  <2>3. users' = [j \in Ids |-> users'[j]]
    BY <2>1 DEF AccountInv, TablesOK
  <2>4. \A j \in Ids : /\ j \notin {i} => users'[j] = users[j]
                       /\ Exists(j)' => Exists(j) /\ "pw" \in DOMAIN users'[j]
    BY <2>1 DEF AccountInv, TablesOK, Exists
  <2>5. /\ sessions' = [t \in Tokens |-> sessions'[t]]
        /\ \A t \in Tokens : IsOpen(t)' => /\ IsOpen(t) /\ sessions'[t] = sessions[t]
                                           /\ sessions[t].user \notin {i}
    <3>1. sessions' = Dropped({i}, {})
      BY <2>1
    <3> HIDE DEF i
    <3> QED BY <3>1, DroppedSessions
  <2>6. torn' \in {torn, torn \ {i}}
    BY <2>1
  <2>7. TablesOK' /\ Keeps
    BY <2>1, <2>3, <2>4, <2>5, <2>6, DropKeeps
  <2> QED BY <2>2, <2>7, ApartKeeps
<1>20. CASE ChangePassword(r) \/ VerifyOld(r) \/ SetPassword(r) \/ DropOthers(r)
  BY <1>20, ChangePasswordStep, VerifyOldStep, SetPasswordStep, DropOthersStep
<1>21. CASE AccountLost(r)
  <2>1. /\ call[r].pc \in AccountPoints /\ Answer(r) /\ UNCHANGED <<users, nextId, sessions>>
        /\ torn' = torn \union Tears({r})
    BY <1>21 DEF AccountLost
  <2>2. call'[r].pc = "idle"
    BY <2>1 DEF Answer, Advance, Idle, CallInv
  <2>3. \A q \in Slots : IF q \in {r} THEN call'[q].pc = "idle" ELSE call'[q] = call[q]
    BY <1>0, <2>2 DEF Within
  <2> QED BY <2>1, <2>3, HandlersEnd
<1> QED BY <1>0, <1>7, <1>8, <1>9, <1>10, <1>11, <1>12, <1>13, <1>14, <1>15, <1>16, <1>17, <1>18,
           <1>19, <1>20, <1>21 DEF AccountStep

LEMMA SequenceShape ==
    ASSUME NEW S, NEW rows \in Seq(S)
    PROVE  /\ DOMAIN rows = 1..Len(rows) /\ Len(rows) \in Nat
           /\ \A i \in DOMAIN rows : rows[i] \in S
OBVIOUS

LEMMA IntervalSize ==
    ASSUME NEW n \in Nat
    PROVE  Cardinality(1..n) = n
<1>1. Cardinality(1..n) = IF 1 > n THEN 0 ELSE n - 1 + 1
  BY FS_Interval
<1> QED BY <1>1

LEMMA AccountInvariance ==
    /\ Init => AccountInv
    /\ CallInv /\ AccountInv /\ [Next]_serverVars => AccountInv'
<1>1. ASSUME Init PROVE AccountInv
  <2>1. PICK rows \in StartUsers, owner \in [Tokens -> Ids \union {0}] :
          /\ \A t \in Tokens : owner[t] # 0 => owner[t] \in DOMAIN rows \intersect LoggedIn
          /\ InitAccounts(rows, owner)
    BY <1>1 DEF Init
  <2> DEFINE Row == [name : Names, pw : Passwords, role : {"admin", "user", "viewer"}]
  <2>2. /\ DOMAIN rows = 1..Len(rows) /\ Len(rows) \in Nat
        /\ \A i \in DOMAIN rows : rows[i] \in Row
    <3>1. rows \in Seq(Row)
      BY <2>1, StartAssumption
    <3> HIDE DEF Row
    <3> QED BY <3>1, SequenceShape
  <2>3. \A i \in DOMAIN rows : "pw" \in DOMAIN rows[i]
    BY <2>2
  <2>4. Cardinality(DOMAIN rows) = Len(rows)
    <3>1. Cardinality(1..Len(rows)) = Len(rows)
      BY <2>2, IntervalSize
    <3> QED BY <2>2, <3>1
  <2>5. /\ users = [i \in Ids |-> IF i \in DOMAIN rows THEN rows[i] ELSE NoUser]
        /\ nextId = Len(rows) + 1 /\ torn = {}
        /\ sessions = [t \in Tokens |->
              IF owner[t] = 0 THEN NoSession
              ELSE [user |-> owner[t], live |-> TRUE, pw |-> rows[owner[t]].pw, late |-> FALSE]]
    BY <2>1, <2>4 DEF InitAccounts
  <2>6. \A i \in Ids : Exists(i) <=> i \in DOMAIN rows
    BY <2>3, <2>5 DEF Exists, NoUser
  <2>7. ASSUME NEW t \in Tokens, IsOpen(t)
        PROVE  /\ owner[t] \in Ids /\ owner[t] \in DOMAIN rows
               /\ sessions[t] = [user |-> owner[t], live |-> TRUE, pw |-> rows[owner[t]].pw, late |-> FALSE]
    BY <2>1, <2>5, <2>7 DEF IsOpen
  <2>8. TablesOK
    <3>1. ASSUME NEW i \in Ids, Exists(i) PROVE "pw" \in DOMAIN users[i] /\ i < nextId
      <4>1. i \in DOMAIN rows /\ users[i] = rows[i]
        BY <2>5, <2>6, <3>1
      <4>2. i \in 1..Len(rows) /\ nextId = Len(rows) + 1
        BY <2>2, <2>5, <4>1
      <4> QED BY <2>2, <2>3, <4>1, <4>2
    <3>2. ASSUME NEW t \in Tokens, IsOpen(t)
          PROVE  /\ {"user", "live", "pw", "late"} \subseteq DOMAIN sessions[t]
                 /\ sessions[t].user \in Ids /\ Exists(sessions[t].user)
      <4>1. sessions[t] = [user |-> owner[t], live |-> TRUE, pw |-> rows[owner[t]].pw, late |-> FALSE]
        BY <2>7, <3>2
      <4>2. sessions[t].user = owner[t] /\ {"user", "live", "pw", "late"} \subseteq DOMAIN sessions[t]
        BY <4>1
      <4>3. owner[t] \in Ids /\ Exists(owner[t])
        BY <2>6, <2>7, <3>2
      <4> QED BY <4>2, <4>3
    <3>3. /\ users = [i \in Ids |-> users[i]] /\ sessions = [t \in Tokens |-> sessions[t]]
          /\ nextId \in Nat
      BY <2>2, <2>5
    <3> QED BY <3>1, <3>2, <3>3 DEF TablesOK
  <2>9. PasswordsOK
    BY <2>5, <2>7 DEF PasswordsOK, Justified, IsOpen
  <2>10. ChangesOK /\ LoginsOK
    BY <1>1 DEF Init, InitRequests, Idle, ChangesOK, LoginsOK, ChangePoints, At
  <2> QED BY <2>8, <2>9, <2>10 DEF AccountInv
<1>2. ASSUME CallInv, AccountInv, [Next]_serverVars PROVE AccountInv'
  <2>1. ASSUME NEW points, points \intersect (ChangePoints \union {"newSession"}) = {},
               \A q \in Slots : call'[q] = call[q] \/ (call[q].pc \in points /\ call'[q].pc \in points),
               TablesOK', Keeps
        PROVE  AccountInv'
    <3>1. LoginsOK'
      BY <1>2, <2>1 DEF AccountInv, LoginsOK, At
    <3>2. \A q \in Slots : call'[q] = call[q] \/ (call[q].pc \notin ChangePoints
                                                 /\ call'[q].pc \notin ChangePoints)
      BY <2>1
    <3> QED BY <1>2, <2>1, <3>1, <3>2, AccountsUnconcerned
  <2>a. ASSUME call' = call, TablesOK', Keeps PROVE AccountInv'
    BY <1>2, <2>a, AccountsUnconcerned DEF AccountInv, LoginsOK, At
  <2>2. ASSUME NEW r \in Slots, Configuring(r) PROVE AccountInv'
    <3>1. /\ UNCHANGED accountVars
          /\ \A q \in Slots : call'[q] = call[q] \/ (/\ call[q].pc \in ConfigPoints \union {"idle"}
                                                     /\ call'[q].pc \in ConfigPoints \union {"idle"})
      BY <1>2, <2>2, ConfiguringFrame DEF Within
    <3>2. (ConfigPoints \union {"idle"}) \intersect (ChangePoints \union {"newSession"}) = {}
      BY DEF ConfigPoints, ChangePoints
    <3> QED BY <1>2, <2>1, <3>1, <3>2, UnchangedKeeps
  <2>3. ASSUME NEW r \in Slots, Chatting(r) PROVE AccountInv'
    <3>1. /\ UNCHANGED accountVars
          /\ \A q \in Slots : call'[q] = call[q] \/ (/\ call[q].pc \in TurnPoints \union {"idle"}
                                                     /\ call'[q].pc \in TurnPoints \union {"idle"})
      BY <1>2, <2>3, ChattingFrame DEF OnlyTurns
    <3>2. (TurnPoints \union {"idle"}) \intersect (ChangePoints \union {"newSession"}) = {}
      BY DEF TurnPoints, ChangePoints
    <3> QED BY <1>2, <2>1, <3>1, <3>2, UnchangedKeeps
  <2>4. CASE Expiry
    <3>1. PICK t \in Tokens : /\ sessions' = [sessions EXCEPT ![t].live = FALSE] /\ IsOpen(t)
                              /\ UNCHANGED <<users, nextId, torn, call>>
      BY <2>4 DEF Expiry, SessionExpires
    <3>2. TablesOK' /\ Keeps
      BY <1>2, <3>1, ExpiryKeeps
    <3> QED BY <2>a, <3>1, <3>2
  <2>5. CASE Outage \/ UNCHANGED serverVars
    <3>1. UNCHANGED <<accountVars, call>>
      BY <2>5 DEF Outage, PostgresFails, PostgresReturns
    <3> QED BY <1>2, <2>a, <3>1, UnchangedKeeps
  <2>6. CASE Death
    <3>1. /\ UNCHANGED <<users, nextId, sessions>> /\ torn' = torn \union Tears(Slots)
          /\ \A q \in Slots : IF q \in Slots THEN call'[q].pc = "idle" ELSE call'[q] = call[q]
      BY <2>6 DEF Death, ProcessDies, AccountsDie, Idle
    <3> QED BY <1>2, <3>1, HandlersEnd
  <2>7. CASE Boot
    <3>1. UNCHANGED call /\ SeedAtBoot
      BY <2>7 DEF Boot, ProcessBoots
    <3>2. \/ UNCHANGED accountVars
          \/ nextId \in Ids /\ InsertUser(SeedRow.name, SeedRow.pw, "admin") /\ UNCHANGED <<sessions, torn>>
          \/ RotateRoot(users[1])
      BY <3>1 DEF SeedAtBoot
    <3>3. TablesOK' /\ Keeps
      BY <1>2, <3>2, UnchangedKeeps, InsertKeeps, RotateKeeps
    <3> QED BY <2>a, <3>1, <3>3
  <2> QED BY <1>2, <2>2, <2>3, <2>4, <2>5, <2>6, <2>7, AccountStepKeeps DEF Next
<1> QED BY <1>1, <1>2

(* A session that is open although its password is no longer its user's has *)
(* one of three excuses: its login read the old row, the change is between  *)
(* its two statements, or the second statement was lost.                    *)
THEOREM SessionsAlwaysMatch == Spec => []SessionsMatchPassword
<1>1. CallInv /\ AccountInv /\ [Next]_serverVars => CallInv' /\ AccountInv'
  BY CallInvariance, AccountInvariance
<1>2. Init => CallInv /\ AccountInv
  BY CallInvariance, AccountInvariance
<1>3. AccountInv => SessionsMatchPassword
  BY DEF AccountInv, PasswordsOK, Justified, WillDrop, SessionsMatchPassword, Changing
<1> QED BY <1>1, <1>2, <1>3, PTL DEF Spec

-----------------------------------------------------------------------------
(* Conversations.                                                          *)

IsSequence(s) == Len(s) \in Nat /\ s = [j \in 1..Len(s) |-> s[j]]

\* What a question was asked in, and by which turn.
Question(msgs, i, turn) == msgs[i].role = "question" /\ msgs[i].turn = turn

\* A stored conversation is one that has messages, and each of its answers has
\* its question before it.
ConvOK(c) ==
    /\ {"stored", "titled", "msgs", "mixed"} \subseteq DOMAIN convs[c]
    /\ IsSequence(convs[c].msgs)
    /\ IsStored(c) <=> Len(convs[c].msgs) > 0
    /\ IsStored(c) => convs[c].titled \/ convs[c].msgs[1].cut
    /\ AnswersFollow(convs[c].msgs)

\* A handler of a turn knows its conversation, or the one it may have to start.
TurnOK(r) ==
    /\ {"conv", "turn", "cut"} \subseteq DOMAIN call[r]
    /\ call[r].conv \in ConvIds /\ call[r].turn \in ConvIds

\* The question of r is in its conversation.
Asked(r) == \E i \in 1..Len(convs[call[r].conv].msgs) : Question(convs[call[r].conv].msgs, i, call[r].turn)

AskedPoints == {"rereadQuestion", "stream", "saveAnswer"}

ChatInv ==
    /\ requests \in Nat
    /\ convs = [c \in ConvIds |-> convs[c]]
    /\ \A c \in ConvIds : ConvOK(c)
    /\ \A r \in Slots : call[r].pc \in TurnPoints => TurnOK(r)
    /\ \A r \in Slots : call[r].pc \in AskedPoints => call[r].cut \/ Asked(r)

-----------------------------------------------------------------------------
(* Appending a message.                                                    *)

LEMMA SequenceOf ==
    ASSUME NEW S, NEW q \in Seq(S)
    PROVE  IsSequence(q)
<1>1. Len(q) \in Nat /\ q \in [1..Len(q) -> S]
  OBVIOUS
<1> QED BY <1>1 DEF IsSequence

LEMMA EmptyIsEmpty ==
    ASSUME NEW s, IsSequence(s), s # <<>>
    PROVE  Len(s) > 0
BY DEF IsSequence

LEMMA NothingOK ==
    /\ {"stored", "titled", "msgs", "mixed"} \subseteq DOMAIN NoConv
    /\ ~NoConv.stored /\ IsSequence(NoConv.msgs) /\ Len(NoConv.msgs) = 0
    /\ AnswersFollow(NoConv.msgs)
<1>1. /\ NoConv.msgs = <<>> /\ ~NoConv.stored
      /\ {"stored", "titled", "msgs", "mixed"} \subseteq DOMAIN NoConv
  BY DEF NoConv
<1>2. IsSequence(<<>>) /\ Len(<<>>) = 0 /\ AnswersFollow(<<>>)
  BY DEF IsSequence, AnswersFollow
<1> QED BY <1>1, <1>2

LEMMA AppendShape ==
    ASSUME NEW s, IsSequence(s), NEW m
    PROVE  /\ IsSequence(Append(s, m)) /\ Len(Append(s, m)) = Len(s) + 1
           /\ \A j \in 1..Len(s) : Append(s, m)[j] = s[j]
           /\ Append(s, m)[Len(s) + 1] = m
<1> DEFINE S == {s[j] : j \in 1..Len(s)} \union {m}
<1>1. s \in Seq(S) /\ m \in S
  <2>1. s \in [1..Len(s) -> S] /\ Len(s) \in Nat
    BY DEF IsSequence
  <2> HIDE DEF S
  <2>2. s \in Seq(S)
    BY <2>1
  <2> QED BY <2>2 DEF S
<1> HIDE DEF S
<1>2. /\ Append(s, m) \in Seq(S) /\ Len(Append(s, m)) = Len(s) + 1
      /\ \A j \in 1..Len(s) : Append(s, m)[j] = s[j]
      /\ Append(s, m)[Len(s) + 1] = m
  BY <1>1
<1>3. IsSequence(Append(s, m))
  BY <1>2, SequenceOf
<1> QED BY <1>2, <1>3

\* save_message keeps its conversation in order, and only adds to it.
LEMMA SaveKeeps ==
    ASSUME ChatInv, NEW r \in Slots, NEW c \in ConvIds, NEW m, SaveMessage(r, c, m),
           m.role = "question" \/ m.cut \/ \E i \in 1..Len(convs[c].msgs) : Question(convs[c].msgs, i, m.turn),
           m.role = "question" \/ m.role = "answer"
    PROVE  /\ convs' = [d \in ConvIds |-> convs'[d]]
           /\ \A d \in ConvIds : ConvOK(d)'
           /\ \A d \in ConvIds : d # c => convs'[d] = convs[d]
           /\ convs'[c].msgs = Append(convs[c].msgs, m)
<1> DEFINE old == convs[c].msgs
           new == Append(old, m)
<1>1. /\ convs' = [d \in ConvIds |-> convs'[d]]
      /\ \A d \in ConvIds : d # c => convs'[d] = convs[d]
      /\ convs'[c] = [stored |-> TRUE, msgs |-> new,
                      titled |-> IF convs[c].stored THEN convs[c].titled ELSE m.role = "question",
                      mixed |-> convs[c].mixed \/ \E q \in Slots \ {r} : InTurn(q, c)]
  BY DEF SaveMessage, ChatInv
<1>2. /\ IsSequence(new) /\ Len(new) = Len(old) + 1 /\ Len(old) \in Nat
      /\ \A j \in 1..Len(old) : new[j] = old[j]
      /\ new[Len(old) + 1] = m
  BY AppendShape DEF ChatInv, ConvOK, IsSequence
<1>3. /\ convs'[c].msgs = new /\ convs'[c].stored
      /\ {"stored", "titled", "msgs", "mixed"} \subseteq DOMAIN convs'[c]
  BY <1>1
<1>4. /\ DOMAIN new = 1..(Len(old) + 1) /\ DOMAIN old = 1..Len(old)
      /\ convs[c].stored <=> Len(old) > 0
  BY <1>2 DEF ChatInv, ConvOK, IsSequence, IsStored
<1>5. AnswersFollow(new)
  <2>1. AnswersFollow(old)
    BY DEF ChatInv, ConvOK
  <2>2. ASSUME NEW j \in 1..Len(old), new[j].role = "answer", ~new[j].cut
        PROVE  \E i \in 1..(j - 1) : new[i].role = "question" /\ new[i].turn = new[j].turn
    <3>1. PICK i \in 1..(j - 1) : old[i].role = "question" /\ old[i].turn = old[j].turn
      BY <1>2, <1>4, <2>1, <2>2 DEF AnswersFollow
    <3>2. i \in 1..Len(old)
      BY <1>2, <3>1
    <3> QED BY <1>2, <3>1, <3>2
  <2>3. ASSUME m.role = "answer", ~m.cut
        PROVE  \E i \in 1..Len(old) : new[i].role = "question" /\ new[i].turn = m.turn
    BY <1>2, <2>3 DEF Question
  <2>4. ASSUME NEW j \in DOMAIN new, new[j].role = "answer", ~new[j].cut
        PROVE  \E i \in 1..(j - 1) : new[i].role = "question" /\ new[i].turn = new[j].turn
    <3>1. CASE j \in 1..Len(old)
      BY <2>2, <2>4, <3>1
    <3>2. CASE j = Len(old) + 1
      <4>1. new[j] = m /\ j - 1 = Len(old)
        BY <1>2, <3>2
      <4> QED BY <2>3, <2>4, <4>1
    <3> QED BY <1>2, <1>4, <2>4, <3>1, <3>2
  <2> HIDE DEF new
  <2> QED BY <2>4 DEF AnswersFollow
<1>6. convs'[c].titled \/ new[1].cut
  <2>1. CASE convs[c].stored
    <3>1. convs'[c].titled = convs[c].titled /\ new[1] = old[1]
      BY <1>1, <1>2, <1>4, <2>1
    <3> QED BY <2>1, <3>1 DEF ChatInv, ConvOK, IsStored
  <2>2. CASE ~convs[c].stored
    <3>1. Len(old) = 0 /\ new[1] = m
      BY <1>2, <1>4, <2>2
    <3>2. convs'[c].titled = (m.role = "question")
      BY <1>1, <2>2
    <3>3. m.role = "question" \/ m.cut
      BY <3>1
    <3> QED BY <3>1, <3>2, <3>3
  <2> QED BY <2>1, <2>2
<1>7. ConvOK(c)'
  <2>1. IsStored(c)'
    BY <1>3 DEF IsStored
  <2> HIDE DEF new
  <2> QED BY <1>2, <1>3, <1>5, <1>6, <2>1 DEF ConvOK
<1>8. ASSUME NEW d \in ConvIds, d # c PROVE ConvOK(d)'
  BY <1>1, <1>8 DEF ChatInv, ConvOK, IsStored
<1> QED BY <1>1, <1>3, <1>7, <1>8

-----------------------------------------------------------------------------
(* What a step does to the turns.                                          *)

\* One handler moves, and the messages stay or are added to.
LEMMA TurnFrame ==
    ASSUME ChatInv, NEW r \in Slots, requests' \in Nat,
           \A q \in Slots : q # r => call'[q] = call[q],
           convs' = [c \in ConvIds |-> convs'[c]], \A c \in ConvIds : ConvOK(c)',
           \A c \in ConvIds :
              \/ convs'[c] = convs[c]
              \/ \E m : convs'[c].msgs = Append(convs[c].msgs, m),
           call'[r].pc \in TurnPoints => TurnOK(r)',
           call'[r].pc \in AskedPoints => call'[r].cut \/ Asked(r)'
    PROVE  ChatInv'
<1>1. ASSUME NEW q \in Slots, call'[q].pc \in TurnPoints PROVE TurnOK(q)'
  BY <1>1 DEF ChatInv, TurnOK
<1>2. ASSUME NEW q \in Slots, call'[q].pc \in AskedPoints, q # r PROVE call'[q].cut \/ Asked(q)'
  <2>1. call'[q] = call[q] /\ (call[q].cut \/ Asked(q))
    BY <1>2 DEF ChatInv
  <2> DEFINE c == call[q].conv
  <2>2. c \in ConvIds
    BY <1>2, <2>1 DEF ChatInv, TurnOK, AskedPoints, TurnPoints
  <2>3. CASE convs'[c] = convs[c]
    BY <2>1, <2>3 DEF Asked, Question
  <2>4. ASSUME NEW m, convs'[c].msgs = Append(convs[c].msgs, m) PROVE call'[q].cut \/ Asked(q)'
    <3>1. IsSequence(convs[c].msgs)
      BY <2>2 DEF ChatInv, ConvOK
    <3>2. /\ Len(convs[c].msgs) \in Nat /\ Len(convs'[c].msgs) = Len(convs[c].msgs) + 1
          /\ \A i \in 1..Len(convs[c].msgs) : convs'[c].msgs[i] = convs[c].msgs[i]
      BY <2>4, <3>1, AppendShape DEF IsSequence
    <3>3. ASSUME Asked(q) PROVE Asked(q)'
      <4>1. PICK i \in 1..Len(convs[c].msgs) : Question(convs[c].msgs, i, call[q].turn)
        BY <3>3 DEF Asked
      <4>2. i \in 1..Len(convs'[c].msgs) /\ convs'[c].msgs[i] = convs[c].msgs[i]
        BY <3>2
      <4> QED BY <2>1, <4>1, <4>2 DEF Asked, Question
    <3> QED BY <2>1, <3>3
  <2> QED BY <2>2, <2>3, <2>4
<1> QED BY <1>1, <1>2 DEF ChatInv

LEMMA QuietFrame ==
    ASSUME ChatInv, NEW r \in Slots, requests' \in Nat, UNCHANGED convs,
           \A q \in Slots : q # r => call'[q] = call[q],
           call'[r].pc \in TurnPoints => TurnOK(r)',
           call'[r].pc \in AskedPoints => call'[r].cut \/ Asked(r)'
    PROVE  ChatInv'
<1>1. \A c \in ConvIds : ConvOK(c)'
  BY DEF ChatInv, ConvOK, IsStored
<1>2. convs' = [c \in ConvIds |-> convs'[c]]
  BY DEF ChatInv
<1> QED BY <1>1, <1>2, TurnFrame

LEMMA AnswerKeeps ==
    ASSUME CallInv, ChatInv, NEW r \in Slots, Answer(r), UNCHANGED convs
    PROVE  ChatInv'
<1>1. call'[r].pc = "idle" /\ requests' = requests /\ \A q \in Slots : q # r => call'[q] = call[q]
  BY DEF Answer, Advance, Idle, CallInv
<1>2. call'[r].pc \notin TurnPoints /\ call'[r].pc \notin AskedPoints
  BY <1>1 DEF TurnPoints, AskedPoints
<1> QED BY <1>1, <1>2, QuietFrame DEF ChatInv

\* A turn that goes on with what it knows of its conversation.
LEMMA TurnGoesOn ==
    ASSUME CallInv, ChatInv, NEW r \in Slots, NEW c, UNCHANGED convs,
           Advance(r, c) \/ Begin(r, c),
           {"pc", "conv", "turn", "cut"} \subseteq DOMAIN c,
           c.conv \in ConvIds, c.turn \in ConvIds,
           c.pc \in AskedPoints => /\ call[r].pc \in AskedPoints
                                   /\ c.conv = call[r].conv /\ c.turn = call[r].turn
                                   /\ c.cut = call[r].cut
    PROVE  ChatInv'
<1>1. call'[r] = c /\ requests' \in Nat /\ \A q \in Slots : q # r => call'[q] = call[q]
  BY DEF Advance, Begin, CallInv, ChatInv
<1>2. TurnOK(r)'
  BY <1>1 DEF TurnOK
<1>3. ASSUME call'[r].pc \in AskedPoints PROVE call'[r].cut \/ Asked(r)'
  <2>1. /\ call[r].pc \in AskedPoints /\ call'[r].conv = call[r].conv
        /\ call'[r].turn = call[r].turn /\ call'[r].cut = call[r].cut
    BY <1>1, <1>3
  <2>2. call[r].cut \/ Asked(r)
    BY <2>1 DEF ChatInv
  <2>3. Asked(r) => Asked(r)'
    BY <2>1 DEF Asked
  <2> QED BY <2>1, <2>2, <2>3
<1> QED BY <1>1, <1>2, <1>3, QuietFrame

\* The same turn at another point.
LEMMA TurnMoves ==
    ASSUME CallInv, ChatInv, NEW r \in Slots, UNCHANGED convs, NEW to, Moves(r, to),
           call[r].pc \in TurnPoints, to \in AskedPoints => call[r].pc \in AskedPoints
    PROVE  ChatInv'
<1> DEFINE c == [call[r] EXCEPT !.pc = to]
<1>1. TurnOK(r) /\ "pc" \in DOMAIN call[r]
  BY DEF ChatInv, CallInv
<1>2. /\ {"pc", "conv", "turn", "cut"} \subseteq DOMAIN c
      /\ c.conv = call[r].conv /\ c.turn = call[r].turn /\ c.cut = call[r].cut /\ c.pc = to
  BY <1>1 DEF TurnOK
<1>3. Advance(r, c)
  BY DEF Moves
<1> HIDE DEF c
<1> QED BY <1>1, <1>2, <1>3, TurnGoesOn DEF TurnOK

LEMMA HistoryKnown ==
    ASSUME CallInv, ChatInv, NEW r \in Slots, NEW c, NEW msgs, NEW mixed, UNCHANGED convs,
           WithHistory(r, c, msgs, mixed),
           {"pc", "conv", "turn", "cut"} \subseteq DOMAIN c,
           c.conv \in ConvIds, c.turn \in ConvIds
    PROVE  ChatInv'
<1>1. CASE ~ProviderReady
  BY <1>1, AnswerKeeps DEF WithHistory
<1>2. CASE ProviderReady
  <2>1. PICK b \in Windows :
          Advance(r, [c EXCEPT !.pc = "retrieve", !.history = msgs, !.budget = b, !.mixed = mixed])
    BY <1>2 DEF WithHistory
  <2> DEFINE d == [c EXCEPT !.pc = "retrieve", !.history = msgs, !.budget = b, !.mixed = mixed]
  <2>2. /\ DOMAIN d = DOMAIN c /\ d.pc = "retrieve" /\ d.conv = c.conv /\ d.turn = c.turn
    OBVIOUS
  <2>3. Advance(r, d)
    BY <2>1
  <2> HIDE DEF d
  <2>4. d.pc \notin AskedPoints
    BY <2>2 DEF AskedPoints
  <2> QED BY <2>2, <2>3, <2>4, TurnGoesOn
<1> QED BY <1>1, <1>2

LEMMA SaveQuestionStep ==
    ASSUME CallInv, ChatInv, NEW r \in Slots, SaveQuestion(r)
    PROVE  ChatInv'
<1> DEFINE c == call[r].conv
           m == [role |-> "question", turn |-> call[r].turn, size |-> call[r].size, cut |-> FALSE]
           d == [Saving(r) EXCEPT !.cut = FALSE]
<1>1. call[r].pc = "saveQuestion" /\ SaveMessage(r, c, m) /\ Advance(r, d)
  BY DEF SaveQuestion, Reaches, At
<1>2. c \in ConvIds /\ call[r].turn \in ConvIds
  BY <1>1 DEF ChatInv, TurnOK, TurnPoints
<1>3. /\ convs' = [e \in ConvIds |-> convs'[e]]
      /\ \A e \in ConvIds : ConvOK(e)'
      /\ \A e \in ConvIds : e # c => convs'[e] = convs[e]
      /\ convs'[c].msgs = Append(convs[c].msgs, m)
  <2>1. m.role = "question"
    OBVIOUS
  <2>2. SaveMessage(r, c, m)
    BY <1>1
  <2> HIDE DEF m
  <2> QED BY <1>2, <2>1, <2>2, SaveKeeps
<1>4. /\ call'[r] = d /\ requests' = requests /\ \A q \in Slots : q # r => call'[q] = call[q]
  BY <1>1 DEF Advance, CallInv
<1>5. /\ {"conv", "turn", "cut"} \subseteq DOMAIN d /\ d.conv = c /\ d.turn = call[r].turn
  BY DEF Saving
<1>6. Asked(r)'
  <2>1. IsSequence(convs[c].msgs)
    BY <1>2 DEF ChatInv, ConvOK
  <2>2. /\ Len(convs'[c].msgs) = Len(convs[c].msgs) + 1 /\ Len(convs[c].msgs) \in Nat
        /\ convs'[c].msgs[Len(convs[c].msgs) + 1] = m
    BY <1>3, <2>1, AppendShape DEF IsSequence
  <2>3. Question(convs'[c].msgs, Len(convs[c].msgs) + 1, call[r].turn)
    BY <2>2 DEF Question
  <2>4. call'[r].conv = c /\ call'[r].turn = call[r].turn
    BY <1>4, <1>5
  <2>5. Len(convs[c].msgs) + 1 \in 1..Len(convs'[c].msgs)
    BY <2>2
  <2> QED BY <2>3, <2>4, <2>5 DEF Asked
<1>7. TurnOK(r)'
  BY <1>2, <1>4, <1>5 DEF TurnOK
<1>8. /\ requests' \in Nat
      /\ \A e \in ConvIds : convs'[e] = convs[e] \/ \E n : convs'[e].msgs = Append(convs[e].msgs, n)
  BY <1>3, <1>4 DEF ChatInv
<1> QED BY <1>3, <1>4, <1>6, <1>7, <1>8, TurnFrame

LEMMA SaveAnswerStep ==
    ASSUME CallInv, ChatInv, NEW r \in Slots, SaveAnswer(r)
    PROVE  ChatInv'
<1> DEFINE c == call[r].conv
           m == [role |-> "answer", turn |-> call[r].turn, size |-> call[r].size, cut |-> call[r].cut]
           d == [Saving(r) EXCEPT !.pc = "rereadAnswer"]
<1>1. call[r].pc = "saveAnswer" /\ SaveMessage(r, c, m) /\ Advance(r, d)
  BY DEF SaveAnswer, Reaches, At
<1>2. TurnOK(r) /\ c \in ConvIds /\ call[r].turn \in ConvIds
  BY <1>1 DEF ChatInv, TurnOK, TurnPoints
<1>3. /\ convs' = [e \in ConvIds |-> convs'[e]]
      /\ \A e \in ConvIds : ConvOK(e)'
      /\ \A e \in ConvIds : e # c => convs'[e] = convs[e]
      /\ convs'[c].msgs = Append(convs[c].msgs, m)
  <2>1. call[r].cut \/ \E i \in 1..Len(convs[c].msgs) : Question(convs[c].msgs, i, call[r].turn)
    BY <1>1 DEF ChatInv, Asked, AskedPoints
  <2>2. m.role = "answer" /\ m.turn = call[r].turn /\ m.cut = call[r].cut
    OBVIOUS
  <2>3. SaveMessage(r, c, m)
    BY <1>1
  <2> HIDE DEF m
  <2>4. m.cut \/ \E i \in 1..Len(convs[c].msgs) : Question(convs[c].msgs, i, m.turn)
    BY <2>1, <2>2
  <2> QED BY <1>2, <2>2, <2>3, <2>4, SaveKeeps
<1>4. /\ call'[r] = d /\ requests' = requests /\ \A q \in Slots : q # r => call'[q] = call[q]
  BY <1>1 DEF Advance, CallInv
<1>5. /\ {"conv", "turn", "cut"} \subseteq DOMAIN d /\ d.conv = c /\ d.turn = call[r].turn
      /\ d.pc \notin AskedPoints
  BY DEF Saving, AskedPoints
<1>6. TurnOK(r)' /\ call'[r].pc \notin AskedPoints
  BY <1>2, <1>4, <1>5 DEF TurnOK
<1>7. /\ requests' \in Nat
      /\ \A e \in ConvIds : convs'[e] = convs[e] \/ \E n : convs'[e].msgs = Append(convs[e].msgs, n)
  BY <1>3, <1>4 DEF ChatInv
<1> QED BY <1>3, <1>4, <1>6, <1>7, TurnFrame

LEMMA DeleteConversationStep ==
    ASSUME CallInv, ChatInv, NEW r \in Slots, DeleteConversation(r)
    PROVE  ChatInv'
<1>1. PICK c \in ConvIds :
        /\ requests' = requests + 1
        /\ convs' = [convs EXCEPT ![c] = NoConv]
        /\ call' = [q \in Slots |-> IF InTurn(q, c) THEN [call[q] EXCEPT !.cut = TRUE] ELSE call[q]]
  BY DEF DeleteConversation
<1>2. /\ convs' = [d \in ConvIds |-> convs'[d]] /\ convs'[c] = NoConv
      /\ \A d \in ConvIds : d # c => convs'[d] = convs[d]
  BY <1>1 DEF ChatInv
<1>3. ConvOK(c)'
  BY <1>2, NothingOK DEF ConvOK, IsStored
<1>4. \A d \in ConvIds : ConvOK(d)'
  BY <1>2, <1>3 DEF ChatInv, ConvOK, IsStored
<1>5. ASSUME NEW q \in Slots, InTurn(q, c) PROVE TurnOK(q)' /\ call'[q].cut /\ call'[q].pc = call[q].pc
  <2>1. call'[q] = [call[q] EXCEPT !.cut = TRUE]
    BY <1>1, <1>5
  <2>2. TurnOK(q) /\ "pc" \in DOMAIN call[q]
    BY <1>5 DEF InTurn, ChatInv, CallInv, TurnPoints
  <2> QED BY <2>1, <2>2 DEF TurnOK
<1>6. ASSUME NEW q \in Slots, ~InTurn(q, c)
      PROVE  /\ call'[q].pc \in TurnPoints => TurnOK(q)'
             /\ call'[q].pc \in AskedPoints => call'[q].cut \/ Asked(q)'
  <2>1. call'[q] = call[q]
    BY <1>1, <1>6
  <2>2. call[q].pc \in TurnPoints => TurnOK(q)'
    BY <2>1 DEF ChatInv, TurnOK
  <2>3. ASSUME call[q].pc \in AskedPoints PROVE call'[q].cut \/ Asked(q)'
    <3>1. call[q].conv # c /\ call[q].conv \in ConvIds
      BY <1>6, <2>3 DEF InTurn, AskedPoints, TurnPoints, ChatInv, TurnOK
    <3>2. convs'[call[q].conv] = convs[call[q].conv]
      BY <1>2, <3>1
    <3>3. call[q].cut \/ Asked(q)
      BY <2>3 DEF ChatInv
    <3> QED BY <2>1, <3>2, <3>3 DEF Asked
  <2> QED BY <2>1, <2>2, <2>3
<1>7. requests' \in Nat
  BY <1>1 DEF ChatInv
<1> QED BY <1>2, <1>4, <1>5, <1>6, <1>7 DEF ChatInv

LEMMA ChattingStep ==
    ASSUME CallInv, ChatInv, NEW r \in Slots, Chatting(r)
    PROVE  ChatInv'
<1>0. ConversationStep(r)
  BY DEF Chatting
<1>1. ASSUME call[r].pc \in TurnPoints
      PROVE  TurnOK(r) /\ {"pc", "conv", "turn", "cut"} \subseteq DOMAIN call[r]
  BY <1>1 DEF ChatInv, CallInv, TurnOK
<1>2. \A turn : turn = requests + 1 /\ requests < MaxRequests => turn \in ConvIds
  BY BoundsAssumption DEF ChatInv, ConvIds
<1>3. CASE NewConversation(r)
  <2>1. PICK q \in QuestionSizes, b \in Windows :
          Begin(r, [NewTurn(requests + 1, "retrieve", q) EXCEPT !.budget = b])
    BY <1>3 DEF NewConversation
  <2> DEFINE c == [NewTurn(requests + 1, "retrieve", q) EXCEPT !.budget = b]
  <2>2. /\ {"pc", "conv", "turn", "cut"} \subseteq DOMAIN c
        /\ c.pc = "retrieve" /\ c.conv = requests + 1 /\ c.turn = requests + 1
    BY DEF NewTurn
  <2>3. Begin(r, c) /\ UNCHANGED convs
    BY <1>3, <2>1 DEF NewConversation
  <2> HIDE DEF c
  <2>4. c.conv \in ConvIds /\ c.turn \in ConvIds /\ c.pc \notin AskedPoints
    BY <1>2, <2>2, <2>3 DEF Begin, AskedPoints
  <2> QED BY <2>2, <2>3, <2>4, TurnGoesOn
<1>4. CASE Continue(r)
  <2>1. PICK q \in QuestionSizes, k \in ConvIds : Begin(r, NewTurn(k, "readConv", q)) /\ UNCHANGED convs
    BY <1>4 DEF Continue
  <2> DEFINE c == NewTurn(k, "readConv", q)
  <2>2. /\ {"pc", "conv", "turn", "cut"} \subseteq DOMAIN c
        /\ c.pc = "readConv" /\ c.conv = k /\ c.turn = requests + 1
    BY DEF NewTurn
  <2>3. Begin(r, c)
    BY <2>1
  <2> HIDE DEF c
  <2>4. c.conv \in ConvIds /\ c.turn \in ConvIds /\ c.pc \notin AskedPoints
    BY <1>2, <2>1, <2>2, <2>3 DEF Begin, AskedPoints
  <2> QED BY <2>1, <2>2, <2>3, <2>4, TurnGoesOn
<1>5. CASE DeleteConversation(r)
  BY <1>5, DeleteConversationStep
<1>6. CASE ReadConversation(r)
  <2>1. call[r].pc \in TurnPoints /\ UNCHANGED convs
    BY <1>6 DEF ReadConversation, Reaches, At, TurnPoints
  <2>2. CASE Moves(r, "readMessages")
    BY <2>1, <2>2, TurnMoves DEF AskedPoints
  <2> DEFINE c == [call[r] EXCEPT !.conv = call[r].turn, !.cut = FALSE]
  <2>3. /\ {"pc", "conv", "turn", "cut"} \subseteq DOMAIN c
        /\ c.conv = call[r].turn /\ c.turn = call[r].turn
    BY <1>1, <2>1
  <2>4. CASE WithHistory(r, c, <<>>, FALSE)
    <3>1. call[r].turn \in ConvIds
      BY <1>1, <2>1 DEF TurnOK
    <3> HIDE DEF c
    <3> QED BY <2>1, <2>3, <2>4, <3>1, HistoryKnown
  <2> QED BY <1>6, <2>2, <2>4 DEF ReadConversation
<1>7. CASE ReadMessages(r)
  <2>1. call[r].pc \in TurnPoints /\ UNCHANGED convs
    BY <1>7 DEF ReadMessages, Reaches, At, TurnPoints
  <2> QED BY <1>1, <1>7, <2>1, HistoryKnown DEF ReadMessages, TurnOK
<1>8. CASE Retrieve(r)
  <2>1. call[r].pc \in TurnPoints /\ UNCHANGED convs
    BY <1>8 DEF Retrieve, At, TurnPoints
  <2>2. Answer(r) \/ \E c : /\ Advance(r, c) /\ {"pc", "conv", "turn", "cut"} \subseteq DOMAIN c
                            /\ c.pc = "saveQuestion" /\ c.conv = call[r].conv /\ c.turn = call[r].turn
    BY <1>8 DEF Retrieve
  <2>3. "saveQuestion" \notin AskedPoints
    BY DEF AskedPoints
  <2> QED BY <1>1, <2>1, <2>2, <2>3, AnswerKeeps, TurnGoesOn DEF TurnOK
<1>9. CASE SaveQuestion(r) \/ SaveAnswer(r)
  BY <1>9, SaveQuestionStep, SaveAnswerStep
<1>10. CASE RereadQuestion(r)
  <2>1. /\ call[r].pc \in TurnPoints /\ call[r].pc \in AskedPoints /\ UNCHANGED convs
        /\ (Moves(r, "stream") \/ Answer(r))
    BY <1>10 DEF RereadQuestion, Reaches, At, TurnPoints, AskedPoints
  <2> QED BY <2>1, AnswerKeeps, TurnMoves
<1>11. CASE StreamAnswer(r)
  <2>1. call[r].pc \in TurnPoints /\ call[r].pc \in AskedPoints /\ UNCHANGED convs
    BY <1>11 DEF StreamAnswer, At, TurnPoints, AskedPoints
  <2>2. Answer(r) \/ \E c : /\ Advance(r, c) /\ {"pc", "conv", "turn", "cut"} \subseteq DOMAIN c
                            /\ c.conv = call[r].conv /\ c.turn = call[r].turn /\ c.cut = call[r].cut
    <3>1. CASE Answer(r)
      BY <3>1
    <3>2. ASSUME NEW a \in AnswerSizes,
                 Advance(r, [pc |-> "saveAnswer", conv |-> call[r].conv, turn |-> call[r].turn,
                             cut |-> call[r].cut, size |-> a])
          PROVE  \E c : /\ Advance(r, c) /\ {"pc", "conv", "turn", "cut"} \subseteq DOMAIN c
                        /\ c.conv = call[r].conv /\ c.turn = call[r].turn /\ c.cut = call[r].cut
      <4> DEFINE c == [pc |-> "saveAnswer", conv |-> call[r].conv, turn |-> call[r].turn,
                       cut |-> call[r].cut, size |-> a]
      <4>1. /\ Advance(r, c) /\ {"pc", "conv", "turn", "cut"} \subseteq DOMAIN c
            /\ c.conv = call[r].conv /\ c.turn = call[r].turn /\ c.cut = call[r].cut
        BY <3>2
      <4> HIDE DEF c
      <4> QED BY <4>1
    <3> QED BY <1>11, <3>1, <3>2 DEF StreamAnswer
  <2> QED BY <1>1, <2>1, <2>2, AnswerKeeps, TurnGoesOn DEF TurnOK
<1>12. CASE RereadAnswer(r) \/ Disconnect(r) \/ TurnLost(r)
  BY <1>12, AnswerKeeps DEF RereadAnswer, Disconnect, TurnLost
<1> QED BY <1>0, <1>3, <1>4, <1>5, <1>6, <1>7, <1>8, <1>9, <1>10, <1>11, <1>12 DEF ConversationStep

LEMMA ChatInvariance ==
    /\ Init => ChatInv
    /\ CallInv /\ ChatInv /\ [Next]_serverVars => ChatInv'
<1>1. ASSUME Init PROVE ChatInv
  <2>1. \A r \in Slots : call[r].pc = "idle"
    BY <1>1 DEF Init, InitRequests, Idle
  <2>2. requests \in Nat
    BY <1>1 DEF Init, InitRequests
  <2>3. convs = [c \in ConvIds |-> IF c = 0 /\ StartHistory # <<>>
                                   THEN [NoConv EXCEPT !.stored = TRUE, !.titled = TRUE, !.msgs = StartHistory]
                                   ELSE NoConv]
    BY <1>1 DEF Init, InitConversations
  <2>4. ASSUME NEW c \in ConvIds PROVE ConvOK(c)
    <3>1. CASE c = 0 /\ StartHistory # <<>>
      <4>1. /\ convs[c].msgs = StartHistory /\ convs[c].stored /\ convs[c].titled
            /\ {"stored", "titled", "msgs", "mixed"} \subseteq DOMAIN convs[c]
        BY <2>3, <3>1 DEF NoConv
      <4>2. IsSequence(StartHistory) /\ AnswersFollow(StartHistory)
        <5> DEFINE Message == [role : {"question", "answer"}, turn : Nat, size : Nat, cut : BOOLEAN]
        <5>1. StartHistory \in Seq(Message) /\ AnswersFollow(StartHistory)
          BY TranscriptAssumption
        <5> HIDE DEF Message
        <5> QED BY <5>1, SequenceOf
      <4>3. Len(StartHistory) > 0
        BY <3>1, <4>2, EmptyIsEmpty DEF IsSequence
      <4> QED BY <4>1, <4>2, <4>3 DEF ConvOK, IsStored
    <3>2. CASE ~(c = 0 /\ StartHistory # <<>>)
      <4>1. convs[c] = NoConv
        BY <2>3, <3>2
      <4> QED BY <4>1, NothingOK DEF ConvOK, IsStored
    <3> QED BY <3>1, <3>2
  <2>5. convs = [c \in ConvIds |-> convs[c]]
    BY <2>3
  <2>6. \A r \in Slots : call[r].pc \notin TurnPoints /\ call[r].pc \notin AskedPoints
    BY <2>1 DEF TurnPoints, AskedPoints
  <2> QED BY <2>2, <2>4, <2>5, <2>6 DEF ChatInv
<1>2. ASSUME CallInv, ChatInv, [Next]_serverVars PROVE ChatInv'
  <2>1. ASSUME NEW r \in Slots, NEW points, Within(r, points), UNCHANGED convs,
               (points \union {"idle"}) \intersect (TurnPoints \union AskedPoints) = {}
        PROVE  ChatInv'
    <3>1. /\ requests' \in Nat /\ \A q \in Slots : q # r => call'[q] = call[q]
          /\ call'[r].pc \notin TurnPoints /\ call'[r].pc \notin AskedPoints
      BY <1>2, <2>1 DEF Within, ChatInv
    <3> QED BY <1>2, <2>1, <3>1, QuietFrame
  <2>2. ASSUME NEW r \in Slots, Accounting(r) PROVE ChatInv'
    <3>1. (AccountPoints \union {"idle"}) \intersect (TurnPoints \union AskedPoints) = {}
      BY DEF AccountPoints, TurnPoints, AskedPoints
    <3> QED BY <1>2, <2>1, <2>2, <3>1, AccountingFrame
  <2>3. ASSUME NEW r \in Slots, Configuring(r) PROVE ChatInv'
    <3>1. (ConfigPoints \union {"idle"}) \intersect (TurnPoints \union AskedPoints) = {}
      BY DEF ConfigPoints, TurnPoints, AskedPoints
    <3> QED BY <1>2, <2>1, <2>3, <3>1, ConfiguringFrame
  <2>4. CASE Expiry \/ Outage \/ Boot \/ UNCHANGED serverVars
    <3>1. UNCHANGED <<convs, call, requests>>
      BY <2>4 DEF Expiry, SessionExpires, Outage, PostgresFails, PostgresReturns, Boot, ProcessBoots,
                  requestVars, serverVars
    <3> QED BY <1>2, <3>1 DEF ChatInv, ConvOK, IsStored, TurnOK, Asked
  <2>5. CASE Death
    <3>1. /\ UNCHANGED <<convs, requests>>
          /\ \A r \in Slots : call'[r].pc = "idle"
      BY <2>5 DEF Death, ProcessDies, Idle
    <3>2. \A r \in Slots : call'[r].pc \notin TurnPoints /\ call'[r].pc \notin AskedPoints
      BY <3>1 DEF TurnPoints, AskedPoints
    <3> QED BY <1>2, <3>1, <3>2 DEF ChatInv, ConvOK, IsStored
  <2> QED BY <1>2, <2>2, <2>3, <2>4, <2>5, ChattingStep DEF Next
<1> QED BY <1>1, <1>2

(* An answer is stored after its own question, in a conversation with a     *)
(* title, whatever other turns and deletions come between the statements of *)
(* its turn and wherever the process or Postgres fails, unless a deletion   *)
(* took the question.                                                       *)
THEOREM AnswersFollowTheirQuestions == Spec => []AnswersFollowQuestions
<1>1. CallInv /\ ChatInv /\ [Next]_serverVars => CallInv' /\ ChatInv'
  BY CallInvariance, ChatInvariance
<1>2. Init => CallInv /\ ChatInv
  BY CallInvariance, ChatInvariance
<1>3. ChatInv => AnswersFollowQuestions
  BY DEF ChatInv, ConvOK, AnswersFollowQuestions
<1> QED BY <1>1, <1>2, <1>3, PTL DEF Spec

-----------------------------------------------------------------------------
(* Induction over the naturals, and the cost of messages.                  *)

LEMMA LeastNatural ==
    ASSUME NEW T \in SUBSET Nat, T # {}
    PROVE  \E x \in T : \A y \in T : x <= y
<1>1. IsWellFoundedOn(OpToRel(<, Nat), Nat)
  BY NatLessThanWellFounded
<1>2. PICK x \in T : \A y \in T : ~ (<<y, x>> \in OpToRel(<, Nat))
  BY <1>1, WFMin
<1>3. \A y \in Nat : y < x => <<y, x>> \in OpToRel(<, Nat)
  BY <1>2 DEF OpToRel
<1>4. ASSUME NEW y \in T PROVE x <= y
  <2>1. x \in Nat /\ y \in Nat /\ ~ (y < x)
    BY <1>2, <1>3
  <2> QED BY <2>1
<1> QED BY <1>2, <1>4

LEMMA Induction ==
    ASSUME NEW T, 0 \in T, \A n \in Nat : n \in T => n + 1 \in T
    PROVE  Nat \subseteq T
<1> SUFFICES ASSUME ~(Nat \subseteq T) PROVE FALSE
  OBVIOUS
<1> DEFINE U == Nat \ T
<1>1. U \in SUBSET Nat /\ U # {}
  OBVIOUS
<1>2. PICK x \in U : \A y \in U : x <= y
  BY <1>1, LeastNatural
<1>3. x \in Nat /\ x # 0 /\ x \notin T
  BY <1>2
<1>4. x - 1 \in Nat /\ x - 1 \notin U
  BY <1>2, <1>3
<1>5. x - 1 + 1 = x
  BY <1>3
<1> QED BY <1>3, <1>4, <1>5

LEMMA GreatestUpTo ==
    ASSUME NEW n \in Nat, NEW T \in SUBSET (0..n), T # {}
    PROVE  \E x \in T : \A y \in T : y <= x
<1> DEFINE U == {n - y : y \in T}
<1>0. \A y \in T : n - y \in Nat
  OBVIOUS
<1>1. U \in SUBSET Nat /\ U # {}
  BY <1>0
<1>2. PICK u \in U : \A v \in U : u <= v
  BY <1>1, LeastNatural
<1>3. PICK x \in T : u = n - x
  BY <1>2
<1>4. ASSUME NEW y \in T PROVE y <= x
  <2>1. n - y \in U
    BY <1>4
  <2>2. n - x <= n - y /\ x \in 0..n /\ y \in 0..n
    BY <1>2, <1>3, <2>1
  <2> QED BY <2>2
<1> QED BY <1>3, <1>4

LEMMA RunningSum ==
    ASSUME NEW n \in Nat, NEW w \in [1..n -> Int]
    PROVE  \E f \in [0..n -> Int] : f = [k \in 0..n |-> IF k = 0 THEN 0 ELSE f[k - 1] + w[k]]
<1> DEFINE Sums(m) == {f \in [0..m -> Int] : f = [k \in 0..m |-> IF k = 0 THEN 0 ELSE f[k - 1] + w[k]]}
           T == {m \in Nat : m <= n => Sums(m) # {}}
<1>1. 0 \in T
  <2>1. [k \in 0..0 |-> 0] = [k \in 0..0 |-> IF k = 0 THEN 0 ELSE [j \in 0..0 |-> 0][k - 1] + w[k]]
    OBVIOUS
  <2>2. [k \in 0..0 |-> 0] \in [0..0 -> Int]
    OBVIOUS
  <2> QED BY <2>1, <2>2
<1>2. ASSUME NEW m \in Nat, m \in T PROVE m + 1 \in T
  <2> SUFFICES ASSUME m + 1 <= n PROVE Sums(m + 1) # {}
    <3> HIDE DEF Sums
    <3> QED OBVIOUS
  <2>1. PICK f \in [0..m -> Int] : f = [k \in 0..m |-> IF k = 0 THEN 0 ELSE f[k - 1] + w[k]]
    BY <1>2
  <2> DEFINE g == [k \in 0..(m + 1) |-> IF k = m + 1 THEN f[m] + w[m + 1] ELSE f[k]]
  <2>2. g \in [0..(m + 1) -> Int]
    BY <2>1
  <2>3. \A k \in 0..m : f[k] = IF k = 0 THEN 0 ELSE f[k - 1] + w[k]
    BY <2>1
  <2>4. ASSUME NEW k \in 0..(m + 1) PROVE g[k] = IF k = 0 THEN 0 ELSE g[k - 1] + w[k]
    <3>1. CASE k = m + 1
      <4>1. g[k] = f[m] + w[m + 1] /\ g[m] = f[m] /\ k # 0 /\ k - 1 = m
        BY <3>1
      <4> QED BY <3>1, <4>1
    <3>2. CASE k = 0
      BY <2>3, <3>2
    <3>3. CASE k \in 1..m
      <4>1. g[k] = f[k] /\ g[k - 1] = f[k - 1] /\ k # 0
        BY <3>3
      <4>2. f[k] = f[k - 1] + w[k]
        BY <2>3, <3>3
      <4> QED BY <4>1, <4>2
    <3> QED BY <3>1, <3>2, <3>3
  <2> HIDE DEF g
  <2>5. g = [k \in 0..(m + 1) |-> IF k = 0 THEN 0 ELSE g[k - 1] + w[k]]
    BY <2>2, <2>4
  <2> QED BY <2>2, <2>5
<1>3. n \in T
  BY <1>1, <1>2, Induction
<1> QED BY <1>3

LEMMA CostType ==
    ASSUME NEW msgs, IsSequence(msgs), \A j \in 1..Len(msgs) : msgs[j].size \in Nat
    PROVE  Cost(msgs) \in Int /\ (Len(msgs) = 0 => Cost(msgs) = 0)
<1> DEFINE n == Len(msgs)
           w == [k \in 1..n |-> TokensIn(msgs[k].size)]
<1>1. n \in Nat /\ w \in [1..n -> Int]
  BY PromptAssumption DEF IsSequence, TokensIn
<1>2. PICK f \in [0..n -> Int] : f = [k \in 0..n |-> IF k = 0 THEN 0 ELSE f[k - 1] + w[k]]
  <2> HIDE DEF n, w
  <2> QED BY <1>1, RunningSum
<1> DEFINE g == CHOOSE g : g = [k \in 0..Len(msgs) |-> IF k = 0 THEN 0 ELSE g[k - 1] + TokensIn(msgs[k].size)]
<1>3. f = [k \in 0..n |-> IF k = 0 THEN 0 ELSE f[k - 1] + TokensIn(msgs[k].size)]
  <2>1. \A k \in 0..n : k # 0 => w[k] = TokensIn(msgs[k].size)
    BY <1>1
  <2> HIDE DEF n, w
  <2>2. \A k \in 0..n : f[k] = IF k = 0 THEN 0 ELSE f[k - 1] + TokensIn(msgs[k].size)
    BY <1>1, <1>2, <2>1
  <2> QED BY <2>2
<1>4. g = [k \in 0..n |-> IF k = 0 THEN 0 ELSE g[k - 1] + TokensIn(msgs[k].size)]
  BY <1>3
<1>5. Cost(msgs) = g[n]
  BY DEF Cost
<1> HIDE DEF g
<1> DEFINE T == {m \in Nat : m <= n => g[m] \in Int}
<1>6. 0 \in T
  BY <1>1, <1>4
<1>7. ASSUME NEW m \in Nat, m \in T PROVE m + 1 \in T
  <2> SUFFICES ASSUME m + 1 <= n PROVE g[m + 1] \in Int
    OBVIOUS
  <2>1. g[m + 1] = g[m] + TokensIn(msgs[m + 1].size)
    BY <1>1, <1>4
  <2>2. g[m] \in Int /\ TokensIn(msgs[m + 1].size) \in Int
    BY <1>1, <1>7, PromptAssumption DEF TokensIn
  <2> QED BY <2>1, <2>2
<1>8. n \in T
  BY <1>1, <1>6, <1>7, Induction
<1> QED BY <1>1, <1>4, <1>5, <1>8

-----------------------------------------------------------------------------
(* The window of a prompt.                                                 *)

LEMMA NewestOf ==
    ASSUME NEW h, IsSequence(h), NEW k \in 0..Len(h)
    PROVE  /\ IsSequence(Newest(h, k)) /\ Len(Newest(h, k)) = k
           /\ \A j \in 1..k : Newest(h, k)[j] = h[Len(h) - k + j]
<1> DEFINE S == {h[j] : j \in 1..Len(h)}
<1>1. h \in Seq(S) /\ Len(h) \in Nat
  <2>1. h \in [1..Len(h) -> S] /\ Len(h) \in Nat
    BY DEF IsSequence
  <2> HIDE DEF S
  <2> QED BY <2>1
<1> HIDE DEF S
<1>2. /\ Newest(h, k) \in Seq(S) /\ Len(Newest(h, k)) = k
      /\ \A j \in 1..k : Newest(h, k)[j] = h[Len(h) - k + j]
  BY <1>1 DEF Newest
<1> QED BY <1>2, SequenceOf

LEMMA TailOf ==
    ASSUME NEW h, IsSequence(h), Len(h) > 0
    PROVE  /\ Len(Tail(h)) = Len(h) - 1 /\ (Len(h) > 1 => Tail(h)[1] = h[2])
           /\ Len(h) = 1 => Tail(h) = <<>>
<1> DEFINE S == {h[j] : j \in 1..Len(h)}
<1>1. h \in Seq(S)
  <2>1. h \in [1..Len(h) -> S] /\ Len(h) \in Nat
    BY DEF IsSequence
  <2> HIDE DEF S
  <2> QED BY <2>1
<1> HIDE DEF S
<1> QED BY <1>1 DEF IsSequence

MessageOK(m) == m.role \in {"question", "answer"} /\ m.size \in Nat
TranscriptOK(msgs) == IsSequence(msgs) /\ \A j \in 1..Len(msgs) : MessageOK(msgs[j])

\* Some number of the newest messages is the largest that fits.
LEMMA KeptFit ==
    ASSUME NEW h, TranscriptOK(h), NEW room \in Int, room > 0
    PROVE  \E n \in 0..Len(h) :
              /\ \A k \in 0..Len(h) : Cost(Newest(h, k)) <= room => k <= n
              /\ FitMessages(h, room) = IF Newest(h, n) # <<>> /\ Newest(h, n)[1].role = "answer"
                                        THEN Tail(Newest(h, n)) ELSE Newest(h, n)
<1> DEFINE fits == {k \in 0..Len(h) : Cost(Newest(h, k)) <= room}
           n == CHOOSE k \in fits : \A j \in fits : j <= k
<1>1. Len(h) \in Nat /\ IsSequence(h)
  BY DEF TranscriptOK, IsSequence
<1>2. 0 \in fits
  <2>1. IsSequence(Newest(h, 0)) /\ Len(Newest(h, 0)) = 0
    BY <1>1, NewestOf
  <2>2. Cost(Newest(h, 0)) = 0
    BY <2>1, CostType
  <2> QED BY <1>1, <2>2
<1>3. fits \in SUBSET (0..Len(h))
  OBVIOUS
<1> HIDE DEF fits
<1>4. \E k \in fits : \A j \in fits : j <= k
  BY <1>1, <1>2, <1>3, GreatestUpTo
<1>5. n \in fits /\ \A j \in fits : j <= n
  BY <1>4
<1> HIDE DEF n
<1>6. n \in 0..Len(h) /\ \A k \in 0..Len(h) : Cost(Newest(h, k)) <= room => k <= n
  BY <1>5 DEF fits
<1>7. FitMessages(h, room) = IF Newest(h, n) # <<>> /\ Newest(h, n)[1].role = "answer"
                             THEN Tail(Newest(h, n)) ELSE Newest(h, n)
  BY DEF FitMessages, n, fits
<1> QED BY <1>6, <1>7

\* "so the conversation still opens on a user message".
LEMMA FitOpensOnQuestion ==
    ASSUME NEW h, TranscriptOK(h), AnswersApart(h), NEW room \in Int, FitMessages(h, room) # <<>>
    PROVE  FitMessages(h, room)[1].role = "question"
<1>1. room > 0
  BY DEF FitMessages
<1>2. PICK n \in 0..Len(h) :
         FitMessages(h, room) = IF Newest(h, n) # <<>> /\ Newest(h, n)[1].role = "answer"
                                THEN Tail(Newest(h, n)) ELSE Newest(h, n)
  BY <1>1, KeptFit
<1> DEFINE kept == Newest(h, n)
<1>3. /\ IsSequence(kept) /\ Len(kept) = n /\ Len(h) \in Nat
      /\ \A j \in 1..n : kept[j] = h[Len(h) - n + j]
  BY <1>2, NewestOf DEF TranscriptOK, IsSequence
<1>4. FitMessages(h, room) = IF kept # <<>> /\ kept[1].role = "answer" THEN Tail(kept) ELSE kept
  BY <1>2
<1> HIDE DEF kept
<1>5. kept # <<>>
  <2>1. CASE kept = <<>>
    BY <1>4, <2>1
  <2> QED BY <2>1
<1>6. n > 0 /\ n \in Nat /\ n <= Len(h)
  BY <1>2, <1>3, <1>5, EmptyIsEmpty
<1>7. CASE kept[1].role # "answer"
  <2>1. FitMessages(h, room) = kept /\ kept[1] = h[Len(h) - n + 1] /\ Len(h) - n + 1 \in 1..Len(h)
    BY <1>3, <1>4, <1>6, <1>7
  <2> QED BY <1>7, <2>1 DEF TranscriptOK, MessageOK
<1>8. CASE kept[1].role = "answer"
  <2>1. FitMessages(h, room) = Tail(kept)
    BY <1>4, <1>5, <1>8
  <2>2. n > 1 /\ Tail(kept)[1] = kept[2]
    BY <1>3, <1>6, <2>1, TailOf
  <2> DEFINE i == Len(h) - n + 1
  <2>3. kept[1] = h[i] /\ kept[2] = h[i + 1] /\ i \in 1..(Len(h) - 1) /\ i + 1 \in 1..Len(h)
    BY <1>3, <1>6, <2>2
  <2> HIDE DEF i
  <2>4. h[i + 1].role # "answer"
    BY <1>8, <2>3 DEF AnswersApart
  <2> QED BY <2>1, <2>2, <2>3, <2>4 DEF TranscriptOK, MessageOK
<1> QED BY <1>7, <1>8

\* What fits is kept, but for one answer at the front.
LEMMA FitKeeps ==
    ASSUME NEW h, TranscriptOK(h), NEW room \in Int, room > 0,
           NEW k \in 0..Len(h), Cost(Newest(h, k)) <= room
    PROVE  Len(FitMessages(h, room)) >= k - 1
<1>1. PICK n \in 0..Len(h) :
         /\ k <= n
         /\ FitMessages(h, room) = IF Newest(h, n) # <<>> /\ Newest(h, n)[1].role = "answer"
                                   THEN Tail(Newest(h, n)) ELSE Newest(h, n)
  BY KeptFit
<1> DEFINE kept == Newest(h, n)
<1>2. IsSequence(kept) /\ Len(kept) = n /\ Len(h) \in Nat
  BY <1>1, NewestOf DEF TranscriptOK, IsSequence
<1>3. FitMessages(h, room) = IF kept # <<>> /\ kept[1].role = "answer" THEN Tail(kept) ELSE kept
  BY <1>1
<1> HIDE DEF kept
<1>4. kept # <<>> => Len(Tail(kept)) = Len(kept) - 1
  BY <1>2, EmptyIsEmpty, TailOf
<1> QED BY <1>1, <1>2, <1>3, <1>4

-----------------------------------------------------------------------------
(* The arithmetic of the budget.                                           *)

LEMMA MulMono == ASSUME NEW a \in Int, NEW b \in Int, NEW C \in Nat \ {0}, a * C < b * C + C PROVE a <= b
<1> SUFFICES ASSUME a >= b + 1 PROVE FALSE
  OBVIOUS
<1>1. a * C >= (b + 1) * C
  OBVIOUS
<1>2. (b + 1) * C = b * C + C
  OBVIOUS
<1> QED BY <1>1, <1>2

LEMMA DivOf == ASSUME NEW a \in Int, NEW C \in Nat \ {0} PROVE a \div C \in Int /\ (a \div C) * C <= a /\ a < (a \div C) * C + C
OBVIOUS

LEMMA DivBound ==
  ASSUME NEW a \in Int, NEW y \in Int, NEW C \in Nat \ {0}, NEW x \in Int, y <= x * C
  PROVE  (a + y) \div C <= a \div C + x
<1> DEFINE d == a \div C
           e == (a + y) \div C
<1>1. d \in Int /\ a < d * C + C
  BY DivOf
<1>2. e \in Int /\ e * C <= a + y
  BY DivOf
<1> HIDE DEF d, e
<1>3. (d + x) * C = d * C + x * C /\ d * C \in Int /\ x * C \in Int /\ e * C \in Int
  BY <1>1, <1>2
<1>4. e * C < (d + x) * C + C
  BY <1>1, <1>2, <1>3
<1>5. e <= d + x
  BY <1>1, <1>2, <1>4, MulMono
<1> QED BY <1>5 DEF d, e

\* A context that was not floored leaves the slice of the history, and the
\* slice is not empty.
LEMMA SliceIsLeft ==
    ASSUME NEW budget \in Int, NEW size \in Nat, NEW context,
           context \in {0, FittedContext(budget, size, TRUE)},
           FittedContext(budget, size, TRUE) = ContextRoom(budget, size, TRUE)
    PROVE  /\ Remaining(budget, context, size) \in Int /\ HistoryReserve(budget, TRUE) \in Int
           /\ HistoryReserve(budget, TRUE) > 0
           /\ HistoryReserve(budget, TRUE) <= Remaining(budget, context, size)
<1> DEFINE reserve == HistoryReserve(budget, TRUE)
           q == TokensIn(size)
           p == TokensIn(PromptSize)
           x == budget - reserve - q - p
           C == CharsPerToken
<1>1. /\ reserve \in Int /\ q \in Nat /\ p \in Nat /\ x \in Int /\ C \in Nat \ {0}
      /\ PromptSize \in Nat /\ MinContext \in Nat /\ MaxContext \in Nat
  BY PromptAssumption DEF HistoryReserve, TokensIn, Lesser
<1>2. ContextRoom(budget, size, TRUE) = Lesser(MaxContext, x * C)
  BY DEF ContextRoom
<1>3. Remaining(budget, context, size) = budget - ((PromptSize + context) \div C + q)
  BY DEF Remaining, TokensIn
<1>4. p = PromptSize \div C /\ reserve = Lesser(budget \div 4, HistoryCap)
  BY DEF TokensIn, HistoryReserve
<1>5. /\ FittedContext(budget, size, TRUE) = ContextRoom(budget, size, TRUE)
      /\ FittedContext(budget, size, TRUE) = Greater(MinContext, ContextRoom(budget, size, TRUE))
  BY DEF FittedContext
<1> HIDE DEF reserve, q, p
<1>6. x \in Int /\ x * C \in Int /\ x = budget - reserve - q - p
  BY <1>1
<1> DEFINE y == x * C
           fitted == FittedContext(budget, size, TRUE)
<1> HIDE DEF x, y
<1>7. MinContext <= fitted /\ fitted <= y /\ fitted \in Nat /\ y \in Nat
  <2>1. y \in Int /\ ContextRoom(budget, size, TRUE) = Lesser(MaxContext, y)
    BY <1>2, <1>6 DEF y
  <2> DEFINE room == ContextRoom(budget, size, TRUE)
  <2>2. room = Greater(MinContext, room) /\ fitted = room
    BY <1>5
  <2>3. room = Lesser(MaxContext, y)
    BY <2>1
  <2> HIDE DEF room, fitted
  <2>4. room \in Int /\ room <= y
    BY <1>1, <2>1, <2>3 DEF Lesser
  <2>5. MinContext <= room
    BY <1>1, <2>2, <2>4 DEF Greater
  <2> QED BY <1>1, <2>1, <2>2, <2>4, <2>5
<1>8. context \in Nat /\ context <= y
  <2>1. context \in {0, fitted}
    OBVIOUS
  <2> HIDE DEF fitted
  <2> QED BY <1>7, <2>1
<1> HIDE DEF fitted
<1>9. x >= 4
  <2>1. 4 * CharsPerToken < y + CharsPerToken
    BY <1>1, <1>7, PromptAssumption
  <2>2. 4 * CharsPerToken < x * CharsPerToken + CharsPerToken
    BY <2>1 DEF y
  <2> QED BY <1>1, <1>6, <2>2, MulMono
<1>10. reserve > 0
  <2>1. budget = reserve + q + p + x
    BY <1>1, <1>6
  <2>2. budget \div 4 \in Int /\ 4 * (budget \div 4) <= budget /\ budget < 4 * (budget \div 4) + 4
    OBVIOUS
  <2>3. reserve = budget \div 4 \/ reserve = HistoryCap
    BY <1>4 DEF Lesser
  <2> DEFINE d == budget \div 4
  <2>4. d \in Int /\ 4 * d <= budget /\ budget < 4 * d + 4 /\ (reserve = d \/ reserve = HistoryCap)
    BY <2>2, <2>3
  <2> HIDE DEF d
  <2> QED BY <1>1, <1>9, <2>1, <2>4, PromptAssumption
<1>11. (PromptSize + context) \div CharsPerToken <= p + x
  <2>1. context <= x * CharsPerToken
    BY <1>8 DEF y
  <2>2. /\ PromptSize \in Int /\ context \in Int /\ CharsPerToken \in Nat \ {0}
        /\ p = PromptSize \div CharsPerToken
    BY <1>1, <1>4, <1>8
  <2> QED BY <1>6, <2>1, <2>2, DivBound
<1>12. (PromptSize + context) \div CharsPerToken \in Int
  BY <1>1, <1>8, DivOf
<1> DEFINE s == (PromptSize + context) \div CharsPerToken
<1>13. s <= p + x /\ s \in Int /\ Remaining(budget, context, size) = budget - (s + q)
  BY <1>3, <1>11, <1>12
<1> HIDE DEF s
<1>14. Remaining(budget, context, size) \in Int /\ reserve <= Remaining(budget, context, size)
  BY <1>1, <1>6, <1>13
<1> QED BY <1>1, <1>10, <1>14 DEF reserve

-----------------------------------------------------------------------------
(* WindowInv: in a conversation whose turns did not overlap no two answers  *)
(* are in a row, and while a turn is between its saves the last message is  *)
(* its question; what a turn read of a conversation stays so in its hands.  *)

LastAsks(msgs) == Len(msgs) = 0 \/ msgs[Len(msgs)].role # "answer"

StoredOK(c) == TranscriptOK(convs[c].msgs) /\ (convs[c].mixed \/ AnswersApart(convs[c].msgs))

SizedPoints == {"readConv", "readMessages", "retrieve", "saveQuestion"}

HistoryOK(c) ==
    /\ TranscriptOK(c.history) /\ c.budget \in Int
    /\ c.mixed \/ AnswersApart(c.history)

WindowOK(c) ==
    /\ \E context \in {0, FittedContext(c.budget, c.size, c.history # <<>>)} :
          c.window = FitMessages(c.history, Remaining(c.budget, context, c.size))
    /\ ~c.floored => FittedContext(c.budget, c.size, c.history # <<>>)
                     = ContextRoom(c.budget, c.size, c.history # <<>>)

\* What a handler holds at a point of a turn.
HeldOK(c) ==
    /\ c.pc \in SizedPoints =>
          c.size \in Nat /\ {"pc", "cut", "conv", "size", "history", "budget", "mixed"} \subseteq DOMAIN c
    /\ c.pc = "saveAnswer" => c.size \in Nat /\ {"pc", "cut", "size"} \subseteq DOMAIN c
    /\ c.pc \in {"retrieve", "saveQuestion"} => HistoryOK(c)
    /\ c.pc = "saveQuestion" => WindowOK(c) /\ {"window", "floored"} \subseteq DOMAIN c

AskingLast(r) ==
    call[r].pc \in AskedPoints => convs[call[r].conv].mixed \/ LastAsks(convs[call[r].conv].msgs)

WindowInv ==
    /\ \A c \in ConvIds : StoredOK(c)
    /\ \A r \in Slots : HeldOK(call[r]) /\ AskingLast(r)

\* A handler that is at none of these points holds nothing of the kind.
LEMMA HoldsNothing ==
    ASSUME NEW c, c.pc \notin SizedPoints, c.pc # "saveAnswer"
    PROVE  HeldOK(c)
BY DEF HeldOK, SizedPoints

LEMMA Marked ==
    ASSUME NEW c, HeldOK(c), {"pc", "cut", "conv"} \subseteq DOMAIN c, NEW d, NEW to,
           d = [c EXCEPT !.cut = TRUE] \/ (d = [c EXCEPT !.pc = "readMessages"] /\ c.pc = "readConv")
    PROVE  HeldOK(d)
<1>1. CASE d = [c EXCEPT !.cut = TRUE]
  <2>1. /\ DOMAIN d = DOMAIN c /\ \A f \in DOMAIN c : f # "cut" => d[f] = c[f]
    BY <1>1
  <2>2. d.pc = c.pc
    BY <2>1
  <2>3. ASSUME c.pc \in SizedPoints
        PROVE  d.size = c.size /\ d.history = c.history /\ d.budget = c.budget /\ d.mixed = c.mixed
    BY <2>1, <2>3 DEF HeldOK
  <2>4. c.pc = "saveAnswer" => d.size = c.size
    BY <2>1 DEF HeldOK
  <2>5. c.pc = "saveQuestion" => d.window = c.window /\ d.floored = c.floored
    BY <2>1 DEF HeldOK
  <2> QED BY <2>1, <2>2, <2>3, <2>4, <2>5 DEF HeldOK, HistoryOK, WindowOK, SizedPoints
<1>2. CASE d = [c EXCEPT !.pc = "readMessages"] /\ c.pc = "readConv"
  <2>1. /\ DOMAIN d = DOMAIN c /\ d.pc = "readMessages" /\ \A f \in DOMAIN c : f # "pc" => d[f] = c[f]
    BY <1>2
  <2>2. c.size \in Nat /\ {"pc", "cut", "conv", "size", "history", "budget", "mixed"} \subseteq DOMAIN c
    BY <1>2 DEF HeldOK, SizedPoints
  <2>3. d.size \in Nat
    BY <2>1, <2>2
  <2> QED BY <2>1, <2>2, <2>3 DEF HeldOK, SizedPoints
<1> QED BY <1>1, <1>2

\* One handler moves and the messages stay.
LEMMA WindowFrame ==
    ASSUME WindowInv, NEW r \in Slots, UNCHANGED convs,
           \A q \in Slots : q # r => call'[q] = call[q],
           HeldOK(call'[r]),
           call'[r].pc \in AskedPoints => call[r].pc \in AskedPoints /\ call'[r].conv = call[r].conv
    PROVE  WindowInv'
<1>1. \A c \in ConvIds : StoredOK(c)'
  BY DEF WindowInv, StoredOK
<1>2. ASSUME NEW q \in Slots PROVE HeldOK(call'[q]) /\ AskingLast(q)'
  <2>1. CASE q = r
    BY <2>1 DEF WindowInv, AskingLast
  <2>2. CASE q # r
    BY <2>2 DEF WindowInv, AskingLast
  <2> QED BY <2>1, <2>2
<1> QED BY <1>1, <1>2 DEF WindowInv

LEMMA WindowAnswer ==
    ASSUME CallInv, WindowInv, NEW r \in Slots, Answer(r), UNCHANGED convs
    PROVE  WindowInv'
<1>1. call'[r].pc = "idle" /\ \A q \in Slots : q # r => call'[q] = call[q]
  BY DEF Answer, Advance, Idle, CallInv
<1>2. "idle" \notin SizedPoints /\ "idle" # "saveAnswer" /\ "idle" \notin AskedPoints
  BY DEF SizedPoints, AskedPoints
<1> QED BY <1>1, <1>2, HoldsNothing, WindowFrame

\* The history that a turn has read, or none.
LEMMA WindowHistory ==
    ASSUME CallInv, WindowInv, NEW r \in Slots, NEW c, NEW msgs, NEW mixed, UNCHANGED convs,
           WithHistory(r, c, msgs, mixed), TranscriptOK(msgs), mixed \/ AnswersApart(msgs), c.size \in Nat,
           {"pc", "cut", "conv", "size", "history", "budget", "mixed"} \subseteq DOMAIN c
    PROVE  WindowInv'
<1>1. CASE ~ProviderReady
  BY <1>1, WindowAnswer DEF WithHistory
<1>2. CASE ProviderReady
  <2>1. PICK b \in Windows :
          Advance(r, [c EXCEPT !.pc = "retrieve", !.history = msgs, !.budget = b, !.mixed = mixed])
    BY <1>2 DEF WithHistory
  <2> DEFINE d == [c EXCEPT !.pc = "retrieve", !.history = msgs, !.budget = b, !.mixed = mixed]
  <2>2. /\ DOMAIN d = DOMAIN c /\ d.pc = "retrieve" /\ d.history = msgs /\ d.budget = b
        /\ d.mixed = mixed /\ d.size = c.size
    OBVIOUS
  <2>3. call'[r] = d /\ \A q \in Slots : q # r => call'[q] = call[q]
    BY <2>1 DEF Advance, CallInv
  <2> HIDE DEF d
  <2>4. HistoryOK(d)
    BY <2>2, PromptAssumption DEF HistoryOK
  <2>5. HeldOK(d) /\ d.pc \notin AskedPoints
    BY <2>2, <2>4 DEF HeldOK, AskedPoints
  <2> QED BY <2>3, <2>5, WindowFrame
<1> QED BY <1>1, <1>2

\* A message is added to conversation c by the turn of r.
LEMMA WindowSave ==
    ASSUME CallInv, ChatInv, WindowInv, NEW r \in Slots, NEW c \in ConvIds, NEW m, SaveMessage(r, c, m),
           MessageOK(m), m.role = "answer" => convs[c].mixed \/ LastAsks(convs[c].msgs),
           \A q \in Slots : q # r => call'[q] = call[q],
           HeldOK(call'[r]),
           call'[r].pc \in AskedPoints => m.role = "question" /\ call'[r].conv = c
    PROVE  WindowInv'
<1> DEFINE old == convs[c].msgs
           new == Append(old, m)
<1>1. /\ convs'[c].msgs = new /\ \A d \in ConvIds : d # c => convs'[d] = convs[d]
      /\ convs'[c].mixed = (convs[c].mixed \/ \E q \in Slots \ {r} : InTurn(q, c))
  BY DEF SaveMessage, ChatInv
<1>2. /\ IsSequence(new) /\ Len(new) = Len(old) + 1 /\ Len(old) \in Nat
      /\ \A j \in 1..Len(old) : new[j] = old[j]
      /\ new[Len(old) + 1] = m
  BY AppendShape DEF ChatInv, ConvOK, IsSequence
<1>3. TranscriptOK(old) /\ (convs[c].mixed \/ AnswersApart(old))
  BY DEF WindowInv, StoredOK
<1> HIDE DEF old, new
<1>4. TranscriptOK(new)
  BY <1>2, <1>3 DEF TranscriptOK
<1>5. ASSUME ~convs'[c].mixed PROVE AnswersApart(new)
  <2>1. ~convs[c].mixed /\ AnswersApart(old) /\ (m.role = "answer" => LastAsks(old))
    BY <1>1, <1>3, <1>5 DEF old
  <2>2. SUFFICES ASSUME NEW j \in 1..(Len(new) - 1), new[j].role = "answer"
                 PROVE  new[j + 1].role # "answer"
    BY DEF AnswersApart
  <2>3. CASE j \in 1..(Len(old) - 1)
    <3>1. new[j] = old[j] /\ new[j + 1] = old[j + 1]
      BY <1>2, <2>3
    <3> QED BY <2>1, <2>2, <2>3, <3>1 DEF AnswersApart
  <2>4. CASE j = Len(old)
    <3>1. new[j] = old[j] /\ new[j + 1] = m /\ j > 0
      BY <1>2, <2>4, <2>2
    <3> QED BY <2>1, <2>2, <2>4, <3>1 DEF LastAsks
  <2> QED BY <1>2, <2>3, <2>4
<1>6. ASSUME NEW d \in ConvIds PROVE StoredOK(d)'
  <2>1. CASE d = c
    BY <1>1, <1>4, <1>5, <2>1 DEF StoredOK
  <2>2. CASE d # c
    BY <1>1, <2>2 DEF WindowInv, StoredOK
  <2> QED BY <2>1, <2>2
<1>7. ASSUME NEW q \in Slots PROVE HeldOK(call'[q]) /\ AskingLast(q)'
  <2>1. CASE q = r
    <3>1. ASSUME call'[r].pc \in AskedPoints PROVE LastAsks(convs'[call'[r].conv].msgs)
      <4>1. call'[r].conv = c /\ m.role = "question"
        BY <3>1
      <4>2. convs'[call'[r].conv].msgs = new
        BY <1>1, <4>1
      <4>3. Len(new) = Len(old) + 1 /\ new[Len(new)] = m
        BY <1>2
      <4> QED BY <4>1, <4>2, <4>3 DEF LastAsks
    <3> QED BY <2>1, <3>1 DEF AskingLast
  <2>2. CASE q # r
    <3>1. call'[q] = call[q] /\ HeldOK(call[q]) /\ AskingLast(q)
      BY <2>2 DEF WindowInv
    <3>2. ASSUME call[q].pc \in AskedPoints, call[q].conv = c PROVE convs'[c].mixed
      <4>1. InTurn(q, c)
        BY <3>2 DEF InTurn, AskedPoints
      <4> QED BY <1>1, <2>2, <4>1
    <3>3. ASSUME call[q].pc \in AskedPoints, call[q].conv # c
          PROVE  convs'[call[q].conv] = convs[call[q].conv]
      <4>1. call[q].conv \in ConvIds
        BY <3>3 DEF ChatInv, TurnOK, AskedPoints, TurnPoints
      <4> QED BY <1>1, <3>3, <4>1
    <3>4. AskingLast(q)'
      <4>1. CASE call[q].pc \notin AskedPoints
        BY <3>1, <4>1 DEF AskingLast
      <4>2. CASE call[q].pc \in AskedPoints /\ call[q].conv = c
        BY <3>1, <3>2, <4>2 DEF AskingLast
      <4>3. CASE call[q].pc \in AskedPoints /\ call[q].conv # c
        BY <3>1, <3>3, <4>3 DEF AskingLast
      <4> QED BY <4>1, <4>2, <4>3
    <3> QED BY <3>1, <3>4
  <2> QED BY <2>1, <2>2
<1> QED BY <1>6, <1>7 DEF WindowInv

LEMMA NewestCost ==
    ASSUME NEW h, TranscriptOK(h), NEW k \in 0..Len(h)
    PROVE  Cost(Newest(h, k)) \in Int
<1>1. /\ IsSequence(Newest(h, k)) /\ Len(Newest(h, k)) = k /\ Len(h) \in Nat
      /\ \A j \in 1..k : Newest(h, k)[j] = h[Len(h) - k + j]
  BY NewestOf DEF TranscriptOK, IsSequence
<1>2. \A j \in 1..k : Len(h) - k + j \in 1..Len(h)
  BY <1>1
<1>3. \A j \in 1..Len(Newest(h, k)) : Newest(h, k)[j].size \in Nat
  BY <1>1, <1>2 DEF TranscriptOK, MessageOK
<1> QED BY <1>1, <1>3, CostType

LEMMA RemainingType ==
    ASSUME NEW budget \in Int, NEW size \in Nat, NEW asked \in BOOLEAN,
           NEW context \in {0, FittedContext(budget, size, asked)}
    PROVE  Remaining(budget, context, size) \in Int
<1>1. HistoryReserve(budget, asked) \in Int /\ TokensIn(size) \in Int /\ TokensIn(PromptSize) \in Int
  BY PromptAssumption DEF HistoryReserve, TokensIn, Lesser
<1>2. ContextRoom(budget, size, asked) \in Int
  BY <1>1, PromptAssumption DEF ContextRoom, Lesser
<1>3. FittedContext(budget, size, asked) \in Int
  BY <1>2, PromptAssumption DEF FittedContext, Greater
<1>4. PromptSize + context \in Int
  BY <1>3, PromptAssumption
<1>5. TokensIn(PromptSize + context) \in Int
  BY <1>4, PromptAssumption, DivOf DEF TokensIn
<1> QED BY <1>1, <1>5 DEF Remaining

LEMMA WindowLength ==
    ASSUME NEW h, TranscriptOK(h), NEW room \in Int
    PROVE  Len(FitMessages(h, room)) \in Nat
<1>1. CASE room <= 0
  BY <1>1 DEF FitMessages
<1>2. CASE room > 0
  <2>1. PICK n \in 0..Len(h) :
          FitMessages(h, room) = IF Newest(h, n) # <<>> /\ Newest(h, n)[1].role = "answer"
                                 THEN Tail(Newest(h, n)) ELSE Newest(h, n)
    BY <1>2, KeptFit
  <2> DEFINE kept == Newest(h, n)
  <2>2. IsSequence(kept) /\ Len(kept) \in Nat
    BY <2>1, NewestOf DEF TranscriptOK, IsSequence
  <2>3. FitMessages(h, room) = IF kept # <<>> /\ kept[1].role = "answer" THEN Tail(kept) ELSE kept
    BY <2>1
  <2> HIDE DEF kept
  <2>4. kept # <<>> => Len(kept) > 0 /\ Len(Tail(kept)) = Len(kept) - 1
    BY <2>2, EmptyIsEmpty, TailOf
  <2> QED BY <2>2, <2>3, <2>4
<1> QED BY <1>1, <1>2

LEMMA WindowSaveQuestion ==
    ASSUME CallInv, ChatInv, WindowInv, NEW r \in Slots, SaveQuestion(r)
    PROVE  WindowInv'
<1> DEFINE m == [role |-> "question", turn |-> call[r].turn, size |-> call[r].size, cut |-> FALSE]
           d == [Saving(r) EXCEPT !.cut = FALSE]
<1>1. call[r].pc = "saveQuestion" /\ SaveMessage(r, call[r].conv, m) /\ Advance(r, d)
  BY DEF SaveQuestion, Reaches, At
<1>2. call[r].conv \in ConvIds /\ call[r].size \in Nat
  BY <1>1 DEF ChatInv, TurnOK, TurnPoints, WindowInv, HeldOK, SizedPoints
<1>3. call'[r] = d /\ \A q \in Slots : q # r => call'[q] = call[q]
  BY <1>1 DEF Advance, CallInv
<1>4. d.pc = "rereadQuestion" /\ d.conv = call[r].conv
  BY DEF Saving
<1>5. m.role = "question" /\ m.size = call[r].size
  OBVIOUS
<1> HIDE DEF m, d
<1>6. MessageOK(m) /\ HeldOK(d)
  BY <1>2, <1>4, <1>5, HoldsNothing DEF MessageOK, SizedPoints
<1> QED BY <1>1, <1>2, <1>3, <1>4, <1>5, <1>6, WindowSave

LEMMA WindowSaveAnswer ==
    ASSUME CallInv, ChatInv, WindowInv, NEW r \in Slots, SaveAnswer(r)
    PROVE  WindowInv'
<1> DEFINE m == [role |-> "answer", turn |-> call[r].turn, size |-> call[r].size, cut |-> call[r].cut]
           d == [Saving(r) EXCEPT !.pc = "rereadAnswer"]
<1>1. call[r].pc = "saveAnswer" /\ SaveMessage(r, call[r].conv, m) /\ Advance(r, d)
  BY DEF SaveAnswer, Reaches, At
<1>2. /\ call[r].conv \in ConvIds /\ call[r].size \in Nat
      /\ convs[call[r].conv].mixed \/ LastAsks(convs[call[r].conv].msgs)
  BY <1>1 DEF ChatInv, TurnOK, TurnPoints, WindowInv, HeldOK, AskingLast, AskedPoints
<1>3. call'[r] = d /\ \A q \in Slots : q # r => call'[q] = call[q]
  BY <1>1 DEF Advance, CallInv
<1>4. d.pc = "rereadAnswer"
  BY DEF Saving
<1>5. m.role = "answer" /\ m.size = call[r].size
  OBVIOUS
<1> HIDE DEF m, d
<1>6. MessageOK(m) /\ HeldOK(d) /\ d.pc \notin AskedPoints
  BY <1>2, <1>4, <1>5, HoldsNothing DEF MessageOK, SizedPoints, AskedPoints
<1> QED BY <1>1, <1>2, <1>3, <1>5, <1>6, WindowSave

LEMMA WindowDelete ==
    ASSUME CallInv, ChatInv, WindowInv, NEW r \in Slots, DeleteConversation(r)
    PROVE  WindowInv'
<1>1. PICK c \in ConvIds :
        /\ convs' = [convs EXCEPT ![c] = NoConv]
        /\ call' = [q \in Slots |-> IF InTurn(q, c) THEN [call[q] EXCEPT !.cut = TRUE] ELSE call[q]]
  BY DEF DeleteConversation
<1>2. convs'[c] = NoConv /\ \A d \in ConvIds : d # c => convs'[d] = convs[d]
  BY <1>1 DEF ChatInv
<1>3. NoConv.msgs = <<>> /\ TranscriptOK(<<>>) /\ AnswersApart(<<>>) /\ LastAsks(<<>>)
  BY DEF NoConv, TranscriptOK, IsSequence, AnswersApart, LastAsks
<1>4. ASSUME NEW d \in ConvIds PROVE StoredOK(d)'
  BY <1>2, <1>3 DEF WindowInv, StoredOK
<1>5. ASSUME NEW q \in Slots PROVE HeldOK(call'[q]) /\ AskingLast(q)'
  <2>1. CASE InTurn(q, c)
    <3>1. call'[q] = [call[q] EXCEPT !.cut = TRUE]
      BY <1>1, <2>1
    <3>2. {"pc", "cut", "conv"} \subseteq DOMAIN call[q] /\ HeldOK(call[q]) /\ call[q].conv = c
      BY <2>1 DEF InTurn, ChatInv, TurnOK, TurnPoints, CallInv, WindowInv
    <3>3. HeldOK(call'[q])
      BY <3>1, <3>2, Marked
    <3>4. call'[q].conv = c
      BY <3>1, <3>2
    <3> QED BY <1>2, <1>3, <3>3, <3>4 DEF AskingLast
  <2>2. CASE ~InTurn(q, c)
    <3>1. call'[q] = call[q] /\ HeldOK(call[q]) /\ AskingLast(q)
      BY <1>1, <2>2 DEF WindowInv
    <3>2. call[q].pc \in AskedPoints => call[q].conv # c /\ call[q].conv \in ConvIds
      BY <2>2 DEF InTurn, AskedPoints, TurnPoints, ChatInv, TurnOK
    <3> QED BY <1>2, <3>1, <3>2 DEF AskingLast
  <2> QED BY <2>1, <2>2
<1> QED BY <1>4, <1>5 DEF WindowInv

LEMMA WindowChatting ==
    ASSUME CallInv, ChatInv, WindowInv, NEW r \in Slots, Chatting(r)
    PROVE  WindowInv'
<1>0. ConversationStep(r)
  BY DEF Chatting
<1>1. HeldOK(call[r])
  BY DEF WindowInv
<1>2. /\ TranscriptOK(<<>>) /\ AnswersApart(<<>>)
      /\ "retrieve" \notin AskedPoints /\ "readConv" \notin AskedPoints /\ "readMessages" \notin AskedPoints
      /\ "saveQuestion" \notin AskedPoints
  BY DEF TranscriptOK, IsSequence, AnswersApart, AskedPoints
<1>3. CASE NewConversation(r)
  <2>1. PICK q \in QuestionSizes, b \in Windows :
          Begin(r, [NewTurn(requests + 1, "retrieve", q) EXCEPT !.budget = b])
    BY <1>3 DEF NewConversation
  <2> DEFINE c == [NewTurn(requests + 1, "retrieve", q) EXCEPT !.budget = b]
  <2>2. /\ {"pc", "cut", "conv", "size", "history", "budget", "mixed"} \subseteq DOMAIN c
        /\ c.pc = "retrieve" /\ c.size = q /\ c.history = <<>> /\ c.budget = b
    BY DEF NewTurn
  <2>3. Begin(r, c) /\ UNCHANGED convs
    BY <1>3, <2>1 DEF NewConversation
  <2> HIDE DEF c
  <2>4. call'[r] = c /\ \A p \in Slots : p # r => call'[p] = call[p]
    BY <2>3 DEF Begin, CallInv
  <2>5. HeldOK(c) /\ c.pc \notin AskedPoints
    BY <1>2, <2>2, PromptAssumption DEF HeldOK, HistoryOK
  <2> QED BY <2>3, <2>4, <2>5, WindowFrame
<1>4. CASE Continue(r)
  <2>1. PICK q \in QuestionSizes, k \in ConvIds : Begin(r, NewTurn(k, "readConv", q)) /\ UNCHANGED convs
    BY <1>4 DEF Continue
  <2> DEFINE c == NewTurn(k, "readConv", q)
  <2>2. /\ {"pc", "cut", "conv", "size", "history", "budget", "mixed"} \subseteq DOMAIN c
        /\ c.pc = "readConv" /\ c.size = q
    BY DEF NewTurn
  <2>3. Begin(r, c)
    BY <2>1
  <2> HIDE DEF c
  <2>4. call'[r] = c /\ \A p \in Slots : p # r => call'[p] = call[p]
    BY <2>3 DEF Begin, CallInv
  <2>5. HeldOK(c) /\ c.pc \notin AskedPoints
    BY <1>2, <2>2, PromptAssumption DEF HeldOK
  <2> QED BY <2>1, <2>4, <2>5, WindowFrame
<1>5. CASE DeleteConversation(r)
  BY <1>5, WindowDelete
<1>6. CASE ReadConversation(r)
  <2>1. call[r].pc = "readConv" /\ UNCHANGED convs
    BY <1>6 DEF ReadConversation, Reaches, At
  <2>2. /\ call[r].size \in Nat
        /\ {"pc", "cut", "conv", "size", "history", "budget", "mixed"} \subseteq DOMAIN call[r]
    BY <1>1, <2>1 DEF HeldOK, SizedPoints
  <2>3. CASE Moves(r, "readMessages")
    <3> DEFINE c == [call[r] EXCEPT !.pc = "readMessages"]
    <3>1. call'[r] = c /\ \A p \in Slots : p # r => call'[p] = call[p]
      BY <2>3 DEF Moves, Advance, CallInv
    <3>2. c.pc = "readMessages"
      BY <2>2
    <3>3. HeldOK(c)
      BY <1>1, <2>1, <2>2, Marked
    <3> HIDE DEF c
    <3> QED BY <1>2, <2>1, <3>1, <3>2, <3>3, WindowFrame
  <2>4. CASE WithHistory(r, [call[r] EXCEPT !.conv = call[r].turn, !.cut = FALSE], <<>>, FALSE)
    <3> DEFINE c == [call[r] EXCEPT !.conv = call[r].turn, !.cut = FALSE]
    <3>1. /\ {"pc", "cut", "conv", "size", "history", "budget", "mixed"} \subseteq DOMAIN c
          /\ c.size \in Nat
      BY <2>2
    <3>2. WithHistory(r, c, <<>>, FALSE)
      BY <2>4
    <3> HIDE DEF c
    <3> QED BY <1>2, <2>1, <3>1, <3>2, WindowHistory
  <2> QED BY <1>6, <2>3, <2>4 DEF ReadConversation
<1>7. CASE ReadMessages(r)
  <2>1. call[r].pc = "readMessages" /\ UNCHANGED convs
    BY <1>7 DEF ReadMessages, Reaches, At
  <2>2. /\ call[r].size \in Nat
        /\ {"pc", "cut", "conv", "size", "history", "budget", "mixed"} \subseteq DOMAIN call[r]
    BY <1>1, <2>1 DEF HeldOK, SizedPoints
  <2>3. call[r].conv \in ConvIds
    BY <2>1 DEF ChatInv, TurnOK, TurnPoints
  <2> DEFINE msgs == convs[call[r].conv].msgs
             mixed == convs[call[r].conv].mixed
  <2>4. TranscriptOK(msgs) /\ (mixed \/ AnswersApart(msgs))
    BY <2>3 DEF WindowInv, StoredOK
  <2>5. WithHistory(r, call[r], msgs, mixed)
    BY <1>7 DEF ReadMessages
  <2> HIDE DEF msgs, mixed
  <2> QED BY <2>1, <2>2, <2>4, <2>5, WindowHistory
<1>8. CASE Retrieve(r)
  <2>1. call[r].pc = "retrieve" /\ UNCHANGED convs
    BY <1>8 DEF Retrieve, At
  <2>2. CASE Answer(r)
    BY <2>1, <2>2, WindowAnswer
  <2> DEFINE fitted == FittedContext(call[r].budget, call[r].size, call[r].history # <<>>)
             Kept(context) ==
                [pc |-> "saveQuestion", conv |-> call[r].conv, turn |-> call[r].turn, size |-> call[r].size,
                 history |-> call[r].history, budget |-> call[r].budget, cut |-> call[r].cut,
                 mixed |-> call[r].mixed,
                 window |-> FitMessages(call[r].history, Remaining(call[r].budget, context, call[r].size)),
                 floored |-> fitted # ContextRoom(call[r].budget, call[r].size, call[r].history # <<>>)]
  <2>3. ASSUME NEW context \in {0, fitted}, Advance(r, Kept(context)) PROVE WindowInv'
    <3> DEFINE c == Kept(context)
    <3>1. /\ DOMAIN c = {"pc", "conv", "turn", "size", "history", "budget", "cut", "mixed", "window", "floored"}
          /\ c.pc = "saveQuestion" /\ c.size = call[r].size /\ c.history = call[r].history
          /\ c.budget = call[r].budget /\ c.mixed = call[r].mixed
          /\ c.window = FitMessages(call[r].history, Remaining(call[r].budget, context, call[r].size))
          /\ c.floored = (fitted # ContextRoom(call[r].budget, call[r].size, call[r].history # <<>>))
      OBVIOUS
    <3>2. Advance(r, c)
      BY <2>3
    <3> HIDE DEF c
    <3>3. call'[r] = c /\ \A p \in Slots : p # r => call'[p] = call[p]
      BY <3>2 DEF Advance, CallInv
    <3>4. HistoryOK(call[r]) /\ call[r].size \in Nat
      BY <1>1, <2>1 DEF HeldOK, SizedPoints
    <3>5. HistoryOK(c)
      BY <3>1, <3>4 DEF HistoryOK
    <3>6. WindowOK(c)
      BY <3>1 DEF WindowOK
    <3>7. HeldOK(c)
      BY <3>1, <3>4, <3>5, <3>6 DEF HeldOK, SizedPoints
    <3> QED BY <1>2, <2>1, <3>1, <3>3, <3>7, WindowFrame
  <2>4. Answer(r) \/ \E context \in {0, fitted} : Advance(r, Kept(context))
    BY <1>8 DEF Retrieve
  <2> QED BY <2>2, <2>3, <2>4
<1>9. CASE SaveQuestion(r) \/ SaveAnswer(r)
  BY <1>9, WindowSaveQuestion, WindowSaveAnswer
<1>10. CASE RereadQuestion(r)
  <2>1. call[r].pc = "rereadQuestion" /\ UNCHANGED convs /\ (Moves(r, "stream") \/ Answer(r))
    BY <1>10 DEF RereadQuestion, Reaches, At
  <2>2. CASE Moves(r, "stream")
    <3>1. call'[r] = [call[r] EXCEPT !.pc = "stream"] /\ \A p \in Slots : p # r => call'[p] = call[p]
      BY <2>2 DEF Moves, Advance, CallInv
    <3>2. {"pc", "conv"} \subseteq DOMAIN call[r]
      BY <2>1 DEF ChatInv, TurnOK, TurnPoints, CallInv
    <3>3. call'[r].pc = "stream" /\ call'[r].conv = call[r].conv
      BY <3>1, <3>2
    <3>4. HeldOK(call'[r])
      BY <3>3, HoldsNothing DEF SizedPoints
    <3> QED BY <2>1, <3>1, <3>3, <3>4, WindowFrame DEF AskedPoints
  <2> QED BY <2>1, <2>2, WindowAnswer
<1>11. CASE StreamAnswer(r)
  <2>1. call[r].pc = "stream" /\ UNCHANGED convs
    BY <1>11 DEF StreamAnswer, At
  <2>2. CASE Answer(r)
    BY <2>1, <2>2, WindowAnswer
  <2>3. ASSUME NEW a \in AnswerSizes,
               Advance(r, [pc |-> "saveAnswer", conv |-> call[r].conv, turn |-> call[r].turn,
                           cut |-> call[r].cut, size |-> a])
        PROVE  WindowInv'
    <3> DEFINE c == [pc |-> "saveAnswer", conv |-> call[r].conv, turn |-> call[r].turn,
                     cut |-> call[r].cut, size |-> a]
    <3>1. /\ c.pc = "saveAnswer" /\ c.conv = call[r].conv /\ c.size = a
          /\ {"pc", "cut", "size"} \subseteq DOMAIN c
      OBVIOUS
    <3>2. Advance(r, c)
      BY <2>3
    <3> HIDE DEF c
    <3>3. call'[r] = c /\ \A p \in Slots : p # r => call'[p] = call[p]
      BY <3>2 DEF Advance, CallInv
    <3>4. HeldOK(c)
      BY <3>1, PromptAssumption DEF HeldOK, SizedPoints
    <3> QED BY <2>1, <3>1, <3>3, <3>4, WindowFrame DEF AskedPoints
  <2> QED BY <1>11, <2>2, <2>3 DEF StreamAnswer
<1>12. CASE RereadAnswer(r) \/ Disconnect(r) \/ TurnLost(r)
  BY <1>12, WindowAnswer DEF RereadAnswer, Disconnect, TurnLost
<1> QED BY <1>0, <1>3, <1>4, <1>5, <1>6, <1>7, <1>8, <1>9, <1>10, <1>11, <1>12 DEF ConversationStep

LEMMA WindowInvariance ==
    /\ Init => WindowInv
    /\ CallInv /\ ChatInv /\ WindowInv /\ [Next]_serverVars => WindowInv'
<1>0. "idle" \notin SizedPoints /\ "idle" # "saveAnswer" /\ "idle" \notin AskedPoints
  BY DEF SizedPoints, AskedPoints
<1>1. ASSUME Init PROVE WindowInv
  <2>1. \A r \in Slots : call[r].pc = "idle"
    BY <1>1 DEF Init, InitRequests, Idle
  <2>2. convs = [c \in ConvIds |-> IF c = 0 /\ StartHistory # <<>>
                                   THEN [stored |-> TRUE, titled |-> TRUE, msgs |-> StartHistory,
                                         mixed |-> ~AnswersApart(StartHistory)]
                                   ELSE NoConv]
    BY <1>1 DEF Init, InitConversations
  <2>3. TranscriptOK(StartHistory)
    <3> DEFINE Message == [role : {"question", "answer"}, turn : Nat, size : Nat, cut : BOOLEAN]
    <3>1. StartHistory \in Seq(Message)
      BY TranscriptAssumption
    <3>2. \A m \in Message : MessageOK(m)
      BY DEF MessageOK
    <3> HIDE DEF Message
    <3>3. IsSequence(StartHistory) /\ \A j \in 1..Len(StartHistory) : StartHistory[j] \in Message
      BY <3>1, SequenceOf
    <3> QED BY <3>2, <3>3 DEF TranscriptOK
  <2>4. TranscriptOK(<<>>) /\ AnswersApart(<<>>) /\ NoConv.msgs = <<>>
    BY DEF TranscriptOK, IsSequence, AnswersApart, NoConv
  <2>5. ASSUME NEW c \in ConvIds PROVE StoredOK(c)
    <3>1. CASE c = 0 /\ StartHistory # <<>>
      <4>1. convs[c].msgs = StartHistory /\ (convs[c].mixed <=> ~AnswersApart(StartHistory))
        BY <2>2, <3>1
      <4> QED BY <2>3, <4>1 DEF StoredOK
    <3>2. CASE ~(c = 0 /\ StartHistory # <<>>)
      <4>1. convs[c] = NoConv
        BY <2>2, <3>2
      <4> QED BY <2>4, <4>1 DEF StoredOK
    <3> QED BY <3>1, <3>2
  <2> QED BY <1>0, <2>1, <2>5, HoldsNothing DEF WindowInv, AskingLast
<1>2. ASSUME CallInv, ChatInv, WindowInv, [Next]_serverVars PROVE WindowInv'
  <2>1. ASSUME NEW r \in Slots, NEW points, Within(r, points), UNCHANGED convs,
               (points \union {"idle"}) \intersect (SizedPoints \union AskedPoints \union {"saveAnswer"}) = {}
        PROVE  WindowInv'
    <3>1. /\ \A q \in Slots : q # r => call'[q] = call[q]
          /\ call'[r].pc \notin SizedPoints /\ call'[r].pc \notin AskedPoints /\ call'[r].pc # "saveAnswer"
      BY <2>1 DEF Within
    <3> QED BY <1>2, <2>1, <3>1, HoldsNothing, WindowFrame
  <2>2. ASSUME NEW r \in Slots, Accounting(r) PROVE WindowInv'
    <3>1. (AccountPoints \union {"idle"}) \intersect (SizedPoints \union AskedPoints \union {"saveAnswer"}) = {}
      BY DEF AccountPoints, SizedPoints, AskedPoints
    <3> QED BY <1>2, <2>1, <2>2, <3>1, AccountingFrame
  <2>3. ASSUME NEW r \in Slots, Configuring(r) PROVE WindowInv'
    <3>1. (ConfigPoints \union {"idle"}) \intersect (SizedPoints \union AskedPoints \union {"saveAnswer"}) = {}
      BY DEF ConfigPoints, SizedPoints, AskedPoints
    <3> QED BY <1>2, <2>1, <2>3, <3>1, ConfiguringFrame
  <2>4. CASE Expiry \/ Outage \/ Boot \/ UNCHANGED serverVars
    <3>1. UNCHANGED <<convs, call>>
      BY <2>4 DEF Expiry, SessionExpires, Outage, PostgresFails, PostgresReturns, Boot, ProcessBoots,
                  requestVars, serverVars
    <3> QED BY <1>2, <3>1 DEF WindowInv, StoredOK, AskingLast
  <2>5. CASE Death
    <3>1. /\ UNCHANGED convs
          /\ \A r \in Slots : call'[r].pc = "idle"
      BY <2>5 DEF Death, ProcessDies, Idle
    <3> QED BY <1>0, <1>2, <3>1, HoldsNothing DEF WindowInv, StoredOK, AskingLast
  <2> QED BY <1>2, <2>2, <2>3, <2>4, <2>5, WindowChatting DEF Next
<1> QED BY <1>1, <1>2

LEMMA WindowAlways == Spec => []WindowInv
<1>1. CallInv /\ ChatInv /\ WindowInv /\ [Next]_serverVars => CallInv' /\ ChatInv' /\ WindowInv'
  BY CallInvariance, ChatInvariance, WindowInvariance
<1>2. Init => CallInv /\ ChatInv /\ WindowInv
  BY CallInvariance, ChatInvariance, WindowInvariance
<1> QED BY <1>1, <1>2, PTL DEF Spec

(* The messages of a prompt open on a question, whatever else the handlers  *)
(* of the conversation do between the statements of the turn, unless its    *)
(* turns have overlapped.                                                   *)
THEOREM PromptOpensOnQuestion == Spec => []WindowOpensOnQuestion
<1>1. ASSUME WindowInv PROVE WindowOpensOnQuestion
  <2> SUFFICES ASSUME NEW r \in Slots, call[r].pc = "saveQuestion", call[r].window # <<>>, ~call[r].mixed
               PROVE  call[r].window[1].role = "question"
    BY DEF WindowOpensOnQuestion, At
  <2> DEFINE c == call[r]
  <2>1. HistoryOK(c) /\ WindowOK(c) /\ c.size \in Nat
    BY <1>1 DEF WindowInv, HeldOK, SizedPoints
  <2>2. PICK context \in {0, FittedContext(c.budget, c.size, c.history # <<>>)} :
          c.window = FitMessages(c.history, Remaining(c.budget, context, c.size))
    BY <2>1 DEF WindowOK
  <2>3. TranscriptOK(c.history) /\ AnswersApart(c.history) /\ c.budget \in Int
    BY <2>1 DEF HistoryOK
  <2>4. Remaining(c.budget, context, c.size) \in Int
    BY <2>1, <2>2, <2>3, RemainingType
  <2> QED BY <2>2, <2>3, <2>4, FitOpensOnQuestion
<1> QED BY <1>1, WindowAlways, PTL

(* The slice that is reserved for history reaches it, however long the      *)
(* history and large the context, unless the context was floored.           *)
THEOREM HistoryGetsItsSlice == Spec => []HistoryHasItsSlice
<1>1. ASSUME WindowInv PROVE HistoryHasItsSlice
  <2> SUFFICES ASSUME NEW r \in Slots, call[r].pc = "saveQuestion", ~call[r].floored,
                      NEW k \in 0..Len(call[r].history),
                      Cost(Newest(call[r].history, k)) <= HistoryReserve(call[r].budget, TRUE)
               PROVE  Len(call[r].window) >= k - 1
    BY DEF HistoryHasItsSlice, At
  <2> DEFINE c == call[r]
             h == call[r].history
  <2>1. HistoryOK(c) /\ WindowOK(c) /\ c.size \in Nat
    BY <1>1 DEF WindowInv, HeldOK, SizedPoints
  <2>2. PICK context \in {0, FittedContext(c.budget, c.size, h # <<>>)} :
          c.window = FitMessages(h, Remaining(c.budget, context, c.size))
    BY <2>1 DEF WindowOK
  <2>3. TranscriptOK(h) /\ c.budget \in Int
    BY <2>1 DEF HistoryOK
  <2> DEFINE room == Remaining(c.budget, context, c.size)
             n == Len(h)
  <2>4. room \in Int /\ n \in Nat
    BY <2>1, <2>2, <2>3, RemainingType DEF TranscriptOK, IsSequence
  <2>5. CASE h = <<>>
    <3>1. n = 0 /\ k = 0
      BY <2>5
    <3>2. Len(FitMessages(h, room)) \in Nat
      BY <2>3, <2>4, WindowLength
    <3> QED BY <2>2, <3>1, <3>2
  <2>6. CASE h # <<>>
    <3>1. /\ FittedContext(c.budget, c.size, TRUE) = ContextRoom(c.budget, c.size, TRUE)
          /\ context \in {0, FittedContext(c.budget, c.size, TRUE)}
      <4>1. (h # <<>>) = TRUE
        BY <2>6
      <4>2. FittedContext(c.budget, c.size, h # <<>>) = ContextRoom(c.budget, c.size, h # <<>>)
        BY <2>1 DEF WindowOK
      <4> QED BY <2>2, <4>1, <4>2
    <3>2. /\ HistoryReserve(c.budget, TRUE) \in Int /\ HistoryReserve(c.budget, TRUE) > 0
          /\ HistoryReserve(c.budget, TRUE) <= room
      BY <2>1, <2>3, <3>1, SliceIsLeft
    <3>3. Cost(Newest(h, k)) \in Int
      BY <2>3, NewestCost
    <3> DEFINE reserve == HistoryReserve(c.budget, TRUE)
               cost == Cost(Newest(h, k))
    <3>4. /\ room \in Int /\ cost \in Int /\ reserve \in Int
          /\ reserve > 0 /\ reserve <= room /\ cost <= reserve
      BY <2>4, <3>2, <3>3
    <3> HIDE DEF room, reserve, cost
    <3>5. room > 0 /\ cost <= room
      BY <3>4
    <3>6. Len(FitMessages(h, room)) >= k - 1
      BY <2>3, <3>4, <3>5, FitKeeps DEF cost
    <3> QED BY <2>2, <3>6 DEF room
  <2> QED BY <2>5, <2>6
<1> QED BY <1>1, WindowAlways, PTL
=============================================================================
