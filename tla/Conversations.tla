--------------------------- MODULE Conversations ---------------------------
(***************************************************************************)
(* Stored conversations and chat turns: services/chat_store.py and the      *)
(* pipeline of services/chat.py, with the budget of its prompt.  A turn     *)
(* reads the history when it starts and writes to the conversation twice,   *)
(* so it can race another turn of the conversation, or its deletion.        *)
(* Texts are their lengths in characters.                                   *)
(***************************************************************************)
EXTENDS LlmConfig, SequencesExt

CONSTANTS QuestionSizes, AnswerSizes,   \* lengths of messages
          PromptSize,                   \* the audience prompt with the context's wrapper
          Windows,                      \* a provider's context window less the reserved output, in tokens
          CharsPerToken, HistoryCap, MinContext, MaxContext

ASSUME PromptAssumption ==
    /\ CharsPerToken \in Nat \ {0}
    /\ {PromptSize, HistoryCap, MinContext, MaxContext} \subseteq Nat
    /\ QuestionSizes \cup AnswerSizes \subseteq Nat /\ Windows \subseteq Int
    \* The floor of the context is worth some tokens (500 of them in the code).
    /\ HistoryCap > 0 /\ MinContext >= 4 * CharsPerToken

VARIABLE convs   \* the conversations and messages tables

NoConv == [titled |-> FALSE, msgs |-> <<>>, mixed |-> FALSE, stored |-> FALSE]
ConvIds == 0..MaxRequests

-----------------------------------------------------------------------------
(* The prompt's budget *)

TokensIn(chars) == chars \div CharsPerToken
Lesser(a, b) == IF a <= b THEN a ELSE b
Greater(a, b) == IF a >= b THEN a ELSE b

(* The slice that is set aside for history before the context is sized. *)
HistoryReserve(budget, hasHistory) ==
    IF hasHistory THEN Lesser(budget \div 4, HistoryCap) ELSE 0

(* Mutant: the context is sized against the whole budget. *)
ContextRoomWhole(budget, question, hasHistory) ==
    Lesser(MaxContext, (budget - TokensIn(question) - TokensIn(PromptSize)) * CharsPerToken)

(* _fitted_context_chars, before and after the floor. *)
ContextRoom(budget, question, hasHistory) ==
    Lesser(MaxContext,
           (budget - HistoryReserve(budget, hasHistory) - TokensIn(question) - TokensIn(PromptSize)) * CharsPerToken)

FittedContext(budget, question, hasHistory) ==
    Greater(MinContext, ContextRoom(budget, question, hasHistory))

(* What the system message and the question leave. *)
Remaining(budget, context, question) == budget - (TokensIn(PromptSize + context) + TokensIn(question))

Cost(msgs) ==
    LET upTo[k \in 0..Len(msgs)] == IF k = 0 THEN 0 ELSE upTo[k - 1] + TokensIn(msgs[k].size)
    IN  upTo[Len(msgs)]

Newest(msgs, k) == SubSeq(msgs, Len(msgs) - k + 1, Len(msgs))

(* Mutant: whatever fits is sent, an answer at the front too. *)
FitMessagesAnyFront(history, room) ==
    LET fits == {k \in 0..Len(history) : Cost(Newest(history, k)) <= room}
    IN  IF room <= 0 THEN <<>> ELSE Newest(history, CHOOSE k \in fits : \A j \in fits : j <= k)

(* _fit_messages: newest first while whole messages fit, and an answer is   *)
(* not left at the front.                                                   *)
FitMessages(history, room) ==
    LET fits == {k \in 0..Len(history) : Cost(Newest(history, k)) <= room}
        kept == Newest(history, CHOOSE k \in fits : \A j \in fits : j <= k)
    IN  IF room <= 0 THEN <<>>
        ELSE IF kept # <<>> /\ kept[1].role = "answer" THEN Tail(kept) ELSE kept

-----------------------------------------------------------------------------
(* The store *)

IsStored(c) == convs[c].stored
InTurn(r, c) == call[r].pc \in {"readConv", "readMessages", "retrieve", "saveQuestion", "rereadQuestion",
                                "stream", "saveAnswer", "rereadAnswer"} /\ call[r].conv = c

(* save_message, one transaction: the conversation is created when it is    *)
(* not there, with a title only from a question, and the message appended.  *)
SaveMessage(r, c, m) ==
    convs' = [convs EXCEPT ![c] =
        [stored |-> TRUE, msgs |-> Append(@.msgs, m),
         titled |-> IF @.stored THEN @.titled ELSE m.role = "question",
         mixed |-> @.mixed \/ \E q \in Slots \ {r} : InTurn(q, c)]]

(* DELETE /chat/conversations/{id}: the messages go with the row.  A turn   *)
(* whose question goes with it is marked.                                   *)
DeleteConversation(r) == \E c \in ConvIds :
    /\ IsStored(c) /\ postgres
    /\ serving /\ At(r, "idle") /\ requests < MaxRequests
    /\ requests' = requests + 1
    /\ convs' = [convs EXCEPT ![c] = NoConv]
    /\ call' = [q \in Slots |-> IF InTurn(q, c) THEN [call[q] EXCEPT !.cut = TRUE] ELSE call[q]]
    /\ UNCHANGED <<serving, postgres, faults, configVars>>

-----------------------------------------------------------------------------
(* A turn *)

NewTurn(conv, pc, q) ==
    [pc |-> pc, conv |-> conv, turn |-> requests + 1, size |-> q, history |-> <<>>,
     budget |-> 0, cut |-> FALSE, mixed |-> FALSE]

(* The provider is resolved when the history is known; without one the turn *)
(* answers with an error.                                                   *)
WithHistory(r, c, msgs, mixed) ==
    IF ProviderReady
    THEN \E b \in Windows :
            Advance(r, [c EXCEPT !.pc = "retrieve", !.history = msgs, !.budget = b, !.mixed = mixed])
    ELSE Answer(r)

(* No conversation named: a new one, and the first await is the retrieval. *)
NewConversation(r) == \E q \in QuestionSizes, b \in Windows :
    /\ ProviderReady
    /\ Begin(r, [NewTurn(requests + 1, "retrieve", q) EXCEPT !.budget = b])
    /\ UNCHANGED <<convs, configVars>>

Continue(r) == \E q \in QuestionSizes, c \in ConvIds :
    /\ IsStored(c)
    /\ Begin(r, NewTurn(c, "readConv", q))
    /\ UNCHANGED <<convs, configVars>>

(* get_conversation: the row, then the messages.  A conversation that is    *)
(* gone makes the turn start a new one under a fresh id.                    *)
ReadConversation(r) ==
    /\ Reaches(r, "readConv")
    /\ IF IsStored(call[r].conv) THEN Moves(r, "readMessages")
       ELSE WithHistory(r, [call[r] EXCEPT !.conv = call[r].turn, !.cut = FALSE], <<>>, FALSE)
    /\ UNCHANGED <<convs, configVars>>

ReadMessages(r) ==
    /\ Reaches(r, "readMessages")
    /\ WithHistory(r, call[r], convs[call[r].conv].msgs, convs[call[r].conv].mixed)
    /\ UNCHANGED <<convs, configVars>>

(* The retrieval runs off the event loop; what it raises is not caught and  *)
(* ends the stream.  Then the context is as large as it may be, or empty.   *)
Retrieve(r) ==
    LET c == call[r]
        fitted == FittedContext(c.budget, c.size, c.history # <<>>)
    IN  /\ At(r, "retrieve")
        /\ \/ Answer(r)
           \/ \E context \in {0, fitted} :
                Advance(r, [pc |-> "saveQuestion", conv |-> c.conv, turn |-> c.turn, size |-> c.size,
                            history |-> c.history, budget |-> c.budget, cut |-> c.cut, mixed |-> c.mixed,
                            window |-> FitMessages(c.history, Remaining(c.budget, context, c.size)),
                            floored |-> fitted # ContextRoom(c.budget, c.size, c.history # <<>>)])
        /\ UNCHANGED <<convs, configVars>>

Saving(r) == [pc |-> "rereadQuestion", conv |-> call[r].conv, turn |-> call[r].turn, cut |-> call[r].cut]

SaveQuestion(r) ==
    /\ Reaches(r, "saveQuestion")
    /\ SaveMessage(r, call[r].conv, [role |-> "question", turn |-> call[r].turn, size |-> call[r].size, cut |-> FALSE])
    /\ Advance(r, [Saving(r) EXCEPT !.cut = FALSE])
    /\ UNCHANGED configVars

(* save_message reads the conversation back and asserts that it is there. *)
RereadQuestion(r) ==
    /\ Reaches(r, "rereadQuestion")
    /\ IF IsStored(call[r].conv) THEN Moves(r, "stream") ELSE Answer(r)
    /\ UNCHANGED <<convs, configVars>>

StreamAnswer(r) ==
    /\ At(r, "stream")
    /\ \/ Answer(r)
       \/ \E a \in AnswerSizes :
            Advance(r, [pc |-> "saveAnswer", conv |-> call[r].conv, turn |-> call[r].turn,
                        cut |-> call[r].cut, size |-> a])
    /\ UNCHANGED <<convs, configVars>>

SaveAnswer(r) ==
    /\ Reaches(r, "saveAnswer")
    /\ SaveMessage(r, call[r].conv,
                   [role |-> "answer", turn |-> call[r].turn, size |-> call[r].size, cut |-> call[r].cut])
    /\ Advance(r, [Saving(r) EXCEPT !.pc = "rereadAnswer"])
    /\ UNCHANGED configVars

RereadAnswer(r) == Reaches(r, "rereadAnswer") /\ Answer(r) /\ UNCHANGED <<convs, configVars>>

TurnPoints == {"readConv", "readMessages", "retrieve", "saveQuestion", "rereadQuestion",
               "stream", "saveAnswer", "rereadAnswer"}

(* The client goes away: the generator is cancelled at its await. *)
Disconnect(r) == call[r].pc \in TurnPoints /\ Answer(r) /\ UNCHANGED <<convs, configVars>>

(* Mutant: a question that cannot be saved does not end the turn. *)
TurnLostGoesOn(r) ==
    /\ ~postgres /\ call[r].pc \in TurnPoints \ {"retrieve", "stream"}
    /\ IF At(r, "saveQuestion") THEN Advance(r, [Saving(r) EXCEPT !.pc = "stream"]) ELSE Answer(r)
    /\ UNCHANGED <<convs, configVars>>

(* A statement that does not reach Postgres ends the turn with an error. *)
TurnLost(r) ==
    /\ ~postgres /\ call[r].pc \in TurnPoints \ {"retrieve", "stream"}
    /\ Answer(r)
    /\ UNCHANGED <<convs, configVars>>

ConversationStep(r) ==
    \/ NewConversation(r) \/ Continue(r) \/ DeleteConversation(r)
    \/ ReadConversation(r) \/ ReadMessages(r) \/ Retrieve(r)
    \/ SaveQuestion(r) \/ RereadQuestion(r) \/ StreamAnswer(r) \/ SaveAnswer(r) \/ RereadAnswer(r)
    \/ Disconnect(r) \/ TurnLost(r)

(* A transcript whose turns did not overlap has no two answers in a row. *)
AnswersApart(msgs) == \A j \in 1..(Len(msgs) - 1) : msgs[j].role = "answer" => msgs[j + 1].role # "answer"

InitConversations(msgs) ==
    convs = [c \in ConvIds |-> IF c = 0 /\ msgs # <<>>
                               THEN [stored |-> TRUE, titled |-> TRUE, msgs |-> msgs,
                                     mixed |-> ~AnswersApart(msgs)]
                               ELSE NoConv]

-----------------------------------------------------------------------------
(* Properties *)

AnswersFollow(msgs) ==
    \A j \in DOMAIN msgs : msgs[j].role = "answer" =>
        msgs[j].cut \/ \E i \in 1..(j - 1) : msgs[i].role = "question" /\ msgs[i].turn = msgs[j].turn

(* An answer is stored after its own question, and a conversation has a     *)
(* title, unless a deletion came between the two saves of the turn.         *)
AnswersFollowQuestions ==
    \A c \in ConvIds : IsStored(c) =>
        /\ convs[c].titled \/ convs[c].msgs[1].cut
        /\ AnswersFollow(convs[c].msgs)

(* "so the conversation still opens on a user message" (_fit_messages):     *)
(* true of every history but that of a conversation whose turns overlapped. *)
WindowOpensOnQuestion ==
    \A r \in Slots : At(r, "saveQuestion") /\ call[r].window # <<>> /\ ~call[r].mixed
                     => call[r].window[1].role = "question"

(* The slice reserved for history reaches it: when the context was not      *)
(* floored, the newest messages that fit the slice are in the prompt, but   *)
(* for one answer at its front.                                             *)
HistoryHasItsSlice ==
    \A r \in Slots : At(r, "saveQuestion") /\ ~call[r].floored =>
        \A k \in 0..Len(call[r].history) :
            Cost(Newest(call[r].history, k)) <= HistoryReserve(call[r].budget, TRUE)
              => Len(call[r].window) >= k - 1
=============================================================================
