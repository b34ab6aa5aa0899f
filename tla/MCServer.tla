------------------------------ MODULE MCServer ------------------------------
(* Two requests at a time, three in all, on tables that are empty, hold one *)
(* administrator, or two and a viewer; one conversation with one exchange.  *)
EXTENDS Server

User(name, role) == [name |-> name, pw |-> "p", role |-> role]
MCStartUsers == { <<>>, <<User("admin", "admin")>>,
                  <<User("root", "admin"), User("admin", "admin"), User("ann", "viewer")>> }
MCCredentials == {[name |-> n, pw |-> "p"] : n \in {"root", "admin"}}
MCNewUsers == {User("root", "admin")}
MCStartHistory == << [role |-> "question", turn |-> 0, size |-> 2, cut |-> FALSE],
                     [role |-> "answer", turn |-> 0, size |-> 4, cut |-> FALSE] >>
Entry(id, key) == [id |-> id, known |-> TRUE, base |-> "good", key |-> key, var |-> "KEY"]
MCFiles == { <<Entry("corp", "variable")>>, <<Entry("openai", "literal")>> }
MCStartFile == <<Entry("corp", "variable")>>
Body(name, base, key) == [local |-> FALSE, name |-> name, base |-> base, key |-> key, model |-> "m"]
MCConfigRequests == { Body("corp", "none", FALSE), Body("lan", "good", FALSE) }
Symmetric == Permutations(Slots) \cup Permutations(Tokens)
=============================================================================
