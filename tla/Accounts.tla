------------------------------ MODULE Accounts ------------------------------
(***************************************************************************)
(* Users, passwords and bearer sessions: services/auth.py and the handlers  *)
(* of controllers/auth.py.  Every handler is the sequence of its Postgres   *)
(* statements, so two logins, a login and a password change, or two         *)
(* removals interleave between any two of them.  A password stands for its  *)
(* hash and a token for its digest; checking a password is equality.        *)
(***************************************************************************)
EXTENDS Requests, FiniteSets

CONSTANTS MaxUsers,      \* bound on the users ever created; ids are 1..MaxUsers
          Names, Passwords,
          Credentials,   \* what clients log in with: names with passwords
          NewUsers,      \* bodies of POST /auth/users
          Tokens,
          NoValue,
          RootName,      \* DOKKAI_ROOT_USER, or NoValue
          RootPassword,  \* DOKKAI_ROOT_PASSWORD, or NoValue
          DefaultName, DefaultPassword   \* admin / admin

ASSUME RootAssumption ==
    /\ RootName \in Names \cup {NoValue} /\ DefaultName \in Names
    /\ RootPassword \in Passwords \cup {NoValue} /\ DefaultPassword \in Passwords
    /\ NoValue \notin Names \cup Passwords

VARIABLES users,     \* the users table: id -> row, or NoUser
          nextId,    \* the identity column
          sessions,  \* the sessions table: token -> row, or NoSession
          torn       \* history: users whose password change lost its second statement

accountVars == <<users, nextId, sessions, torn>>

Ids == 1..MaxUsers
NoUser == [name |-> NoValue]
NoSession == [user |-> 0]
Exists(i) == users[i] # NoUser
UserIds == {i \in Ids : Exists(i)}
IsOpen(t) == sessions[t] # NoSession
NameTaken(n, others) == \E i \in others : Exists(i) /\ users[i].name = n

(* Dropping sessions, by owner and except one token. *)
Dropped(owners, keep) ==
    [t \in Tokens |-> IF IsOpen(t) /\ sessions[t].user \in owners /\ t \notin keep
                      THEN NoSession ELSE sessions[t]]

InsertUser(n, p, role) ==
    /\ users' = [users EXCEPT ![nextId] = [name |-> n, pw |-> p, role |-> role]]
    /\ nextId' = nextId + 1

(* require_auth: the session row joined with its user, when it has not expired. *)
Resolves(t) == postgres /\ IsOpen(t) /\ sessions[t].live
Role(t) == users[sessions[t].user].role
Writer(t) == Resolves(t) /\ Role(t) \in {"admin", "user"}
Admin(t) == Resolves(t) /\ Role(t) = "admin"

-----------------------------------------------------------------------------
(* ensure_seeded *)

SeedRow == [name |-> IF RootName = NoValue THEN DefaultName ELSE RootName,
            pw |-> IF RootPassword = NoValue THEN DefaultPassword ELSE RootPassword]

RootManaged == RootName # NoValue \/ RootPassword # NoValue

(* What the environment wants row 1 to be.  A part it does not set is the   *)
(* part of the row as it was read.                                          *)
Rotated(row) ==
    [row EXCEPT !.name = IF RootName = NoValue THEN @ ELSE RootName,
                !.pw = IF RootPassword = NoValue THEN @ ELSE RootPassword]

Rotates(row) == Rotated(row) # row

(* Mutant: the environment's new credentials do not end the old sessions. *)
RotateRootKeepsSessions(row) ==
    /\ users' = IF Exists(1)
                THEN [users EXCEPT ![1].name = Rotated(row).name, ![1].pw = Rotated(row).pw]
                ELSE users
    /\ UNCHANGED <<nextId, sessions, torn>>

(* The transaction that rotates user 1: the row and its sessions together. *)
RotateRoot(row) ==
    /\ users' = IF Exists(1)
                THEN [users EXCEPT ![1].name = Rotated(row).name, ![1].pw = Rotated(row).pw]
                ELSE users
    /\ sessions' = Dropped({1}, {})
    /\ torn' = torn \ {1}
    /\ nextId' = nextId

(* The boot hook runs the whole of ensure_seeded before anything is served. *)
SeedAtBoot ==
    IF ~postgres THEN UNCHANGED accountVars
    ELSE IF UserIds = {}
    THEN /\ nextId \in Ids
         /\ InsertUser(SeedRow.name, SeedRow.pw, "admin")
         /\ UNCHANGED <<sessions, torn>>
    ELSE IF Exists(1) /\ Rotates(users[1]) /\ ~NameTaken(Rotated(users[1]).name, Ids \ {1})
    THEN RotateRoot(users[1])
    ELSE UNCHANGED accountVars

-----------------------------------------------------------------------------
(* POST /auth/login *)

Login(r) == \E c \in Credentials :
    /\ Begin(r, [pc |-> "seedCount", name |-> c.name, pw |-> c.pw])
    /\ UNCHANGED accountVars

SeedCount(r) ==
    /\ Reaches(r, "seedCount")
    /\ Moves(r, IF UserIds = {} THEN "seedInsert"
                ELSE IF RootManaged THEN "seedRow" ELSE "purge")
    /\ UNCHANGED accountVars

(* ON CONFLICT (username) DO NOTHING: the loser of two first seeds is a no-op. *)
SeedInsert(r) ==
    /\ Reaches(r, "seedInsert")
    /\ IF NameTaken(SeedRow.name, Ids) THEN UNCHANGED <<users, nextId>>
       ELSE nextId \in Ids /\ InsertUser(SeedRow.name, SeedRow.pw, "admin")
    /\ Moves(r, "purge")
    /\ UNCHANGED <<sessions, torn>>

SeedReadRow(r) ==
    /\ Reaches(r, "seedRow")
    /\ IF Exists(1) /\ Rotates(users[1])
       THEN Advance(r, [pc |-> "rotate", name |-> call[r].name, pw |-> call[r].pw, row |-> users[1]])
       ELSE Moves(r, "purge")
    /\ UNCHANGED accountVars

(* A username that another user has fails the unique constraint and the     *)
(* login with it; a row deleted meanwhile is an update of nothing.          *)
SeedRotate(r) ==
    /\ Reaches(r, "rotate")
    /\ IF Exists(1) /\ NameTaken(Rotated(call[r].row).name, Ids \ {1})
       THEN Answer(r) /\ UNCHANGED accountVars
       ELSE /\ RotateRoot(call[r].row)
            /\ Advance(r, [pc |-> "purge", name |-> call[r].name, pw |-> call[r].pw])

PurgeExpired(r) ==
    /\ Reaches(r, "purge")
    /\ sessions' = [t \in Tokens |-> IF IsOpen(t) /\ ~sessions[t].live THEN NoSession ELSE sessions[t]]
    /\ Moves(r, "lookup")
    /\ UNCHANGED <<users, nextId, torn>>

(* The password is checked against the row as read here, two awaits before  *)
(* the session is created.                                                  *)
LookupUser(r) ==
    /\ Reaches(r, "lookup")
    /\ \/ \E i \in UserIds :
            /\ users[i].name = call[r].name /\ users[i].pw = call[r].pw
            /\ Advance(r, [pc |-> "newSession", user |-> i, pw |-> call[r].pw])
       \/ /\ ~ \E i \in UserIds : users[i].name = call[r].name /\ users[i].pw = call[r].pw
          /\ Answer(r)
    /\ UNCHANGED accountVars

(* create_session.  A user deleted since the lookup fails the foreign key. *)
CreateSession(r) ==
    /\ Reaches(r, "newSession")
    /\ IF Exists(call[r].user)
       THEN \E t \in Tokens :
              /\ ~IsOpen(t)
              /\ \A q \in Slots : call[q].pc \in {"verify", "newPassword", "dropOthers"} => call[q].token # t
              /\ sessions' = [sessions EXCEPT ![t] =
                    [user |-> call[r].user, live |-> TRUE, pw |-> call[r].pw,
                     late |-> users[call[r].user].pw # call[r].pw]]
       ELSE sessions' = sessions
    /\ Answer(r)
    /\ UNCHANGED <<users, nextId, torn>>

-----------------------------------------------------------------------------
(* Sessions and users *)

(* Time passes; an expiry after the last request of a behaviour is left out. *)
SessionExpires(t) ==
    /\ requests < MaxRequests /\ IsOpen(t) /\ sessions[t].live
    /\ sessions' = [sessions EXCEPT ![t].live = FALSE]
    /\ UNCHANGED <<users, nextId, torn, requestVars>>

(* POST /auth/logout *)
Logout(r) == \E t \in Tokens :
    /\ Resolves(t)
    /\ Begin(r, Idle)
    /\ sessions' = [sessions EXCEPT ![t] = NoSession]
    /\ UNCHANGED <<users, nextId, torn>>

(* POST /auth/users: one insert after the role check. *)
CreateUser(r) == \E t \in Tokens, u \in NewUsers :
    /\ Admin(t) /\ nextId \in Ids /\ ~NameTaken(u.name, Ids)
    /\ Begin(r, Idle)
    /\ InsertUser(u.name, u.pw, u.role)
    /\ UNCHANGED <<sessions, torn>>

(* DELETE /auth/users/{id}: admitted for an admin and not for oneself. *)
RemoveUser(r) == \E t \in Tokens, i \in Ids :
    /\ Admin(t) /\ i # sessions[t].user
    /\ Begin(r, [pc |-> "listUsers", target |-> i])
    /\ UNCHANGED accountVars

(* The admins are counted on a list that the delete does not hold. *)
LastAdmin(i) == users[i].role = "admin" /\ Cardinality({j \in UserIds : users[j].role = "admin"}) <= 1

CountAdmins(r) ==
    /\ Reaches(r, "listUsers")
    /\ IF Exists(call[r].target) /\ ~LastAdmin(call[r].target) THEN Moves(r, "deleteUser") ELSE Answer(r)
    /\ UNCHANGED accountVars

(* The row goes and its sessions with it; a row already gone is no error. *)
DeleteUser(r) ==
    /\ Reaches(r, "deleteUser")
    /\ users' = [users EXCEPT ![call[r].target] = NoUser]
    /\ sessions' = Dropped({call[r].target}, {})
    /\ torn' = torn \ {call[r].target}
    /\ Answer(r)
    /\ UNCHANGED nextId

-----------------------------------------------------------------------------
(* PATCH /auth/users/me/password *)

ChangePassword(r) == \E t \in Tokens, old \in Passwords, new \in Passwords :
    /\ Resolves(t) /\ old # new
    /\ Begin(r, [pc |-> "verify", token |-> t, user |-> sessions[t].user,
                 name |-> users[sessions[t].user].name, old |-> old, new |-> new])
    /\ UNCHANGED accountVars

(* The row is looked up by the name the session had. *)
VerifyOld(r) ==
    /\ Reaches(r, "verify")
    /\ IF \E i \in UserIds : users[i].name = call[r].name /\ users[i].pw = call[r].old
       THEN Moves(r, "newPassword") ELSE Answer(r)
    /\ UNCHANGED accountVars

(* update_password, first statement.  The session that makes the request is *)
(* recorded as knowing the new password.                                    *)
SetPassword(r) ==
    LET i == call[r].user  t == call[r].token IN
    /\ Reaches(r, "newPassword")
    /\ users' = IF Exists(i) THEN [users EXCEPT ![i].pw = call[r].new] ELSE users
    /\ sessions' = IF IsOpen(t) THEN [sessions EXCEPT ![t].pw = call[r].new] ELSE sessions
    /\ Moves(r, "dropOthers")
    /\ UNCHANGED <<nextId, torn>>

(* update_password, second statement. *)
DropOthers(r) ==
    /\ Reaches(r, "dropOthers")
    /\ sessions' = Dropped({call[r].user}, {call[r].token})
    /\ torn' = IF IsOpen(call[r].token) /\ sessions[call[r].token].pw # users[call[r].user].pw
               THEN torn ELSE torn \ {call[r].user}
    /\ Answer(r)
    /\ UNCHANGED <<users, nextId>>

AccountPoints == {"seedCount", "seedInsert", "seedRow", "rotate", "purge", "lookup", "newSession",
                  "listUsers", "deleteUser", "verify", "newPassword", "dropOthers"}

(* Users whose password change is between its two statements in S. *)
Tears(S) == {call[r].user : r \in {s \in S : At(s, "dropOthers")}}

(* A statement that does not reach Postgres ends its handler. *)
AccountLost(r) ==
    /\ ~postgres /\ call[r].pc \in AccountPoints
    /\ torn' = torn \cup Tears({r})
    /\ Answer(r)
    /\ UNCHANGED <<users, nextId, sessions>>

AccountsDie == torn' = torn \cup Tears(Slots) /\ UNCHANGED <<users, nextId, sessions>>

AccountStep(r) ==
    \/ Login(r) \/ SeedCount(r) \/ SeedInsert(r) \/ SeedReadRow(r) \/ SeedRotate(r)
    \/ PurgeExpired(r) \/ LookupUser(r) \/ CreateSession(r)
    \/ Logout(r) \/ CreateUser(r)
    \/ RemoveUser(r) \/ CountAdmins(r) \/ DeleteUser(r)
    \/ ChangePassword(r) \/ VerifyOld(r) \/ SetPassword(r) \/ DropOthers(r)
    \/ AccountLost(r)

(* The tables a server may start from. *)
InitAccounts(rows, owner) ==
    /\ users = [i \in Ids |-> IF i \in DOMAIN rows THEN rows[i] ELSE NoUser]
    /\ nextId = Cardinality(DOMAIN rows) + 1
    /\ sessions = [t \in Tokens |->
          IF owner[t] = 0 THEN NoSession
          ELSE [user |-> owner[t], live |-> TRUE, pw |-> rows[owner[t]].pw, late |-> FALSE]]
    /\ torn = {}

-----------------------------------------------------------------------------
(* Properties *)

Changing(i) == \E r \in Slots : At(r, "dropOthers") /\ call[r].user = i

(* A session outlives the password it was opened with only while the        *)
(* request that changed the password is between its two statements, or when *)
(* its login had read the old row before the change, or when the second     *)
(* statement of the change was lost.                                        *)
SessionsMatchPassword ==
    \A t \in Tokens : IsOpen(t) =>
        \/ sessions[t].pw = users[sessions[t].user].pw
        \/ sessions[t].late
        \/ Changing(sessions[t].user)
        \/ sessions[t].user \in torn

(* "Cannot delete yourself or the last admin" (controllers/auth.py). *)
AnAdminRemains == UserIds # {} => \E i \in UserIds : users[i].role = "admin"
=============================================================================
