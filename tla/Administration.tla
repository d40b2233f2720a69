--------------------------- MODULE Administration ---------------------------
(***************************************************************************)
(* The first user and the settings: POST /auth/bootstrap, the reads and    *)
(* changes of /settings/matching-rules and /settings/tax-rules             *)
(* (api/main.py, api/settings.py), and the dependencies that let a request *)
(* in (api/auth.py).  Each request is a session of its own against one     *)
(* database at READ COMMITTED.  Users are never changed or removed.        *)
(*                                                                         *)
(* An INSERT waits for another open transaction that inserted its unique   *)
(* key, an UPDATE for one that updated its row; SQLAlchemy sends an UPDATE *)
(* only for a value that differs from the one it read.                     *)
(***************************************************************************)
EXTENDS Naturals, Sequences, FiniteSets

CONSTANTS
    Request,     \* the requests that are ever served
    Email,
    Role,        \* controller, analyst, auditor-viewer
    WriteRole,   \* those require_write_role lets in
    Value,       \* what tax rules are changed to
    Tolerances,  \* what matching rules are changed to
    Default      \* what DEFAULTS says of either key; it can be sent, too

Key == {"matching_rules", "tax_rules"}
Input == [kind : {"bootstrap"}, email : Email, role : Role]
            \cup [kind : {"get"}, key : Key]
            \cup [kind : {"patch"}, key : {"tax_rules"}, value : Value]
            \cup [kind : {"patch"}, key : {"matching_rules"}, value : Tolerances]

VARIABLES
    users,       \* the roles of the committed users, by email
    settings,    \* the values each key was committed with: the last is the
                 \* row of application_settings, the others are history
    pc,
    input,       \* its route, with what it was sent
    read,        \* how many values its key had when it read the row
    answer,      \* the value it was answered with
    outcome,
    began        \* history: the users and the values when it arrived

vars == <<users, settings, pc, input, read, answer, outcome, began>>

NoInput == [kind |-> "none"]
Start == [users |-> {}, settings |-> [key \in Key |-> 0]]

Init ==
    /\ \E earlier \in {emails \in SUBSET Email : Cardinality(emails) <= 1} :
          users \in [earlier -> Role]
    /\ settings = [key \in Key |-> <<>>]
    /\ pc = [r \in Request |-> "idle"]
    /\ input = [r \in Request |-> NoInput]
    /\ read = [r \in Request |-> 0]
    /\ answer = [r \in Request |-> Default]
    /\ outcome = [r \in Request |-> "none"]
    /\ began = [r \in Request |-> Start]

\* The value that a reader of n values of a key finds: DEFAULTS without a row.
ValueAt(key, n) == IF n = 0 THEN Default ELSE settings[key][n].value

End(r, how) ==
    /\ pc' = [pc EXCEPT ![r] = "ended"]
    /\ outcome' = [outcome EXCEPT ![r] = how]

Arrive(r) ==
    /\ pc[r] = "idle"
    /\ \E sent \in Input :
          /\ input' = [input EXCEPT ![r] = sent]
          /\ pc' = [pc EXCEPT ![r] =
                IF sent.kind = "bootstrap" THEN "bootstrap" ELSE "current_user"]
    /\ began' = [began EXCEPT ![r] =
          [users |-> DOMAIN users, settings |-> [key \in Key |-> Len(settings[key])]]]
    /\ UNCHANGED <<users, settings, read, answer, outcome>>

-----------------------------------------------------------------------------
(* POST /auth/bootstrap *)

\* Fault: the users are not looked at.
BootstrapUnchecked(r) ==
    /\ pc[r] = "bootstrap"
    /\ pc' = [pc EXCEPT ![r] = "insert"]
    /\ UNCHANGED <<users, settings, input, read, answer, outcome, began>>

Bootstrap(r) ==
    /\ pc[r] = "bootstrap"
    /\ DOMAIN users = {}
    /\ pc' = [pc EXCEPT ![r] = "insert"]
    /\ UNCHANGED <<users, settings, input, read, answer, outcome, began>>

\* A user is found, or the role that was sent is none that users can have.
BootstrapRefused(r) ==
    /\ pc[r] = "bootstrap"
    /\ End(r, "refused")
    /\ UNCHANGED <<users, settings, input, read, answer, began>>

\* users.email is unique.
EmailIsHeld(r) ==
    \E e \in Request \ {r} :
        pc[e] = "commit-user" /\ input[e].email = input[r].email

InsertUser(r) ==
    /\ pc[r] = "insert"
    /\ ~EmailIsHeld(r)
    /\ input[r].email \notin DOMAIN users
    /\ pc' = [pc EXCEPT ![r] = "commit-user"]
    /\ UNCHANGED <<users, settings, input, read, answer, outcome, began>>

InsertUserFails(r) ==
    /\ pc[r] = "insert"
    /\ input[r].email \in DOMAIN users
    /\ End(r, "error")
    /\ UNCHANGED <<users, settings, input, read, answer, began>>

CommitUser(r) ==
    /\ pc[r] = "commit-user"
    /\ users' = [email \in DOMAIN users \cup {input[r].email} |->
          IF email = input[r].email THEN input[r].role ELSE users[email]]
    /\ End(r, "ok")
    /\ UNCHANGED <<settings, input, read, answer, began>>

-----------------------------------------------------------------------------
(* Dependencies: current_user and require_write_role *)

\* The token is of a user with a role that may send this request.
Admit(r) ==
    /\ pc[r] = "current_user"
    /\ \E email \in DOMAIN users :
          input[r].kind = "get" \/ users[email] \in WriteRole
    /\ pc' = [pc EXCEPT ![r] = input[r].kind]
    /\ UNCHANGED <<users, settings, input, read, answer, outcome, began>>

\* No token, one that is not valid, or the role of a viewer.
Refuse(r) ==
    /\ pc[r] = "current_user"
    /\ End(r, "refused")
    /\ UNCHANGED <<users, settings, input, read, answer, began>>

-----------------------------------------------------------------------------
(* get_setting and update_setting *)

Written(r) == Len(settings[input[r].key])

GetSetting(r) ==
    /\ pc[r] = "get"
    /\ answer' = [answer EXCEPT ![r] = ValueAt(input[r].key, Written(r))]
    /\ End(r, "ok")
    /\ UNCHANGED <<users, settings, input, read, began>>

ReadSetting(r) ==
    /\ pc[r] = "patch"
    /\ read' = [read EXCEPT ![r] = Written(r)]
    /\ pc' = [pc EXCEPT ![r] = "write"]
    /\ UNCHANGED <<users, settings, input, answer, outcome, began>>

\* The flush has something to write: a new row, or a new value.
Writes(r) == read[r] = 0 \/ ValueAt(input[r].key, read[r]) # input[r].value

\* Tolerances are Decimals, which JSONB's serializer does not take.
NotSerializable(r) ==
    /\ pc[r] = "write"
    /\ Writes(r) /\ input[r].key = "matching_rules"
    /\ End(r, "error")
    /\ UNCHANGED <<users, settings, input, read, answer, began>>

\* Another open transaction has written the row.
RowIsHeld(r) ==
    \E e \in Request \ {r} :
        pc[e] = "commit" /\ input[e].key = input[r].key /\ Writes(e)

Write(r) ==
    /\ pc[r] = "write"
    /\ Writes(r) => /\ input[r].key # "matching_rules"
                    /\ ~RowIsHeld(r)
                    /\ read[r] = 0 => Written(r) = 0
    /\ pc' = [pc EXCEPT ![r] = "commit"]
    /\ UNCHANGED <<users, settings, input, read, answer, outcome, began>>

\* Fault: a key that has been committed is waited for.
InsertWaits(r) ==
    /\ pc[r] = "write"
    /\ read[r] = 0 /\ Written(r) > 0 /\ RowIsHeld(r)
    /\ End(r, "error")
    /\ UNCHANGED <<users, settings, input, read, answer, began>>

\* Two first writers of a key: it was committed after this one read no row.
InsertConflicts(r) ==
    /\ pc[r] = "write"
    /\ read[r] = 0 /\ Written(r) > 0
    /\ End(r, "error")
    /\ UNCHANGED <<users, settings, input, read, answer, began>>

\* Fault: the change is flushed and never committed.
CommitNothing(r) ==
    /\ pc[r] = "commit"
    /\ answer' = [answer EXCEPT ![r] = input[r].value]
    /\ End(r, "ok")
    /\ UNCHANGED <<users, settings, input, read, began>>

\* The answer is the value that was sent.
Commit(r) ==
    /\ pc[r] = "commit"
    /\ settings' = IF Writes(r)
          THEN [settings EXCEPT ![input[r].key] =
                   Append(@, [value |-> input[r].value, by |-> r])]
          ELSE settings
    /\ answer' = [answer EXCEPT ![r] = input[r].value]
    /\ End(r, "ok")
    /\ UNCHANGED <<users, input, read, began>>

\* The process dies, or its connection: PostgreSQL rolls back.
Crash(r) ==
    /\ pc[r] \notin {"idle", "ended"}
    /\ End(r, "crashed")
    /\ UNCHANGED <<users, settings, input, read, answer, began>>

Serve(r) ==
    \/ Bootstrap(r) \/ BootstrapRefused(r) \/ InsertUser(r) \/ InsertUserFails(r)
    \/ CommitUser(r) \/ Admit(r) \/ Refuse(r)
    \/ GetSetting(r) \/ ReadSetting(r) \/ NotSerializable(r)
    \/ Write(r) \/ InsertConflicts(r) \/ Commit(r)

Next == \E r \in Request : Arrive(r) \/ Serve(r) \/ Crash(r)

Spec == Init /\ [][Next]_vars

\* While some request that is being served can go on, one of them does;
\* nothing forces requests or crashes.
FairSpec == Spec /\ WF_vars(\E r \in Request : Serve(r))

-----------------------------------------------------------------------------
(* Properties *)

\* The variables hold what the tables and the requests hold.
TypeOK ==
    /\ DOMAIN users \subseteq Email /\ users \in [DOMAIN users -> Role]
    /\ settings \in [Key -> Seq([value : Value \cup Tolerances, by : Request])]
    /\ pc \in [Request -> {"idle", "bootstrap", "insert", "commit-user",
                           "current_user", "get", "patch", "write", "commit", "ended"}]
    /\ input \in [Request -> Input \cup {NoInput}]
    /\ read \in [Request -> Nat]
    /\ \A r \in Request : input[r].kind \in {"get", "patch"} => read[r] <= Written(r)
    /\ answer \in [Request -> Value \cup Tolerances \cup {Default}]
    /\ outcome \in [Request -> {"none", "ok", "refused", "error", "crashed"}]

\* A bootstrap that arrives after a user was committed creates none
\* (PRODUCTION_LOGIN_FIX.md:4), and the user it is answered with is the one
\* that is stored.  Bootstraps that overlap can each create one, but not of
\* the same email.
LateBootstrapsFail ==
    \A r \in Request :
        input[r].kind = "bootstrap" /\ outcome[r] = "ok" =>
            /\ began[r].users = {}
            /\ input[r].email \in DOMAIN users
            /\ users[input[r].email] = input[r].role
            /\ \A e \in Request \ {r} :
                  input[e].kind = "bootstrap" /\ outcome[e] = "ok"
                      => input[e].email # input[r].email

\* What a request on settings is answered was the value of its key at some
\* moment while it was served, although it reads before it writes and may not
\* write at all; and what fails, or is refused, has written nothing.
AnswersWereStored ==
    \A r \in Request :
        /\ (outcome[r] = "ok" /\ input[r].kind \in {"get", "patch"}) =>
              \E n \in began[r].settings[input[r].key]..Written(r) :
                  answer[r] = ValueAt(input[r].key, n)
        /\ \A key \in Key : \A n \in 1..Len(settings[key]) :
              settings[key][n].by = r => outcome[r] = "ok"

\* First writers and later ones wait for each other; every request ends,
\* so that again and again none is left.
EveryRequestEnds == []<>(\A r \in Request : pc[r] \in {"idle", "ended"})

=============================================================================
