------------------------------ MODULE Accounts ------------------------------
(***************************************************************************)
(* The accounts of users: who logs in as which, and what becomes of the    *)
(* settings that the two dashboards change.                                *)
(*                                                                         *)
(* Most handlers that change an account read its row, change some fields   *)
(* and write all of it back but the password: two statements, without a    *)
(* transaction, each handler in a goroutine of its own.  A login is two    *)
(* steps as well: bcrypt takes its time after the row was read.            *)
(*                                                                         *)
(* A plan stands for its name and the limits that are copied with it.      *)
(* The administrator's sessions, and display names, are left out.          *)
(***************************************************************************)
EXTENDS Naturals, FiniteSets

CONSTANTS
    Names, Passwords, Plans,
    Handlers,       \* requests that are served at a time
    Unknown,        \* of a setting that requests disagree on, or that a request does not mention
    Managed,        \* bound: the accounts whose settings are changed
    MaxId,          \* bound: accounts ever created
    MaxSessions     \* bound: sessions at a time

ASSUME AccountsAssumption ==
    /\ MaxId \in Nat
    /\ MaxSessions \in Nat
    /\ Unknown \notin BOOLEAN \cup Plans \cup Names

VARIABLES
    login,          \* login[i]: name and password in the row of account i, or NoLogin
    settings,       \* settings[i]: what else is in it
    nextId,         \* what AUTOINCREMENT hands out next
    request,        \* request[h]: what handler h is busy with, or NoRequest
    sessions,       \* the user dashboard's sessions, in memory
    asked,          \* observation: asked[i]: the settings that requests have last asked for
    excused         \* observation: restricted accounts that rotate by who need not ask

vars == <<login, settings, nextId, request, sessions, asked, excused>>

Ids == 1..MaxId
Login == [name : Names, password : Passwords]
NoLogin == [name |-> Unknown, password |-> Unknown]
Settings == [enabled : BOOLEAN, allow : BOOLEAN, rotation : BOOLEAN, plan : Plans]
NoSettings == [enabled |-> FALSE, allow |-> FALSE, rotation |-> FALSE, plan |-> Unknown]

Fields == {"enabled", "allow", "rotation", "plan"}

\* Some settings, and Unknown for the others
Changes == [enabled : BOOLEAN \cup {Unknown}, allow : BOOLEAN \cup {Unknown},
            rotation : BOOLEAN \cup {Unknown}, plan : Plans \cup {Unknown}]
NoChanges == [enabled |-> Unknown, allow |-> Unknown, rotation |-> Unknown, plan |-> Unknown]

\* former: observation, the password was changed after it was read.
Session == [user : Ids, name : Names, password : Passwords, former : BOOLEAN]

\* write: the row of account id as it will be written.  by, changes, stale: observations, which
\* handler it is, what it was asked, and that another wrote the row after it was read.
Request ==
    [op : {"login"}, session : Session, password : Passwords]
    \cup [op : {"write"}, id : Ids, row : Settings, changes : Changes, stale : BOOLEAN,
          by : {"updateUser", "setUserSMTPMode", "userSetRotation", "userAssignSMTP"}]
NeedNotAsk == {"updateUser", "userAssignSMTP"}
NoRequest == [op |-> "none"]

Exists(i) == login[i] # NoLogin

TypeOK ==
    /\ login \in [Ids -> Login \cup {NoLogin}]
    /\ \A i, j \in Ids : Exists(i) /\ Exists(j) /\ login[i].name = login[j].name => i = j
    /\ settings \in [Ids -> Settings \cup {NoSettings}]
    /\ \A i \in Ids : Exists(i) => settings[i] \in Settings
    /\ nextId \in 1..MaxId + 1
    /\ request \in [Handlers -> Request \cup {NoRequest}]
    /\ sessions \subseteq Session
    /\ asked \in [Ids -> Changes]
    /\ excused \subseteq Ids

Init ==
    /\ login = [i \in Ids |-> NoLogin]
    /\ settings = [i \in Ids |-> NoSettings]
    /\ nextId = 1
    /\ request = [h \in Handlers |-> NoRequest]
    /\ sessions = {}
    /\ asked = [i \in Ids |-> NoChanges]
    /\ excused = {}

-----------------------------------------------------------------------------
(* Accounts *)

Free(h) == request[h] = NoRequest
Pending(h, op) == request[h].op = op
Becomes(h, r) == request' = [request EXCEPT ![h] = r]

\* A bug: numbers of deleted rows at the end are given out again (no AUTOINCREMENT).
NewId_bug == CHOOSE i \in 1..nextId :
                (\A j \in Ids : Exists(j) => j < i) /\ (i = 1 \/ Exists(i - 1))

NewId == nextId

\* A bug: UNIQUE is missing.
Taken_bug(name) == FALSE

\* username TEXT NOT NULL UNIQUE
Taken(name) == \E i \in Ids : Exists(i) /\ login[i].name = name

\* Of the settings of an account: it is restricted to upstreams of the system, and rotates.
Rotates(row) == row.rotation /\ ~row.allow

Create(name, password, row) ==
    /\ nextId <= MaxId
    /\ ~Taken(name)
    /\ login' = [login EXCEPT ![NewId] = [name |-> name, password |-> password]]
    /\ settings' = [settings EXCEPT ![NewId] = row]
    /\ asked' = [asked EXCEPT ![NewId] = row]
    /\ excused' = IF Rotates(row) THEN excused \cup {NewId} ELSE excused
    /\ nextId' = nextId + 1
    /\ UNCHANGED <<request, sessions>>

Registered(plan) == [enabled |-> TRUE, allow |-> TRUE, rotation |-> FALSE, plan |-> plan]

\* By anybody, with whatever package is the default
UserRegister(name, password, plan) == Create(name, password, Registered(plan))

\* By the administrator
CreateUser(name, password, row) ==
    /\ nextId \in Managed
    /\ Create(name, password, row)

\* deleteUser: the last statement of DeleteHard
DeleteUser(i) ==
    /\ Exists(i)
    /\ login' = [login EXCEPT ![i] = NoLogin]
    /\ settings' = [settings EXCEPT ![i] = NoSettings]
    /\ asked' = [asked EXCEPT ![i] = NoChanges]
    /\ excused' = excused \ {i}
    /\ UNCHANGED <<nextId, request, sessions>>

\* SetPassword is one statement, which leaves sessions alone.
SetPassword(i, password) ==
    /\ Exists(i)
    /\ password # login[i].password
    /\ login' = [login EXCEPT ![i].password = password]
    /\ sessions' = {IF s.user = i THEN [s EXCEPT !.former = TRUE] ELSE s : s \in sessions}
    /\ request' = [h \in Handlers |->
                    IF Pending(h, "login") /\ request[h].session.user = i
                    THEN [request[h] EXCEPT !.session.former = TRUE]
                    ELSE request[h]]
    /\ UNCHANGED <<settings, nextId, asked, excused>>

-----------------------------------------------------------------------------
(* Sessions *)

\* Validate finds the account by its name, and it is enabled.
ReadAccount(h, name, password) ==
    /\ Free(h)
    /\ \E i \in Ids :
        /\ Exists(i) /\ login[i].name = name /\ settings[i].enabled
        /\ Becomes(h, [op |-> "login", password |-> login[i].password,
                       session |-> [user |-> i, name |-> name, password |-> password,
                                    former |-> FALSE]])
    /\ UNCHANGED <<login, settings, nextId, sessions, asked, excused>>

\* A bug: the password is not compared.
Right_bug(h) == TRUE

Right(h) == request[h].session.password = request[h].password

PasswordRight(h) ==
    /\ Pending(h, "login")
    /\ Right(h)
    /\ Cardinality(sessions) < MaxSessions
    /\ sessions' = sessions \cup {request[h].session}
    /\ Becomes(h, NoRequest)
    /\ UNCHANGED <<login, settings, nextId, asked, excused>>

PasswordWrong(h) ==
    /\ Pending(h, "login")
    /\ ~Right(h)
    /\ Becomes(h, NoRequest)
    /\ UNCHANGED <<login, settings, nextId, sessions, asked, excused>>

\* After 24 hours; nothing else ends a session, neither of an account that is gone.
Expire(s) ==
    /\ sessions' = sessions \ {s}
    /\ UNCHANGED <<login, settings, nextId, request, asked, excused>>

-----------------------------------------------------------------------------
(* Settings *)

\* A handler has read the row of i, checked it and changed it.
Reads(h, i, by, row, changes) ==
    /\ Free(h)
    /\ Exists(i)
    /\ i \in Managed
    /\ Becomes(h, [op |-> "write", id |-> i, row |-> row, changes |-> changes, stale |-> FALSE,
                   by |-> by])
    /\ UNCHANGED <<login, settings, nextId, sessions, asked, excused>>

Given(changes, field, row) == IF changes[field] = Unknown THEN row[field] ELSE changes[field]

\* A bug: AllowUserSMTP is a bool and not a pointer, so that a missing one is false.
Updated_bug(changes, row) == [changes EXCEPT !.allow = changes.allow = TRUE]

\* Only allow_user_smtp may be missing.
Updated(changes, row) == [changes EXCEPT !.allow = Given(changes, "allow", row)]

UpdateUser(h, i, changes) ==
    /\ Unknown \notin {changes.enabled, changes.rotation, changes.plan}
    /\ Reads(h, i, "updateUser", Updated(changes, settings[i]), changes)

\* A bug: an account that is restricted goes on rotating.
Restricted_bug(row) == [row EXCEPT !.allow = FALSE]

Restricted(row) == [row EXCEPT !.allow = FALSE, !.rotation = FALSE]

SetUserSMTPMode(h, i, allow) ==
    IF allow
    THEN Reads(h, i, "setUserSMTPMode", [settings[i] EXCEPT !.allow = TRUE],
               [NoChanges EXCEPT !.allow = TRUE])
    ELSE Reads(h, i, "setUserSMTPMode", Restricted(settings[i]), Restricted(NoChanges))

\* By the user
UserSetRotation(h, s, enabled) ==
    /\ Exists(s.user)
    /\ settings[s.user].allow \/ ~enabled
    /\ Reads(h, s.user, "userSetRotation", [settings[s.user] EXCEPT !.rotation = enabled],
             [NoChanges EXCEPT !.rotation = enabled])

\* By the user: the assignment is made, and the row is read once more to turn rotation on.
UserAssignSMTP(h, s) ==
    Reads(h, s.user, "userAssignSMTP", [settings[s.user] EXCEPT !.rotation = TRUE],
          [NoChanges EXCEPT !.rotation = TRUE])

\* The requests that have read the row of i before it is written, by another
OtherRequests(i) ==
    [h \in Handlers |->
        IF Pending(h, "write") /\ request[h].id = i THEN [request[h] EXCEPT !.stale = TRUE]
        ELSE request[h]]

\* What is asked of an account is what its last request was asked, and what was asked before of
\* what that leaves alone: unless its row was out of date, which it wrote back whole.
AskedAfter(r) ==
    LET After(field) ==
            IF r.changes[field] # Unknown THEN r.changes[field]
            ELSE IF r.stale THEN Unknown ELSE asked[r.id][field]
    IN  [enabled |-> After("enabled"), allow |-> After("allow"),
         rotation |-> After("rotation"), plan |-> After("plan")]

\* Update writes the row if there still is one.
Update(h) ==
    /\ Pending(h, "write")
    /\ LET r == request[h] IN
       /\ request' = [OtherRequests(r.id) EXCEPT ![h] = NoRequest]
       /\ IF Exists(r.id)
          THEN /\ settings' = [settings EXCEPT ![r.id] = r.row]
               /\ asked' = [asked EXCEPT ![r.id] = AskedAfter(r)]
               /\ excused' = IF ~Rotates(r.row) THEN excused \ {r.id}
                             ELSE IF r.by \in NeedNotAsk THEN excused \cup {r.id}
                             ELSE excused
          ELSE UNCHANGED <<settings, asked, excused>>
    /\ UNCHANGED <<login, nextId, sessions>>

\* assignPackageToUser and userSelectPlan: ApplyPackage is one statement.
ApplyPackage(i, plan) ==
    /\ Exists(i)
    /\ i \in Managed
    /\ settings' = [settings EXCEPT ![i].plan = plan]
    /\ asked' = [asked EXCEPT ![i].plan = plan]
    /\ request' = OtherRequests(i)
    /\ UNCHANGED <<login, nextId, sessions, excused>>

\* A statement fails, or the client is told an error.
Abandon(h) ==
    /\ Becomes(h, NoRequest)
    /\ UNCHANGED <<login, settings, nextId, sessions, asked, excused>>

\* Sessions are lost with the process.
Restart ==
    /\ request' = [h \in Handlers |-> NoRequest]
    /\ sessions' = {}
    /\ UNCHANGED <<login, settings, nextId, asked, excused>>

-----------------------------------------------------------------------------

Anybody ==
    \E name \in Names, password \in Passwords :
        \/ \E plan \in Plans : UserRegister(name, password, plan)
        \/ \E h \in Handlers : ReadAccount(h, name, password)

Administrator ==
    \/ \E name \in Names, password \in Passwords, row \in Settings :
        CreateUser(name, password, row)
    \/ \E i \in Ids :
        \/ DeleteUser(i)
        \/ \E password \in Passwords : SetPassword(i, password)
        \/ \E plan \in Plans : ApplyPackage(i, plan)
        \/ \E h \in Handlers :
            \/ \E changes \in Changes : UpdateUser(h, i, changes)
            \/ \E allow \in BOOLEAN : SetUserSMTPMode(h, i, allow)

User ==
    \E s \in sessions :
        \/ Expire(s)
        \/ \E plan \in Plans : ApplyPackage(s.user, plan)
        \/ \E h \in Handlers :
            \/ \E enabled \in BOOLEAN : UserSetRotation(h, s, enabled)
            \/ UserAssignSMTP(h, s)

Server ==
    \/ \E h \in Handlers : PasswordRight(h) \/ PasswordWrong(h) \/ Update(h) \/ Abandon(h)
    \/ Restart

Next == Anybody \/ Administrator \/ User \/ Server

Spec == Init /\ [][Next]_vars

-----------------------------------------------------------------------------
(* Properties *)

\* What a dashboard has set stays until a request asks for something else: a handler that writes
\* the row back loses nothing that was set before it read the row.  Two requests that overlap do
\* lose settings, and these alone are given up here (Unknown).
SettingsKept ==
    \A i \in Ids : Exists(i) =>
        \A field \in Fields : asked[i][field] \in {Unknown, settings[i][field]}

\* "rotation is disabled for system SMTP only accounts" (userSetRotation): such an account rotates
\* only if the administrator made it so, or it assigned an upstream with rotation, which asks
\* nobody.  An overlap of requests does not bring it about: rotation and what allows it are
\* written together.
RotatesByExcuse ==
    \A i \in Ids : Exists(i) /\ Rotates(settings[i]) => i \in excused

\* A session outlives its account, and the name may be taken again: it never acts for another
\* account than the one whose name it was opened with.
ActsForOpener ==
    \A s \in sessions : Exists(s.user) => login[s.user].name = s.name

\* A session whose password is not the account's belongs to one who knew the former password, when
\* it was changed or at a login that the change overtook.
OnlyFormerPasswords ==
    \A s \in sessions : Exists(s.user) => s.former \/ s.password = login[s.user].password
=============================================================================
