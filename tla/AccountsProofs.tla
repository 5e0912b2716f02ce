--------------------------- MODULE AccountsProofs ---------------------------
(***************************************************************************)
(* That settings stay as they were asked for, and that sessions act for    *)
(* who opened them, for any names, passwords and plans and any number of   *)
(* accounts, of sessions and of requests at a time.                        *)
(***************************************************************************)
EXTENDS Accounts, TLAPS

\* A number that has not been given out is no account; the settings are as asked for.
GoodAccount(i) ==
    /\ i >= nextId => ~Exists(i)
    /\ Exists(i) => /\ \A field \in Fields : asked[i][field] \in {Unknown, settings[i][field]}
                    /\ Rotates(settings[i]) => i \in excused

\* Of a session s, and of a login that will open s if the password read is the one given.
OpenedBy(s, password) ==
    /\ s.user < nextId
    /\ Exists(s.user) =>
          /\ login[s.user].name = s.name
          /\ s.former \/ password = login[s.user].password

\* The row that will be written has the changes in it, and else what is there, unless another
\* wrote it; only those who need not ask write one that is restricted and rotates.
GoodWrite(r) ==
    /\ r.id < nextId
    /\ \A field \in Fields :
          /\ r.changes[field] \in {Unknown, r.row[field]}
          /\ Exists(r.id) /\ ~r.stale /\ r.changes[field] = Unknown =>
                r.row[field] = settings[r.id][field]
    /\ Rotates(r.row) => r.by \in NeedNotAsk

GoodRequest(r) ==
    /\ r.op = "login" => OpenedBy(r.session, r.password)
    /\ r.op = "write" => GoodWrite(r)

IInv ==
    /\ TypeOK
    /\ \A i \in Ids : GoodAccount(i)
    /\ \A s \in sessions : OpenedBy(s, s.password)
    /\ \A h \in Handlers : GoodRequest(request[h])

LEMMA RequestParts ==
    ASSUME NEW r \in Request \cup {NoRequest}
    PROVE  /\ r.op = "login" => r.session \in Session /\ r.password \in Passwords
           /\ r.op = "write" => /\ r.id \in Ids /\ r.row \in Settings /\ r.changes \in Changes
                                /\ r.stale \in BOOLEAN
  BY DEF Request, NoRequest

LEMMA BecomesRequest ==
    ASSUME TypeOK, NEW h \in Handlers, NEW r \in Request \cup {NoRequest}, Becomes(h, r)
    PROVE  /\ request' \in [Handlers -> Request \cup {NoRequest}]
           /\ request'[h] = r
           /\ \A g \in Handlers \ {h} : request'[g] = request[g]
  BY DEF TypeOK, Becomes

\* Steps that leave the tables alone: what is new among requests and sessions is good.
LEMMA TablesKept ==
    ASSUME IInv, UNCHANGED <<login, settings, nextId, asked, excused>>,
           sessions' \subseteq Session, request' \in [Handlers -> Request \cup {NoRequest}],
           \A s \in sessions' \ sessions : OpenedBy(s, s.password),
           \A h \in Handlers : request'[h] = request[h] \/ GoodRequest(request'[h])
    PROVE  IInv'
<1>1. TypeOK'
  BY DEF IInv, TypeOK, Exists
<1>2. \A i \in Ids : GoodAccount(i)'
  BY DEF IInv, GoodAccount, Exists
<1>3. \A s \in sessions' : OpenedBy(s, s.password)'
  BY DEF IInv, OpenedBy, Exists
<1>4. \A h \in Handlers : GoodRequest(request[h])'
  <2> SUFFICES ASSUME NEW h \in Handlers PROVE GoodRequest(request[h])'
    OBVIOUS
  <2>1. GoodRequest(request'[h])
    BY DEF IInv
  <2> QED
    BY <2>1 DEF GoodRequest, OpenedBy, GoodWrite, Exists
<1> QED
  BY <1>1, <1>2, <1>3, <1>4 DEF IInv

\* A new account: its number is in nobody's session or request.
LEMMA CreateIInv ==
    ASSUME IInv, NEW name \in Names, NEW password \in Passwords, NEW row \in Settings,
           Create(name, password, row)
    PROVE  IInv'
<1> DEFINE new == [name |-> name, password |-> password]
<1>1. nextId \in Ids /\ nextId \in Nat /\ nextId' = nextId + 1 /\ nextId' \in 1..MaxId + 1
  BY AccountsAssumption DEF IInv, TypeOK, Create, Ids
<1>2. ~Exists(nextId)
  BY <1>1 DEF IInv, GoodAccount
<1>3. /\ new \in Login
      /\ login' = [login EXCEPT ![nextId] = new]
      /\ login' \in [Ids -> Login \cup {NoLogin}]
  BY <1>1 DEF Create, NewId, IInv, TypeOK, Login
<1>4. /\ settings' = [settings EXCEPT ![nextId] = row]
      /\ settings' \in [Ids -> Settings \cup {NoSettings}]
  BY <1>1 DEF Create, NewId, IInv, TypeOK
<1>5. /\ asked' = [asked EXCEPT ![nextId] = row]
      /\ asked' \in [Ids -> Changes]
  BY <1>1 DEF Create, NewId, IInv, TypeOK, Settings, Changes
<1>6. /\ excused' \subseteq Ids
      /\ excused \subseteq excused'
      /\ Rotates(row) => nextId \in excused'
  BY <1>1 DEF Create, NewId, IInv, TypeOK
<1>7. \A i \in Ids \ {nextId} : login'[i] = login[i] /\ (Exists(i)' <=> Exists(i))
  BY <1>1, <1>3 DEF IInv, TypeOK, Exists
<1>8. \A i \in Ids \ {nextId} : settings'[i] = settings[i] /\ asked'[i] = asked[i]
  BY <1>1, <1>4, <1>5 DEF IInv, TypeOK
<1>9. settings'[nextId] = row /\ asked'[nextId] = row /\ login'[nextId] = new
  BY <1>1, <1>3, <1>4, <1>5 DEF IInv, TypeOK
<1>10. \A i \in Ids \ {nextId} : Exists(i) => login[i].name # name
  BY DEF Create, Taken
<1>11. \A i, j \in Ids : Exists(i)' /\ Exists(j)' /\ login'[i].name = login'[j].name => i = j
  BY <1>7, <1>9, <1>10 DEF IInv, TypeOK
<1>12. \A i \in Ids : Exists(i)' => settings'[i] \in Settings
  BY <1>7, <1>8, <1>9 DEF IInv, TypeOK
<1>13. request' = request /\ sessions' = sessions
  BY DEF Create
<1> HIDE DEF new
<1>14. TypeOK'
  BY <1>1, <1>3, <1>4, <1>5, <1>6, <1>11, <1>12, <1>13 DEF IInv, TypeOK
<1>15. ASSUME NEW i \in Ids PROVE GoodAccount(i)'
  <2>1. CASE i = nextId
    BY <1>1, <1>6, <1>9, <2>1 DEF GoodAccount, Ids
  <2>2. CASE i # nextId
    <3>1. GoodAccount(i)
      BY DEF IInv
    <3> QED
      BY <1>1, <1>6, <1>7, <1>8, <2>2, <3>1 DEF GoodAccount, Ids
  <2> QED
    BY <2>1, <2>2
<1>16. ASSUME NEW s \in Session, NEW pw, OpenedBy(s, pw) PROVE OpenedBy(s, pw)'
  <2>1. s.user \in Ids \ {nextId}
    BY <1>1, <1>16 DEF OpenedBy, Session, Ids
  <2> QED
    BY <1>1, <1>7, <1>16, <2>1 DEF OpenedBy, Ids
<1>17. ASSUME NEW h \in Handlers PROVE GoodRequest(request[h])'
  <2>1. request[h] \in Request \cup {NoRequest} /\ GoodRequest(request[h])
    BY DEF IInv, TypeOK
  <2>2. CASE request[h].op = "login"
    BY <1>13, <1>16, <2>1, <2>2, RequestParts DEF GoodRequest
  <2>3. CASE request[h].op = "write"
    <3>1. request[h].id \in Ids \ {nextId} /\ GoodWrite(request[h])
      BY <1>1, <2>1, <2>3, RequestParts DEF GoodRequest, GoodWrite, Ids
    <3> QED
      BY <1>1, <1>7, <1>8, <1>13, <2>3, <3>1 DEF GoodRequest, GoodWrite, Ids
  <2> QED
    BY <1>13, <2>2, <2>3 DEF GoodRequest
<1>18. \A s \in sessions' : OpenedBy(s, s.password)'
  BY <1>13, <1>16 DEF IInv, TypeOK
<1> QED
  BY <1>14, <1>15, <1>17, <1>18 DEF IInv

\* An account that is gone: what its sessions and requests say of it is void.
LEMMA DeleteIInv ==
    ASSUME IInv, NEW i \in Ids, DeleteUser(i)
    PROVE  IInv'
<1>1. /\ login' \in [Ids -> Login \cup {NoLogin}]
      /\ login'[i] = NoLogin
      /\ \A j \in Ids \ {i} : login'[j] = login[j]
  BY DEF IInv, TypeOK, DeleteUser
<1>2. /\ settings' \in [Ids -> Settings \cup {NoSettings}]
      /\ \A j \in Ids \ {i} : settings'[j] = settings[j]
  BY DEF IInv, TypeOK, DeleteUser
<1>3. NoChanges \in Changes
  BY DEF NoChanges, Changes
<1>4. /\ asked' \in [Ids -> Changes]
      /\ \A j \in Ids \ {i} : asked'[j] = asked[j]
  BY <1>3 DEF IInv, TypeOK, DeleteUser
<1>5. excused' = excused \ {i} /\ nextId' = nextId /\ request' = request /\ sessions' = sessions
  BY DEF DeleteUser
<1>6. ~Exists(i)' /\ \A j \in Ids \ {i} : Exists(j)' <=> Exists(j)
  BY <1>1 DEF Exists
<1>7. TypeOK'
  <2>1. \A j, k \in Ids : Exists(j)' /\ Exists(k)' /\ login'[j].name = login'[k].name => j = k
    BY <1>1, <1>6 DEF IInv, TypeOK
  <2>2. \A j \in Ids : Exists(j)' => settings'[j] \in Settings
    BY <1>2, <1>6 DEF IInv, TypeOK
  <2> QED
    BY <1>1, <1>2, <1>4, <1>5, <2>1, <2>2 DEF IInv, TypeOK
<1>8. \A j \in Ids : GoodAccount(j)'
  BY <1>2, <1>4, <1>5, <1>6 DEF IInv, GoodAccount
<1>9. ASSUME NEW s \in Session, NEW pw, OpenedBy(s, pw) PROVE OpenedBy(s, pw)'
  BY <1>1, <1>5, <1>6, <1>9 DEF OpenedBy, Session
<1>10. ASSUME NEW h \in Handlers PROVE GoodRequest(request[h])'
  <2>1. request[h] \in Request \cup {NoRequest} /\ GoodRequest(request[h])
    BY DEF IInv, TypeOK
  <2>2. CASE request[h].op = "login"
    BY <1>5, <1>9, <2>1, <2>2, RequestParts DEF GoodRequest
  <2>3. CASE request[h].op = "write"
    BY <1>2, <1>5, <1>6, <2>1, <2>3, RequestParts DEF GoodRequest, GoodWrite
  <2> QED
    BY <1>5, <2>2, <2>3 DEF GoodRequest
<1>11. \A s \in sessions' : OpenedBy(s, s.password)'
  BY <1>5, <1>9 DEF IInv, TypeOK
<1> QED
  BY <1>7, <1>8, <1>10, <1>11 DEF IInv

\* A password that is changed makes a former one of what was read, in every session and login.
LEMMA SetPasswordIInv ==
    ASSUME IInv, NEW i \in Ids, NEW password \in Passwords, SetPassword(i, password)
    PROVE  IInv'
<1>1. Exists(i) /\ login[i] \in Login
  BY DEF IInv, TypeOK, SetPassword, Exists
<1>2. /\ login' \in [Ids -> Login \cup {NoLogin}]
      /\ login'[i] \in Login
      /\ login'[i].name = login[i].name
      /\ \A j \in Ids \ {i} : login'[j] = login[j]
  BY <1>1 DEF IInv, TypeOK, SetPassword, Login
<1>3. /\ settings' = settings /\ asked' = asked /\ excused' = excused /\ nextId' = nextId
      /\ sessions' = {IF s.user = i THEN [s EXCEPT !.former = TRUE] ELSE s : s \in sessions}
      /\ request' = [h \in Handlers |->
                        IF Pending(h, "login") /\ request[h].session.user = i
                        THEN [request[h] EXCEPT !.session.former = TRUE]
                        ELSE request[h]]
  BY DEF SetPassword
<1>4. NoLogin \notin Login
  BY AccountsAssumption DEF NoLogin, Login
<1>5. \A j \in Ids : Exists(j)' <=> Exists(j)
  BY <1>1, <1>2, <1>4 DEF Exists
<1>6. ASSUME NEW s \in Session, NEW pw, OpenedBy(s, pw)
      PROVE  /\ s.user # i => OpenedBy(s, pw)'
             /\ s.user = i => /\ [s EXCEPT !.former = TRUE] \in Session
                              /\ OpenedBy([s EXCEPT !.former = TRUE], pw)'
  <2>1. CASE s.user # i
    BY <1>2, <1>3, <1>5, <1>6, <2>1 DEF OpenedBy, Session
  <2>2. CASE s.user = i
    <3> DEFINE t == [s EXCEPT !.former = TRUE]
    <3>1. t \in Session /\ t.user = i /\ t.former /\ t.name = s.name
      BY <2>2 DEF Session
    <3>2. i < nextId' /\ login'[i].name = s.name
      BY <1>1, <1>2, <1>3, <1>6, <2>2 DEF OpenedBy
    <3> HIDE DEF t
    <3>3. OpenedBy(t, pw)'
      BY <3>1, <3>2 DEF OpenedBy
    <3> QED
      BY <2>2, <3>1, <3>3 DEF t
  <2> QED
    BY <2>1, <2>2
<1>7. ASSUME NEW t \in sessions' PROVE t \in Session /\ OpenedBy(t, t.password)'
  <2>1. PICK s \in sessions : t = IF s.user = i THEN [s EXCEPT !.former = TRUE] ELSE s
    BY <1>3
  <2>2. s \in Session /\ OpenedBy(s, s.password)
    BY DEF IInv, TypeOK
  <2>3. t.password = s.password
    BY <2>1, <2>2 DEF Session
  <2> QED
    BY <1>6, <2>1, <2>2, <2>3
<1>8. ASSUME NEW h \in Handlers
      PROVE  request'[h] \in Request \cup {NoRequest} /\ GoodRequest(request[h])'
  <2>1. PICK r \in Request \cup {NoRequest} : r = request[h] /\ GoodRequest(r)
    BY DEF IInv, TypeOK
  <2> DEFINE renewed == [r EXCEPT !.session.former = TRUE]
  <2>2. request'[h] = IF r.op = "login" /\ r.session.user = i THEN renewed ELSE r
    BY <1>3, <2>1 DEF Pending
  <2>3. CASE r.op = "login"
    <3>1. /\ r \in [op : {"login"}, session : Session, password : Passwords]
          /\ OpenedBy(r.session, r.password)
      BY <2>1, <2>3 DEF Request, NoRequest, GoodRequest
    <3>2. CASE r.session.user = i
      <4>1. /\ renewed.op = "login" /\ renewed.password = r.password
            /\ renewed.session = [r.session EXCEPT !.former = TRUE]
        BY <3>1
      <4>2. /\ [r.session EXCEPT !.former = TRUE] \in Session
            /\ OpenedBy([r.session EXCEPT !.former = TRUE], r.password)'
        BY <1>6, <3>1, <3>2
      <4>3. renewed \in Request
        BY <3>1, <4>1, <4>2 DEF Request
      <4>4. request'[h] = renewed
        BY <2>2, <2>3, <3>2
      <4> QED
        BY <4>1, <4>2, <4>3, <4>4 DEF GoodRequest
    <3>3. CASE r.session.user # i
      <4>1. request'[h] = r
        BY <2>2, <3>3
      <4>2. OpenedBy(r.session, r.password)'
        BY <1>6, <3>1, <3>3
      <4> QED
        BY <2>1, <2>3, <4>1, <4>2 DEF GoodRequest
    <3> QED
      BY <3>2, <3>3
  <2>4. CASE r.op # "login"
    <3>1. request'[h] = r
      BY <2>2, <2>4
    <3>2. r.op = "write" => GoodWrite(r)'
      BY <1>3, <1>5, <2>1, RequestParts DEF GoodRequest, GoodWrite
    <3> QED
      BY <2>1, <2>4, <3>1, <3>2 DEF GoodRequest
  <2> QED
    BY <2>3, <2>4
<1>9. request' \in [Handlers -> Request \cup {NoRequest}] /\ sessions' \subseteq Session
  BY <1>3, <1>7, <1>8
<1>10. \A j, k \in Ids : Exists(j)' /\ Exists(k)' /\ login'[j].name = login'[k].name => j = k
  BY <1>1, <1>2, <1>5 DEF IInv, TypeOK
<1>11. TypeOK'
  BY <1>2, <1>3, <1>5, <1>9, <1>10 DEF IInv, TypeOK
<1>12. \A j \in Ids : GoodAccount(j)'
  BY <1>3, <1>5 DEF IInv, GoodAccount
<1> QED
  BY <1>7, <1>8, <1>11, <1>12 DEF IInv

\* A row that is read for a change, and the settings that make of it a request to write it.
LEMMA ReadsIInv ==
    ASSUME IInv, NEW h \in Handlers, NEW i \in Ids, NEW row \in Settings, NEW changes \in Changes,
           NEW by \in {"updateUser", "setUserSMTPMode", "userSetRotation", "userAssignSMTP"},
           Reads(h, i, by, row, changes),
           \A field \in Fields : /\ changes[field] \in {Unknown, row[field]}
                                 /\ changes[field] = Unknown => row[field] = settings[i][field],
           Rotates(row) => by \in NeedNotAsk
    PROVE  IInv'
<1> DEFINE r == [op |-> "write", id |-> i, row |-> row, changes |-> changes, stale |-> FALSE,
                 by |-> by]
<1>1. r \in Request
  BY DEF Request
<1>2. GoodRequest(r)
  <2>1. i < nextId
    BY DEF Reads, IInv, GoodAccount, TypeOK, Ids
  <2>2. GoodWrite(r)
    BY <2>1 DEF GoodWrite
  <2> QED
    BY <2>2 DEF GoodRequest
<1>3. Becomes(h, r)
  BY DEF Reads
<1> HIDE DEF r
<1>4. /\ request' \in [Handlers -> Request \cup {NoRequest}]
      /\ request'[h] = r
      /\ \A g \in Handlers \ {h} : request'[g] = request[g]
  BY <1>1, <1>3, BecomesRequest DEF IInv
<1>5. UNCHANGED <<login, settings, nextId, sessions, asked, excused>>
  BY DEF Reads
<1> QED
  BY <1>2, <1>4, <1>5, TablesKept DEF IInv, TypeOK

LEMMA UpdateUserIInv ==
    ASSUME IInv, NEW h \in Handlers, NEW i \in Ids, NEW changes \in Changes,
           UpdateUser(h, i, changes)
    PROVE  IInv'
<1> DEFINE row == Updated(changes, settings[i])
<1>1. settings[i] \in Settings /\ Reads(h, i, "updateUser", row, changes)
  BY DEF IInv, TypeOK, UpdateUser, Reads
<1>2. /\ changes.enabled \in BOOLEAN /\ changes.rotation \in BOOLEAN /\ changes.plan \in Plans
      /\ changes.allow \in BOOLEAN \cup {Unknown}
  BY DEF UpdateUser, Changes
<1>3. /\ row.enabled = changes.enabled /\ row.rotation = changes.rotation
      /\ row.plan = changes.plan
      /\ row.allow = IF changes.allow = Unknown THEN settings[i].allow ELSE changes.allow
  BY DEF Updated, Given, Changes
<1>4. row \in Settings
  BY <1>1, <1>2 DEF Updated, Given, Changes, Settings
<1> HIDE DEF row
<1>5. \A field \in Fields : /\ changes[field] \in {Unknown, row[field]}
                            /\ changes[field] = Unknown => row[field] = settings[i][field]
  BY <1>2, <1>3, AccountsAssumption DEF Fields
<1> QED
  BY <1>1, <1>4, <1>5, ReadsIInv DEF NeedNotAsk

\* Who may use system SMTP only does not rotate: the row that is written says both.
LEMMA SetUserSMTPModeIInv ==
    ASSUME IInv, NEW h \in Handlers, NEW i \in Ids, NEW allow \in BOOLEAN,
           SetUserSMTPMode(h, i, allow)
    PROVE  IInv'
<1>1. settings[i] \in Settings
  BY DEF IInv, TypeOK, SetUserSMTPMode, Reads
<1>2. CASE allow
  <2> DEFINE row == [settings[i] EXCEPT !.allow = TRUE]
             changes == [NoChanges EXCEPT !.allow = TRUE]
  <2>1. row \in Settings /\ changes \in Changes
    BY <1>1 DEF Settings, Changes, NoChanges
  <2>2. \A field \in Fields : /\ changes[field] \in {Unknown, row[field]}
                              /\ changes[field] = Unknown => row[field] = settings[i][field]
    <3>1. /\ row.enabled = settings[i].enabled /\ row.plan = settings[i].plan
          /\ row.rotation = settings[i].rotation /\ row.allow = TRUE
      BY <1>1 DEF Settings
    <3>2. /\ changes.enabled = Unknown /\ changes.plan = Unknown
          /\ changes.rotation = Unknown /\ changes.allow = TRUE
      BY DEF NoChanges
    <3> HIDE DEF row, changes
    <3>3. TRUE # Unknown /\ FALSE # Unknown
      BY AccountsAssumption
    <3> QED
      BY <3>1, <3>2, <3>3 DEF Fields
  <2>3. ~Rotates(row) /\ Reads(h, i, "setUserSMTPMode", row, changes)
    BY <1>1, <1>2 DEF Rotates, Settings, SetUserSMTPMode
  <2> HIDE DEF row, changes
  <2> QED
    BY <2>1, <2>2, <2>3, ReadsIInv
<1>3. CASE ~allow
  <2> DEFINE row == Restricted(settings[i])
             changes == Restricted(NoChanges)
  <2>1. row \in Settings /\ changes \in Changes
    BY <1>1 DEF Settings, Changes, NoChanges, Restricted
  <2>2. \A field \in Fields : /\ changes[field] \in {Unknown, row[field]}
                              /\ changes[field] = Unknown => row[field] = settings[i][field]
    <3>1. /\ row.enabled = settings[i].enabled /\ row.plan = settings[i].plan
          /\ row.rotation = FALSE /\ row.allow = FALSE
      BY <1>1 DEF Settings, Restricted
    <3>2. /\ changes.enabled = Unknown /\ changes.plan = Unknown
          /\ changes.rotation = FALSE /\ changes.allow = FALSE
      BY DEF NoChanges, Restricted
    <3> HIDE DEF row, changes
    <3>3. TRUE # Unknown /\ FALSE # Unknown
      BY AccountsAssumption
    <3> QED
      BY <3>1, <3>2, <3>3 DEF Fields
  <2>3. ~Rotates(row) /\ Reads(h, i, "setUserSMTPMode", row, changes)
    BY <1>1, <1>3 DEF Rotates, Settings, Restricted, SetUserSMTPMode
  <2> HIDE DEF row, changes
  <2> QED
    BY <2>1, <2>2, <2>3, ReadsIInv
<1> QED
  BY <1>2, <1>3

\* A user turns rotation on only in a row that allows it.
LEMMA UserSetRotationIInv ==
    ASSUME IInv, NEW h \in Handlers, NEW s \in sessions, NEW enabled \in BOOLEAN,
           UserSetRotation(h, s, enabled)
    PROVE  IInv'
<1>1. PICK i \in Ids : i = s.user
  BY DEF IInv, TypeOK, Session
<1> DEFINE row == [settings[i] EXCEPT !.rotation = enabled]
           changes == [NoChanges EXCEPT !.rotation = enabled]
<1>2. settings[i] \in Settings
  BY <1>1 DEF IInv, TypeOK, UserSetRotation
<1>3. row \in Settings /\ changes \in Changes
  BY <1>2 DEF Settings, Changes, NoChanges
<1>4. \A field \in Fields : /\ changes[field] \in {Unknown, row[field]}
                            /\ changes[field] = Unknown => row[field] = settings[i][field]
  BY <1>2, AccountsAssumption DEF Fields, NoChanges, Settings
<1>5. ~Rotates(row) /\ Reads(h, i, "userSetRotation", row, changes)
  BY <1>1, <1>2 DEF Rotates, Settings, UserSetRotation
<1> HIDE DEF row, changes
<1> QED
  BY <1>3, <1>4, <1>5, ReadsIInv

LEMMA UserAssignSMTPIInv ==
    ASSUME IInv, NEW h \in Handlers, NEW s \in sessions, UserAssignSMTP(h, s)
    PROVE  IInv'
<1>1. PICK i \in Ids : i = s.user
  BY DEF IInv, TypeOK, Session
<1> DEFINE row == [settings[i] EXCEPT !.rotation = TRUE]
           changes == [NoChanges EXCEPT !.rotation = TRUE]
<1>2. Reads(h, i, "userAssignSMTP", row, changes)
  BY <1>1 DEF UserAssignSMTP
<1>3. settings[i] \in Settings
  BY <1>2 DEF IInv, TypeOK, Reads
<1>4. row \in Settings /\ changes \in Changes
  BY <1>3 DEF Settings, Changes, NoChanges
<1>5. \A field \in Fields : /\ changes[field] \in {Unknown, row[field]}
                            /\ changes[field] = Unknown => row[field] = settings[i][field]
  <2>1. /\ row.enabled = settings[i].enabled /\ row.plan = settings[i].plan
        /\ row.allow = settings[i].allow /\ row.rotation = TRUE
    BY <1>3 DEF Settings
  <2>2. /\ changes.enabled = Unknown /\ changes.plan = Unknown
        /\ changes.allow = Unknown /\ changes.rotation = TRUE
    BY DEF NoChanges
  <2> HIDE DEF row, changes
  <2>3. TRUE # Unknown
    BY AccountsAssumption
  <2> QED
    BY <2>1, <2>2, <2>3 DEF Fields
<1> HIDE DEF row, changes
<1> QED
  BY <1>2, <1>4, <1>5, ReadsIInv DEF NeedNotAsk

LEMMA ReadAccountIInv ==
    ASSUME IInv, NEW h \in Handlers, NEW name \in Names, NEW password \in Passwords,
           ReadAccount(h, name, password)
    PROVE  IInv'
<1>1. PICK i \in Ids :
        /\ Exists(i) /\ login[i].name = name
        /\ Becomes(h, [op |-> "login", password |-> login[i].password,
                       session |-> [user |-> i, name |-> name, password |-> password,
                                    former |-> FALSE]])
  BY DEF ReadAccount
<1>2. PICK read \in Passwords : read = login[i].password
  BY <1>1 DEF IInv, TypeOK, Exists, Login
<1> DEFINE s == [user |-> i, name |-> name, password |-> password, former |-> FALSE]
           r == [op |-> "login", password |-> read, session |-> s]
<1>3. s \in Session /\ r \in Request
  BY DEF Session, Request
<1>4. OpenedBy(s, read)
  BY <1>1, <1>2 DEF OpenedBy, IInv, GoodAccount, TypeOK, Ids
<1>5. GoodRequest(r)
  BY <1>4 DEF GoodRequest
<1>6. Becomes(h, r)
  BY <1>1, <1>2
<1> HIDE DEF s, r
<1>7. /\ request' \in [Handlers -> Request \cup {NoRequest}]
      /\ request'[h] = r
      /\ \A g \in Handlers \ {h} : request'[g] = request[g]
  BY <1>3, <1>6, BecomesRequest DEF IInv
<1>8. UNCHANGED <<login, settings, nextId, sessions, asked, excused>>
  BY DEF ReadAccount
<1> QED
  BY <1>5, <1>7, <1>8, TablesKept DEF IInv, TypeOK

\* A request that ends without a statement on the tables.
LEMMA EndsIInv ==
    ASSUME IInv, NEW h \in Handlers, Becomes(h, NoRequest),
           UNCHANGED <<login, settings, nextId, asked, excused>>,
           \A s \in sessions' \ sessions : s \in Session /\ OpenedBy(s, s.password)
    PROVE  IInv'
<1>1. /\ request' \in [Handlers -> Request \cup {NoRequest}]
      /\ request'[h] = NoRequest
      /\ \A g \in Handlers \ {h} : request'[g] = request[g]
  BY BecomesRequest DEF IInv
<1>2. GoodRequest(NoRequest)
  BY DEF GoodRequest, NoRequest
<1>3. sessions' \subseteq Session
  BY DEF IInv, TypeOK
<1> QED
  BY <1>1, <1>2, <1>3, TablesKept

LEMMA PasswordRightIInv ==
    ASSUME IInv, NEW h \in Handlers, PasswordRight(h)
    PROVE  IInv'
<1>1. /\ request[h].op = "login" /\ request[h].session.password = request[h].password
      /\ sessions' = sessions \cup {request[h].session}
      /\ Becomes(h, NoRequest)
      /\ UNCHANGED <<login, settings, nextId, asked, excused>>
  BY DEF PasswordRight, Pending, Right
<1>2. PICK r \in Request \cup {NoRequest} : r = request[h] /\ GoodRequest(r)
  BY DEF IInv, TypeOK
<1>3. r.session \in Session /\ OpenedBy(r.session, r.session.password)
  BY <1>1, <1>2, RequestParts DEF GoodRequest
<1> QED
  BY <1>1, <1>2, <1>3, EndsIInv

LEMMA ForgottenIInv ==
    ASSUME IInv,
           \/ \E h \in Handlers : PasswordWrong(h) \/ Abandon(h)
           \/ \E s \in sessions : Expire(s)
           \/ Restart
    PROVE  IInv'
<1>1. ASSUME NEW h \in Handlers, PasswordWrong(h) \/ Abandon(h) PROVE IInv'
  BY <1>1, EndsIInv DEF PasswordWrong, Abandon
<1>2. ASSUME NEW s \in sessions, Expire(s) PROVE IInv'
  <2>1. /\ UNCHANGED <<login, settings, nextId, asked, excused, request>>
        /\ sessions' \subseteq sessions
    BY <1>2 DEF Expire
  <2> QED
    BY <2>1, TablesKept DEF IInv, TypeOK
<1>3. ASSUME Restart PROVE IInv'
  <2>1. /\ UNCHANGED <<login, settings, nextId, asked, excused>>
        /\ sessions' = {} /\ request' = [h \in Handlers |-> NoRequest]
    BY <1>3 DEF Restart
  <2>2. GoodRequest(NoRequest)
    BY DEF GoodRequest, NoRequest
  <2>3. /\ request' \in [Handlers -> Request \cup {NoRequest}]
        /\ \A h \in Handlers : GoodRequest(request'[h])
    BY <2>1, <2>2
  <2> QED
    BY <2>1, <2>3, TablesKept
<1> QED
  BY <1>1, <1>2, <1>3

\* Of a row that is written the other requests are stale, and nothing else of them changes.
LEMMA OthersStale ==
    ASSUME TypeOK, NEW i \in Ids, NEW g \in Handlers,
           NEW r \in Request \cup {NoRequest}, r = request[g]
    PROVE  /\ OtherRequests(i)[g] \in Request \cup {NoRequest}
           /\ r.op = "write" /\ r.id = i =>
                LET t == OtherRequests(i)[g]
                IN  /\ t.op = r.op /\ t.id = r.id /\ t.row = r.row /\ t.changes = r.changes
                    /\ t.by = r.by /\ t.stale
           /\ ~(r.op = "write" /\ r.id = i) => OtherRequests(i)[g] = r
<1> DEFINE t == [r EXCEPT !.stale = TRUE]
<1>1. OtherRequests(i)[g] = IF r.op = "write" /\ r.id = i THEN t ELSE r
  BY DEF OtherRequests, Pending
<1>2. CASE r.op = "write" /\ r.id = i
  <2>1. r \in [op : {"write"}, id : Ids, row : Settings, changes : Changes, stale : BOOLEAN,
               by : {"updateUser", "setUserSMTPMode", "userSetRotation", "userAssignSMTP"}]
    BY <1>2 DEF Request, NoRequest
  <2>2. t \in [op : {"write"}, id : Ids, row : Settings, changes : Changes, stale : BOOLEAN,
               by : {"updateUser", "setUserSMTPMode", "userSetRotation", "userAssignSMTP"}]
    BY <2>1
  <2>3. /\ t.op = r.op /\ t.id = r.id /\ t.row = r.row /\ t.changes = r.changes
        /\ t.by = r.by /\ t.stale
    BY <2>1
  <2>4. t \in Request
    BY <2>2 DEF Request
  <2> HIDE DEF t
  <2> QED
    BY <1>1, <1>2, <2>3, <2>4
<1>3. CASE ~(r.op = "write" /\ r.id = i)
  BY <1>1, <1>3
<1> QED
  BY <1>2, <1>3

\* So a request is as good as before whatever is written in its row.
LEMMA OthersGood ==
    ASSUME IInv, NEW i \in Ids, NEW g \in Handlers, request'[g] = OtherRequests(i)[g],
           login' = login, nextId' = nextId,
           \A j \in Ids \ {i} : settings'[j] = settings[j]
    PROVE  /\ request'[g] \in Request \cup {NoRequest}
           /\ GoodRequest(request[g])'
<1>1. PICK r \in Request \cup {NoRequest} : r = request[g] /\ GoodRequest(r)
  BY DEF IInv, TypeOK
<1>2. PICK t \in Request \cup {NoRequest} : t = request'[g]
  BY <1>1, OthersStale DEF IInv
<1>3. \A j \in Ids : Exists(j)' <=> Exists(j)
  BY DEF Exists
<1>4. CASE r.op = "write" /\ r.id = i
  <2>1. /\ t.op = "write" /\ t.id = i /\ t.row = r.row /\ t.changes = r.changes
        /\ t.by = r.by /\ t.stale
    BY <1>1, <1>2, <1>4, OthersStale DEF IInv
  <2>2. GoodWrite(r)
    BY <1>1, <1>4 DEF GoodRequest
  <2>3. GoodWrite(t)'
    BY <2>1, <2>2, <1>4 DEF GoodWrite
  <2> QED
    BY <1>2, <2>1, <2>3 DEF GoodRequest
<1>5. CASE ~(r.op = "write" /\ r.id = i)
  <2>1. t = r
    BY <1>1, <1>2, <1>5, OthersStale DEF IInv
  <2>2. r.op = "write" => GoodWrite(r)'
    BY <1>1, <1>3, <1>5, RequestParts DEF GoodRequest, GoodWrite
  <2>3. r.op = "login" => OpenedBy(r.session, r.password)'
    BY <1>1, <1>3, RequestParts DEF GoodRequest, OpenedBy, Session
  <2> QED
    BY <1>2, <2>1, <2>2, <2>3 DEF GoodRequest
<1> QED
  BY <1>2, <1>4, <1>5

\* What has been asked of an account, whatever was asked before
LEMMA AskedParts ==
    ASSUME TypeOK, NEW r \in Request, r.op = "write"
    PROVE  /\ AskedAfter(r) \in Changes
           /\ \A field \in Fields :
                AskedAfter(r)[field] =
                    IF r.changes[field] # Unknown THEN r.changes[field]
                    ELSE IF r.stale THEN Unknown ELSE asked[r.id][field]
<1>1. r.id \in Ids /\ r.changes \in Changes
  BY RequestParts
<1>2. asked[r.id] \in Changes
  BY <1>1 DEF TypeOK
<1> QED
  BY <1>1, <1>2 DEF AskedAfter, Changes, Fields

\* The row is written whole: what the request was asked is in it, and what it was not asked is
\* what was there, unless another wrote the row meanwhile.
LEMMA UpdateIInv ==
    ASSUME IInv, NEW h \in Handlers, Update(h)
    PROVE  IInv'
<1>1. PICK r \in Request : r = request[h] /\ r.op = "write" /\ GoodWrite(r)
  BY DEF IInv, TypeOK, Update, Pending, GoodRequest, NoRequest
<1>2. /\ r.id \in Ids /\ r.row \in Settings
      /\ login' = login /\ nextId' = nextId /\ sessions' = sessions
      /\ request' = [OtherRequests(r.id) EXCEPT ![h] = NoRequest]
  BY <1>1, RequestParts DEF Update
<1>3. \A i \in Ids : Exists(i)' <=> Exists(i)
  BY <1>2 DEF Exists
<1>4. \A j \in Ids \ {r.id} : settings'[j] = settings[j]
  BY <1>1, <1>2 DEF Update, IInv, TypeOK
<1>5. ASSUME NEW g \in Handlers
      PROVE  request'[g] \in Request \cup {NoRequest} /\ GoodRequest(request[g])'
  <2>1. CASE g = h
    <3>1. request'[g] = NoRequest
      BY <1>2, <2>1 DEF OtherRequests
    <3> QED
      BY <3>1 DEF GoodRequest, NoRequest
  <2>2. CASE g # h
    <3>1. request'[g] = OtherRequests(r.id)[g]
      BY <1>2, <2>2 DEF OtherRequests
    <3> QED
      BY <1>2, <1>4, <3>1, OthersGood
  <2> QED
    BY <2>1, <2>2
<1>6. request' \in [Handlers -> Request \cup {NoRequest}]
  BY <1>2, <1>5 DEF OtherRequests
<1>7. \A s \in sessions' : OpenedBy(s, s.password)'
  BY <1>2, <1>3 DEF IInv, TypeOK, Session, OpenedBy
<1>8. CASE ~Exists(r.id)
  <2>1. UNCHANGED <<settings, asked, excused>>
    BY <1>1, <1>8 DEF Update
  <2>2. TypeOK'
    BY <1>2, <1>3, <1>6, <2>1 DEF IInv, TypeOK
  <2>3. \A i \in Ids : GoodAccount(i)'
    BY <1>2, <1>3, <2>1 DEF IInv, GoodAccount
  <2> QED
    BY <1>5, <1>7, <2>2, <2>3 DEF IInv
<1>9. CASE Exists(r.id)
  <2>1. /\ settings' = [settings EXCEPT ![r.id] = r.row]
        /\ asked' = [asked EXCEPT ![r.id] = AskedAfter(r)]
        /\ excused' = IF ~Rotates(r.row) THEN excused \ {r.id}
                      ELSE IF r.by \in NeedNotAsk THEN excused \cup {r.id}
                      ELSE excused
    BY <1>1, <1>9 DEF Update
  <2>2. AskedAfter(r) \in Changes
    BY <1>1, AskedParts DEF IInv
  <2>3. /\ settings' \in [Ids -> Settings \cup {NoSettings}] /\ settings'[r.id] = r.row
        /\ asked' \in [Ids -> Changes] /\ asked'[r.id] = AskedAfter(r)
        /\ \A j \in Ids \ {r.id} : asked'[j] = asked[j]
        /\ excused' \subseteq Ids
        /\ Rotates(r.row) => r.id \in excused'
        /\ \A j \in Ids \ {r.id} : j \in excused => j \in excused'
    BY <1>1, <1>2, <2>1, <2>2 DEF IInv, TypeOK, GoodWrite
  <2>4. \A i \in Ids : Exists(i)' => settings'[i] \in Settings
    BY <1>2, <1>3, <1>4, <2>3 DEF IInv, TypeOK
  <2>5. TypeOK'
    BY <1>2, <1>3, <1>6, <2>3, <2>4 DEF IInv, TypeOK
  <2>6. ASSUME NEW field \in Fields
        PROVE  asked'[r.id][field] \in {Unknown, settings'[r.id][field]}
    <3>1. asked[r.id][field] \in {Unknown, settings[r.id][field]}
      BY <1>2, <1>9 DEF IInv, GoodAccount
    <3>2. asked'[r.id][field] = IF r.changes[field] # Unknown THEN r.changes[field]
                                ELSE IF r.stale THEN Unknown ELSE asked[r.id][field]
      BY <1>1, <2>3, AskedParts DEF IInv
    <3>3. /\ r.changes[field] \in {Unknown, r.row[field]}
          /\ ~r.stale /\ r.changes[field] = Unknown => r.row[field] = settings[r.id][field]
      BY <1>1, <1>9 DEF GoodWrite
    <3> QED
      BY <2>3, <3>1, <3>2, <3>3
  <2>7. ASSUME NEW i \in Ids PROVE GoodAccount(i)'
    <3>1. GoodAccount(i)
      BY DEF IInv
    <3>2. CASE i = r.id
      BY <1>2, <1>3, <2>3, <2>6, <3>1, <3>2 DEF GoodAccount
    <3>3. CASE i # r.id
      BY <1>2, <1>3, <1>4, <2>3, <3>1, <3>3 DEF GoodAccount
    <3> QED
      BY <3>2, <3>3
  <2> QED
    BY <1>5, <1>7, <2>5, <2>7 DEF IInv
<1> QED
  BY <1>8, <1>9

\* A plan is asked for and set in one statement, and makes stale what was read of the row before.
LEMMA ApplyPackageIInv ==
    ASSUME IInv, NEW i \in Ids, NEW plan \in Plans, ApplyPackage(i, plan)
    PROVE  IInv'
<1>1. /\ login' = login /\ nextId' = nextId /\ sessions' = sessions /\ excused' = excused
      /\ request' = OtherRequests(i)
      /\ settings' = [settings EXCEPT ![i].plan = plan]
      /\ asked' = [asked EXCEPT ![i].plan = plan]
      /\ settings[i] \in Settings /\ asked[i] \in Changes
  BY DEF ApplyPackage, IInv, TypeOK
<1> DEFINE row == [settings[i] EXCEPT !.plan = plan]
           changes == [asked[i] EXCEPT !.plan = plan]
<1>2. row \in Settings /\ changes \in Changes
  BY <1>1 DEF Settings, Changes
<1>3. /\ row.plan = plan /\ changes.plan = plan
      /\ \A field \in Fields \ {"plan"} :
            row[field] = settings[i][field] /\ changes[field] = asked[i][field]
      /\ Rotates(row) <=> Rotates(settings[i])
  BY <1>1 DEF Settings, Changes, Fields, Rotates
<1>4. /\ settings' \in [Ids -> Settings \cup {NoSettings}] /\ settings'[i] = row
      /\ asked' \in [Ids -> Changes] /\ asked'[i] = changes
      /\ \A j \in Ids \ {i} : settings'[j] = settings[j] /\ asked'[j] = asked[j]
  BY <1>1, <1>2 DEF IInv, TypeOK
<1> HIDE DEF row, changes
<1>5. \A j \in Ids : Exists(j)' <=> Exists(j)
  BY <1>1 DEF Exists
<1>6. \A g \in Handlers :
        request'[g] \in Request \cup {NoRequest} /\ GoodRequest(request[g])'
  BY <1>1, <1>4, OthersGood
<1>7. request' \in [Handlers -> Request \cup {NoRequest}]
  BY <1>1, <1>6 DEF OtherRequests
<1>8. \A s \in sessions' : OpenedBy(s, s.password)'
  BY <1>1, <1>5 DEF IInv, TypeOK, Session, OpenedBy
<1>9. \A j \in Ids : Exists(j)' => settings'[j] \in Settings
  BY <1>2, <1>4, <1>5 DEF IInv, TypeOK
<1>10. TypeOK'
  BY <1>1, <1>4, <1>5, <1>7, <1>9 DEF IInv, TypeOK
<1>11. ASSUME NEW j \in Ids PROVE GoodAccount(j)'
  <2>1. GoodAccount(j)
    BY DEF IInv
  <2>2. CASE j = i
    BY <1>1, <1>3, <1>4, <1>5, <2>1, <2>2 DEF GoodAccount
  <2>3. CASE j # i
    BY <1>1, <1>4, <1>5, <2>1, <2>3 DEF GoodAccount
  <2> QED
    BY <2>2, <2>3
<1> QED
  BY <1>6, <1>8, <1>10, <1>11 DEF IInv

-----------------------------------------------------------------------------

LEMMA InitIInv == Init => IInv
<1> SUFFICES ASSUME Init PROVE IInv
  OBVIOUS
<1>1. \A i \in Ids : ~Exists(i)
  BY DEF Init, Exists
<1>2. 1 \in 1..MaxId + 1
  BY AccountsAssumption
<1>3. NoChanges \in Changes
  BY DEF NoChanges, Changes
<1>4. TypeOK
  BY <1>1, <1>2, <1>3 DEF Init, TypeOK
<1>5. GoodRequest(NoRequest)
  BY DEF GoodRequest, NoRequest
<1>6. \A h \in Handlers : GoodRequest(request[h])
  BY <1>5 DEF Init
<1> QED
  BY <1>1, <1>4, <1>6 DEF Init, IInv, GoodAccount

LEMMA StepIInv == IInv /\ [Next]_vars => IInv'
<1> SUFFICES ASSUME IInv, [Next]_vars PROVE IInv'
  OBVIOUS
<1>1. CASE Anybody
  <2>1. PICK name \in Names, password \in Passwords :
            \/ \E plan \in Plans : UserRegister(name, password, plan)
            \/ \E h \in Handlers : ReadAccount(h, name, password)
    BY <1>1 DEF Anybody
  <2>2. ASSUME NEW plan \in Plans, UserRegister(name, password, plan) PROVE IInv'
    <3>1. Registered(plan) \in Settings
      BY DEF Registered, Settings
    <3> QED
      BY <2>2, <3>1, CreateIInv DEF UserRegister
  <2> QED
    BY <2>1, <2>2, ReadAccountIInv
<1>2. CASE Administrator
  <2>1. ASSUME NEW name \in Names, NEW password \in Passwords, NEW row \in Settings,
               CreateUser(name, password, row)
        PROVE  IInv'
    BY <2>1, CreateIInv DEF CreateUser
  <2>2. ASSUME NEW i \in Ids, NEW h \in Handlers, NEW changes \in Changes,
               UpdateUser(h, i, changes)
        PROVE  IInv'
    BY <2>2, UpdateUserIInv
  <2>3. ASSUME NEW i \in Ids, NEW h \in Handlers, NEW allow \in BOOLEAN,
               SetUserSMTPMode(h, i, allow)
        PROVE  IInv'
    BY <2>3, SetUserSMTPModeIInv
  <2>4. ASSUME NEW i \in Ids,
               \/ DeleteUser(i)
               \/ \E password \in Passwords : SetPassword(i, password)
               \/ \E plan \in Plans : ApplyPackage(i, plan)
        PROVE  IInv'
    BY <2>4, DeleteIInv, SetPasswordIInv, ApplyPackageIInv
  <2> QED
    BY <1>2, <2>1, <2>2, <2>3, <2>4 DEF Administrator
<1>3. CASE User
  <2>1. PICK s \in sessions :
            \/ Expire(s)
            \/ \E plan \in Plans : ApplyPackage(s.user, plan)
            \/ \E h \in Handlers :
                \/ \E enabled \in BOOLEAN : UserSetRotation(h, s, enabled)
                \/ UserAssignSMTP(h, s)
    BY <1>3 DEF User
  <2>2. PICK i \in Ids : i = s.user
    BY DEF IInv, TypeOK, Session
  <2>3. ASSUME NEW plan \in Plans, ApplyPackage(s.user, plan) PROVE IInv'
    BY <2>2, <2>3, ApplyPackageIInv
  <2> QED
    BY <2>1, <2>3, ForgottenIInv, UserSetRotationIInv, UserAssignSMTPIInv
<1>4. CASE Server
  <2>1. ASSUME NEW h \in Handlers, PasswordRight(h) \/ Update(h) PROVE IInv'
    BY <2>1, PasswordRightIInv, UpdateIInv
  <2> QED
    BY <1>4, <2>1, ForgottenIInv DEF Server
<1>5. CASE UNCHANGED vars
  BY <1>5, TablesKept DEF vars, IInv, TypeOK
<1> QED
  BY <1>1, <1>2, <1>3, <1>4, <1>5 DEF Next

\* What is said of accounts, sessions and requests together holds after every step of every handler.
THEOREM IInvAlways == Spec => []IInv
  BY InitIInv, StepIInv, PTL DEF Spec

\* Every variable keeps its type, accounts that exist have settings, and no two of them have the
\* same name, whatever is created and deleted.
THEOREM AccountsTyped == Spec => []TypeOK
<1>1. IInv => TypeOK
  BY DEF IInv
<1> QED
  BY <1>1, IInvAlways, PTL

\* What a dashboard has set of an account stays until it is asked for something else, but for
\* requests that overlap, however many are served at a time: no handler that reads the row and
\* writes all of it back (updateUser, setUserSMTPMode, userSetRotation, userAssignSMTP) loses
\* what was set before it read the row.
THEOREM SettingsStay == Spec => []SettingsKept
<1>1. IInv => SettingsKept
  BY DEF IInv, GoodAccount, SettingsKept
<1> QED
  BY <1>1, IInvAlways, PTL

\* An account that is restricted to upstreams of the system rotates only if updateUser or
\* userAssignSMTP made it so, neither of which looks at the one when it sets the other.
THEOREM RotationExcused == Spec => []RotatesByExcuse
<1>1. IInv => RotatesByExcuse
  BY DEF IInv, GoodAccount, RotatesByExcuse
<1> QED
  BY <1>1, IInvAlways, PTL

\* A session of the user dashboard, which nothing ends when its account is deleted and its name is
\* taken again, acts for nobody but the account it was opened for.
THEOREM OpenerOnly == Spec => []ActsForOpener
<1>1. IInv => ActsForOpener
  BY DEF IInv, OpenedBy, ActsForOpener
<1> QED
  BY <1>1, IInvAlways, PTL

\* Who has a session knew the password of its account when it was opened, also when the password
\* is changed between the read of the row and the end of bcrypt.
THEOREM FormerOnly == Spec => []OnlyFormerPasswords
<1>1. IInv => OnlyFormerPasswords
  BY DEF IInv, OpenedBy, OnlyFormerPasswords
<1> QED
  BY <1>1, IInvAlways, PTL
=============================================================================
