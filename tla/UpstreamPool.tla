---------------------------- MODULE UpstreamPool ----------------------------
(***************************************************************************)
(* The upstream SMTP accounts ("upstreams" here) and who may use which.    *)
(*                                                                         *)
(* An upstream belongs to a user or to the system, and is used by those it *)
(* is assigned to.  The dashboards' handlers are several statements each,  *)
(* without a transaction and in goroutines of their own; a request is      *)
(* modelled from its last check on, as what it is still going to write.    *)
(* The checks of one request are one step: a request that names an         *)
(* upstream before it exists is left out.  Foreign keys are not enforced.  *)
(*                                                                         *)
(* Of a user's row only allow_user_smtp matters here (module Accounts has  *)
(* the others).  In which order upstreams are tried, and with which text,  *)
(* is module Relay's business.                                             *)
(***************************************************************************)
EXTENDS Naturals

CONSTANTS
    Users,
    System,         \* the owner of an upstream that no user owns: owner_user_id = 0
    Handlers,       \* requests that are served at a time
    MaxId           \* bound: upstreams ever created

ASSUME UpstreamPoolAssumption ==
    /\ System \notin Users
    /\ MaxId \in Nat

VARIABLES
    users,          \* users[u]: allow_user_smtp in the row of u, or "gone"
    upstreams,      \* upstreams[p]: row of upstream_smtps, or NoUpstream
    nextId,         \* what AUTOINCREMENT hands out next
    links,          \* the rows of user_smtp_assignments
    request         \* request[h]: what handler h is still going to write, or NoRequest

vars == <<users, upstreams, nextId, links, request>>

Ids == 1..MaxId
Mode == {"own", "restricted"}           \* may have upstreams of its own, or not
Upstream == [owner : Users \cup {System}, enabled : BOOLEAN, stored : {TRUE}]
NoUpstream == [owner |-> System, enabled |-> FALSE, stored |-> FALSE]
Link == [user : Users, id : Ids, enabled : BOOLEAN]

\* write: a row of users, as read and changed.  link: an assignment.  create: an upstream of the
\* user.  unlink, remove: the two statements of DeleteSMTP.  purge: DeleteHard after the
\* assignments.
Request ==
    [op : {"write"}, user : Users, mode : Mode]
    \cup [op : {"link"}, link : Link]
    \cup [op : {"create", "purge"}, user : Users]
    \cup [op : {"unlink", "remove"}, id : Ids]
NoRequest == [op |-> "none"]

\* UNIQUE(user_id, smtp_id) is part of the type of links.
TypeOK ==
    /\ users \in [Users -> Mode \cup {"gone"}]
    /\ upstreams \in [Ids -> Upstream \cup {NoUpstream}]
    /\ nextId \in 1..MaxId + 1
    /\ links \subseteq Link
    /\ \A k, l \in links : k.user = l.user /\ k.id = l.id => k = l
    /\ request \in [Handlers -> Request \cup {NoRequest}]

Init ==
    /\ users = [u \in Users |-> "own"]
    /\ upstreams = [p \in Ids |-> NoUpstream]
    /\ nextId = 1
    /\ links = {}
    /\ request = [h \in Handlers |-> NoRequest]

-----------------------------------------------------------------------------
(* Requests *)

Exists(u) == users[u] # "gone"
Stored(p) == upstreams[p].stored
Free(h) == request[h] = NoRequest
Pending(h, op) == request[h].op = op
Becomes(h, r) == request' = [request EXCEPT ![h] = r]
Starts(h, r) == Free(h) /\ Becomes(h, r) /\ UNCHANGED <<users, upstreams, nextId, links>>
Ends(h) == Becomes(h, NoRequest)

\* setUserSMTPMode, and updateUser when the mode is given
SetMode(h, u, mode) ==
    /\ Exists(u)
    /\ Starts(h, [op |-> "write", user |-> u, mode |-> mode])

\* updateUser without the mode, userSetRotation, userAssignSMTP that turns rotation on: the row
\* is written back whole.
WriteBack(h, u) == Exists(u) /\ Starts(h, [op |-> "write", user |-> u, mode |-> users[u]])

LinkRequest(u, p, enabled) ==
    [op |-> "link", link |-> [user |-> u, id |-> p, enabled |-> enabled]]

MayUse(u, p) == Stored(p) /\ upstreams[p].owner \in {System, u}

\* userAssignSMTP
UserAssign(h, u, p) ==
    /\ Exists(u)
    /\ MayUse(u, p)
    /\ users[u] = "own" \/ upstreams[p].owner = System
    /\ Starts(h, LinkRequest(u, p, TRUE))

\* assignSMTPToUser, by the administrator
AdminAssign(h, u, p, enabled) ==
    /\ Exists(u)
    /\ MayUse(u, p)
    /\ Starts(h, LinkRequest(u, p, enabled))

\* userCreateSMTP, up to the trial login at the upstream, which takes its time.
UserCreate(h, u) ==
    /\ users[u] = "own"
    /\ Starts(h, [op |-> "create", user |-> u])

\* userDeleteSMTP checks the owner first, deleteSMTPAdmin checks nothing at all.
StartDelete(h, p) == Starts(h, [op |-> "unlink", id |-> p])

-----------------------------------------------------------------------------
(* Statements *)

\* users.Update on a row that may be gone
WriteUser(h) ==
    /\ Pending(h, "write")
    /\ LET u == request[h].user IN
       users' = IF Exists(u) THEN [users EXCEPT ![u] = request[h].mode] ELSE users
    /\ Ends(h)
    /\ UNCHANGED <<upstreams, nextId, links>>

Without(u, p) == {l \in links : l.user # u \/ l.id # p}

\* A bug: a row for every request.
Assigned_bug(link) == links \cup {link}

\* INSERT ... ON CONFLICT DO UPDATE
Assigned(link) == Without(link.user, link.id) \cup {link}

AssignToUser(h) ==
    /\ Pending(h, "link")
    /\ links' = Assigned(request[h].link)
    /\ Ends(h)
    /\ UNCHANGED <<users, upstreams, nextId>>

\* A bug: without AUTOINCREMENT the number of a deleted row at the end is given out again.
NewId_bug == CHOOSE i \in 1..nextId :
                (\A p \in Ids : Stored(p) => p < i) /\ (i = 1 \/ Stored(i - 1))

NewId == nextId

Create(owner, enabled) ==
    /\ nextId <= MaxId
    /\ upstreams' = [upstreams EXCEPT ![NewId] =
                        [owner |-> owner, enabled |-> enabled, stored |-> TRUE]]
    /\ nextId' = nextId + 1

\* createSMTP of a user, and its own assignment next.
CreateOwn(h, enabled) ==
    /\ Pending(h, "create")
    /\ Create(request[h].user, enabled)
    /\ Becomes(h, LinkRequest(request[h].user, NewId, TRUE))
    /\ UNCHANGED <<users, links>>

\* createAdminSMTP
CreateSystem(enabled) ==
    /\ Create(System, enabled)
    /\ UNCHANGED <<users, links, request>>

\* DeleteSMTP, first statement
UnlinkAll(h) ==
    /\ Pending(h, "unlink")
    /\ links' = {l \in links : l.id # request[h].id}
    /\ Becomes(h, [op |-> "remove", id |-> request[h].id])
    /\ UNCHANGED <<users, upstreams, nextId>>

\* DeleteSMTP, second statement
RemoveUpstream(h) ==
    /\ Pending(h, "remove")
    /\ upstreams' = [upstreams EXCEPT ![request[h].id] = NoUpstream]
    /\ Ends(h)
    /\ UNCHANGED <<users, nextId, links>>

Unassign(u, p) ==
    /\ links' = Without(u, p)
    /\ UNCHANGED <<users, upstreams, nextId, request>>

\* DeleteHard: the assignments, and later the account.  Its upstreams stay.
DeleteLinks(h, u) ==
    /\ Free(h)
    /\ links' = {l \in links : l.user # u}
    /\ Becomes(h, [op |-> "purge", user |-> u])
    /\ UNCHANGED <<users, upstreams, nextId>>

DeleteUser(h) ==
    /\ Pending(h, "purge")
    /\ users' = [users EXCEPT ![request[h].user] = "gone"]
    /\ Ends(h)
    /\ UNCHANGED <<upstreams, nextId, links>>

\* A statement fails, or the trial login; what was written before stays.
Abandon(h) ==
    /\ ~Free(h)
    /\ Ends(h)
    /\ UNCHANGED <<users, upstreams, nextId, links>>

\* A crash is that of every request.
Restart ==
    /\ request' = [h \in Handlers |-> NoRequest]
    /\ UNCHANGED <<users, upstreams, nextId, links>>

-----------------------------------------------------------------------------

UserRequest(h, u) ==
    \/ \E mode \in Mode : SetMode(h, u, mode)
    \/ WriteBack(h, u)
    \/ \E p \in Ids : UserAssign(h, u, p)
    \/ \E p \in Ids, enabled \in BOOLEAN : AdminAssign(h, u, p, enabled)
    \/ UserCreate(h, u)
    \/ DeleteLinks(h, u)

Statement(h) ==
    \/ WriteUser(h) \/ AssignToUser(h)
    \/ \E enabled \in BOOLEAN : CreateOwn(h, enabled)
    \/ UnlinkAll(h) \/ RemoveUpstream(h) \/ DeleteUser(h) \/ Abandon(h)

Next ==
    \/ \E h \in Handlers :
        \/ \E u \in Users : UserRequest(h, u)
        \/ \E p \in Ids : StartDelete(h, p)
        \/ Statement(h)
    \/ \E enabled \in BOOLEAN : CreateSystem(enabled)
    \/ \E u \in Users, p \in Ids : Unassign(u, p)
    \/ Restart

Spec == Init /\ [][Next]_vars

-----------------------------------------------------------------------------
(* Properties *)

\* The rows of ListAssigned: the assignment and the upstream are both enabled.
ListAssigned(u) ==
    {p \in Ids : /\ [user |-> u, id |-> p, enabled |-> TRUE] \in links
                 /\ Stored(p)
                 /\ upstreams[p].enabled}

\* A user's mail goes out through the user's own upstreams and those of the system, never with
\* the credentials of another user, although an assignment may be made of an upstream that is
\* being deleted, and stays behind pointing at its number.
OwnUpstreamsOnly ==
    \A u \in Users : \A p \in ListAssigned(u) : upstreams[p].owner \in {System, u}

\* The mail of an account that is "restricted to system SMTP only" (handler.go, userCreateSMTP)
\* goes out through upstreams of the system.
RestrictedUsesSystem ==
    \A u \in Users : users[u] = "restricted" =>
        \A p \in ListAssigned(u) : upstreams[p].owner = System
=============================================================================
