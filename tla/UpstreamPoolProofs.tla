------------------------- MODULE UpstreamPoolProofs -------------------------
(***************************************************************************)
(* That mail goes out through nobody else's upstream, for every set of     *)
(* accounts and any number of upstreams and of requests at a time.         *)
(***************************************************************************)
EXTENDS UpstreamPool, TLAPS

\* The assignments there are, and those that requests are still going to make.
Waiting == {h \in Handlers : Pending(h, "link")}
Claims == links \cup {request[h].link : h \in Waiting}

\* Numbers that have not been given out are in no row and in no request.
Fresh == \A p \in Ids : p >= nextId => ~Stored(p) /\ \A l \in Claims : l.id # p

\* Who is assigned an upstream may use it, if it is still there.
Owned == \A l \in Claims : Stored(l.id) => upstreams[l.id].owner \in {System, l.user}

IInv == TypeOK /\ Fresh /\ Owned

\* What a request has to offer each statement.
LEMMA RequestParts ==
    ASSUME NEW r \in Request \cup {NoRequest}
    PROVE  /\ r.op = "write" => r.user \in Users /\ r.mode \in Mode
           /\ r.op = "link" => r.link \in Link
           /\ r.op \in {"create", "purge"} => r.user \in Users
           /\ r.op \in {"unlink", "remove"} => r.id \in Ids
  BY DEF Request, NoRequest

\* Becomes: one handler's request changes.
LEMMA BecomesRequest ==
    ASSUME TypeOK, NEW h \in Handlers, NEW r \in Request \cup {NoRequest}, Becomes(h, r)
    PROVE  /\ request' \in [Handlers -> Request \cup {NoRequest}]
           /\ request'[h] = r
           /\ \A g \in Handlers \ {h} : request'[g] = request[g]
  BY DEF TypeOK, Becomes

\* What becomes of the claims: those of the other handlers stay, and there may be a new one.
LEMMA BecomesClaims ==
    ASSUME TypeOK, NEW h \in Handlers, NEW r \in Request \cup {NoRequest}, Becomes(h, r),
           NEW new, links' \subseteq links \cup new
    PROVE  Claims' \subseteq Claims \cup new \cup (IF r.op = "link" THEN {r.link} ELSE {})
  BY BecomesRequest DEF Claims, Waiting, Pending

LEMMA ClaimsTyped ==
    ASSUME TypeOK
    PROVE  Claims \subseteq Link
  BY RequestParts DEF TypeOK, Claims, Waiting, Pending

\* A step that takes upstreams away at most, and claims nothing that was not claimed, or claims
\* what may be used.
LEMMA Kept ==
    ASSUME IInv, NEW l \in Link, Claims' \subseteq Claims \cup {l},
           l \in Claims \/ MayUse(l.user, l.id),
           nextId' = nextId, \A p \in Ids : upstreams'[p] \in {upstreams[p], NoUpstream}
    PROVE  Fresh' /\ Owned'
<1>1. ASSUME NEW p \in Ids, Stored(p)' PROVE upstreams'[p] = upstreams[p] /\ Stored(p)
  BY <1>1 DEF Stored, NoUpstream
<1>2. l.id < nextId
  BY DEF IInv, TypeOK, Fresh, MayUse, Stored, Link, Ids
<1>3. Stored(l.id) => upstreams[l.id].owner \in {System, l.user}
  BY DEF IInv, Owned, MayUse, Stored
<1>4. Fresh'
  <2> SUFFICES ASSUME NEW p \in Ids, p >= nextId
               PROVE  ~Stored(p)' /\ \A k \in Claims' : k.id # p
    BY DEF Fresh
  <2> QED
    BY <1>1, <1>2 DEF IInv, TypeOK, Fresh, Ids
<1>5. Owned'
  <2> SUFFICES ASSUME NEW k \in Claims', Stored(k.id)'
               PROVE  upstreams'[k.id].owner \in {System, k.user}
    BY DEF Owned
  <2>1. k \in Claims \cup {l} /\ k.id \in Ids
    BY ClaimsTyped DEF IInv, Link
  <2> QED
    BY <1>1, <1>3, <2>1 DEF IInv, Owned
<1> QED
  BY <1>4, <1>5

\* Requests that begin: they read, and write down what they are going to write.
LEMMA BeginIInv ==
    ASSUME IInv, NEW h \in Handlers,
           \/ \E u \in Users : UserRequest(h, u)
           \/ \E p \in Ids : StartDelete(h, p)
    PROVE  IInv'
<1> USE DEF IInv
<1>1. ASSUME NEW r \in Request \cup {NoRequest}, Starts(h, r),
             r.op = "link" => MayUse(r.link.user, r.link.id)
      PROVE  IInv'
  <2>1. TypeOK'
    BY <1>1, BecomesRequest DEF TypeOK, Starts
  <2>2. CASE r.op = "link"
    <3>1. r.link \in Link
      BY <2>2, RequestParts
    <3>2. Claims' \subseteq Claims \cup {r.link}
      BY <1>1, <2>2, BecomesClaims DEF Starts
    <3> QED
      BY <1>1, <2>1, <2>2, <3>1, <3>2, Kept DEF Starts
  <2>3. CASE r.op # "link"
    <3>1. Claims' \subseteq Claims
      BY <1>1, <2>3, BecomesClaims DEF Starts
    <3> QED
      BY <1>1, <2>1, <3>1 DEF Starts, Fresh, Owned, Stored
  <2> QED
    BY <2>2, <2>3
<1>2. ASSUME NEW u \in Users, NEW p \in Ids, NEW enabled \in BOOLEAN
      PROVE  /\ LinkRequest(u, p, enabled) \in Request
             /\ LinkRequest(u, p, enabled).op = "link"
             /\ LinkRequest(u, p, enabled).link.user = u
             /\ LinkRequest(u, p, enabled).link.id = p
  BY DEF LinkRequest, Request, Link
<1>3. ASSUME NEW u \in Users, UserRequest(h, u) PROVE IInv'
  <2>1. ASSUME NEW mode \in Mode, SetMode(h, u, mode) PROVE IInv'
    <3>1. [op |-> "write", user |-> u, mode |-> mode] \in Request
      BY DEF Request
    <3> QED
      BY <1>1, <2>1, <3>1 DEF SetMode
  <2>2. ASSUME WriteBack(h, u) PROVE IInv'
    <3>1. users[u] \in Mode
      BY <2>2 DEF WriteBack, TypeOK, Exists
    <3>2. [op |-> "write", user |-> u, mode |-> users[u]] \in Request
      BY <3>1 DEF Request
    <3> QED
      BY <1>1, <2>2, <3>2 DEF WriteBack
  <2>3. ASSUME NEW p \in Ids, UserAssign(h, u, p) PROVE IInv'
    BY <1>1, <1>2, <2>3 DEF UserAssign
  <2>4. ASSUME NEW p \in Ids, NEW enabled \in BOOLEAN, AdminAssign(h, u, p, enabled) PROVE IInv'
    BY <1>1, <1>2, <2>4 DEF AdminAssign
  <2>5. ASSUME UserCreate(h, u) PROVE IInv'
    <3>1. [op |-> "create", user |-> u] \in Request
      BY DEF Request
    <3> QED
      BY <1>1, <2>5, <3>1 DEF UserCreate
  <2>6. ASSUME DeleteLinks(h, u) PROVE IInv'
    <3>1. [op |-> "purge", user |-> u] \in Request
      BY DEF Request
    <3>2. links' \subseteq links
      BY <2>6 DEF DeleteLinks
    <3>3. TypeOK'
      BY <2>6, <3>1, <3>2, BecomesRequest DEF TypeOK, DeleteLinks
    <3>4. Claims' \subseteq Claims
      BY <2>6, <3>1, <3>2, BecomesClaims DEF DeleteLinks
    <3> QED
      BY <2>6, <3>3, <3>4 DEF DeleteLinks, Fresh, Owned, Stored
  <2> QED
    BY <1>3, <2>1, <2>2, <2>3, <2>4, <2>5, <2>6 DEF UserRequest
<1>4. ASSUME NEW p \in Ids, StartDelete(h, p) PROVE IInv'
  <2>1. [op |-> "unlink", id |-> p] \in Request
    BY DEF Request
  <2> QED
    BY <1>1, <1>4, <2>1 DEF StartDelete
<1> QED
  BY <1>3, <1>4

\* A step after which fewer things are claimed, and fewer upstreams are there.
LEMMA Fewer ==
    ASSUME IInv, TypeOK', Claims' \subseteq Claims, nextId' = nextId,
           \A p \in Ids : upstreams'[p] \in {upstreams[p], NoUpstream}
    PROVE  IInv'
<1>1. ASSUME NEW p \in Ids, Stored(p)' PROVE upstreams'[p] = upstreams[p] /\ Stored(p)
  BY <1>1 DEF Stored, NoUpstream
<1>2. Claims \subseteq Link
  BY ClaimsTyped DEF IInv
<1>3. Fresh'
  BY <1>1 DEF IInv, Fresh
<1>4. Owned'
  BY <1>1, <1>2 DEF IInv, Owned, Link
<1> QED
  BY <1>3, <1>4 DEF IInv

\* Create: one row, with the number that is given out.
LEMMA CreateRow ==
    ASSUME TypeOK, NEW owner \in Users \cup {System}, NEW enabled \in BOOLEAN,
           Create(owner, enabled)
    PROVE  /\ nextId \in Ids /\ nextId' = nextId + 1 /\ nextId' \in 1..MaxId + 1
           /\ upstreams' \in [Ids -> Upstream \cup {NoUpstream}]
           /\ upstreams'[nextId].owner = owner
           /\ \A p \in Ids \ {nextId} : upstreams'[p] = upstreams[p]
<1>1. nextId \in Ids /\ nextId' = nextId + 1 /\ nextId' \in 1..MaxId + 1
  BY UpstreamPoolAssumption DEF Create, TypeOK, Ids
<1>2. [owner |-> owner, enabled |-> enabled, stored |-> TRUE] \in Upstream
  BY DEF Upstream
<1> QED
  BY <1>1, <1>2 DEF Create, NewId, TypeOK

\* The number is new, so that nothing claims it yet.
LEMMA NewRowIInv ==
    ASSUME IInv, TypeOK', nextId \in Ids, nextId' = nextId + 1,
           \A p \in Ids \ {nextId} : upstreams'[p] = upstreams[p],
           \A l \in Claims' :
              \/ l \in Claims
              \/ l.id = nextId /\ upstreams'[nextId].owner \in {System, l.user}
    PROVE  IInv'
<1>1. nextId \in Nat
  BY DEF IInv, TypeOK
<1>3. Fresh'
  <2> SUFFICES ASSUME NEW p \in Ids, p >= nextId'
               PROVE  ~Stored(p)' /\ \A l \in Claims' : l.id # p
    BY DEF Fresh
  <2>1. p # nextId /\ p >= nextId
    BY <1>1 DEF Ids
  <2> QED
    BY <2>1 DEF IInv, Fresh, Stored
<1>4. Owned'
  <2> SUFFICES ASSUME NEW l \in Claims', Stored(l.id)'
               PROVE  upstreams'[l.id].owner \in {System, l.user}
    BY DEF Owned
  <2>1. CASE l \in Claims
    <3>1. l.id \in Ids \ {nextId}
      BY <1>1, <2>1, ClaimsTyped DEF IInv, Fresh, Link, Ids
    <3> QED
      BY <2>1, <3>1 DEF IInv, Owned, Stored
  <2>2. CASE l.id = nextId /\ upstreams'[nextId].owner \in {System, l.user}
    BY <2>2
  <2> QED
    BY <2>1, <2>2
<1> QED
  BY <1>3, <1>4 DEF IInv

LEMMA StatementIInv ==
    ASSUME IInv, NEW h \in Handlers, Statement(h)
    PROVE  IInv'
<1> USE DEF IInv
<1>1. NoRequest \in Request \cup {NoRequest} /\ NoRequest.op # "link"
  BY DEF NoRequest
<1>2. request[h] \in Request \cup {NoRequest}
  BY DEF TypeOK
<1>3. CASE WriteUser(h)
  <2>1. request[h].user \in Users /\ request[h].mode \in Mode
    BY <1>2, <1>3, RequestParts DEF WriteUser, Pending
  <2>2. TypeOK'
    BY <1>1, <1>3, <2>1, BecomesRequest DEF TypeOK, WriteUser, Ends
  <2>3. Claims' \subseteq Claims
    BY <1>1, <1>3, BecomesClaims DEF WriteUser, Ends
  <2> QED
    BY <1>3, <2>2, <2>3, Fewer DEF WriteUser
<1>4. CASE AssignToUser(h)
  <2> DEFINE l == request[h].link
  <2>1. l \in Link /\ l \in Claims
    BY <1>2, <1>4, RequestParts DEF AssignToUser, Pending, Claims, Waiting
  <2>2. links' \subseteq links \cup {l}
    BY <1>4 DEF AssignToUser, Assigned, Without
  <2>3. \A j, k \in links' : j.user = k.user /\ j.id = k.id => j = k
    BY <1>4 DEF AssignToUser, Assigned, Without, TypeOK
  <2>4. TypeOK'
    BY <1>1, <1>4, <2>1, <2>2, <2>3, BecomesRequest DEF TypeOK, AssignToUser, Ends
  <2>5. Claims' \subseteq Claims
    BY <1>1, <1>4, <2>1, <2>2, BecomesClaims DEF AssignToUser, Ends
  <2> QED
    BY <1>4, <2>4, <2>5, Fewer DEF AssignToUser
<1>5. ASSUME NEW enabled \in BOOLEAN, CreateOwn(h, enabled) PROVE IInv'
  <2> DEFINE r == LinkRequest(request[h].user, nextId, TRUE)
  <2>1. request[h].user \in Users
    BY <1>2, <1>5, RequestParts DEF CreateOwn, Pending
  <2>2. /\ nextId \in Ids /\ nextId' = nextId + 1 /\ nextId' \in 1..MaxId + 1
        /\ upstreams' \in [Ids -> Upstream \cup {NoUpstream}]
        /\ upstreams'[nextId].owner = request[h].user
        /\ \A p \in Ids \ {nextId} : upstreams'[p] = upstreams[p]
    BY <1>5, <2>1, CreateRow DEF CreateOwn
  <2>3. r \in Request /\ r.op = "link" /\ r.link.id = nextId /\ r.link.user = request[h].user
    BY <2>1, <2>2 DEF LinkRequest, Request, Link
  <2>4. Becomes(h, r)
    BY <1>5 DEF CreateOwn, NewId
  <2> HIDE DEF r
  <2>5. TypeOK'
    BY <1>5, <2>2, <2>3, <2>4, BecomesRequest DEF TypeOK, CreateOwn
  <2>6. Claims' \subseteq Claims \cup {r.link}
    BY <1>5, <2>3, <2>4, BecomesClaims DEF CreateOwn
  <2>7. \A l \in Claims' :
            \/ l \in Claims
            \/ l.id = nextId /\ upstreams'[nextId].owner \in {System, l.user}
    BY <2>2, <2>3, <2>6
  <2> QED
    BY <2>2, <2>5, <2>7, NewRowIInv
<1>6. CASE UnlinkAll(h)
  <2> DEFINE r == [op |-> "remove", id |-> request[h].id]
  <2>1. r \in Request /\ r.op # "link"
    BY <1>2, <1>6, RequestParts DEF UnlinkAll, Pending, Request
  <2>2. TypeOK'
    BY <1>6, <2>1, BecomesRequest DEF TypeOK, UnlinkAll
  <2>3. Claims' \subseteq Claims
    BY <1>6, <2>1, BecomesClaims DEF UnlinkAll
  <2> QED
    BY <1>6, <2>2, <2>3, Fewer DEF UnlinkAll
<1>7. CASE RemoveUpstream(h)
  <2>1. request[h].id \in Ids
    BY <1>2, <1>7, RequestParts DEF RemoveUpstream, Pending
  <2>2. TypeOK'
    BY <1>1, <1>7, <2>1, BecomesRequest DEF TypeOK, RemoveUpstream, Ends
  <2>3. Claims' \subseteq Claims
    BY <1>1, <1>7, BecomesClaims DEF RemoveUpstream, Ends
  <2> QED
    BY <1>7, <2>1, <2>2, <2>3, Fewer DEF RemoveUpstream, TypeOK
<1>8. CASE DeleteUser(h)
  <2>1. request[h].user \in Users
    BY <1>2, <1>8, RequestParts DEF DeleteUser, Pending
  <2>2. TypeOK'
    BY <1>1, <1>8, <2>1, BecomesRequest DEF TypeOK, DeleteUser, Ends
  <2>3. Claims' \subseteq Claims
    BY <1>1, <1>8, BecomesClaims DEF DeleteUser, Ends
  <2> QED
    BY <1>8, <2>2, <2>3, Fewer DEF DeleteUser
<1>9. CASE Abandon(h)
  <2>1. TypeOK'
    BY <1>1, <1>9, BecomesRequest DEF TypeOK, Abandon, Ends
  <2>2. Claims' \subseteq Claims
    BY <1>1, <1>9, BecomesClaims DEF Abandon, Ends
  <2> QED
    BY <1>9, <2>1, <2>2, Fewer DEF Abandon
<1> QED
  BY <1>3, <1>4, <1>5, <1>6, <1>7, <1>8, <1>9 DEF Statement

LEMMA InitIInv == Init => IInv
<1> SUFFICES ASSUME Init PROVE IInv
  OBVIOUS
<1>1. TypeOK
  BY UpstreamPoolAssumption DEF Init, TypeOK, Mode
<1>2. Claims = {}
  BY DEF Init, Claims, Waiting, Pending, NoRequest
<1>3. Fresh /\ Owned
  BY <1>2 DEF Init, Fresh, Owned, Stored, NoUpstream
<1> QED
  BY <1>1, <1>3 DEF IInv

LEMMA StepIInv == IInv /\ [Next]_vars => IInv'
<1> SUFFICES ASSUME IInv, [Next]_vars PROVE IInv'
  OBVIOUS
<1>1. ASSUME NEW enabled \in BOOLEAN, CreateSystem(enabled) PROVE IInv'
  <2>1. /\ nextId \in Ids /\ nextId' = nextId + 1 /\ nextId' \in 1..MaxId + 1
        /\ upstreams' \in [Ids -> Upstream \cup {NoUpstream}]
        /\ upstreams'[nextId].owner = System
        /\ \A p \in Ids \ {nextId} : upstreams'[p] = upstreams[p]
    BY <1>1, CreateRow DEF CreateSystem, IInv
  <2>2. TypeOK'
    BY <1>1, <2>1 DEF CreateSystem, IInv, TypeOK
  <2>3. Claims' = Claims
    BY <1>1 DEF CreateSystem, Claims, Waiting, Pending
  <2> QED
    BY <2>1, <2>2, <2>3, NewRowIInv
<1>2. ASSUME NEW u \in Users, NEW p \in Ids, Unassign(u, p) PROVE IInv'
  <2>1. links' \subseteq links
    BY <1>2 DEF Unassign, Without
  <2>2. TypeOK' /\ Claims' \subseteq Claims
    BY <1>2, <2>1 DEF Unassign, IInv, TypeOK, Claims, Waiting, Pending
  <2> QED
    BY <1>2, <2>2, Fewer DEF Unassign
<1>3. CASE Restart
  <2>1. TypeOK' /\ Claims' \subseteq Claims
    BY <1>3 DEF Restart, IInv, TypeOK, Claims, Waiting, Pending, NoRequest
  <2> QED
    BY <1>3, <2>1, Fewer DEF Restart
<1>4. CASE UNCHANGED vars
  <2>1. TypeOK' /\ Claims' \subseteq Claims
    BY <1>4 DEF vars, IInv, TypeOK, Claims, Waiting, Pending
  <2> QED
    BY <1>4, <2>1, Fewer DEF vars
<1> QED
  BY <1>1, <1>2, <1>3, <1>4, BeginIInv, StatementIInv DEF Next

\* The tables, and the requests on them, keep their type, and no upstream is assigned to a user
\* twice (UNIQUE(user_id, smtp_id)).
THEOREM PoolTyped == Spec => []TypeOK
<1>1. IInv => TypeOK
  BY DEF IInv
<1> QED
  BY <1>1, InitIInv, StepIInv, PTL DEF Spec

\* ListAssigned, from which the worker sends, gives an account only upstreams of its own and of
\* the system, whatever was deleted between the statements of other requests.
THEOREM OnlyOwnUpstreams == Spec => []OwnUpstreamsOnly
<1>1. IInv => OwnUpstreamsOnly
  BY DEF IInv, Owned, Claims, OwnUpstreamsOnly, ListAssigned
<1> QED
  BY <1>1, InitIInv, StepIInv, PTL DEF Spec
=============================================================================
