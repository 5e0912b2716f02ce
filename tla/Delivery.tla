------------------------------ MODULE Delivery ------------------------------
(***************************************************************************)
(* The outbound queue and the worker that empties it: DeliveryService on   *)
(* top of QueueRepo, together with everybody else who writes the same two  *)
(* tables: the SMTP front end that inserts rows, the dashboards that       *)
(* delete pending rows and events, and the administrator deleting an       *)
(* account.                                                                *)
(*                                                                         *)
(* The pool holds one SQLite connection and no statement runs inside a     *)
(* transaction, so every SQL statement is atomic and nothing larger is:    *)
(* one action below is the code between two statements together with the   *)
(* statement that follows it.  The worker works on the copy of the rows it *)
(* read in DequeueBatch, never on the rows.                                *)
(*                                                                         *)
(* Abstractions.  next_attempt_at is the flag due, set again by Elapse.    *)
(* The verdict of holdIfLimited on a live account is a free choice (module *)
(* RateLimits computes it).  A mail is its row number.  An SMTP account is *)
(* one more try (tries); which one is no business of this module.  The     *)
(* attempts column saturates at AttemptCap, which the code cannot tell     *)
(* from counting on because it only compares it with RetryLimit.           *)
(*                                                                         *)
(* Operators whose name ends in _bug are not the code: each is the form    *)
(* the next definition would have after a plausible mistake, used to test  *)
(* that the properties can tell the difference.                            *)
(***************************************************************************)
EXTENDS Naturals, FiniteSets

CONSTANTS
    Users,          \* the accounts that exist when the run starts
    NoUser,         \* the owner of a row that is not there
    MaxId,          \* bound: rows ever inserted
    BatchSize,      \* rows per DequeueBatch: 30 in the code
    RetryLimit,     \* attempts a mail must have behind it to be given up: 4 in the code
    AttemptCap,     \* bound: where the attempts column saturates
    MaxAccounts,    \* bound: SMTP accounts assigned to one user
    MaxFaults       \* bound: failing statements and process deaths together

ASSUME DeliveryAssumption ==
    /\ NoUser \notin Users
    /\ MaxId \in Nat
    /\ BatchSize \in Nat \ {0}
    /\ RetryLimit \in Nat
    /\ AttemptCap \in Nat
    /\ RetryLimit + 1 < AttemptCap
    /\ MaxAccounts \in Nat
    /\ MaxFaults \in Nat

VARIABLES
    \* the database
    users,          \* rows of the table users
    queue,          \* queue[i]: row i of outbound_queue, or NoRow
    nextId,         \* what AUTOINCREMENT hands out next (sqlite_sequence + 1)
    sentLog,        \* mails with a mail_events row of status 'sent'
    failedLog,      \* mails with a mail_events row of status 'failed'
    \* the process
    pc,             \* what the worker does next
    batch,          \* copies of the rows process() has not come to yet
    item,           \* the copy of the row process() is at, or NoItem
    tries,          \* SMTP accounts deliver() can still turn to
    sessions,       \* accounts an open SMTP session has authenticated as
    deleting,       \* deleting[u]: how far DeleteHard(u) is
    faults,         \* failing statements and process deaths so far
    \* observation
    copies,         \* copies[i]: upstreams that accepted mail i: 0, 1 or 2 (two or more)
    unclear         \* mails whose acceptance the code was kept from recording

database == <<users, queue, nextId, sentLog, failedLog>>
worker   == <<pc, batch, item, tries>>
others   == <<sessions, deleting>>
observed == <<copies, unclear>>
vars     == <<database, worker, others, faults, observed>>

Ids == 1..MaxId
Status == {"absent", "pending", "sent", "failed"}
Row == [user : Users \cup {NoUser}, status : Status, attempts : 0..AttemptCap, due : BOOLEAN]
NoRow == [user |-> NoUser, status |-> "absent", attempts |-> 0, due |-> FALSE]
Copy == [id : Ids, user : Users, attempts : 0..AttemptCap]
NoItem == [id |-> 0, user |-> NoUser, attempts |-> 0]
Phase == {"idle", "check", "defer", "holdError", "load", "send",
          "accepted", "logSent", "deliverError", "logFailed"}
DeletePhase == {"none", "queue", "account"}

TypeOK ==
    /\ users \subseteq Users
    /\ queue \in [Ids -> Row]
    /\ nextId \in 1..MaxId + 1
    /\ sentLog \subseteq Ids
    /\ failedLog \subseteq Ids
    /\ pc \in Phase
    /\ batch \subseteq Copy
    /\ item \in Copy \cup {NoItem}
    /\ tries \in 0..MaxAccounts
    /\ sessions \subseteq Users
    /\ deleting \in [Users -> DeletePhase]
    /\ faults \in 0..MaxFaults
    /\ copies \in [Ids -> 0..2]
    /\ unclear \subseteq Ids

Init ==
    /\ users = Users
    /\ queue = [i \in Ids |-> NoRow]
    /\ nextId = 1
    /\ sentLog = {}
    /\ failedLog = {}
    /\ pc = "idle"
    /\ batch = {}
    /\ item = NoItem
    /\ tries = 0
    /\ sessions = {}
    /\ deleting = [u \in Users |-> "none"]
    /\ faults = 0
    /\ copies = [i \in Ids |-> 0]
    /\ unclear = {}

-----------------------------------------------------------------------------
(* Statements *)

Present(i) == queue[i].status # "absent"

\* A statement of the worker fails: the error is logged or dropped.
StatementFails ==
    /\ faults < MaxFaults
    /\ faults' = faults + 1

\* Without AUTOINCREMENT SQLite gives out the largest number in use plus one.
NewId_bug == CHOOSE i \in 1..nextId :
                /\ \A j \in Ids : Present(j) => j < i
                /\ i = 1 \/ Present(i - 1)

\* AUTOINCREMENT: the number of a deleted row is not given out again.
NewId == nextId

\* The status filter is forgotten.
Ready_bug == {i \in Ids : Present(i) /\ queue[i].due}

\* WHERE status='pending' AND next_attempt_at <= CURRENT_TIMESTAMP
Ready == {i \in Ids : queue[i].status = "pending" /\ queue[i].due}

\* ORDER BY id ASC LIMIT n
Selected == {i \in Ready : Cardinality({j \in Ready : j < i}) < BatchSize}

Bump(n) == IF n < AttemptCap THEN n + 1 ELSE n

MarkSent(i) ==
    queue' = IF Present(i) THEN [queue EXCEPT ![i].status = "sent"] ELSE queue

\* attempts=attempts+1 is forgotten.
MarkRetry_bug(i) ==
    queue' = IF Present(i) THEN [queue EXCEPT ![i].due = FALSE] ELSE queue

MarkRetry(i) ==
    queue' = IF Present(i)
             THEN [queue EXCEPT ![i].attempts = Bump(@), ![i].due = FALSE]
             ELSE queue

MarkFailed(i) ==
    queue' = IF Present(i)
             THEN [queue EXCEPT ![i].attempts = Bump(@), ![i].status = "failed"]
             ELSE queue

Defer(i) ==
    queue' = IF Present(i) THEN [queue EXCEPT ![i].due = FALSE] ELSE queue

\* The rows numbered in S are gone.
DeleteRows(S) == queue' = [i \in Ids |-> IF i \in S THEN NoRow ELSE queue[i]]

-----------------------------------------------------------------------------
(* The worker *)

\* The copy that was just handled stays in the batch.
StartNext_bug(rest) ==
    /\ tries' = 0
    /\ IF rest = {} THEN pc' = "idle" /\ batch' = {} /\ item' = NoItem
       ELSE \E c \in rest :
            /\ \A d \in rest : c.id <= d.id
            /\ pc' = "check"
            /\ batch' = IF Cardinality(rest) > 1 THEN rest ELSE {}
            /\ item' = c

\* The head of the loop in process(): the next copy, in id order, or wait for the ticker.
StartNext(rest) ==
    /\ tries' = 0
    /\ \/ /\ rest = {}
          /\ pc' = "idle"
          /\ batch' = {}
          /\ item' = NoItem
       \/ \E c \in rest :
          /\ \A d \in rest : c.id <= d.id
          /\ pc' = "check"
          /\ batch' = rest \ {c}
          /\ item' = c

CopyOf(i) == [id |-> i, user |-> queue[i].user, attempts |-> queue[i].attempts]

\* The ticker fires and the batch is not empty (an empty batch changes nothing).
DequeueBatch ==
    /\ pc = "idle"
    /\ Selected # {}
    /\ StartNext({CopyOf(i) : i \in Selected})
    /\ UNCHANGED <<database, others, faults, observed>>

\* holdIfLimited on an account that is gone: users.GetByID finds no row.
HoldOrphan ==
    /\ pc = "check"
    /\ item.user \notin users
    /\ pc' = "holdError"
    /\ UNCHANGED <<database, batch, item, tries, others, faults, observed>>

\* holdIfLimited fails for any other reason: one of its queries does.
HoldQueryFails ==
    /\ pc = "check"
    /\ StatementFails
    /\ pc' = "holdError"
    /\ UNCHANGED <<database, batch, item, tries, others, observed>>

\* A limit or a throttle applies.
HoldLimited ==
    /\ pc = "check"
    /\ item.user \in users
    /\ pc' = "defer"
    /\ UNCHANGED <<database, batch, item, tries, others, faults, observed>>

HoldPasses ==
    /\ pc = "check"
    /\ item.user \in users
    /\ pc' = "load"
    /\ UNCHANGED <<database, batch, item, tries, others, faults, observed>>

\* deferWithReason; the 'queued' event it adds is of no status anyone counts.
DeferHeld ==
    /\ pc = "defer"
    /\ Defer(item.id)
    /\ StartNext(batch)
    /\ UNCHANGED <<users, nextId, sentLog, failedLog, others, faults, observed>>

\* The deferral itself fails, and process() takes the error branch before the held one.
DeferFails ==
    /\ pc = "defer"
    /\ StatementFails
    /\ pc' = "holdError"
    /\ UNCHANGED <<database, batch, item, tries, others, observed>>

\* An error in the hold check costs an attempt, and no number of attempts ends it.
HoldErrorRetry ==
    /\ pc = "holdError"
    /\ \/ MarkRetry(item.id) /\ UNCHANGED faults
       \/ UNCHANGED queue /\ StatementFails
    /\ StartNext(batch)
    /\ UNCHANGED <<users, nextId, sentLog, failedLog, others, observed>>

\* deliver() reads the account, of which it needs RotationOn, and then the assigned SMTP
\* accounts: n of them.  (One step: nobody can tell which of the two reads came first.)
LoadAccounts(n) ==
    /\ pc = "load"
    /\ item.user \in users
    /\ n > 0
    /\ tries' = n
    /\ pc' = "send"
    /\ UNCHANGED <<database, batch, item, others, faults, observed>>

\* No account, no assigned SMTP account, or a failing query.
LoadFails ==
    /\ pc = "load"
    /\ \/ UNCHANGED faults        \* the account is gone, or nothing is assigned
       \/ StatementFails
    /\ pc' = "deliverError"
    /\ UNCHANGED <<database, batch, item, tries, others, observed>>

Transmitted(i) == copies' = [copies EXCEPT ![i] = IF @ = 0 THEN 1 ELSE 2]

\* smtp.SendMail returns nil.
SendAccepted ==
    /\ pc = "send"
    /\ Transmitted(item.id)
    /\ tries' = 0
    /\ pc' = "accepted"
    /\ UNCHANGED <<database, batch, item, others, faults, unclear>>

\* One account too many is tried.
NextAccount_overrun_bug ==
    /\ tries' = tries - 1
    /\ pc' = IF tries > 0 THEN "send" ELSE "deliverError"

\* The error of the last account is lost, and deliver() returns nil.
NextAccount_nil_bug ==
    /\ tries' = tries - 1
    /\ pc' = IF tries > 1 THEN "send" ELSE "accepted"

\* After an error deliver() falls back to the next assigned account, if there is one.
NextAccount ==
    /\ tries' = tries - 1
    /\ pc' = IF tries > 1 THEN "send" ELSE "deliverError"

SendRejected ==
    /\ pc = "send"
    /\ NextAccount
    /\ UNCHANGED <<database, batch, item, others, faults, observed>>

\* The upstream has taken the message and SendMail returns an error all the same: the
\* connection drops, or QUIT fails, after DATA was accepted.
SendUnclear ==
    /\ pc = "send"
    /\ Transmitted(item.id)
    /\ unclear' = unclear \cup {item.id}
    /\ NextAccount
    /\ UNCHANGED <<database, batch, item, others, faults>>

SettleSent ==
    /\ pc = "accepted"
    /\ MarkSent(item.id)
    /\ pc' = "logSent"
    /\ UNCHANGED <<users, nextId, sentLog, failedLog, batch, item, tries, others, faults,
                   observed>>

\* The error of MarkSent is dropped: the row stays pending and due.
SettleSentFails ==
    /\ pc = "accepted"
    /\ StatementFails
    /\ unclear' = unclear \cup {item.id}
    /\ pc' = "logSent"
    /\ UNCHANGED <<database, batch, item, tries, others, copies>>

LogSent ==
    /\ pc = "logSent"
    /\ \/ sentLog' = sentLog \cup {item.id} /\ UNCHANGED faults
       \/ UNCHANGED sentLog /\ StatementFails
    /\ StartNext(batch)
    /\ UNCHANGED <<users, queue, nextId, failedLog, others, observed>>

\* One attempt too few, and one too many.
Exhausted_early_bug == item.attempts + 1 >= RetryLimit
Exhausted_late_bug == item.attempts > RetryLimit

\* item.Attempts >= 4, on the copy
Exhausted == item.attempts >= RetryLimit

RetryLater ==
    /\ pc = "deliverError"
    /\ ~Exhausted
    /\ \/ MarkRetry(item.id) /\ UNCHANGED faults
       \/ UNCHANGED queue /\ StatementFails
    /\ StartNext(batch)
    /\ UNCHANGED <<users, nextId, sentLog, failedLog, others, observed>>

GiveUp ==
    /\ pc = "deliverError"
    /\ Exhausted
    /\ \/ MarkFailed(item.id) /\ UNCHANGED faults
       \/ UNCHANGED queue /\ StatementFails
    /\ pc' = "logFailed"
    /\ UNCHANGED <<users, nextId, sentLog, failedLog, batch, item, tries, others, observed>>

LogFailed ==
    /\ pc = "logFailed"
    /\ \/ failedLog' = failedLog \cup {item.id} /\ UNCHANGED faults
       \/ UNCHANGED failedLog /\ StatementFails
    /\ StartNext(batch)
    /\ UNCHANGED <<users, queue, nextId, sentLog, others, observed>>

-----------------------------------------------------------------------------
(* Everybody else *)

\* An SMTP session authenticates; what it keeps is a copy of the account.
Login(u) ==
    /\ u \in users \ sessions
    /\ sessions' = sessions \cup {u}
    /\ UNCHANGED <<database, worker, deleting, faults, observed>>

Logout(u) ==
    /\ u \in sessions
    /\ sessions' = sessions \ {u}
    /\ UNCHANGED <<database, worker, deleting, faults, observed>>

\* HandleMail inserts the row of one recipient, whatever became of the account since.  (If it
\* cannot, its 'failed' event is of no row, and no mail's.)
Enqueue(u) ==
    /\ u \in sessions
    /\ nextId <= MaxId
    /\ queue' = [queue EXCEPT ![NewId] =
                    [user |-> u, status |-> "pending", attempts |-> 0, due |-> TRUE]]
    /\ nextId' = nextId + 1
    /\ copies' = [copies EXCEPT ![NewId] = 0]     \* the row's mail is a new one
    /\ UNCHANGED <<users, sentLog, failedLog, worker, others, faults, unclear>>

\* next_attempt_at of row i comes to pass.
Elapse(i) ==
    /\ queue[i].status = "pending"
    /\ ~queue[i].due
    /\ queue' = [queue EXCEPT ![i].due = TRUE]
    /\ UNCHANGED <<users, nextId, sentLog, failedLog, worker, others, faults, observed>>

\* The owners a delete request ranges over: one, or all of them (user_id 0).
Scopes == {{u} : u \in Users} \cup {Users}

\* The status filter is forgotten.
PendingOf_bug(owners, lo, hi) ==
    {i \in lo..hi : Present(i) /\ queue[i].user \in owners}

\* DELETE ... WHERE status='pending', of some owners, created in some range of dates.
PendingOf(owners, lo, hi) ==
    {i \in lo..hi : queue[i].status = "pending" /\ queue[i].user \in owners}

DeletePending(owners, lo, hi) ==
    /\ PendingOf(owners, lo, hi) # {}
    /\ DeleteRows(PendingOf(owners, lo, hi))
    /\ UNCHANGED <<users, nextId, sentLog, failedLog, worker, others, faults, observed>>

\* DELETE FROM mail_events, of some owners: all their events or those of some dates.
DeleteEvents(S) ==
    /\ S # {}
    /\ sentLog' = sentLog \ S
    /\ failedLog' = failedLog \ S
    /\ UNCHANGED <<users, queue, nextId, worker, others, faults, observed>>

\* DeleteHard, one statement after the other, no transaction.  First the events (the two
\* statements before it touch no table of this module): those of the account's rows and of
\* some mails whose rows are gone, as events do not carry the number of the row.  Nobody asks
\* whether the account is there.  (One request at a time: a second one repeats the first.)
DeleteUserEvents(u, gone) ==
    /\ deleting[u] = "none"
    /\ LET S == {i \in Ids : queue[i].user = u} \cup {i \in gone : ~Present(i)} IN
       /\ sentLog' = sentLog \ S
       /\ failedLog' = failedLog \ S
    /\ deleting' = [deleting EXCEPT ![u] = "queue"]
    /\ UNCHANGED <<users, queue, nextId, worker, sessions, faults, observed>>

DeleteUserQueue(u) ==
    /\ deleting[u] = "queue"
    /\ DeleteRows({i \in Ids : queue[i].user = u})
    /\ deleting' = [deleting EXCEPT ![u] = "account"]
    /\ UNCHANGED <<users, nextId, sentLog, failedLog, worker, sessions, faults, observed>>

DeleteUserAccount(u) ==
    /\ deleting[u] = "account"
    /\ users' = users \ {u}
    /\ deleting' = [deleting EXCEPT ![u] = "none"]
    /\ UNCHANGED <<queue, nextId, sentLog, failedLog, worker, sessions, faults, observed>>

\* A statement of DeleteHard fails: it returns the error and undoes nothing.
AbandonDelete(u) ==
    /\ deleting[u] # "none"
    /\ StatementFails
    /\ deleting' = [deleting EXCEPT ![u] = "none"]
    /\ UNCHANGED <<database, worker, sessions, observed>>

\* The process ends and starts again: killed, or shut down by main, which cancels the
\* context and does not wait for the worker.  (Death inside SendMail after the upstream took
\* the message ends in the state that SendUnclear followed by Crash leads to.)
Crash ==
    /\ StatementFails
    /\ pc' = "idle"
    /\ batch' = {}
    /\ item' = NoItem
    /\ tries' = 0
    /\ sessions' = {}
    /\ deleting' = [u \in Users |-> "none"]
    /\ unclear' = IF pc = "accepted" THEN unclear \cup {item.id} ELSE unclear
    /\ UNCHANGED <<database, copies>>

-----------------------------------------------------------------------------
(* The specification *)

SendStep == SendAccepted \/ SendRejected \/ SendUnclear

WorkerStep ==
    \/ DequeueBatch
    \/ HoldOrphan \/ HoldQueryFails \/ HoldLimited \/ HoldPasses
    \/ DeferHeld \/ DeferFails \/ HoldErrorRetry
    \/ (\E n \in 1..MaxAccounts : LoadAccounts(n)) \/ LoadFails
    \/ SettleSent \/ SettleSentFails \/ LogSent
    \/ RetryLater \/ GiveUp \/ LogFailed

DeleteStep(u) ==
    \/ \E gone \in SUBSET (sentLog \cup failedLog) : DeleteUserEvents(u, gone)
    \/ DeleteUserQueue(u)
    \/ DeleteUserAccount(u)
    \/ AbandonDelete(u)

OtherStep ==
    \/ \E u \in Users : Login(u) \/ Logout(u) \/ Enqueue(u) \/ DeleteStep(u)
    \/ \E i \in Ids : Elapse(i)
    \/ \E owners \in Scopes, lo, hi \in Ids : DeletePending(owners, lo, hi)
    \/ \E S \in SUBSET (sentLog \cup failedLog) : DeleteEvents(S)
    \/ Crash

Next == WorkerStep \/ SendStep \/ OtherStep

Spec == Init /\ [][Next]_vars

\* The goroutine runs, time passes, and every call of SendMail returns.  The last is an
\* assumption about the upstream: net/smtp sets no deadline.  Nobody else is fair.
Fairness ==
    /\ WF_vars(WorkerStep)
    /\ WF_vars(SendStep)
    /\ \A i \in Ids : WF_vars(Elapse(i))

FairSpec == Spec /\ Fairness

-----------------------------------------------------------------------------
(* Properties *)

InHand == IF pc = "idle" THEN {} ELSE {item}

\* The mails the worker holds copies of.
Claimed == {c.id : c \in batch \cup InHand}

\* Of the mail the worker is at and those it has not come to, no copy is behind its row: the
\* row is as it was read, unless somebody deleted it.  The dashboards and the SMTP front end
\* write the table between any two statements of process(), which then acts on the copy.
SnapshotCurrent ==
    \A c \in batch \cup (IF pc \in {"logSent", "logFailed"} THEN {} ELSE InHand) :
        Present(c.id) => /\ queue[c.id].status = "pending"
                         /\ queue[c.id].user = c.user
                         /\ queue[c.id].attempts = c.attempts

\* A row says "sent" only if an upstream took that row's mail, although MarkSent knows the row
\* by its number alone and the row it was sent from may be deleted by then.
SentMeansAccepted ==
    \A i \in Ids : queue[i].status = "sent" => copies[i] > 0

\* A mail goes out twice, or goes out and is recorded as failed, only if the code was kept
\* from recording that it went out: SendMail returned an error after acceptance, MarkSent
\* failed, or the process died between the two.
OnceUnlessUnclear ==
    \A i \in Ids :
        copies[i] > 1 \/ (copies[i] > 0 /\ queue[i].status = "failed") => i \in unclear

\* process() gives a mail up only after RetryLimit attempts before the last, whoever deleted
\* or inserted rows meanwhile.
FailedMeansExhausted ==
    \A i \in Ids : queue[i].status = "failed" => queue[i].attempts > RetryLimit

\* A mail of an existing account that is still pending has used up no more than RetryLimit
\* attempts and those a failing statement cost it: the hold check retries without limit, but
\* not for such a mail.
RetryBudget ==
    \A i \in Ids :
        queue[i].status = "pending" /\ queue[i].user \in users =>
            queue[i].attempts <= RetryLimit + faults

\* The statistics and the queue agree.  What is counted as sent was accepted; while no
\* statement failed, what is counted as sent or failed is not pending any more, and a mail
\* counted as failed that went out all the same is one whose acceptance was unclear.
LogAgrees ==
    /\ \A i \in sentLog : copies[i] > 0
    /\ faults = 0 =>
          /\ \A i \in sentLog \cup failedLog : queue[i].status # "pending"
          /\ \A i \in failedLog : copies[i] > 0 => i \in unclear

\* A settled row never changes again, and only the deletion of its account removes it: the
\* worker holds copies that may be stale and updates by number, and the dashboards delete
\* what is pending.
SettledIsFinal ==
    [][\A i \in Ids :
        queue[i].status \in {"sent", "failed"} =>
            queue'[i] = queue[i] \/ deleting[queue[i].user] = "queue"]_vars

\* The queue and its worker keep the promise of module Outbox.
StateOf(i) ==
    IF Present(i) THEN queue[i].status ELSE IF i < nextId THEN "removed" ELSE "unused"

Promise == INSTANCE Outbox WITH state <- [i \in Ids |-> StateOf(i)], claimed <- Claimed

ImplementsOutbox == Promise!Spec

\* A mail of an existing account is not forgotten: it settles, is deleted, or keeps being held
\* back by its limits.  (The last can go on for ever: newer mail may use the limit up.)
HeldBack(i) == pc = "defer" /\ item.id = i

Unsettled(i) == queue[i].status = "pending" /\ queue[i].user \in users

NothingForgotten ==
    \A i \in Ids : <>[]Unsettled(i) => []<>HeldBack(i)

\* The same without asking that the account still exists.
RetriesEnd ==
    \A i \in Ids : <>[](queue[i].status = "pending") => []<>HeldBack(i)
=============================================================================
