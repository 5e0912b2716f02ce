--------------------------- MODULE DeliveryProofs ---------------------------
(***************************************************************************)
(* What holds of Delivery for any accounts, any number of mails, any batch *)
(* size, retry limit, number of SMTP accounts and number of faults.        *)
(*                                                                         *)
(* TypeOK is not inductive: that tries is counted down only from a         *)
(* positive value and that the worker's numbers are row numbers depends on *)
(* the phase the worker is in.  Nor are the safety invariants: that        *)
(* MarkSent hits the row the mail was sent from depends on numbers never   *)
(* being reused, and that MarkFailed adds its attempt to at least          *)
(* RetryLimit on the copy being as recent as the row.  IInv says all that. *)
(***************************************************************************)
EXTENDS Delivery, TLAPS

\* The copies that are not handled yet.
Live == batch \cup (IF pc \in {"logSent", "logFailed"} THEN {} ELSE InHand)

\* An idle worker holds nothing; a busy one holds a copy and, while it sends, an account.
WorkerOK ==
    /\ pc = "idle" => batch = {} /\ item = NoItem
    /\ pc # "idle" => item \in Copy
    /\ pc = "send" => tries > 0

RowsOwned == \A i \in Ids : Present(i) => queue[i].user \in Users

\* What is there or held has a number given out before.
Fresh ==
    /\ \A i \in Ids : Present(i) => i < nextId
    /\ \A c \in batch \cup InHand : c.id < nextId

\* No two copies of one row.
Distinct ==
    /\ \A c, d \in batch : c.id = d.id => c = d
    /\ pc # "idle" => \A c \in batch : c.id # item.id

AcceptedInHand == pc \in {"accepted", "logSent"} => copies[item.id] > 0

\* MarkFailed is reached with an exhausted copy, and the row it leaves is the bumped copy.
IInv ==
    /\ TypeOK
    /\ WorkerOK
    /\ RowsOwned
    /\ Fresh
    /\ Distinct
    /\ SnapshotCurrent
    /\ AcceptedInHand
    /\ SentMeansAccepted
    /\ FailedMeansExhausted

-----------------------------------------------------------------------------

LEMMA InitIInv == Init => IInv
  BY DeliveryAssumption
  DEF Init, IInv, TypeOK, WorkerOK, RowsOwned, Fresh, Distinct, SnapshotCurrent, AcceptedInHand,
      SentMeansAccepted, FailedMeansExhausted, Ids, Row, NoRow, Copy, NoItem, Status, Phase,
      DeletePhase, Present, InHand

\* Going on to the next copy leaves the worker in order, with copies it already had.
LEMMA StartNextOK ==
  ASSUME NEW rest \in SUBSET Copy, \A c, d \in rest : c.id = d.id => c = d, StartNext(rest),
         MaxAccounts \in Nat
  PROVE  /\ tries' \in 0..MaxAccounts
         /\ pc' \in {"idle", "check"}
         /\ batch' \in SUBSET Copy
         /\ item' \in Copy \cup {NoItem}
         /\ WorkerOK'
         /\ Distinct'
         /\ batch' \cup InHand' \subseteq rest
  BY DEF StartNext, WorkerOK, Distinct, InHand


\* A step that leaves the rows and the worker's copies alone and takes no acceptance back.
LEMMA QueueUntouched ==
  ASSUME IInv, UNCHANGED <<queue, nextId, batch, item>>,
         TypeOK', WorkerOK', AcceptedInHand',
         pc = "idle" <=> pc' = "idle",
         pc \in {"logSent", "logFailed"} => pc' \in {"logSent", "logFailed"},
         \A i \in Ids : copies[i] > 0 => copies'[i] > 0
  PROVE  IInv'
<1>1. RowsOwned' /\ FailedMeansExhausted'
  BY DEF IInv, RowsOwned, FailedMeansExhausted, Present
<1>2. SentMeansAccepted'
  BY DEF IInv, SentMeansAccepted
<1>3. Fresh' /\ Distinct'
  BY DEF IInv, Fresh, Distinct, InHand, Present
<1>4. SnapshotCurrent'
  BY DEF IInv, SnapshotCurrent, InHand, Present
<1> QED
  BY <1>1, <1>2, <1>3, <1>4 DEF IInv

\* A step that is done with the item, having changed at most the item's row, and goes on.
LEMMA ItemHandled ==
  ASSUME IInv, pc # "idle", StartNext(batch), UNCHANGED <<nextId, copies>>,
         queue' \in [Ids -> Row],
         \A i \in Ids : i # item.id => queue'[i] = queue[i],
         \A i \in Ids : queue'[i] = queue[i]
                        \/ /\ queue'[i].status = "pending"
                           /\ queue[i].status = "pending"
                           /\ queue'[i].user = queue[i].user,
         users' \subseteq Users, sentLog' \subseteq Ids, failedLog' \subseteq Ids,
         faults' \in 0..MaxFaults, unclear' \subseteq Ids, UNCHANGED others
  PROVE  IInv'
<1>1. /\ tries' \in 0..MaxAccounts
      /\ pc' \in {"idle", "check"}
      /\ batch' \in SUBSET Copy
      /\ item' \in Copy \cup {NoItem}
      /\ WorkerOK'
      /\ Distinct'
      /\ batch' \cup InHand' \subseteq batch
  BY StartNextOK, DeliveryAssumption DEF IInv, TypeOK, Distinct
<1>2. TypeOK'
  BY <1>1 DEF IInv, TypeOK, others, Phase
<1>3. RowsOwned' /\ FailedMeansExhausted' /\ SentMeansAccepted'
  BY DEF IInv, RowsOwned, FailedMeansExhausted, SentMeansAccepted, Present
<1>4. Fresh'
  BY <1>1 DEF IInv, Fresh, Present
<1>5. AcceptedInHand'
  BY <1>1 DEF AcceptedInHand
<1>6. SnapshotCurrent'
  <2>1. \A c \in batch : c.id \in Ids /\ c.id # item.id
    BY DEF IInv, TypeOK, Distinct, Copy
  <2>2. \A c \in batch : queue'[c.id] = queue[c.id]
    BY <2>1
  <2> QED
    BY <1>1, <2>2 DEF IInv, SnapshotCurrent, Present
<1> QED
  BY <1>1, <1>2, <1>3, <1>4, <1>5, <1>6 DEF IInv

\* A step that removes rows and does nothing else to what IInv speaks of.
LEMMA RowsDeleted ==
  ASSUME IInv, NEW S, DeleteRows(S), UNCHANGED <<nextId, sentLog, failedLog, worker, faults>>,
         UNCHANGED <<copies, unclear>>, users' \subseteq Users, sessions' \subseteq Users,
         deleting' \in [Users -> DeletePhase]
  PROVE  IInv'
<1>1. queue' \in [Ids -> Row] /\ \A i \in Ids : queue'[i] \in {NoRow, queue[i]}
  BY DeliveryAssumption
  DEF IInv, TypeOK, DeleteRows, NoRow, Row, Status
<1>2. \A i \in Ids : queue'[i].status # "absent" => queue'[i] = queue[i]
  BY <1>1 DEF NoRow
<1>3. TypeOK' /\ WorkerOK' /\ Distinct' /\ AcceptedInHand'
  BY <1>1 DEF IInv, TypeOK, WorkerOK, Distinct, AcceptedInHand, worker
<1>4. RowsOwned' /\ FailedMeansExhausted' /\ SentMeansAccepted'
  BY <1>2 DEF IInv, RowsOwned, FailedMeansExhausted, SentMeansAccepted, Present
<1>5. Fresh'
  BY <1>2 DEF IInv, Fresh, Present, InHand, worker
<1>6. SnapshotCurrent'
  <2>1. \A c \in batch \cup InHand : pc # "idle" => c.id \in Ids
    BY DEF IInv, TypeOK, WorkerOK, Copy, InHand
  <2> QED
    BY <1>2, <2>1 DEF IInv, SnapshotCurrent, WorkerOK, Present, InHand, worker
<1> QED
  BY <1>3, <1>4, <1>5, <1>6 DEF IInv

\* The rows keep their shape, whatever a statement of the worker writes.
LEMMA RowsTyped ==
  ASSUME TypeOK, NEW i \in Ids
  PROVE  /\ MarkSent(i) => queue' \in [Ids -> Row]
         /\ MarkRetry(i) => queue' \in [Ids -> Row]
         /\ MarkFailed(i) => queue' \in [Ids -> Row]
         /\ Defer(i) => queue' \in [Ids -> Row]
<1>1. queue[i] \in Row /\ Bump(queue[i].attempts) \in 0..AttemptCap
  BY DeliveryAssumption DEF TypeOK, Bump, Row
<1>2. \A r \in Row : [r EXCEPT !.due = FALSE] \in Row
  BY DEF Row
<1>3. /\ [queue[i] EXCEPT !.attempts = Bump(@)] \in Row
      /\ [queue[i] EXCEPT !.status = "sent"] \in Row
      /\ [queue[i] EXCEPT !.attempts = Bump(@), !.status = "failed"] \in Row
  BY <1>1 DEF Row, Status
<1>4. /\ [queue[i] EXCEPT !.attempts = Bump(@), !.due = FALSE] \in Row
      /\ [queue[i] EXCEPT !.due = FALSE] \in Row
  BY <1>1, <1>2, <1>3
<1>5. MarkSent(i) => queue' \in [Ids -> Row]
  BY <1>3 DEF TypeOK, MarkSent
<1>6. MarkRetry(i) => queue' \in [Ids -> Row]
  BY <1>4 DEF TypeOK, MarkRetry
<1>7. MarkFailed(i) => queue' \in [Ids -> Row]
  BY <1>3 DEF TypeOK, MarkFailed
<1>8. Defer(i) => queue' \in [Ids -> Row]
  BY <1>4 DEF TypeOK, Defer
<1> QED
  BY <1>5, <1>6, <1>7, <1>8

\* A copy that is not settled yet agrees with its row: if the row is there, it is pending.
LEMMA ItemPending ==
  ASSUME IInv, pc \notin {"idle", "logSent", "logFailed"}
  PROVE  /\ item \in Copy /\ item.id \in Ids
         /\ Present(item.id) => /\ queue[item.id].status = "pending"
                                /\ queue[item.id].user = item.user
                                /\ queue[item.id].attempts = item.attempts
  BY DEF IInv, WorkerOK, SnapshotCurrent, InHand, Copy

LEMMA StepIInv == IInv /\ [Next]_vars => IInv'
<1> SUFFICES ASSUME IInv, [Next]_vars PROVE IInv'
  OBVIOUS
<1> USE DeliveryAssumption
<1>0. /\ TypeOK /\ WorkerOK
      /\ pc # "idle" => item.id \in Ids /\ item \in Copy
  BY DEF IInv, WorkerOK, Copy
<1>1. CASE HoldOrphan \/ HoldQueryFails \/ HoldLimited \/ HoldPasses \/ DeferFails \/ LoadFails
  <2>1. TypeOK' /\ WorkerOK' /\ AcceptedInHand'
    BY <1>0, <1>1
    DEF HoldOrphan, HoldQueryFails, HoldLimited, HoldPasses, DeferFails, LoadFails, StatementFails,
        TypeOK, WorkerOK, AcceptedInHand, Phase, database, others, observed
  <2> QED
    BY <1>1, <2>1, QueueUntouched
    DEF HoldOrphan, HoldQueryFails, HoldLimited, HoldPasses, DeferFails, LoadFails, database,
        observed
<1>2. CASE SendAccepted
  <2>1. TypeOK' /\ WorkerOK' /\ AcceptedInHand'
    BY <1>0, <1>2
    DEF SendAccepted, Transmitted, TypeOK, WorkerOK, AcceptedInHand, Phase, database, others
  <2> QED
    BY <1>0, <1>2, <2>1, QueueUntouched DEF SendAccepted, Transmitted, TypeOK, database
<1>3. CASE SendRejected
  <2>1. TypeOK' /\ WorkerOK' /\ AcceptedInHand'
    BY <1>0, <1>3
    DEF SendRejected, NextAccount, TypeOK, WorkerOK, AcceptedInHand, Phase, database, others,
        observed
  <2> QED
    BY <1>3, <2>1, QueueUntouched DEF SendRejected, NextAccount, database, observed
<1>4. CASE SendUnclear
  <2>1. TypeOK' /\ WorkerOK' /\ AcceptedInHand'
    BY <1>0, <1>4
    DEF SendUnclear, NextAccount, Transmitted, TypeOK, WorkerOK, AcceptedInHand, Phase, database,
        others
  <2> QED
    BY <1>0, <1>4, <2>1, QueueUntouched
    DEF SendUnclear, NextAccount, Transmitted, TypeOK, database
<1>5. CASE SettleSentFails
  <2>1. TypeOK' /\ WorkerOK' /\ AcceptedInHand'
    BY <1>0, <1>5
    DEF SettleSentFails, StatementFails, IInv, TypeOK, WorkerOK, AcceptedInHand, Phase, database,
        others
  <2> QED
    BY <1>5, <2>1, QueueUntouched DEF SettleSentFails, database
<1>6. CASE DeferHeld
  <2>1. queue' \in [Ids -> Row]
    BY <1>0, <1>6, RowsTyped DEF DeferHeld, TypeOK
  <2>2. Present(item.id) => queue[item.id].status = "pending"
    BY <1>6, ItemPending DEF DeferHeld
  <2>3. \A i \in Ids : queue'[i] = queue[i]
                        \/ /\ i = item.id
                           /\ queue'[i].status = "pending"
                           /\ queue[i].status = "pending"
                           /\ queue'[i].user = queue[i].user
    BY <1>0, <1>6, <2>1, <2>2 DEF DeferHeld, MarkRetry, Defer, TypeOK, Row
  <2> QED
    BY <1>0, <1>6, <2>1, <2>3, ItemHandled DEF DeferHeld, TypeOK, observed, others
<1>7. CASE HoldErrorRetry
  <2>1. queue' \in [Ids -> Row]
    BY <1>0, <1>7, RowsTyped DEF HoldErrorRetry, TypeOK
  <2>2. Present(item.id) => queue[item.id].status = "pending"
    BY <1>7, ItemPending DEF HoldErrorRetry
  <2>3. \A i \in Ids : queue'[i] = queue[i]
                        \/ /\ i = item.id
                           /\ queue'[i].status = "pending"
                           /\ queue[i].status = "pending"
                           /\ queue'[i].user = queue[i].user
    BY <1>0, <1>7, <2>1, <2>2 DEF HoldErrorRetry, MarkRetry, Defer, TypeOK, Row
  <2> QED
    BY <1>0, <1>7, <2>1, <2>3, ItemHandled
    DEF HoldErrorRetry, StatementFails, TypeOK, observed, others
<1>8. CASE RetryLater
  <2>1. queue' \in [Ids -> Row]
    BY <1>0, <1>8, RowsTyped DEF RetryLater, TypeOK
  <2>2. Present(item.id) => queue[item.id].status = "pending"
    BY <1>8, ItemPending DEF RetryLater
  <2>3. \A i \in Ids : queue'[i] = queue[i]
                        \/ /\ i = item.id
                           /\ queue'[i].status = "pending"
                           /\ queue[i].status = "pending"
                           /\ queue'[i].user = queue[i].user
    BY <1>0, <1>8, <2>1, <2>2 DEF RetryLater, MarkRetry, Defer, TypeOK, Row
  <2> QED
    BY <1>0, <1>8, <2>1, <2>3, ItemHandled
    DEF RetryLater, StatementFails, TypeOK, observed, others
<1>9. CASE LogSent
  <2>1. queue' = queue /\ sentLog' \subseteq Ids /\ failedLog' \subseteq Ids
    BY <1>0, <1>9 DEF LogSent, TypeOK
  <2> QED
    BY <1>0, <1>9, <2>1, ItemHandled DEF LogSent, StatementFails, TypeOK, observed, others
<1>10. CASE LogFailed
  <2>1. queue' = queue /\ sentLog' \subseteq Ids /\ failedLog' \subseteq Ids
    BY <1>0, <1>10 DEF LogFailed, TypeOK
  <2> QED
    BY <1>0, <1>10, <2>1, ItemHandled DEF LogFailed, StatementFails, TypeOK, observed, others
<1>11. CASE DequeueBatch
  <2>0. Selected \subseteq Ids /\ \A i \in Selected : queue[i].status = "pending"
    BY DEF Selected, Ready
  <2>1. {CopyOf(i) : i \in Selected} \in SUBSET Copy
    <3>1. ASSUME NEW i \in Selected
          PROVE  CopyOf(i) \in Copy
      <4>1. queue[i] \in Row /\ queue[i].user \in Users
        BY <1>0, <2>0 DEF IInv, TypeOK, RowsOwned, Present
      <4> QED
        BY <2>0, <4>1 DEF CopyOf, Copy, Row
    <3> QED
      BY <3>1
  <2>2. /\ tries' \in 0..MaxAccounts
        /\ pc' \in {"idle", "check"}
        /\ batch' \in SUBSET Copy
        /\ item' \in Copy \cup {NoItem}
        /\ WorkerOK'
        /\ Distinct'
        /\ batch' \cup InHand' \subseteq {CopyOf(i) : i \in Selected}
    BY <1>11, <2>1, StartNextOK DEF DequeueBatch, CopyOf
  <2>3. \A c \in batch' \cup InHand' :
            /\ Present(c.id) /\ c.id \in Ids
            /\ queue[c.id].status = "pending"
            /\ queue[c.id].user = c.user
            /\ queue[c.id].attempts = c.attempts
    <3>1. \A i \in Selected : /\ CopyOf(i).id = i
                              /\ CopyOf(i).user = queue[i].user
                              /\ CopyOf(i).attempts = queue[i].attempts
      BY DEF CopyOf
    <3> QED
      BY <2>0, <2>2, <3>1 DEF Present
  <2>4. TypeOK'
    BY <1>0, <1>11, <2>2 DEF DequeueBatch, TypeOK, database, others, observed, Phase
  <2>5. RowsOwned' /\ SentMeansAccepted' /\ FailedMeansExhausted'
    BY <1>11 DEF DequeueBatch, IInv, RowsOwned, SentMeansAccepted, FailedMeansExhausted, Present,
                 database, observed
  <2>6. Fresh'
    BY <1>11, <2>3 DEF DequeueBatch, IInv, Fresh, Present, database
  <2>7. SnapshotCurrent' /\ AcceptedInHand'
    BY <1>11, <2>2, <2>3
    DEF DequeueBatch, SnapshotCurrent, AcceptedInHand, Present, InHand, database
  <2> QED
    BY <2>2, <2>4, <2>5, <2>6, <2>7 DEF IInv
<1>12. CASE SettleSent
  <2>1. queue' \in [Ids -> Row]
    BY <1>0, <1>12, RowsTyped DEF SettleSent
  <2>2. \A i \in Ids : /\ i # item.id => queue'[i] = queue[i]
                       /\ queue'[i].user = queue[i].user
                       /\ Present(i)' => Present(i)
                       /\ queue'[i].status = "sent" => queue[i].status = "sent" \/ i = item.id
                       /\ queue'[i].status = "failed" => queue'[i] = queue[i]
    BY <1>0, <1>12, <2>1 DEF SettleSent, MarkSent, TypeOK, Row, Present
  <2>3. TypeOK' /\ WorkerOK' /\ AcceptedInHand'
    BY <1>0, <1>12, <2>1
    DEF SettleSent, IInv, TypeOK, WorkerOK, AcceptedInHand, Phase, others, observed
  <2>4. RowsOwned' /\ FailedMeansExhausted'
    BY <1>12, <2>2 DEF IInv, RowsOwned, FailedMeansExhausted, Present
  <2>5. SentMeansAccepted'
    BY <1>12, <2>2 DEF SettleSent, IInv, SentMeansAccepted, AcceptedInHand, observed
  <2>6. Fresh' /\ Distinct'
    BY <1>12, <2>2 DEF SettleSent, IInv, Fresh, Distinct, InHand
  <2>7. SnapshotCurrent'
    BY <1>0, <1>12, <2>2
    DEF SettleSent, IInv, SnapshotCurrent, Distinct, TypeOK, Copy, Present, InHand
  <2> QED
    BY <2>3, <2>4, <2>5, <2>6, <2>7 DEF IInv
<1>13. CASE GiveUp
  <2>1. queue' \in [Ids -> Row]
    BY <1>0, <1>13, RowsTyped DEF GiveUp, TypeOK
  <2>2. Present(item.id) => queue[item.id].attempts >= RetryLimit
    BY <1>13, ItemPending DEF GiveUp, Exhausted
  <2>3. \A i \in Ids : /\ i # item.id => queue'[i] = queue[i]
                       /\ queue'[i].user = queue[i].user
                       /\ Present(i)' => Present(i)
                       /\ queue'[i].status = "sent" => queue'[i] = queue[i]
                       /\ queue'[i].status = "failed" =>
                             queue'[i] = queue[i] \/ queue'[i].attempts > RetryLimit
    BY <1>0, <1>13, <2>1, <2>2 DEF GiveUp, MarkFailed, Bump, TypeOK, Row, Present
  <2>4. TypeOK' /\ WorkerOK' /\ AcceptedInHand'
    BY <1>0, <1>13, <2>1
    DEF GiveUp, IInv, TypeOK, WorkerOK, AcceptedInHand, StatementFails, Phase, others, observed
  <2>5. RowsOwned' /\ SentMeansAccepted'
    BY <1>13, <2>3 DEF GiveUp, IInv, RowsOwned, SentMeansAccepted, Present, observed
  <2>6. FailedMeansExhausted'
    BY <2>3 DEF IInv, FailedMeansExhausted
  <2>7. Fresh' /\ Distinct'
    BY <1>13, <2>3 DEF GiveUp, IInv, Fresh, Distinct, InHand
  <2>8. SnapshotCurrent'
    BY <1>0, <1>13, <2>3
    DEF GiveUp, IInv, SnapshotCurrent, Distinct, TypeOK, Copy, Present, InHand
  <2> QED
    BY <2>4, <2>5, <2>6, <2>7, <2>8 DEF IInv
<1>14. CASE Crash
  BY <1>14
  DEF Crash, IInv, TypeOK, WorkerOK, RowsOwned, Fresh, Distinct, SnapshotCurrent, AcceptedInHand,
      SentMeansAccepted, FailedMeansExhausted, StatementFails, InHand, Present, Phase, DeletePhase,
      Copy, database
<1>15. ASSUME NEW n \in 1..MaxAccounts, LoadAccounts(n)
       PROVE  IInv'
  <2>1. TypeOK' /\ WorkerOK' /\ AcceptedInHand'
    BY <1>0, <1>15
    DEF LoadAccounts, TypeOK, WorkerOK, AcceptedInHand, Phase, database, others, observed
  <2> QED
    BY <1>15, <2>1, QueueUntouched DEF LoadAccounts, database, observed
<1>16. ASSUME NEW u \in Users, Enqueue(u)
       PROVE  IInv'
  <2>1. /\ nextId \in Ids
        /\ [user |-> u, status |-> "pending", attempts |-> 0, due |-> TRUE] \in Row
    BY <1>0, <1>16 DEF Enqueue, TypeOK, Ids, Row, Status
  <2>2. TypeOK' /\ WorkerOK'
    BY <1>0, <1>16, <2>1 DEF Enqueue, NewId, TypeOK, WorkerOK, Ids, worker, others
  <2>3. RowsOwned' /\ SentMeansAccepted' /\ FailedMeansExhausted'
    BY <1>0, <1>16, <2>1
    DEF Enqueue, NewId, IInv, TypeOK, RowsOwned, SentMeansAccepted, FailedMeansExhausted, Present
  <2>4. Fresh' /\ Distinct'
    BY <1>0, <1>16, <2>1
    DEF Enqueue, NewId, IInv, TypeOK, Fresh, Distinct, InHand, Present, worker, Ids, Copy
  <2>5. SnapshotCurrent' /\ AcceptedInHand'
    BY <1>0, <1>16, <2>1
    DEF Enqueue, NewId, IInv, TypeOK, Fresh, SnapshotCurrent, AcceptedInHand, InHand, Present,
        worker, Ids
  <2> QED
    BY <2>2, <2>3, <2>4, <2>5 DEF IInv
<1>17. ASSUME NEW i \in Ids, Elapse(i)
       PROVE  IInv'
  <2>1. [queue[i] EXCEPT !.due = TRUE] \in Row
    <3>1. PICK r \in Row : r = queue[i]
      BY <1>0 DEF TypeOK
    <3>2. [r EXCEPT !.due = TRUE] \in Row
      BY DEF Row
    <3> QED
      BY <3>1, <3>2, Zenon
  <2>2. /\ queue' \in [Ids -> Row]
        /\ \A j \in Ids : /\ queue'[j].status = queue[j].status
                          /\ queue'[j].user = queue[j].user
                          /\ queue'[j].attempts = queue[j].attempts
    BY <1>0, <1>17, <2>1 DEF Elapse, TypeOK, Row
  <2>3. TypeOK' /\ WorkerOK' /\ AcceptedInHand' /\ Distinct'
    BY <1>0, <1>17, <2>2
    DEF Elapse, IInv, TypeOK, WorkerOK, AcceptedInHand, Distinct, worker, others, observed
  <2>4. RowsOwned' /\ SentMeansAccepted' /\ FailedMeansExhausted'
    BY <1>17, <2>2
    DEF Elapse, IInv, RowsOwned, SentMeansAccepted, FailedMeansExhausted, Present, observed
  <2>5. Fresh'
    BY <1>17, <2>2 DEF Elapse, IInv, Fresh, Present, InHand, worker
  <2>6. SnapshotCurrent'
    <3>1. \A c \in batch \cup InHand : c.id \in Ids
      BY <1>0 DEF TypeOK, InHand, Copy
    <3> QED
      BY <1>17, <2>2, <3>1 DEF Elapse, IInv, SnapshotCurrent, Present, InHand, worker
  <2> QED
    BY <2>3, <2>4, <2>5, <2>6 DEF IInv
<1>18. ASSUME NEW owners, NEW lo \in Ids, NEW hi \in Ids, DeletePending(owners, lo, hi)
       PROVE  IInv'
  BY <1>0, <1>18, RowsDeleted DEF DeletePending, TypeOK, others, observed
<1>19. ASSUME NEW u \in Users, DeleteUserQueue(u)
       PROVE  IInv'
  BY <1>0, <1>19, RowsDeleted DEF DeleteUserQueue, TypeOK, DeletePhase, observed
<1>20. ASSUME NEW u \in Users, Login(u) \/ Logout(u) \/ DeleteUserAccount(u) \/ AbandonDelete(u)
       PROVE  IInv'
  <2>1. TypeOK' /\ WorkerOK' /\ AcceptedInHand'
    BY <1>0, <1>20
    DEF Login, Logout, DeleteUserAccount, AbandonDelete, IInv, TypeOK, WorkerOK, AcceptedInHand,
        StatementFails, DeletePhase, database, worker, others, observed
  <2> QED
    BY <1>20, <2>1, QueueUntouched
    DEF Login, Logout, DeleteUserAccount, AbandonDelete, database, worker, observed
<1>21. ASSUME NEW u \in Users, NEW gone, DeleteUserEvents(u, gone)
       PROVE  IInv'
  <2>1. TypeOK' /\ WorkerOK' /\ AcceptedInHand'
    BY <1>0, <1>21
    DEF DeleteUserEvents, IInv, TypeOK, WorkerOK, AcceptedInHand, DeletePhase, worker, observed
  <2> QED
    BY <1>21, <2>1, QueueUntouched DEF DeleteUserEvents, worker, observed
<1>22. ASSUME NEW S, DeleteEvents(S)
       PROVE  IInv'
  <2>1. TypeOK' /\ WorkerOK' /\ AcceptedInHand'
    BY <1>0, <1>22
    DEF DeleteEvents, IInv, TypeOK, WorkerOK, AcceptedInHand, worker, others, observed
  <2> QED
    BY <1>22, <2>1, QueueUntouched DEF DeleteEvents, worker, observed
<1>23. CASE UNCHANGED vars
  <2>1. TypeOK' /\ WorkerOK' /\ AcceptedInHand'
    BY <1>0, <1>23
    DEF vars, IInv, TypeOK, WorkerOK, AcceptedInHand, database, worker, others, observed
  <2> QED
    BY <1>23, <2>1, QueueUntouched DEF vars, database, worker, observed
<1> QED
  BY <1>1, <1>2, <1>3, <1>4, <1>5, <1>6, <1>7, <1>8, <1>9, <1>10, <1>11, <1>12, <1>13,
     <1>14, <1>15, <1>16, <1>17, <1>18, <1>19, <1>20, <1>21, <1>22, <1>23
  DEF Next, WorkerStep, SendStep, OtherStep, DeleteStep

\* Every variable keeps its type, for any number of accounts, mails and faults.
THEOREM TypeCorrect == Spec => []TypeOK
<1>1. Init => IInv
  BY InitIInv
<1>2. IInv /\ [Next]_vars => IInv'
  BY StepIInv
<1>3. IInv => TypeOK
  BY DEF IInv
<1> QED
  BY <1>1, <1>2, <1>3, PTL DEF Spec

\* The worker's copies are never behind the rows (DequeueBatch and the handlers around it).
THEOREM Snapshot == Spec => []SnapshotCurrent
<1>1. IInv => SnapshotCurrent
  BY DEF IInv
<1> QED
  BY <1>1, InitIInv, StepIInv, PTL DEF Spec

\* A row that says "sent" is the row of a mail that an upstream accepted (MarkSent).
THEOREM Accepted == Spec => []SentMeansAccepted
<1>1. IInv => SentMeansAccepted
  BY DEF IInv
<1> QED
  BY <1>1, InitIInv, StepIInv, PTL DEF Spec

\* A row that says "failed" has more than RetryLimit attempts behind it (MarkFailed).
THEOREM GivenUp == Spec => []FailedMeansExhausted
<1>1. IInv => FailedMeansExhausted
  BY DEF IInv
<1> QED
  BY <1>1, InitIInv, StepIInv, PTL DEF Spec

-----------------------------------------------------------------------------
(* Settled rows *)

\* No statement of the worker reaches a settled row: the copy it acts on is of a pending row.
LEMMA WorkerSparesSettled ==
  ASSUME IInv, pc \notin {"idle", "logSent", "logFailed"}, NEW i \in Ids,
         queue[i].status \in {"sent", "failed"},
         \/ MarkSent(item.id) \/ MarkRetry(item.id) \/ MarkFailed(item.id) \/ Defer(item.id)
         \/ UNCHANGED queue
  PROVE  queue'[i] = queue[i]
<1>1. item.id \in Ids /\ (Present(item.id) => queue[item.id].status = "pending")
  BY ItemPending
<1>2. Present(item.id) => item.id # i
  BY <1>1
<1> QED
  BY <1>1, <1>2 DEF MarkSent, MarkRetry, MarkFailed, Defer, IInv, TypeOK

LEMMA StepSpares ==
  ASSUME IInv, [Next]_vars, NEW i \in Ids, queue[i].status \in {"sent", "failed"}
  PROVE  queue'[i] = queue[i] \/ deleting[queue[i].user] = "queue"
<1>1. CASE WorkerStep
  BY <1>1, WorkerSparesSettled
  DEF WorkerStep, DequeueBatch, HoldOrphan, HoldQueryFails, HoldLimited, HoldPasses, DeferHeld,
      DeferFails, HoldErrorRetry, LoadAccounts, LoadFails, SettleSent, SettleSentFails, LogSent,
      RetryLater, GiveUp, LogFailed, database
<1>2. CASE SendStep
  BY <1>2 DEF SendStep, SendAccepted, SendRejected, SendUnclear, database
<1>3. ASSUME NEW u \in Users, Enqueue(u)
      PROVE  queue'[i] = queue[i]
  BY <1>3 DEF Enqueue, NewId, IInv, Fresh, TypeOK, Present
<1>4. ASSUME NEW j \in Ids, Elapse(j)
      PROVE  queue'[i] = queue[i]
  BY <1>4 DEF Elapse, IInv, TypeOK
<1>5. ASSUME NEW owners, NEW lo \in Ids, NEW hi \in Ids, DeletePending(owners, lo, hi)
      PROVE  queue'[i] = queue[i]
  BY <1>5 DEF DeletePending, DeleteRows, PendingOf
<1>6. ASSUME NEW u \in Users, DeleteUserQueue(u)
      PROVE  queue'[i] = queue[i] \/ deleting[queue[i].user] = "queue"
  BY <1>6 DEF DeleteUserQueue, DeleteRows
<1>7. ASSUME NEW u \in Users,
             \/ Login(u) \/ Logout(u) \/ DeleteUserAccount(u) \/ AbandonDelete(u)
             \/ \E gone \in SUBSET (sentLog \cup failedLog) : DeleteUserEvents(u, gone)
      PROVE  queue'[i] = queue[i]
  BY <1>7 DEF Login, Logout, DeleteUserAccount, AbandonDelete, DeleteUserEvents, database
<1>8. CASE Crash \/ (\E S \in SUBSET (sentLog \cup failedLog) : DeleteEvents(S)) \/ UNCHANGED vars
  BY <1>8 DEF Crash, DeleteEvents, vars, database
<1> QED
  BY <1>1, <1>2, <1>3, <1>4, <1>5, <1>6, <1>7, <1>8 DEF Next, OtherStep, DeleteStep

\* No interleaving of the worker, the SMTP front end and the dashboards changes a settled row;
\* only the deletion of its account removes it.
THEOREM SettledStays == Spec => SettledIsFinal
<1>1. IInv /\ [Next]_vars =>
        [\A i \in Ids :
            queue[i].status \in {"sent", "failed"} =>
                queue'[i] = queue[i] \/ deleting[queue[i].user] = "queue"]_vars
  BY StepSpares
<1> QED
  BY <1>1, InitIInv, StepIInv, PTL DEF Spec, SettledIsFinal

-----------------------------------------------------------------------------
(* The attempts a mail may use *)

\* The error branch of the hold check, where no number of attempts ends the retries, is taken
\* for a mail of an existing account only if a statement failed: the attempt the branch is
\* about to use is one of those.
Budget ==
    /\ RetryBudget
    /\ pc = "holdError" /\ item.user \in users /\ Present(item.id) =>
            queue[item.id].attempts < RetryLimit + faults

\* A step after which every pending row is one that was pending, with no more attempts than it
\* had or than it may have.
LEMMA BudgetKept ==
  ASSUME RetryBudget, RetryLimit \in Nat, faults \in Nat, faults' \in Nat,
         queue' \in [Ids -> Row], AttemptCap \in Nat,
         users' \subseteq users, faults <= faults',
         \A i \in Ids : queue'[i].status = "pending" /\ queue'[i].user \in users' =>
             \/ /\ queue[i].status = "pending"
                /\ queue'[i].user = queue[i].user
                /\ queue'[i].attempts = queue[i].attempts
             \/ queue'[i].attempts <= RetryLimit + faults'
  PROVE  RetryBudget'
<1> SUFFICES ASSUME NEW i \in Ids, queue'[i].status = "pending", queue'[i].user \in users'
             PROVE  queue'[i].attempts <= RetryLimit + faults'
  BY DEF RetryBudget
<1>1. CASE queue'[i].attempts <= RetryLimit + faults'
  BY <1>1
<1>2. CASE /\ queue[i].status = "pending"
           /\ queue'[i].user = queue[i].user
           /\ queue'[i].attempts = queue[i].attempts
  <2>1. queue'[i].attempts \in Nat /\ queue[i].attempts <= RetryLimit + faults
    BY <1>2 DEF RetryBudget, Row
  <2> QED
    BY <1>2, <2>1
<1> QED
  BY <1>1, <1>2

\* Where the worker retries, the attempt it adds is within the budget.
LEMMA RetryWithinBudget ==
  ASSUME IInv, Budget, faults' \in Nat, faults <= faults', UNCHANGED users,
         \/ pc = "deliverError" /\ ~Exhausted
         \/ pc = "holdError",
         MarkRetry(item.id), NEW i \in Ids,
         queue'[i].status = "pending", queue'[i].user \in users'
  PROVE  \/ /\ queue[i].status = "pending"
            /\ queue'[i].user = queue[i].user
            /\ queue'[i].attempts = queue[i].attempts
         \/ queue'[i].attempts <= RetryLimit + faults'
<1>1. /\ item \in Copy /\ item.id \in Ids /\ queue \in [Ids -> Row] /\ faults \in Nat
      /\ queue[i] \in Row
  BY ItemPending DEF IInv, TypeOK
<1>2. CASE i # item.id \/ ~Present(item.id)
  BY <1>1, <1>2 DEF MarkRetry
<1>3. CASE i = item.id /\ Present(item.id)
  <2>1. /\ queue'[i].attempts = Bump(queue[i].attempts)
        /\ queue'[i].user = queue[i].user
    BY <1>1, <1>3 DEF MarkRetry, Row
  <2>2. queue[i].attempts = item.attempts /\ queue[i].attempts \in Nat
    BY <1>1, <1>3, ItemPending, DeliveryAssumption DEF Row
  <2>3. queue[i].attempts < RetryLimit + faults
    <3>1. CASE pc = "holdError"
      BY <1>3, <2>1, <3>1, ItemPending DEF Budget
    <3>2. CASE pc = "deliverError" /\ ~Exhausted
      <4>1. item.attempts < RetryLimit
        BY <2>2, <1>3, <3>2, DeliveryAssumption DEF Exhausted
      <4> QED
        BY <1>1, <2>2, <4>1, DeliveryAssumption
    <3> QED
      BY <3>1, <3>2
  <2> QED
    BY <1>1, <2>1, <2>2, <2>3, DeliveryAssumption DEF Bump
<1> QED
  BY <1>2, <1>3

LEMMA StepBudget == IInv /\ IInv' /\ Budget /\ [Next]_vars => Budget'
<1> SUFFICES ASSUME IInv, IInv', Budget, [Next]_vars
             PROVE  Budget'
  OBVIOUS
<1> USE DeliveryAssumption
<1>0. /\ queue \in [Ids -> Row] /\ queue' \in [Ids -> Row] /\ faults \in Nat /\ faults' \in Nat
      /\ \A i \in Ids : queue[i].attempts \in Nat /\ queue[i] \in Row
      /\ RetryBudget
  BY DEF IInv, TypeOK, Row, Budget
<1>1. CASE HoldQueryFails \/ DeferFails
  <2>1. RetryBudget'
    BY <1>0, <1>1, BudgetKept DEF HoldQueryFails, DeferFails, StatementFails, database
  <2>2. Present(item.id) => queue[item.id].status = "pending" /\ item.id \in Ids
    BY <1>1, ItemPending DEF HoldQueryFails, DeferFails
  <2>3. Present(item.id) => queue[item.id].user = item.user
    BY <1>1, ItemPending DEF HoldQueryFails, DeferFails
  <2>4. Present(item.id) /\ item.user \in users =>
            queue[item.id].attempts < RetryLimit + faults'
    BY <1>0, <1>1, <2>2, <2>3
    DEF HoldQueryFails, DeferFails, StatementFails, RetryBudget
  <2> QED
    BY <1>1, <2>1, <2>4 DEF HoldQueryFails, DeferFails, Budget, Present, database
<1>2. CASE HoldErrorRetry \/ RetryLater
  <2>1. pc' \in {"idle", "check"} /\ UNCHANGED users /\ faults <= faults'
    BY <1>0, <1>2 DEF HoldErrorRetry, RetryLater, StartNext, StatementFails
  <2>2. RetryBudget'
    BY <1>0, <1>2, <2>1, BudgetKept, RetryWithinBudget DEF HoldErrorRetry, RetryLater
  <2> QED
    BY <2>1, <2>2 DEF Budget
<1>3. CASE \/ DequeueBatch \/ HoldOrphan \/ HoldLimited \/ HoldPasses
           \/ (\E n \in 1..MaxAccounts : LoadAccounts(n)) \/ LoadFails \/ SendStep
           \/ SettleSentFails \/ LogSent \/ LogFailed
  <2>1. UNCHANGED <<queue, users>> /\ faults <= faults'
    BY <1>0, <1>3
    DEF DequeueBatch, HoldOrphan, HoldLimited, HoldPasses, LoadAccounts, LoadFails, SendStep,
        SendAccepted, SendRejected, SendUnclear, SettleSentFails, LogSent, LogFailed,
        StatementFails, database
  <2>2. pc' = "holdError" => item' \notin {c \in Copy : c.user \in users'}
    BY <1>3
    DEF DequeueBatch, HoldOrphan, HoldLimited, HoldPasses, LoadAccounts, LoadFails, SendStep,
        SendAccepted, SendRejected, SendUnclear, SettleSentFails, LogSent, LogFailed,
        StartNext, NextAccount, database
  <2>3. pc' = "holdError" => item' \in Copy
    BY DEF IInv, WorkerOK
  <2> QED
    BY <1>0, <2>1, <2>2, <2>3, BudgetKept DEF Budget
<1>4. CASE DeferHeld \/ SettleSent \/ GiveUp
  <2>1. pc' # "holdError" /\ UNCHANGED users /\ faults <= faults'
    BY <1>0, <1>4 DEF DeferHeld, SettleSent, GiveUp, StartNext, StatementFails
  <2>2. item.id \in Ids
    BY <1>4, ItemPending DEF DeferHeld, SettleSent, GiveUp
  <2>3. \A i \in Ids : queue'[i].status = "pending" =>
            /\ queue[i].status = "pending"
            /\ queue'[i].user = queue[i].user
            /\ queue'[i].attempts = queue[i].attempts
    BY <1>0, <1>4, <2>2
    DEF DeferHeld, SettleSent, GiveUp, Defer, MarkSent, MarkFailed, Row
  <2>4. RetryBudget'
    BY <1>0, <2>1, <2>3, BudgetKept
  <2> QED
    BY <2>1, <2>4 DEF Budget
<1>5. CASE Crash
  BY <1>0, <1>5, BudgetKept DEF Crash, StatementFails, database, Budget
<1>6. ASSUME NEW u \in Users, Enqueue(u)
      PROVE  Budget'
  <2>1. /\ nextId \in Ids
        /\ \A i \in Ids : queue'[i] = queue[i] \/ queue'[i].attempts = 0
        /\ pc = "holdError" => item.id \in Ids /\ item.id # nextId
    BY <1>0, <1>6
    DEF Enqueue, NewId, IInv, TypeOK, Fresh, WorkerOK, InHand, Copy, Ids
  <2>2. RetryBudget'
    BY <1>0, <1>6, <2>1, BudgetKept DEF Enqueue, Row
  <2> QED
    BY <1>0, <1>6, <2>1, <2>2 DEF Enqueue, NewId, Budget, Present, worker
<1>7. ASSUME UNCHANGED worker, users' \subseteq users, faults <= faults',
             \A i \in Ids : Present(i)' => /\ queue'[i].status = queue[i].status
                                           /\ queue'[i].user = queue[i].user
                                           /\ queue'[i].attempts = queue[i].attempts
      PROVE  Budget'
  <2>1. RetryBudget'
    BY <1>0, <1>7, BudgetKept DEF Present
  <2>2. pc' = "holdError" => item.id \in Ids
    BY <1>7 DEF IInv, WorkerOK, Copy, worker
  <2> QED
    BY <1>0, <1>7, <2>1, <2>2 DEF Budget, Present, worker
<1>8. ASSUME NEW i \in Ids, Elapse(i)
      PROVE  Budget'
  BY <1>0, <1>7, <1>8 DEF Elapse, Row, Present
<1>9. ASSUME NEW S, DeleteRows(S), UNCHANGED <<worker, users, faults>>
      PROVE  Budget'
  BY <1>0, <1>7, <1>9 DEF DeleteRows, NoRow, Present
<1>10. ASSUME NEW u \in Users,
              \/ Login(u) \/ Logout(u) \/ DeleteUserAccount(u) \/ AbandonDelete(u)
              \/ \E gone \in SUBSET (sentLog \cup failedLog) : DeleteUserEvents(u, gone)
       PROVE  Budget'
  BY <1>0, <1>7, <1>10
  DEF Login, Logout, DeleteUserAccount, AbandonDelete, DeleteUserEvents, StatementFails, Present,
      database
<1>11. CASE (\E S \in SUBSET (sentLog \cup failedLog) : DeleteEvents(S)) \/ UNCHANGED vars
  BY <1>0, <1>7, <1>11 DEF DeleteEvents, vars, Present, database
<1> QED
  BY <1>1, <1>2, <1>3, <1>4, <1>5, <1>6, <1>8, <1>9, <1>10, <1>11
  DEF Next, WorkerStep, OtherStep, DeleteStep, DeletePending, DeleteUserQueue

\* A mail of an existing account never uses more attempts than its budget.
THEOREM WithinBudget == Spec => []RetryBudget
<1>1. Init => Budget
  BY DeliveryAssumption DEF Init, Budget, RetryBudget, NoRow
<1>2. Budget => RetryBudget
  BY DEF Budget
<1> QED
  BY <1>1, <1>2, InitIInv, StepIInv, StepBudget, PTL DEF Spec

-----------------------------------------------------------------------------
(* Mails that go out twice *)

\* An acceptance that is not recorded in the row is unclear, or the worker is about to record
\* it.  The last two conjuncts speak of copies whose row may be deleted.
Recorded ==
    /\ OnceUnlessUnclear
    /\ \A i \in Ids : queue[i].status = "pending" /\ copies[i] > 0 =>
                          i \in unclear \/ (pc = "accepted" /\ item.id = i)
    /\ \A c \in batch : copies[c.id] > 0 => c.id \in unclear
    /\ pc \notin {"idle", "accepted", "logSent"} /\ copies[item.id] > 0 => item.id \in unclear

\* A step that transmits nothing, makes no row pending or failed, and does not leave "accepted".
LEMMA RecordedKept ==
  ASSUME Recorded, UNCHANGED copies, unclear \subseteq unclear', batch' \subseteq batch,
         \A i \in Ids : queue'[i].status \in {"pending", "failed"} =>
                            queue'[i].status = queue[i].status,
         \/ pc' = pc /\ item' = item
         \/ pc' = "idle" /\ pc # "accepted"
         \/ pc' # "accepted" /\ pc # "accepted" /\ item' \in batch
         \/ pc' # "accepted" /\ pc \notin {"idle", "accepted", "logSent"} /\ item' = item
  PROVE  Recorded'
<1>1. OnceUnlessUnclear'
  BY DEF Recorded, OnceUnlessUnclear
<1>2. \A i \in Ids : queue'[i].status = "pending" /\ copies'[i] > 0 =>
                         i \in unclear' \/ (pc' = "accepted" /\ item'.id = i)
  BY DEF Recorded
<1>3. \A c \in batch' : copies'[c.id] > 0 => c.id \in unclear'
  BY DEF Recorded
<1>4. pc' \notin {"idle", "accepted", "logSent"} /\ copies'[item'.id] > 0 => item'.id \in unclear'
  BY DEF Recorded
<1> QED
  BY <1>1, <1>2, <1>3, <1>4 DEF Recorded

LEMMA StepRecorded == IInv /\ Recorded /\ [Next]_vars => Recorded'
<1> SUFFICES ASSUME IInv, Recorded, [Next]_vars
             PROVE  Recorded'
  OBVIOUS
<1> USE DeliveryAssumption
<1>0. /\ queue \in [Ids -> Row] /\ copies \in [Ids -> 0..2]
      /\ pc # "idle" => item.id \in Ids
      /\ \A c \in batch : c.id \in Ids
      /\ pc # "idle" => \A c \in batch : c.id # item.id
  BY DEF IInv, TypeOK, WorkerOK, Distinct, Copy
<1>1. CASE DequeueBatch
  <2>1. batch' \cup InHand' \subseteq {CopyOf(i) : i \in Selected} /\ pc' \in {"idle", "check"}
    <3>1. {CopyOf(i) : i \in Selected} \in SUBSET Copy
      <4>1. ASSUME NEW i \in Selected
            PROVE  CopyOf(i) \in Copy
        <5>1. i \in Ids /\ Present(i)
          BY <4>1 DEF Selected, Ready, Present
        <5>2. queue[i] \in Row /\ queue[i].user \in Users
          BY <1>0, <5>1 DEF IInv, RowsOwned
        <5> QED
          BY <5>1, <5>2 DEF CopyOf, Copy, Row
      <4> QED
        BY <4>1
    <3> QED
      BY <1>1, <3>1, StartNextOK DEF DequeueBatch, CopyOf
  <2>2. \A i \in Selected : CopyOf(i).id = i /\ i \in Ids /\ queue[i].status = "pending"
    BY DEF CopyOf, Selected, Ready
  <2>3. pc = "idle" /\ UNCHANGED <<queue, copies, unclear>>
    BY <1>1 DEF DequeueBatch, database, observed
  <2>4. \A c \in batch' \cup InHand' : copies'[c.id] > 0 => c.id \in unclear'
    BY <2>1, <2>2, <2>3 DEF Recorded
  <2> QED
    BY <2>1, <2>3, <2>4 DEF Recorded, OnceUnlessUnclear, InHand
<1>2. CASE \/ HoldOrphan \/ HoldQueryFails \/ HoldLimited \/ HoldPasses \/ DeferFails
           \/ (\E n \in 1..MaxAccounts : LoadAccounts(n)) \/ LoadFails \/ SendRejected
  BY <1>2, RecordedKept
  DEF HoldOrphan, HoldQueryFails, HoldLimited, HoldPasses, DeferFails, LoadAccounts, LoadFails,
      SendRejected, NextAccount, StatementFails, database, observed
<1>3. CASE DeferHeld \/ HoldErrorRetry \/ RetryLater \/ LogSent \/ LogFailed
  <2>1. \A i \in Ids : queue'[i].status = queue[i].status
    BY <1>0, <1>3
    DEF DeferHeld, HoldErrorRetry, RetryLater, LogSent, LogFailed, Defer, MarkRetry, Row
  <2>2. /\ batch' \subseteq batch /\ pc # "accepted"
        /\ pc' = "idle" \/ (pc' = "check" /\ item' \in batch)
    BY <1>3 DEF DeferHeld, HoldErrorRetry, RetryLater, LogSent, LogFailed, StartNext
  <2>3. UNCHANGED <<copies, unclear>>
    BY <1>3 DEF DeferHeld, HoldErrorRetry, RetryLater, LogSent, LogFailed, observed
  <2> QED
    BY <2>1, <2>2, <2>3, RecordedKept
<1>4. CASE SendAccepted \/ SendUnclear
  <2>1. /\ UNCHANGED <<queue, item, batch>> /\ pc = "send" /\ unclear \subseteq unclear'
        /\ copies[item.id] > 0 => item.id \in unclear
        /\ copies'[item.id] > 0 /\ (copies'[item.id] > 1 => copies[item.id] > 0)
        /\ \A i \in Ids : i # item.id => copies'[i] = copies[i]
        /\ item.id \in unclear' \/ pc' = "accepted"
    BY <1>0, <1>4
    DEF SendAccepted, SendUnclear, Transmitted, NextAccount, Recorded, database
  <2>2. OnceUnlessUnclear'
    <3>1. Present(item.id) => queue[item.id].status = "pending"
      BY <2>1, ItemPending
    <3> QED
      BY <1>0, <2>1, <3>1 DEF Recorded, OnceUnlessUnclear, Present
  <2> QED
    BY <1>0, <2>1, <2>2 DEF Recorded
<1>5. CASE SettleSent
  <2>1. /\ \A i \in Ids : /\ i # item.id => queue'[i] = queue[i]
                          /\ queue'[i].status \in {"sent", queue[i].status}
        /\ queue'[item.id].status \in {"absent", "sent"}
        /\ pc = "accepted" /\ pc' = "logSent"
        /\ UNCHANGED <<item, batch, copies, unclear>>
    BY <1>0, <1>5 DEF SettleSent, MarkSent, Present, Row, observed
  <2> QED
    BY <1>0, <2>1 DEF Recorded, OnceUnlessUnclear
<1>6. CASE SettleSentFails
  BY <1>0, <1>6 DEF SettleSentFails, Recorded, OnceUnlessUnclear, database
<1>7. CASE GiveUp
  <2>1. /\ pc = "deliverError" /\ pc' = "logFailed"
        /\ UNCHANGED <<item, batch, copies, unclear>>
        /\ copies[item.id] > 0 => item.id \in unclear
        /\ \A i \in Ids : /\ i # item.id => queue'[i] = queue[i]
                          /\ queue'[i].status \in {"failed", queue[i].status}
    BY <1>0, <1>7 DEF GiveUp, MarkFailed, Recorded, Row, observed
  <2> QED
    BY <1>0, <2>1 DEF Recorded, OnceUnlessUnclear
<1>8. CASE Crash
  BY <1>8 DEF Crash, Recorded, OnceUnlessUnclear, database
<1>9. ASSUME NEW u \in Users, Enqueue(u)
      PROVE  Recorded'
  <2>1. /\ nextId \in Ids /\ copies' = [copies EXCEPT ![nextId] = 0]
        /\ \A i \in Ids : i # nextId => queue'[i] = queue[i]
        /\ \A c \in batch : c.id # nextId
        /\ pc # "idle" => item.id # nextId
        /\ UNCHANGED <<pc, item, batch, unclear>>
    BY <1>0, <1>9
    DEF Enqueue, NewId, IInv, TypeOK, Fresh, InHand, Ids, worker
  <2> QED
    BY <1>0, <2>1 DEF Recorded, OnceUnlessUnclear
<1>10. ASSUME NEW i \in Ids, Elapse(i)
       PROVE  Recorded'
  BY <1>0, <1>10, RecordedKept DEF Elapse, Row, worker, observed
<1>11. ASSUME NEW S, DeleteRows(S), UNCHANGED <<worker, copies, unclear>>
       PROVE  Recorded'
  BY <1>11, RecordedKept DEF DeleteRows, NoRow, worker
<1>12. ASSUME NEW u \in Users,
              \/ Login(u) \/ Logout(u) \/ DeleteUserAccount(u) \/ AbandonDelete(u)
              \/ \E gone \in SUBSET (sentLog \cup failedLog) : DeleteUserEvents(u, gone)
       PROVE  Recorded'
  BY <1>12, RecordedKept
  DEF Login, Logout, DeleteUserAccount, AbandonDelete, DeleteUserEvents, database, worker,
      observed
<1>13. CASE (\E S \in SUBSET (sentLog \cup failedLog) : DeleteEvents(S)) \/ UNCHANGED vars
  BY <1>13, RecordedKept DEF DeleteEvents, vars, database, worker, observed
<1> QED
  BY <1>1, <1>2, <1>3, <1>4, <1>5, <1>6, <1>7, <1>8, <1>9, <1>10, <1>11, <1>12, <1>13
  DEF Next, WorkerStep, SendStep, OtherStep, DeleteStep, DeletePending, DeleteUserQueue, observed

\* A mail goes out twice, or goes out and is recorded as failed, only if the code was kept from
\* recording that it went out.
THEOREM Once == Spec => []OnceUnlessUnclear
<1>1. Init => Recorded
  BY DeliveryAssumption DEF Init, Recorded, OnceUnlessUnclear
<1>2. Recorded => OnceUnlessUnclear
  BY DEF Recorded
<1> QED
  BY <1>1, <1>2, InitIInv, StepIInv, StepRecorded, PTL DEF Spec

-----------------------------------------------------------------------------
(* The events that are counted *)

\* An event is of a mail the worker is done with: no copy it still holds is of one, so nothing
\* transmits that mail or touches its row again.  A failing statement breaks the tie between
\* the row and its event; acceptance is settled before the event and stays.
Logged ==
    /\ \A i \in sentLog : copies[i] > 0 /\ i < nextId
    /\ \A i \in failedLog : i < nextId
    /\ faults = 0 =>
          /\ \A i \in sentLog \cup failedLog : queue[i].status # "pending"
          /\ \A c \in Live : c.id \notin sentLog \cup failedLog
          /\ pc \in {"logSent", "logFailed"} => queue[item.id].status # "pending"
          /\ \A i \in failedLog : copies[i] > 0 => i \in unclear

\* A step that adds no event, makes no row of an event pending, takes up no copy and, if it
\* transmits, does so for a mail that has no event.
LEMMA LoggedKept ==
  ASSUME Logged, sentLog' \subseteq sentLog, failedLog' \subseteq failedLog,
         faults \in Nat, faults' = 0 => faults = 0, UNCHANGED nextId,
         \A i \in sentLog \cup failedLog : copies[i] > 0 => copies'[i] > 0,
         faults' = 0 =>
            /\ \A i \in sentLog' \cup failedLog' :
                  queue'[i].status = "pending" => queue[i].status = "pending"
            /\ Live' \subseteq Live
            /\ pc' \in {"logSent", "logFailed"} => queue'[item'.id].status # "pending"
            /\ \A i \in failedLog' : copies'[i] = copies[i],
         unclear \subseteq unclear'
  PROVE  Logged'
<1>1. (\A i \in sentLog : copies[i] > 0 /\ i < nextId)' /\ (\A i \in failedLog : i < nextId)'
  BY DEF Logged
<1>2. ASSUME faults' = 0
      PROVE  /\ \A i \in sentLog' \cup failedLog' : queue'[i].status # "pending"
             /\ \A c \in Live' : c.id \notin sentLog' \cup failedLog'
             /\ pc' \in {"logSent", "logFailed"} => queue'[item'.id].status # "pending"
             /\ \A i \in failedLog' : copies'[i] > 0 => i \in unclear'
  BY <1>2 DEF Logged
<1> QED
  BY <1>1, <1>2 DEF Logged

LEMMA StepLogged == IInv /\ Recorded /\ Logged /\ [Next]_vars => Logged'
<1> SUFFICES ASSUME IInv, Recorded, Logged, [Next]_vars
             PROVE  Logged'
  OBVIOUS
<1> USE DeliveryAssumption
<1>0. /\ queue \in [Ids -> Row] /\ copies \in [Ids -> 0..2] /\ faults \in Nat /\ nextId \in Nat
      /\ sentLog \subseteq Ids /\ failedLog \subseteq Ids
      /\ pc # "idle" => item.id \in Ids /\ item.id < nextId
      /\ pc # "idle" => \A c \in batch : c.id # item.id
      /\ \A c \in batch : c.id \in Ids
  BY DEF IInv, TypeOK, WorkerOK, Fresh, Distinct, InHand, Copy, Ids
<1>1. CASE DequeueBatch
  <2>1. Live' \subseteq {CopyOf(i) : i \in Selected} /\ pc' \in {"idle", "check"}
    BY <1>1 DEF DequeueBatch, StartNext, Live, InHand
  <2>2. UNCHANGED <<queue, nextId, sentLog, failedLog, copies, unclear, faults>>
    BY <1>1 DEF DequeueBatch, database, observed
  <2>3. \A i \in Selected : CopyOf(i).id = i /\ queue[i].status = "pending"
    BY DEF CopyOf, Selected, Ready
  <2> QED
    BY <2>1, <2>2, <2>3 DEF Logged
<1>2. CASE \/ HoldOrphan \/ HoldQueryFails \/ HoldLimited \/ HoldPasses \/ DeferFails
           \/ (\E n \in 1..MaxAccounts : LoadAccounts(n)) \/ LoadFails \/ SendRejected
  <2>1. /\ UNCHANGED <<queue, nextId, sentLog, failedLog, copies, unclear, item, batch>>
        /\ faults' \in {faults, faults + 1}
        /\ pc \notin {"idle", "logSent", "logFailed"}
        /\ pc' \notin {"idle", "logSent", "logFailed"}
    BY <1>2
    DEF HoldOrphan, HoldQueryFails, HoldLimited, HoldPasses, DeferFails, LoadAccounts, LoadFails,
        SendRejected, NextAccount, StatementFails, database, observed
  <2>2. Live' = Live
    BY <2>1 DEF Live, InHand
  <2> QED
    BY <1>0, <2>1, <2>2, LoggedKept
<1>3. CASE DeferHeld \/ HoldErrorRetry \/ RetryLater
  <2>1. /\ \A i \in Ids : queue'[i].status = queue[i].status
        /\ UNCHANGED <<nextId, sentLog, failedLog, copies, unclear>>
        /\ faults' \in {faults, faults + 1}
    BY <1>0, <1>3
    DEF DeferHeld, HoldErrorRetry, RetryLater, Defer, MarkRetry, Row, StatementFails, observed
  <2>2. Live' \subseteq Live /\ pc' \notin {"logSent", "logFailed"}
    BY <1>3 DEF DeferHeld, HoldErrorRetry, RetryLater, StartNext, Live, InHand
  <2> QED
    BY <1>0, <2>1, <2>2, LoggedKept
<1>4. CASE SendAccepted \/ SendUnclear
  <2>1. /\ UNCHANGED <<queue, nextId, sentLog, failedLog, item, batch, faults>>
        /\ pc = "send" /\ pc' \notin {"idle", "logSent", "logFailed"}
        /\ Transmitted(item.id) /\ unclear \subseteq unclear'
    BY <1>4 DEF SendAccepted, SendUnclear, NextAccount, database
  <2>2. Live' = Live /\ item \in Live
    BY <2>1 DEF Live, InHand
  <2>3. \A i \in Ids : /\ copies[i] > 0 => copies'[i] > 0
                       /\ i # item.id => copies'[i] = copies[i]
    BY <1>0, <2>1 DEF Transmitted
  <2>4. faults = 0 => item.id \notin failedLog
    BY <2>2 DEF Logged
  <2>5. faults' = 0 => \A i \in failedLog' : copies'[i] = copies[i]
    BY <1>0, <2>1, <2>3, <2>4
  <2>6. \A i \in sentLog \cup failedLog : copies[i] > 0 => copies'[i] > 0
    BY <1>0, <2>3
  <2> QED
    BY <1>0, <2>1, <2>2, <2>5, <2>6, LoggedKept
<1>5. CASE SettleSent \/ GiveUp
  <2>1. /\ UNCHANGED <<nextId, sentLog, failedLog, item, batch, copies, unclear>>
        /\ pc \notin {"idle", "logSent", "logFailed"}
        /\ pc' \in {"logSent", "logFailed"} /\ faults' \in {faults, faults + 1}
    BY <1>5 DEF SettleSent, GiveUp, StatementFails, observed
  <2>2. \A i \in Ids : queue'[i].status = "pending" => queue[i].status = "pending"
    BY <1>0, <1>5, <2>1 DEF SettleSent, GiveUp, MarkSent, MarkFailed, Row
  <2>3. faults' = 0 => queue'[item.id].status # "pending"
    BY <1>0, <1>5, <2>1 DEF SettleSent, GiveUp, MarkSent, MarkFailed, StatementFails, Row, Present
  <2>4. Live' \subseteq Live
    BY <2>1 DEF Live, InHand
  <2> QED
    BY <1>0, <2>1, <2>2, <2>3, <2>4, LoggedKept
<1>6. CASE SettleSentFails
  <2>1. faults' # 0 /\ faults' \in Nat
    BY <1>0, <1>6 DEF SettleSentFails, StatementFails
  <2> QED
    BY <1>0, <1>6, <2>1, LoggedKept DEF SettleSentFails, database
\* The one mail that gets an event is settled, and the copies that are left are of others.
<1>7. CASE LogSent \/ LogFailed
  <2>1. /\ UNCHANGED <<queue, nextId, copies, unclear>> /\ pc \in {"logSent", "logFailed"}
        /\ sentLog' \subseteq sentLog \cup {item.id}
        /\ failedLog' \subseteq failedLog \cup {item.id}
        /\ item.id \in sentLog' => item.id \in sentLog \/ pc = "logSent"
        /\ item.id \in failedLog' => item.id \in failedLog \/ pc = "logFailed"
        /\ faults' \in {faults, faults + 1}
    BY <1>7 DEF LogSent, LogFailed, StatementFails, observed
  <2>2. Live' \subseteq batch /\ pc' \notin {"logSent", "logFailed"}
    BY <1>7 DEF LogSent, LogFailed, StartNext, Live, InHand
  <2>3. /\ pc = "logSent" => copies[item.id] > 0
        /\ pc = "logFailed" /\ copies[item.id] > 0 => item.id \in unclear
    BY DEF IInv, AcceptedInHand, Recorded
  <2>4. batch \subseteq Live
    BY DEF Live
  <2>5. (\A i \in sentLog : copies[i] > 0 /\ i < nextId)' /\ (\A i \in failedLog : i < nextId)'
    BY <1>0, <2>1, <2>3 DEF Logged
  <2>6. ASSUME faults' = 0
        PROVE  /\ \A i \in sentLog' \cup failedLog' : queue'[i].status # "pending"
               /\ \A c \in Live' : c.id \notin sentLog' \cup failedLog'
               /\ \A i \in failedLog' : copies'[i] > 0 => i \in unclear'
    <3>1. faults = 0
      BY <1>0, <2>1, <2>6
    <3> QED
      BY <1>0, <2>1, <2>2, <2>3, <2>4, <3>1 DEF Logged
  <2> QED
    BY <2>2, <2>5, <2>6 DEF Logged
<1>8. CASE Crash
  <2>1. faults' # 0 /\ faults' \in Nat
    BY <1>0, <1>8 DEF Crash, StatementFails
  <2> QED
    BY <1>0, <1>8, <2>1, LoggedKept DEF Crash, database
<1>9. ASSUME NEW u \in Users, Enqueue(u)
      PROVE  Logged'
  <2>1. /\ nextId \in Ids /\ copies' = [copies EXCEPT ![nextId] = 0] /\ nextId' = nextId + 1
        /\ \A i \in Ids : i # nextId => queue'[i] = queue[i]
        /\ UNCHANGED <<sentLog, failedLog, faults, unclear, pc, item, batch>>
    BY <1>0, <1>9 DEF Enqueue, NewId, IInv, TypeOK, Ids, worker
  <2>2. \A i \in sentLog \cup failedLog : i \in Ids /\ i # nextId /\ i < nextId
    BY <1>0 DEF Logged
  <2>3. Live' = Live
    BY <2>1 DEF Live, InHand
  <2>4. \A i \in sentLog \cup failedLog : copies'[i] = copies[i] /\ queue'[i] = queue[i]
    BY <1>0, <2>1, <2>2
  <2>5. pc \in {"logSent", "logFailed"} => queue'[item.id] = queue[item.id]
    BY <1>0, <2>1 DEF Ids
  <2> QED
    BY <1>0, <2>1, <2>2, <2>3, <2>4, <2>5 DEF Logged
<1>10. ASSUME UNCHANGED <<nextId, worker, copies, unclear>>,
              sentLog' \subseteq sentLog, failedLog' \subseteq failedLog,
              faults' \in {faults, faults + 1},
              \A i \in Ids : queue'[i].status = "pending" => queue[i].status = "pending"
       PROVE  Logged'
  <2>1. Live' = Live
    BY <1>10 DEF Live, InHand, worker
  <2>2. faults' = 0 /\ pc' \in {"logSent", "logFailed"} => queue'[item'.id].status # "pending"
    BY <1>0, <1>10 DEF Logged, worker
  <2> QED
    BY <1>0, <1>10, <2>1, <2>2, LoggedKept
<1>11. ASSUME NEW i \in Ids, Elapse(i)
       PROVE  Logged'
  BY <1>0, <1>10, <1>11 DEF Elapse, Row, observed
<1>12. ASSUME NEW S, DeleteRows(S),
              UNCHANGED <<worker, copies, unclear, nextId, sentLog, failedLog>>,
              UNCHANGED faults
       PROVE  Logged'
  BY <1>0, <1>10, <1>12 DEF DeleteRows, NoRow
<1>13. ASSUME NEW u \in Users,
              \/ Login(u) \/ Logout(u) \/ DeleteUserAccount(u) \/ AbandonDelete(u)
              \/ \E gone \in SUBSET (sentLog \cup failedLog) : DeleteUserEvents(u, gone)
       PROVE  Logged'
  BY <1>0, <1>10, <1>13
  DEF Login, Logout, DeleteUserAccount, AbandonDelete, DeleteUserEvents, StatementFails, database,
      observed
<1>14. CASE (\E S \in SUBSET (sentLog \cup failedLog) : DeleteEvents(S)) \/ UNCHANGED vars
  BY <1>0, <1>10, <1>14 DEF DeleteEvents, vars, database, observed
<1> QED
  BY <1>1, <1>2, <1>3, <1>4, <1>5, <1>6, <1>7, <1>8, <1>9, <1>11, <1>12, <1>13, <1>14
  DEF Next, WorkerStep, SendStep, OtherStep, DeleteStep, DeletePending, DeleteUserQueue, observed

\* What the statistics count as sent was accepted; while no statement failed, what they count is
\* settled, and a mail counted as failed went out only if its acceptance was unclear.
THEOREM Statistics == Spec => []LogAgrees
<1>1. Init => Recorded /\ Logged
  BY DeliveryAssumption DEF Init, Recorded, OnceUnlessUnclear, Logged, Live, InHand
<1>2. Logged => LogAgrees
  BY DEF Logged, LogAgrees
<1> QED
  BY <1>1, <1>2, InitIInv, StepIInv, StepRecorded, StepLogged, PTL DEF Spec

-----------------------------------------------------------------------------
(***************************************************************************)
(* The queue and its worker implement the promise of module Outbox, for    *)
(* any accounts and any number of mails: the initial states map to the     *)
(* initial state of Outbox, and each step of Delivery maps to one step of  *)
(* Outbox or to none.  The mapping is the one of Delivery!Promise: a row's *)
(* number below nextId whose row is gone is a removed mail, and the mails  *)
(* the worker holds copies of are the claimed ones.                        *)
(*                                                                         *)
(* One lemma per abstract action says what a step of Delivery has to do to *)
(* be that action; the theorem then goes through the steps of Delivery.    *)
(* What makes them fit is IInv: a copy that is not settled is of a pending *)
(* row or of no row, so no settled mail is transmitted or settled again,   *)
(* and no number is given out twice.                                       *)
(***************************************************************************)

\* A number that was not given out yet has nothing to its account.
Unused == \A i \in Ids : i >= nextId => copies[i] = 0

AbstractStep == [Promise!Next]_(Promise!vars)

-----------------------------------------------------------------------------
(* What a step has to do to be a step of Outbox *)

LEMMA AsStutter ==
  ASSUME \A i \in Ids : StateOf(i)' = StateOf(i), UNCHANGED copies, Claimed' = Claimed
  PROVE  AbstractStep
  BY DEF AbstractStep, Promise!vars

LEMMA AsSubmit ==
  ASSUME NEW n \in Ids, StateOf(n) = "unused", StateOf(n)' = "pending",
         \A i \in Ids : i # n => StateOf(i)' = StateOf(i),
         UNCHANGED copies, Claimed' = Claimed
  PROVE  AbstractStep
<1>1. [i \in Ids |-> StateOf(i)]' = [[i \in Ids |-> StateOf(i)] EXCEPT ![n] = "pending"]
  OBVIOUS
<1>2. Promise!Submit(n)
  BY <1>1 DEF Promise!Submit
<1> QED
  BY <1>2 DEF AbstractStep, Promise!Next

LEMMA AsClaim ==
  ASSUME Claimed = {}, Claimed' \in SUBSET Ids, \A i \in Claimed' : StateOf(i) = "pending",
         \A i \in Ids : StateOf(i)' = StateOf(i), UNCHANGED copies
  PROVE  AbstractStep
<1>1. Promise!Claim(Claimed')
  BY DEF Promise!Claim
<1> QED
  BY <1>1 DEF AbstractStep, Promise!Next

LEMMA AsTransmit ==
  ASSUME NEW n \in Ids, n \in Claimed, StateOf(n) \in {"pending", "removed"}, Transmitted(n),
         \A i \in Ids : StateOf(i)' = StateOf(i), Claimed' = Claimed
  PROVE  AbstractStep
<1>1. Promise!Transmit(n)
  BY DEF Promise!Transmit, Transmitted
<1> QED
  BY <1>1 DEF AbstractStep, Promise!Next

LEMMA AsSettle ==
  ASSUME NEW n \in Ids, NEW verdict \in {"sent", "failed"},
         n \in Claimed, StateOf(n) = "pending", verdict = "sent" => copies[n] > 0,
         StateOf(n)' = verdict, \A i \in Ids : i # n => StateOf(i)' = StateOf(i),
         UNCHANGED copies, Claimed' = Claimed
  PROVE  AbstractStep
<1>1. [i \in Ids |-> StateOf(i)]' = [[i \in Ids |-> StateOf(i)] EXCEPT ![n] = verdict]
  OBVIOUS
<1>2. Promise!Settle(n, verdict)
  BY <1>1 DEF Promise!Settle
<1> QED
  BY <1>2 DEF AbstractStep, Promise!Next

LEMMA AsRelease ==
  ASSUME Claimed \in SUBSET Ids, Claimed' \subseteq Claimed,
         \A i \in Ids : StateOf(i)' = StateOf(i), UNCHANGED copies
  PROVE  AbstractStep
<1>1. Claimed' = Claimed \ (Claimed \ Claimed')
  OBVIOUS
<1>2. Promise!Release(Claimed \ Claimed')
  BY <1>1 DEF Promise!Release
<1>3. Claimed \ Claimed' \in SUBSET Ids
  OBVIOUS
<1> QED
  BY <1>2, <1>3 DEF AbstractStep, Promise!Next

LEMMA AsRemove ==
  ASSUME NEW S \in SUBSET Ids, \A i \in S : StateOf(i) # "unused",
         \A i \in Ids : StateOf(i)' = IF i \in S THEN "removed" ELSE StateOf(i),
         UNCHANGED copies, Claimed' = Claimed
  PROVE  AbstractStep
<1>1. Promise!Remove(S)
  BY DEF Promise!Remove
<1> QED
  BY <1>1 DEF AbstractStep, Promise!Next

-----------------------------------------------------------------------------
(* Unused is an invariant *)

LEMMA StepUnused == IInv /\ Unused /\ [Next]_vars => Unused'
<1> SUFFICES ASSUME IInv, Unused, [Next]_vars
             PROVE  Unused'
  OBVIOUS
<1> USE DeliveryAssumption
<1>0. /\ copies \in [Ids -> 0..2] /\ nextId \in Nat
      /\ pc # "idle" => item.id \in Ids /\ item.id < nextId
  BY DEF IInv, TypeOK, WorkerOK, Fresh, InHand, Copy, Ids
<1>1. CASE SendAccepted \/ SendUnclear
  <2>1. pc = "send" /\ Transmitted(item.id) /\ nextId' = nextId
    BY <1>1 DEF SendAccepted, SendUnclear, database
  <2>2. \A i \in Ids : i # item.id => copies'[i] = copies[i]
    BY <1>0, <2>1 DEF Transmitted
  <2>3. \A i \in Ids : i >= nextId => i # item.id
    BY <1>0, <2>1 DEF Ids
  <2> QED
    BY <2>1, <2>2, <2>3 DEF Unused
<1>2. ASSUME NEW u \in Users, Enqueue(u)
      PROVE  Unused'
  BY <1>0, <1>2 DEF Enqueue, NewId, Unused, Ids
<1>3. ASSUME UNCHANGED <<nextId, copies>>
      PROVE  Unused'
  BY <1>3 DEF Unused
<1>4. CASE WorkerStep \/ SendRejected
  BY <1>3, <1>4
  DEF WorkerStep, DequeueBatch, HoldOrphan, HoldQueryFails, HoldLimited, HoldPasses, DeferHeld,
      DeferFails, HoldErrorRetry, LoadAccounts, LoadFails, SettleSent, SettleSentFails, LogSent,
      RetryLater, GiveUp, LogFailed, SendRejected, database, observed
<1>5. CASE \/ \E u \in Users : Login(u) \/ Logout(u) \/ DeleteStep(u)
           \/ \E i \in Ids : Elapse(i)
           \/ \E owners \in Scopes, lo, hi \in Ids : DeletePending(owners, lo, hi)
           \/ \E S \in SUBSET (sentLog \cup failedLog) : DeleteEvents(S)
           \/ Crash \/ UNCHANGED vars
  BY <1>3, <1>5
  DEF Login, Logout, DeleteStep, DeleteUserEvents, DeleteUserQueue, DeleteUserAccount,
      AbandonDelete, Elapse, DeletePending, DeleteEvents, Crash, vars, database, observed
<1> QED
  BY <1>1, <1>2, <1>4, <1>5 DEF Next, SendStep, OtherStep

-----------------------------------------------------------------------------
(* Each step of Delivery is a step of Outbox or none *)

\* The worker holds copies of what it has not come to and, unless idle, of one row more.
LEMMA ClaimedInv ==
  ASSUME IInv
  PROVE  /\ Claimed \in SUBSET Ids
         /\ pc = "idle" => Claimed = {}
         /\ pc # "idle" => item.id \in Ids /\ item.id \in Claimed
  BY DEF IInv, TypeOK, WorkerOK, Claimed, InHand, Copy

LEMMA StepRefines == IInv /\ IInv' /\ Unused /\ [Next]_vars => AbstractStep
<1> SUFFICES ASSUME IInv, IInv', Unused, [Next]_vars
             PROVE  AbstractStep
  OBVIOUS
<1> USE DeliveryAssumption
<1>0. /\ queue \in [Ids -> Row] /\ queue' \in [Ids -> Row]
      /\ copies \in [Ids -> 0..2] /\ nextId \in Nat
      /\ \A i \in Ids : Present(i) => i < nextId
  BY DEF IInv, TypeOK, Fresh, Ids
<1>1. ASSUME UNCHANGED nextId,
             \A i \in Ids : queue'[i].status = queue[i].status
      PROVE  \A i \in Ids : StateOf(i)' = StateOf(i)
  BY <1>1 DEF StateOf, Present
\* The worker goes on with the copy it is at.
<1>2. CASE \/ HoldOrphan \/ HoldQueryFails \/ HoldLimited \/ HoldPasses \/ DeferFails
           \/ (\E n \in 1..MaxAccounts : LoadAccounts(n)) \/ LoadFails \/ SendRejected
           \/ SettleSentFails
  <2>1. /\ UNCHANGED <<queue, nextId, copies, batch, item>>
        /\ pc # "idle" /\ pc' # "idle"
    BY <1>2
    DEF HoldOrphan, HoldQueryFails, HoldLimited, HoldPasses, DeferFails, LoadAccounts, LoadFails,
        SendRejected, SettleSentFails, NextAccount, database, observed
  <2>2. Claimed' = Claimed
    BY <2>1 DEF Claimed, InHand
  <2> QED
    BY <1>1, <2>1, <2>2, AsStutter
<1>3. CASE DequeueBatch
  <2>1. UNCHANGED <<queue, nextId, copies>> /\ pc = "idle"
    BY <1>3 DEF DequeueBatch, database, observed
  <2>2. Claimed = {}
    BY <2>1, ClaimedInv
  <2>3. Claimed' \subseteq Selected
    BY <1>3 DEF DequeueBatch, StartNext, Claimed, InHand, CopyOf
  <2>4. Claimed' \in SUBSET Ids /\ \A i \in Claimed' : StateOf(i) = "pending"
    BY <2>3 DEF Selected, Ready, StateOf, Present
  <2> QED
    BY <1>1, <2>1, <2>2, <2>4, AsClaim
\* The worker is done with the copy.
<1>4. CASE DeferHeld \/ HoldErrorRetry \/ RetryLater \/ LogSent \/ LogFailed
  <2>1. /\ UNCHANGED <<nextId, copies>>
        /\ \A i \in Ids : queue'[i].status = queue[i].status
    BY <1>0, <1>4
    DEF DeferHeld, HoldErrorRetry, RetryLater, LogSent, LogFailed, Defer, MarkRetry, Row, observed
  <2>2. Claimed' \subseteq Claimed
    BY <1>4
    DEF DeferHeld, HoldErrorRetry, RetryLater, LogSent, LogFailed, StartNext, Claimed, InHand
  <2> QED
    BY <1>1, <2>1, <2>2, ClaimedInv, AsRelease
<1>5. CASE SendAccepted \/ SendUnclear
  <2>1. /\ UNCHANGED <<queue, nextId, batch, item>>
        /\ pc = "send" /\ pc' # "idle" /\ Transmitted(item.id)
    BY <1>5 DEF SendAccepted, SendUnclear, NextAccount, database
  <2>2. Claimed' = Claimed /\ item.id \in Ids /\ item.id \in Claimed
    BY <2>1, ClaimedInv DEF Claimed, InHand
  <2>3. item.id < nextId /\ (Present(item.id) => queue[item.id].status = "pending")
    BY <2>1, ItemPending DEF IInv, Fresh, InHand
  <2>4. StateOf(item.id) \in {"pending", "removed"}
    BY <2>3 DEF StateOf
  <2>5. PICK n \in Ids : n = item.id
    BY <2>2
  <2> QED
    BY <1>1, <2>1, <2>2, <2>4, <2>5, AsTransmit
\* MarkSent and MarkFailed, which do nothing to a row that was deleted.
<1>6. CASE SettleSent \/ GiveUp
  <2>1. /\ UNCHANGED <<nextId, copies, batch, item>>
        /\ pc \in {"accepted", "deliverError"} /\ pc' # "idle"
    BY <1>6 DEF SettleSent, GiveUp, observed
  <2>2. Claimed' = Claimed /\ item.id \in Ids /\ item.id \in Claimed
    BY <2>1, ClaimedInv DEF Claimed, InHand
  <2>3. PICK n \in Ids : n = item.id
    BY <2>2
  <2>4. CASE queue' = queue
    BY <1>1, <2>1, <2>2, <2>4, AsStutter
  <2>5. CASE queue' # queue
    <3>1. Present(n) /\ StateOf(n) = "pending"
      BY <1>6, <2>1, <2>3, <2>5, ItemPending DEF SettleSent, GiveUp, MarkSent, MarkFailed, StateOf
    <3>2. \A i \in Ids : i # n => queue'[i] = queue[i]
      BY <1>0, <1>6, <2>3 DEF SettleSent, GiveUp, MarkSent, MarkFailed
    <3>3. \A i \in Ids : i # n => StateOf(i)' = StateOf(i)
      BY <2>1, <3>2 DEF StateOf, Present
    <3>4. CASE SettleSent
      <4>1. queue'[n].status = "sent" /\ copies[n] > 0
        BY <1>0, <2>3, <3>1, <3>4 DEF SettleSent, MarkSent, IInv, AcceptedInHand, Row
      <4>2. StateOf(n)' = "sent"
        BY <4>1 DEF StateOf, Present
      <4> QED
        BY <2>1, <2>2, <2>3, <3>1, <3>3, <4>1, <4>2, AsSettle
    <3>5. CASE GiveUp
      <4>1. queue'[n].status = "failed"
        BY <1>0, <1>6, <2>3, <2>5, <3>1, <3>5 DEF GiveUp, MarkFailed, Row
      <4>2. StateOf(n)' = "failed"
        BY <4>1 DEF StateOf, Present
      <4> QED
        BY <2>1, <2>2, <2>3, <3>1, <3>3, <4>2, AsSettle
    <3> QED
      BY <1>6, <3>4, <3>5
  <2> QED
    BY <2>4, <2>5
<1>7. CASE Crash
  <2>1. UNCHANGED <<queue, nextId, copies>> /\ Claimed' = {}
    BY <1>7 DEF Crash, Claimed, InHand, database
  <2> QED
    BY <1>1, <2>1, ClaimedInv, AsRelease
<1>8. ASSUME NEW u \in Users, Enqueue(u)
      PROVE  AbstractStep
  <2>1. PICK n \in Ids : n = nextId
    BY <1>0, <1>8 DEF Enqueue, IInv, TypeOK, Ids
  <2>2. /\ queue'[n].status = "pending" /\ nextId' = n + 1 /\ UNCHANGED worker
        /\ \A i \in Ids : i # n => queue'[i] = queue[i]
        /\ copies' = [copies EXCEPT ![n] = 0]
    BY <1>0, <1>8, <2>1 DEF Enqueue, NewId
  <2>3. StateOf(n) = "unused" /\ StateOf(n)' = "pending"
    BY <1>0, <2>1, <2>2 DEF StateOf, Present
  <2>4. \A i \in Ids : i # n => StateOf(i)' = StateOf(i)
    BY <2>1, <2>2 DEF StateOf, Present, Ids
  <2>5. UNCHANGED copies
    <3>1. copies[n] = 0
      BY <2>1 DEF Unused, Ids
    <3> QED
      BY <1>0, <2>2, <3>1
  <2>6. Claimed' = Claimed
    BY <2>2 DEF Claimed, InHand, worker
  <2> QED
    BY <2>3, <2>4, <2>5, <2>6, AsSubmit
<1>9. ASSUME NEW S \in SUBSET Ids, DeleteRows(S), UNCHANGED <<nextId, copies, worker>>
      PROVE  AbstractStep
  <2>1. {i \in S : Present(i)} \in SUBSET Ids
    OBVIOUS
  <2>2. \A i \in Ids : /\ i \notin S => queue'[i] = queue[i]
                       /\ i \in S => queue'[i].status = "absent"
    BY <1>9 DEF DeleteRows, NoRow
  <2>3. \A i \in {j \in S : Present(j)} : StateOf(i) # "unused"
    BY <1>0 DEF StateOf, Present, Row, Status
  <2>4. \A i \in Ids : StateOf(i)' = IF i \in {j \in S : Present(j)} THEN "removed" ELSE StateOf(i)
    BY <1>0, <1>9, <2>2 DEF StateOf, Present
  <2>5. Claimed' = Claimed
    BY <1>9 DEF Claimed, InHand, worker
  <2> QED
    BY <1>9, <2>1, <2>3, <2>4, <2>5, AsRemove
<1>10. ASSUME NEW owners, NEW lo \in Ids, NEW hi \in Ids, DeletePending(owners, lo, hi)
       PROVE  AbstractStep
  <2>1. PendingOf(owners, lo, hi) \in SUBSET Ids
    BY DEF PendingOf, Ids
  <2> QED
    BY <1>9, <1>10, <2>1 DEF DeletePending, observed
<1>11. ASSUME NEW u \in Users, DeleteUserQueue(u)
       PROVE  AbstractStep
  <2>1. {i \in Ids : queue[i].user = u} \in SUBSET Ids
    OBVIOUS
  <2> QED
    BY <1>9, <1>11, <2>1 DEF DeleteUserQueue, observed
\* What touches neither the rows' status nor the worker.
<1>12. ASSUME UNCHANGED <<nextId, copies, worker>>,
              \A i \in Ids : queue'[i].status = queue[i].status
       PROVE  AbstractStep
  <2>1. Claimed' = Claimed
    BY <1>12 DEF Claimed, InHand, worker
  <2> QED
    BY <1>1, <1>12, <2>1, AsStutter
<1>13. ASSUME NEW i \in Ids, Elapse(i)
       PROVE  AbstractStep
  BY <1>0, <1>12, <1>13 DEF Elapse, Row, observed
<1>14. ASSUME NEW u \in Users,
              \/ Login(u) \/ Logout(u) \/ DeleteUserAccount(u) \/ AbandonDelete(u)
              \/ \E gone \in SUBSET (sentLog \cup failedLog) : DeleteUserEvents(u, gone)
       PROVE  AbstractStep
  BY <1>12, <1>14
  DEF Login, Logout, DeleteUserAccount, AbandonDelete, DeleteUserEvents, database, observed
<1>15. CASE (\E S \in SUBSET (sentLog \cup failedLog) : DeleteEvents(S)) \/ UNCHANGED vars
  BY <1>12, <1>15 DEF DeleteEvents, vars, database, observed
<1> QED
  BY <1>2, <1>3, <1>4, <1>5, <1>6, <1>7, <1>8, <1>10, <1>11, <1>13, <1>14, <1>15
  DEF Next, WorkerStep, SendStep, OtherStep, DeleteStep

\* The queue and its worker keep the promise of module Outbox: every behaviour of the code is,
\* seen through the mapping, a behaviour in which mails are submitted once, claimed by one
\* worker, transmitted only while claimed and unsettled, and settled as sent only if accepted.
THEOREM Implementation == Spec => ImplementsOutbox
<1>1. Init => Unused
  BY DEF Init, Unused
<1>2. Init => Promise!Init
  BY DeliveryAssumption
  DEF Init, Promise!Init, StateOf, Present, NoRow, Claimed, InHand, Ids
<1>3. IInv /\ IInv' /\ Unused /\ [Next]_vars => [Promise!Next]_(Promise!vars)
  BY StepRefines DEF AbstractStep
<1> QED
  BY <1>1, <1>2, <1>3, InitIInv, StepIInv, StepUnused, PTL DEF Spec, ImplementsOutbox, Promise!Spec
=============================================================================
