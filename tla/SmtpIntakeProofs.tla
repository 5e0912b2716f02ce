-------------------------- MODULE SmtpIntakeProofs --------------------------
(***************************************************************************)
(* What holds of SmtpIntake for any accounts, any number of connections at *)
(* a time, any messages with any recipients, valid or not, and any number  *)
(* of attempts that go wrong.                                              *)
(*                                                                         *)
(* No property is inductive.  That an accepted message is queued depends   *)
(* on the recipients a session holds being those of the envelope and on    *)
(* the loop of HandleMail having inserted a row for each it has passed     *)
(* (Progress).  That rows are repeated only for attempts that went wrong   *)
(* depends on what sessions that are still in that loop will insert, those *)
(* included whose client has given up and may be trying again elsewhere:   *)
(* what is inserted and what is left to insert together stay within one    *)
(* envelope for each attempt (WithinAttempts).                             *)
(***************************************************************************)
EXTENDS SmtpIntake, FiniteSetTheorems, TLAPS

\* A session whose client is trying to submit a message is the only one that does, and the
\* client has not been told that the message is accepted.
Exclusive ==
    /\ gone \subseteq Sessions
    /\ \A s, t \in Sessions, m \in Messages : Trying(s, m) /\ Trying(t, m) => s = t
    /\ \A s \in Sessions, m \in Messages :
          Trying(s, m) => m \notin told /\ troubles[m] < MaxTroubles

Typed == TypeOK /\ Exclusive

Prefix(to, recipients) ==
    /\ Len(to) <= Len(recipients)
    /\ \A n \in 1..Len(to) : to[n] = recipients[n]

\* The recipients of m before position next have a row.
Passed(m, next) ==
    \A n \in DOMAIN Envelope[m] : n < next => rows[<<m, Envelope[m][n]>>] > 0

\* While recipients are named, they are a prefix of the envelope's; while HandleMail runs they
\* are the envelope's, and those it has passed have a row.
ProgressOf(s) ==
    /\ At(s, "mail") =>
          session[s].next = 1 /\ Prefix(session[s].to, Envelope[session[s].message])
    /\ At(s, "data") =>
          /\ session[s].to = Envelope[session[s].message] /\ session[s].next > 0
          /\ Passed(session[s].message, session[s].next)

Progress == \A s \in Sessions : ProgressOf(s)

-----------------------------------------------------------------------------
(* What the steps make of a session *)

SessionsOK ==
    /\ session \in [Sessions -> Session]
    /\ \A s \in Sessions :
        /\ session[s].user = NoUser <=> session[s].step \in {"closed", "greeting"}
        /\ session[s].message = NoMessage <=> session[s].step \notin {"mail", "data"}
        /\ session[s].next <= Len(session[s].to) + 1

\* A record with one field set to a value of its type is a session still.
LEMMA FieldSet ==
  ASSUME NEW r \in Session
  PROVE  /\ \A step \in {"closed", "greeting", "verify", "command", "mail", "data"} :
               [r EXCEPT !.step = step] \in Session
         /\ \A user \in Users \cup {NoUser} : [r EXCEPT !.user = user] \in Session
         /\ \A message \in Messages \cup {NoMessage} : [r EXCEPT !.message = message] \in Session
         /\ \A to \in Seq(Recipients) : [r EXCEPT !.to = to] \in Session
         /\ \A next \in Nat : [r EXCEPT !.next = next] \in Session
  BY DEF Session

\* The fields of one session, with what its step says of them.
LEMMA SessionFields ==
  ASSUME SessionsOK, NEW s \in Sessions
  PROVE  /\ session[s] \in Session
         /\ session[s].step \in {"closed", "greeting", "verify", "command", "mail", "data"}
         /\ session[s].user \in Users \cup {NoUser}
         /\ session[s].message \in Messages \cup {NoMessage}
         /\ session[s].to \in Seq(Recipients) /\ session[s].next \in Nat
         /\ session[s].next <= Len(session[s].to) + 1
         /\ session[s].step \in {"mail", "data"} =>
               session[s].message \in Messages /\ session[s].user \in Users
         /\ session[s].step \in {"command", "verify"} =>
               session[s].message = NoMessage /\ session[s].user \in Users
         /\ session[s].step \in {"closed", "greeting"} =>
               session[s].message = NoMessage /\ session[s].user = NoUser
  BY SmtpIntakeAssumption DEF SessionsOK, Session

\* A step that is of one session leaves all sessions in order if it leaves that one so.
LEMMA OneChanges ==
  ASSUME SessionsOK, NEW s \in Sessions, session' \in [Sessions -> Session],
         \A t \in Sessions : t # s => session'[t] = session[t],
         session'[s].user = NoUser <=> session'[s].step \in {"closed", "greeting"},
         session'[s].message = NoMessage <=> session'[s].step \notin {"mail", "data"},
         session'[s].next <= Len(session'[s].to) + 1
  PROVE  SessionsOK'
  BY DEF SessionsOK

LEMMA ClosedTyped == Closed \in Session /\ Len(Closed.to) = 0
  BY DEF Closed, Session

\* The steps before and between transactions.
LEMMA QuietEffect ==
  ASSUME SessionsOK, NEW s \in Sessions,
         \/ Connect(s) \/ (\E u \in Users : ReadAccount(s, u)) \/ PasswordRight(s)
         \/ PasswordWrong(s) \/ Disconnect(s) \/ Reset(s)
  PROVE  /\ SessionsOK'
         /\ \A t \in Sessions : t # s => session'[t] = session[t]
         /\ session[s].step # "data" /\ session'[s].step \notin {"mail", "data"}
         /\ session'[s].message = NoMessage
         /\ \/ session'[s].user = session[s].user
            \/ session'[s].user = NoUser
            \/ session'[s].user \in Users /\ Admitted(session'[s].user)
<1> USE SmtpIntakeAssumption
<1>0. session \in [Sessions -> Session] /\ session[s] \in Session
  BY DEF SessionsOK
<1>1. CASE Connect(s)
  <2>1. session' \in [Sessions -> Session]
    BY <1>0, <1>1, FieldSet DEF Connect
  <2>2. /\ \A t \in Sessions : t # s => session'[t] = session[t]
        /\ session[s].step = "closed" /\ session'[s].step = "greeting"
        /\ session'[s].user = session[s].user /\ session'[s].message = session[s].message
        /\ session'[s].to = session[s].to /\ session'[s].next = session[s].next
    BY <1>0, <1>1 DEF Connect, At, Session
  <2> QED
    BY <2>1, <2>2, SessionFields, OneChanges
<1>2. ASSUME NEW u \in Users, ReadAccount(s, u)
      PROVE  /\ SessionsOK'
             /\ \A t \in Sessions : t # s => session'[t] = session[t]
             /\ session[s].step = "greeting" /\ session'[s].step = "verify"
             /\ session'[s].message = NoMessage
             /\ session'[s].user = u /\ Admitted(u)
  <2>1. session' \in [Sessions -> Session]
    BY <1>0, <1>2, FieldSet DEF ReadAccount
  <2>2. /\ \A t \in Sessions : t # s => session'[t] = session[t]
        /\ session[s].step = "greeting" /\ session'[s].step = "verify"
        /\ session'[s].user = u /\ session'[s].message = session[s].message
        /\ session'[s].to = session[s].to /\ session'[s].next = session[s].next
        /\ Admitted(u)
    BY <1>0, <1>2 DEF ReadAccount, At, Session
  <2> QED
    BY <2>1, <2>2, SessionFields, OneChanges
<1>3. CASE PasswordRight(s)
  <2>1. session' \in [Sessions -> Session]
    BY <1>0, <1>3, FieldSet DEF PasswordRight
  <2>2. /\ \A t \in Sessions : t # s => session'[t] = session[t]
        /\ session[s].step = "verify" /\ session'[s].step = "command"
        /\ session'[s].user = session[s].user /\ session'[s].message = session[s].message
        /\ session'[s].to = session[s].to /\ session'[s].next = session[s].next
    BY <1>0, <1>3 DEF PasswordRight, At, Session
  <2> QED
    BY <2>1, <2>2, SessionFields, OneChanges
<1>4. CASE PasswordWrong(s)
  <2>1. session' \in [Sessions -> Session]
    BY <1>0, <1>4, FieldSet DEF PasswordWrong, Unauthenticated
  <2>2. /\ \A t \in Sessions : t # s => session'[t] = session[t]
        /\ session[s].step = "verify" /\ session'[s].step = "greeting"
        /\ session'[s].user = NoUser /\ session'[s].message = session[s].message
        /\ session'[s].to = session[s].to /\ session'[s].next = session[s].next
    BY <1>0, <1>4 DEF PasswordWrong, Unauthenticated, At, Session
  <2> QED
    BY <2>1, <2>2, SessionFields, OneChanges
<1>5. CASE Disconnect(s)
  <2>1. session' \in [Sessions -> Session] /\ session'[s] = Closed
    BY <1>0, <1>5, ClosedTyped DEF Disconnect
  <2>2. (\A t \in Sessions : t # s => session'[t] = session[t]) /\ session[s].step # "data"
    BY <1>0, <1>5 DEF Disconnect
  <2>3. /\ session'[s].step = "closed" /\ session'[s].user = NoUser
        /\ session'[s].message = NoMessage
        /\ session'[s].next = 1 /\ Len(session'[s].to) = 0
    BY <2>1, ClosedTyped DEF Closed
  <2> QED
    BY <2>1, <2>2, <2>3, OneChanges
<1>6. CASE Reset(s)
  <2>1. session' \in [Sessions -> Session]
    BY <1>0, <1>6, FieldSet DEF Reset
  <2>2. /\ \A t \in Sessions : t # s => session'[t] = session[t]
        /\ session[s].step = "mail" /\ session'[s].step = "command"
        /\ session'[s].user = session[s].user /\ session'[s].message = NoMessage
        /\ session'[s].to = session[s].to /\ session'[s].next = session[s].next
    BY <1>0, <1>6 DEF Reset, At, Session
  <2> QED
    BY <2>1, <2>2, SessionFields, OneChanges
<1> QED
  BY <1>1, <1>2, <1>3, <1>4, <1>5, <1>6, SessionFields

\* A session is up to date again only when it has no account any more.
LEMMA QuietOutdated ==
  ASSUME SessionsOK, NEW s \in Sessions,
         \/ Connect(s) \/ (\E u \in Users : ReadAccount(s, u)) \/ PasswordRight(s)
         \/ PasswordWrong(s) \/ Disconnect(s) \/ Reset(s)
  PROVE  \/ outdated' = outdated
         \/ outdated' = outdated \ {s} /\ session'[s].user = NoUser
<1>0. session \in [Sessions -> Session] /\ session[s] \in Session
  BY DEF SessionsOK
<1>1. CASE PasswordWrong(s)
  BY <1>0, <1>1 DEF PasswordWrong, Unauthenticated, Session
<1>2. CASE Disconnect(s)
  BY <1>0, <1>2 DEF Disconnect, Closed
<1>3. CASE \/ Connect(s) \/ (\E u \in Users : ReadAccount(s, u)) \/ PasswordRight(s)
           \/ Reset(s)
  BY <1>3 DEF Connect, ReadAccount, PasswordRight, Reset, observed
<1> QED
  BY <1>1, <1>2, <1>3

LEMMA MailEffect ==
  ASSUME SessionsOK, NEW s \in Sessions, NEW m \in Messages, Mail(s, m)
  PROVE  /\ SessionsOK'
         /\ \A t \in Sessions : t # s => session'[t] = session[t]
         /\ session[s].step = "command" /\ session'[s].step = "mail"
         /\ session'[s].message = m /\ session'[s].user = session[s].user
         /\ Len(session'[s].to) = 0 /\ session'[s].next = 1
<1> USE SmtpIntakeAssumption
<1>0. session \in [Sessions -> Session] /\ session[s] \in Session /\ <<>> \in Seq(Recipients)
  BY DEF SessionsOK
<1>1. session' \in [Sessions -> Session]
  BY <1>0, FieldSet DEF Mail, StartingTo
<1>2. /\ \A t \in Sessions : t # s => session'[t] = session[t]
      /\ session[s].step = "command" /\ session'[s].step = "mail"
      /\ session'[s].user = session[s].user /\ session'[s].message = m
      /\ session'[s].to = <<>> /\ session'[s].next = 1
  BY <1>0 DEF Mail, StartingTo, At, Session
<1>3. Len(session'[s].to) = 0
  BY <1>2
<1> QED
  BY <1>1, <1>2, <1>3, SessionFields, OneChanges

LEMMA RcptEffect ==
  ASSUME SessionsOK, NEW s \in Sessions, Rcpt(s)
  PROVE  /\ SessionsOK'
         /\ \A t \in Sessions : t # s => session'[t] = session[t]
         /\ session[s].step = "mail" /\ session'[s].step = "mail"
         /\ session'[s].message = session[s].message /\ session'[s].user = session[s].user
         /\ session'[s].next = session[s].next
         /\ Len(session[s].to) < Len(Envelope[session[s].message])
         /\ session'[s].to = Append(session[s].to,
                                Envelope[session[s].message][Len(session[s].to) + 1])
<1> USE SmtpIntakeAssumption
<1> DEFINE r == Envelope[session[s].message][Len(session[s].to) + 1]
<1>0. session \in [Sessions -> Session] /\ session[s] \in Session
  BY DEF SessionsOK
<1>1. /\ session' = [session EXCEPT ![s].to = Append(session[s].to, r)]
      /\ session[s].step = "mail" /\ Len(session[s].to) < Len(Envelope[session[s].message])
  BY <1>0 DEF Rcpt, At, Named
<1>2. r \in Recipients
  BY <1>1, SessionFields
<1> HIDE DEF r
<1>3. /\ Append(session[s].to, r) \in Seq(Recipients)
      /\ Len(Append(session[s].to, r)) = Len(session[s].to) + 1
  BY <1>2, SessionFields
<1>4. session' \in [Sessions -> Session]
  BY <1>0, <1>1, <1>3, FieldSet
<1>5. /\ \A t \in Sessions : t # s => session'[t] = session[t]
      /\ session'[s].step = session[s].step
      /\ session'[s].user = session[s].user /\ session'[s].message = session[s].message
      /\ session'[s].next = session[s].next
  BY <1>0, <1>1 DEF Session
<1>6. session'[s].to = Append(session[s].to, r)
  BY <1>0, <1>1 DEF Session
<1>7. session'[s].next <= Len(session'[s].to) + 1
  BY <1>3, <1>5, <1>6, SessionFields
<1>8. SessionsOK'
  <2>1. /\ session'[s].user = NoUser <=> session'[s].step \in {"closed", "greeting"}
        /\ session'[s].message = NoMessage <=> session'[s].step \notin {"mail", "data"}
    BY <1>1, <1>5, SessionFields
  <2> QED
    BY <1>4, <1>5, <1>7, <2>1, OneChanges
<1> QED
  BY <1>1, <1>5, <1>6, <1>8 DEF r

LEMMA DataEffect ==
  ASSUME SessionsOK, NEW s \in Sessions, Data(s)
  PROVE  /\ SessionsOK'
         /\ \A t \in Sessions : t # s => session'[t] = session[t]
         /\ session[s].step = "mail" /\ session'[s].step = "data"
         /\ session'[s].message = session[s].message /\ session'[s].user = session[s].user
         /\ session'[s].next = session[s].next /\ session'[s].to = session[s].to
<1> USE SmtpIntakeAssumption
<1>0. session \in [Sessions -> Session] /\ session[s] \in Session
  BY DEF SessionsOK
<1>1. session' \in [Sessions -> Session]
  BY <1>0, FieldSet DEF Data
<1>2. /\ \A t \in Sessions : t # s => session'[t] = session[t]
      /\ session[s].step = "mail" /\ session'[s].step = "data"
      /\ session'[s].user = session[s].user /\ session'[s].message = session[s].message
      /\ session'[s].to = session[s].to /\ session'[s].next = session[s].next
  <2>1. session[s].step = "mail" /\ session' = [session EXCEPT ![s].step = "data"]
    BY DEF Data, At
  <2>2. /\ \A t \in Sessions : t # s => session'[t] = session[t]
        /\ session'[s] = [session[s] EXCEPT !.step = "data"]
    BY <1>0, <2>1
  <2>3. PICK r \in Session : r = session[s]
    BY <1>0
  <2>4. /\ [r EXCEPT !.step = "data"].step = "data"
        /\ [r EXCEPT !.step = "data"].user = r.user
        /\ [r EXCEPT !.step = "data"].message = r.message
        /\ [r EXCEPT !.step = "data"].to = r.to /\ [r EXCEPT !.step = "data"].next = r.next
    BY DEF Session
  <2>5. PICK q : q = session'[s] /\ q = [r EXCEPT !.step = "data"]
    BY <2>2, <2>3
  <2>6. /\ q.step = "data" /\ q.user = r.user /\ q.message = r.message
        /\ q.to = r.to /\ q.next = r.next
    BY <2>4, <2>5, Zenon
  <2> QED
    BY <2>1, <2>2, <2>3, <2>5, <2>6, Zenon
<1>3. /\ session'[s].user = NoUser <=> session'[s].step \in {"closed", "greeting"}
      /\ session'[s].message = NoMessage <=> session'[s].step \notin {"mail", "data"}
      /\ session'[s].next <= Len(session'[s].to) + 1
  <2>1. /\ session[s].user # NoUser /\ session[s].message # NoMessage
        /\ session[s].next <= Len(session[s].to) + 1
    BY <1>2 DEF SessionsOK
  <2> QED
    BY <1>2, <2>1
<1>4. SessionsOK'
  BY <1>1, <1>2, <1>3, OneChanges
<1> QED
  BY <1>2, <1>4, Zenon

LEMMA EnqueueEffect ==
  ASSUME SessionsOK, NEW s \in Sessions, Enqueue(s)
  PROVE  /\ SessionsOK'
         /\ \A t \in Sessions : t # s => session'[t] = session[t]
         /\ session[s].step = "data" /\ session'[s].step = "data"
         /\ session'[s].message = session[s].message /\ session'[s].user = session[s].user
         /\ session[s].next <= Len(session[s].to)
         /\ session'[s].next = session[s].next + 1 /\ session'[s].to = session[s].to
<1> USE SmtpIntakeAssumption
<1>0. /\ session \in [Sessions -> Session] /\ session[s] \in Session
      /\ session[s].next \in Nat /\ session[s].next + 1 \in Nat
  BY SessionFields DEF SessionsOK
<1>1. session' \in [Sessions -> Session]
  BY <1>0, FieldSet DEF Enqueue
<1>2. /\ \A t \in Sessions : t # s => session'[t] = session[t]
      /\ session[s].step = "data" /\ session'[s].step = session[s].step
      /\ session'[s].user = session[s].user /\ session'[s].message = session[s].message
      /\ session'[s].to = session[s].to /\ session'[s].next = session[s].next + 1
      /\ session[s].next <= Len(session[s].to)
  BY <1>0 DEF Enqueue, MoreRecipients, At, Session
<1>3. session'[s].next <= Len(session'[s].to) + 1
  BY <1>0, <1>2, SessionFields
<1> QED
  BY <1>1, <1>2, <1>3, SessionFields, OneChanges

\* HandleMail returns.
LEMMA EndedEffect ==
  ASSUME SessionsOK, NEW s \in Sessions, session[s].step = "data", Ended(s)
  PROVE  /\ SessionsOK'
         /\ \A t \in Sessions : t # s => session'[t] = session[t]
         /\ session'[s].step \notin {"mail", "data"}
         /\ session'[s].message = NoMessage
         /\ session'[s].user = IF s \in gone THEN NoUser ELSE session[s].user
<1> USE SmtpIntakeAssumption
<1>0. session \in [Sessions -> Session] /\ session[s] \in Session
  BY DEF SessionsOK
<1>1. CASE s \in gone
  <2>1. /\ session' \in [Sessions -> Session] /\ session'[s] = Closed
        /\ \A t \in Sessions : t # s => session'[t] = session[t]
    BY <1>0, <1>1, ClosedTyped DEF Ended
  <2>2. /\ session'[s].step = "closed" /\ session'[s].user = NoUser
        /\ session'[s].message = NoMessage
        /\ session'[s].next = 1 /\ Len(session'[s].to) = 0
    BY <2>1, ClosedTyped DEF Closed
  <2> QED
    BY <1>1, <2>1, <2>2, OneChanges
<1>2. CASE s \notin gone
  <2>1. session' = [session EXCEPT
                        ![s] = [session[s] EXCEPT !.step = "command", !.message = NoMessage]]
    BY <1>0, <1>2 DEF Ended
  <2>2. session' \in [Sessions -> Session]
    BY <1>0, <2>1, FieldSet
  <2>3. /\ \A t \in Sessions : t # s => session'[t] = session[t]
        /\ session'[s].step = "command"
        /\ session'[s].user = session[s].user /\ session'[s].message = NoMessage
        /\ session'[s].to = session[s].to /\ session'[s].next = session[s].next
    BY <1>0, <2>1 DEF Session
  <2> QED
    BY <1>2, <2>2, <2>3, SessionFields, OneChanges
<1> QED
  BY <1>1, <1>2

-----------------------------------------------------------------------------
(* Types, and one attempt at a message at a time *)

QuietStep(s) ==
    \/ Connect(s) \/ (\E u \in Users : ReadAccount(s, u)) \/ PasswordRight(s)
    \/ PasswordWrong(s) \/ Disconnect(s) \/ Reset(s)

AccountStep == \E u \in Users : SetEnabled(u) \/ SetDisabled(u) \/ DeleteAccount(u)

\* The steps of the specification, in the groups the proofs go through.
LEMMA NextCases ==
  ASSUME [Next]_vars
  PROVE  \/ \E s \in Sessions :
               \/ QuietStep(s) \/ (\E m \in Messages : Mail(s, m)) \/ Rcpt(s) \/ Data(s)
               \/ Hangup(s) \/ Enqueue(s) \/ RefuseRecipient(s) \/ AcceptMessage(s)
         \/ AccountStep \/ Crash \/ UNCHANGED vars
  BY DEF Next, QuietStep, AccountStep

LEMMA QuietLeaves ==
  ASSUME NEW s \in Sessions, QuietStep(s)
  PROVE  UNCHANGED <<account, rows, told, troubles, gone>>
  BY DEF QuietStep, Connect, ReadAccount, PasswordRight, PasswordWrong, Disconnect, Reset, observed

\* TypeOK, the sessions apart.
RestOK ==
    /\ account \in [Users -> {"enabled", "disabled", "gone"}]
    /\ rows \in [Messages \X Recipients -> Nat]
    /\ told \subseteq Messages
    /\ troubles \in [Messages -> 0..MaxTroubles]
    /\ \A s \in gone : session[s].step = "data"
    /\ outdated \subseteq Sessions

LEMMA TypeOKParts == TypeOK <=> SessionsOK /\ RestOK
  BY DEF TypeOK, SessionsOK, RestOK

\* HandleMail inserts one row more, for the recipient it is at.
LEMMA RowAdded ==
  ASSUME SessionsOK, RestOK, NEW s \in Sessions, Enqueue(s)
  PROVE  /\ rows' \in [Messages \X Recipients -> Nat]
         /\ \A m \in Messages, r \in Recipients :
               rows'[<<m, r>>] = IF m = session[s].message /\ r = Recipient(s)
                                 THEN rows[<<m, r>>] + 1 ELSE rows[<<m, r>>]
<1>1. Recipient(s) \in Recipients
  BY SmtpIntakeAssumption DEF Enqueue
<1>2. session[s].message \in Messages
  BY SessionFields DEF Enqueue, MoreRecipients, At
<1>3. PICK p \in Messages \X Recipients : p = <<session[s].message, Recipient(s)>>
  BY <1>1, <1>2
<1>4. rows' = [rows EXCEPT ![p] = @ + 1] /\ rows \in [Messages \X Recipients -> Nat]
  BY <1>3 DEF Enqueue, RestOK
<1>5. rows[p] + 1 \in Nat
  BY <1>4
<1> QED
  BY <1>3, <1>4, <1>5

LEMMA StepTyped == Typed /\ [Next]_vars => Typed'
<1> SUFFICES ASSUME SessionsOK, RestOK, Exclusive, [Next]_vars
             PROVE  SessionsOK' /\ RestOK' /\ Exclusive'
  BY TypeOKParts, PTL DEF Typed
<1> USE SmtpIntakeAssumption
<1>1. ASSUME NEW s \in Sessions, QuietStep(s)
      PROVE  SessionsOK' /\ RestOK' /\ Exclusive'
  <2>1. /\ SessionsOK' /\ UNCHANGED <<account, rows, told, troubles, gone>>
        /\ \A t \in Sessions : t # s => session'[t] = session[t]
        /\ session[s].step # "data" /\ session'[s].message = NoMessage
        /\ outdated' \subseteq Sessions
    BY <1>1, QuietEffect, QuietOutdated, QuietLeaves DEF QuietStep, RestOK
  <2>2. RestOK'
    BY <2>1 DEF RestOK, Exclusive
  <2>3. \A t \in Sessions, m \in Messages : Trying(t, m)' => t # s /\ Trying(t, m)
    BY <2>1 DEF Trying
  <2>4. Exclusive'
    BY <2>1, <2>3 DEF Exclusive
  <2> QED
    BY <2>1, <2>2, <2>4
<1>2. ASSUME NEW s \in Sessions, NEW m \in Messages, Mail(s, m)
      PROVE  SessionsOK' /\ RestOK' /\ Exclusive'
  <2>1. /\ SessionsOK' /\ UNCHANGED <<account, rows, told, troubles, gone, outdated>>
        /\ \A t \in Sessions : t # s => session'[t] = session[t]
        /\ session[s].step # "data" /\ session'[s].message = m
        /\ m \notin told /\ troubles[m] < MaxTroubles
        /\ \A t \in Sessions : ~Trying(t, m)
    BY <1>2, MailEffect DEF Mail, observed
  <2>2. RestOK'
    BY <2>1 DEF RestOK, Exclusive
  <2>3. \A t \in Sessions, k \in Messages : Trying(t, k)' => (t = s /\ k = m) \/ Trying(t, k)
    BY <2>1 DEF Trying
  <2>4. Exclusive'
    BY <2>1, <2>3 DEF Exclusive
  <2> QED
    BY <2>1, <2>2, <2>4
<1>3. ASSUME NEW s \in Sessions, Rcpt(s) \/ Data(s) \/ Enqueue(s)
      PROVE  SessionsOK' /\ RestOK' /\ Exclusive'
  <2>1. /\ SessionsOK' /\ UNCHANGED <<account, told, troubles, gone, outdated>>
        /\ \A t \in Sessions : t # s => session'[t] = session[t]
        /\ session'[s].message = session[s].message
        /\ session[s].step = "data" => session'[s].step = "data"
    BY <1>3, RcptEffect, DataEffect, EnqueueEffect DEF Rcpt, Data, Enqueue, observed
  <2>2. rows' \in [Messages \X Recipients -> Nat]
    <3>1. CASE Rcpt(s) \/ Data(s)
      BY <3>1 DEF Rcpt, Data, RestOK
    <3>2. CASE Enqueue(s)
      BY <3>2, RowAdded DEF RestOK
    <3> QED
      BY <1>3, <3>1, <3>2
  <2>3. RestOK'
    BY <2>1, <2>2 DEF RestOK, Exclusive
  <2>4. \A t \in Sessions, k \in Messages : Trying(t, k)' => Trying(t, k)
    BY <2>1 DEF Trying
  <2>5. Exclusive'
    BY <2>1, <2>4 DEF Exclusive
  <2> QED
    BY <2>1, <2>3, <2>5
<1>4. ASSUME NEW s \in Sessions, Hangup(s)
      PROVE  SessionsOK' /\ RestOK' /\ Exclusive'
  <2>1. PICK m \in Messages : m = session[s].message
    BY <1>4, SessionFields DEF Hangup, At
  <2>2. /\ UNCHANGED <<account, session, rows, told, outdated>> /\ gone' = gone \cup {s}
        /\ troubles' = [troubles EXCEPT ![m] = @ + 1]
        /\ Trying(s, m) /\ session[s].step = "data"
    BY <1>4, <2>1 DEF Hangup, At, Trying
  <2>3. troubles[m] < MaxTroubles /\ m \notin told
    BY <2>2 DEF Exclusive
  <2>4. /\ troubles' \in [Messages -> 0..MaxTroubles]
        /\ \A k \in Messages : k # m => troubles'[k] = troubles[k]
    BY <2>2, <2>3 DEF RestOK
  <2>5. SessionsOK' /\ RestOK'
    BY <2>2, <2>4 DEF RestOK, SessionsOK
  <2>6. \A t \in Sessions, k \in Messages : Trying(t, k)' => Trying(t, k) /\ t # s
    BY <2>2 DEF Trying
  <2>7. \A t \in Sessions : Trying(t, m) => t = s
    BY <2>2 DEF Exclusive
  <2>8. Exclusive'
    BY <2>2, <2>4, <2>6, <2>7 DEF Exclusive
  <2> QED
    BY <2>5, <2>8
<1>5. ASSUME NEW s \in Sessions, RefuseRecipient(s) \/ AcceptMessage(s)
      PROVE  SessionsOK' /\ RestOK' /\ Exclusive'
  <2>1. session[s].step = "data" /\ Ended(s)
    BY <1>5 DEF RefuseRecipient, MoreRecipients, RefuseMessage, AcceptMessage, At
  <2>2. /\ SessionsOK'
        /\ \A t \in Sessions : t # s => session'[t] = session[t]
        /\ session'[s].message = NoMessage
    BY <2>1, EndedEffect
  <2>3. PICK m \in Messages : m = session[s].message
    BY <2>1, SessionFields
  <2>4. /\ UNCHANGED <<account, rows>> /\ gone' = gone \ {s}
        /\ outdated' \in {outdated, outdated \ {s}}
        /\ told' \in {told, told \cup {m}}
        /\ troubles' = troubles \/ troubles' = [troubles EXCEPT ![m] = @ + 1]
        /\ s \in gone => UNCHANGED <<told, troubles>>
    BY <1>5, <2>1, <2>3 DEF RefuseRecipient, RefuseMessage, AcceptMessage, Ended
  <2>5. s \notin gone => Trying(s, m)
    BY <2>3 DEF Trying
  <2>6. /\ troubles' \in [Messages -> 0..MaxTroubles]
        /\ \A k \in Messages : k # m => troubles'[k] = troubles[k]
    <3>1. CASE troubles' = troubles
      BY <3>1 DEF RestOK
    <3>2. CASE troubles' = [troubles EXCEPT ![m] = @ + 1] /\ s \notin gone
      <4>1. troubles[m] \in 0..MaxTroubles /\ troubles[m] < MaxTroubles
        BY <2>5, <3>2 DEF RestOK, Exclusive
      <4> QED
        BY <3>2, <4>1 DEF RestOK
    <3> QED
      BY <2>4, <3>1, <3>2
  <2>7. RestOK'
    BY <2>2, <2>4, <2>6 DEF RestOK, Exclusive
  <2>8. \A t \in Sessions, k \in Messages : Trying(t, k)' => Trying(t, k) /\ t # s
    BY <2>2, <2>4 DEF Trying
  <2>9. s \notin gone => \A t \in Sessions : Trying(t, m) => t = s
    BY <2>5 DEF Exclusive
  <2>10. Exclusive'
    BY <2>4, <2>6, <2>8, <2>9 DEF Exclusive
  <2> QED
    BY <2>2, <2>7, <2>10
<1>6. CASE AccountStep
  <2>1. /\ UNCHANGED <<session, rows, told, troubles, gone>>
        /\ account' \in [Users -> {"enabled", "disabled", "gone"}]
        /\ outdated' \subseteq Sessions
    BY <1>6
    DEF AccountStep, SetEnabled, SetDisabled, DeleteAccount, AccountChanges, RestOK
  <2> QED
    BY <2>1 DEF SessionsOK, RestOK, Exclusive, Trying
<1>7. CASE Crash
  <2>1. /\ UNCHANGED <<account, rows, told>> /\ gone' = {} /\ outdated' = {}
        /\ \A t \in Sessions : session'[t] = Closed
        /\ session' \in [Sessions -> Session]
    BY <1>7, ClosedTyped DEF Crash
  <2>2. SessionsOK'
    BY <2>1, ClosedTyped DEF SessionsOK, Closed
  <2>3. \A m \in Messages : \/ troubles'[m] = troubles[m]
                            \/ troubles'[m] = troubles[m] + 1 /\ troubles[m] < MaxTroubles
    BY <1>7 DEF Crash, Exclusive
  <2>4. troubles' \in [Messages -> 0..MaxTroubles]
    <3>1. \A m \in Messages : troubles'[m] \in 0..MaxTroubles
      BY <2>3 DEF RestOK
    <3> QED
      BY <1>7, <3>1 DEF Crash
  <2>5. RestOK'
    BY <2>1, <2>4 DEF RestOK
  <2>6. \A t \in Sessions, k \in Messages : ~Trying(t, k)'
    BY <2>1 DEF Trying, Closed
  <2>7. Exclusive'
    BY <2>1, <2>6 DEF Exclusive
  <2> QED
    BY <2>2, <2>5, <2>7
<1>8. CASE UNCHANGED vars
  BY <1>8 DEF vars, observed, SessionsOK, RestOK, Exclusive, Trying
<1> QED
  BY <1>1, <1>2, <1>3, <1>4, <1>5, <1>6, <1>7, <1>8, NextCases

LEMMA InitTyped == Init => Typed
<1> SUFFICES ASSUME Init
             PROVE  Typed
  OBVIOUS
<1>1. SessionsOK
  BY ClosedTyped DEF Init, SessionsOK, Closed
<1>2. RestOK /\ Exclusive
  BY SmtpIntakeAssumption DEF Init, RestOK, Exclusive, Trying, Closed
<1> QED
  BY <1>1, <1>2, TypeOKParts DEF Typed

\* Every variable keeps its type, and the attempts at a message stay within their bound: nobody
\* submits it over two connections at once unless the client gave up waiting on one.
THEOREM IntakeTyped == Spec => []TypeOK
<1>1. Typed => TypeOK
  BY DEF Typed
<1> QED
  BY <1>1, InitTyped, StepTyped, PTL DEF Spec

-----------------------------------------------------------------------------
(* Sessions of accounts that are disabled or gone *)

LEMMA StepFormer == TypeOK /\ OnlyFormerSessions /\ [Next]_vars => OnlyFormerSessions'
<1> SUFFICES ASSUME SessionsOK, RestOK, OnlyFormerSessions, [Next]_vars
             PROVE  OnlyFormerSessions'
  BY TypeOKParts
<1> USE SmtpIntakeAssumption
<1>1. ASSUME NEW s \in Sessions, QuietStep(s)
      PROVE  OnlyFormerSessions'
  <2>1. /\ account' = account
        /\ \A t \in Sessions : t # s => session'[t] = session[t]
        /\ \/ session'[s].user = session[s].user
           \/ session'[s].user = NoUser
           \/ account[session'[s].user] = "enabled"
        /\ \/ outdated' = outdated
           \/ outdated' = outdated \ {s} /\ session'[s].user = NoUser
    BY <1>1, QuietEffect, QuietOutdated, QuietLeaves DEF QuietStep, Admitted
  <2> QED
    BY <2>1 DEF OnlyFormerSessions
<1>2. ASSUME NEW s \in Sessions,
             (\E m \in Messages : Mail(s, m)) \/ Rcpt(s) \/ Data(s) \/ Enqueue(s)
      PROVE  OnlyFormerSessions'
  <2>1. /\ UNCHANGED <<account, outdated>>
        /\ \A t \in Sessions : t # s => session'[t] = session[t]
        /\ session'[s].user = session[s].user
    BY <1>2, MailEffect, RcptEffect, DataEffect, EnqueueEffect
    DEF Mail, Rcpt, Data, Enqueue, observed
  <2> QED
    BY <2>1 DEF OnlyFormerSessions
<1>3. ASSUME NEW s \in Sessions, RefuseRecipient(s) \/ AcceptMessage(s)
      PROVE  OnlyFormerSessions'
  <2>1. /\ account' = account /\ session[s].step = "data" /\ Ended(s)
        /\ outdated' = IF s \in gone THEN outdated \ {s} ELSE outdated
    BY <1>3 DEF RefuseRecipient, MoreRecipients, RefuseMessage, AcceptMessage, Ended, At
  <2>2. /\ \A t \in Sessions : t # s => session'[t] = session[t]
        /\ session'[s].user = IF s \in gone THEN NoUser ELSE session[s].user
    BY <2>1, EndedEffect
  <2> QED
    BY <2>1, <2>2 DEF OnlyFormerSessions
<1>4. CASE AccountStep
  <2>1. PICK u \in Users, state \in {"enabled", "disabled", "gone"} : AccountChanges(u, state)
    BY <1>4 DEF AccountStep, SetEnabled, SetDisabled, DeleteAccount
  <2>2. /\ UNCHANGED session /\ \A v \in Users : v # u => account'[v] = account[v]
        /\ outdated' = outdated \cup {t \in Sessions : session[t].user = u}
    BY <2>1 DEF AccountChanges, RestOK
  <2>3. \A t \in Sessions : session[t].user # NoUser => session[t].user \in Users
    BY SessionFields
  <2> QED
    BY <2>2, <2>3 DEF OnlyFormerSessions
<1>5. CASE Crash
  BY <1>5 DEF Crash, Closed, OnlyFormerSessions
<1>6. CASE (\E s \in Sessions : Hangup(s)) \/ UNCHANGED vars
  BY <1>6 DEF Hangup, vars, observed, OnlyFormerSessions
<1> QED
  BY <1>1, <1>2, <1>3, <1>4, <1>5, <1>6, NextCases

\* An account that is disabled or gone has only those sessions that read it before: Validate
\* lets nobody in on such an account, and sessions are not confused with each other.
THEOREM FormerSessions == Spec => []OnlyFormerSessions
<1>1. Init => OnlyFormerSessions
  BY DEF Init, OnlyFormerSessions, Closed
<1> QED
  BY <1>1, IntakeTyped, StepFormer, PTL DEF Spec

-----------------------------------------------------------------------------
(* What is accepted is queued *)

\* Rows are inserted and never taken away.
LEMMA RowsGrow ==
  ASSUME SessionsOK, RestOK, UNCHANGED rows \/ \E s \in Sessions : Enqueue(s)
  PROVE  \A m \in Messages, next \in Nat : Passed(m, next) => Passed(m, next)'
<1> USE SmtpIntakeAssumption
<1>1. ASSUME NEW k \in Messages, NEW r \in Recipients
      PROVE  /\ rows[<<k, r>>] \in Nat /\ rows'[<<k, r>>] \in Nat
             /\ rows'[<<k, r>>] >= rows[<<k, r>>]
  <2>1. PICK n \in Nat : n = rows[<<k, r>>]
    BY DEF RestOK
  <2>2. rows'[<<k, r>>] \in {n, n + 1}
    <3>1. CASE UNCHANGED rows
      BY <2>1, <3>1
    <3>2. ASSUME NEW s \in Sessions, Enqueue(s)
          PROVE  rows'[<<k, r>>] \in {n, n + 1}
      BY <2>1, <3>2, RowAdded
    <3> QED
      BY <3>1, <3>2
  <2> QED
    BY <2>1, <2>2
<1>2. \A k \in Messages : \A n \in DOMAIN Envelope[k] : Envelope[k][n] \in Recipients
  OBVIOUS
<1> QED
  BY <1>1, <1>2 DEF Passed

\* A step of session s leaves the others where they are, and rows that are there stay.
LEMMA OthersProgress ==
  ASSUME SessionsOK, NEW s, Progress,
         \A t \in Sessions : t # s => session'[t] = session[t],
         \A m \in Messages, next \in Nat : Passed(m, next) => Passed(m, next)'
  PROVE  \A t \in Sessions : t # s => ProgressOf(t)'
<1> SUFFICES ASSUME NEW t \in Sessions, t # s
             PROVE  ProgressOf(t)'
  OBVIOUS
<1>1. session'[t] = session[t] /\ ProgressOf(t)
  BY DEF Progress
<1>2. At(t, "mail")' =>
          session'[t].next = 1 /\ Prefix(session'[t].to, Envelope[session'[t].message])
  BY <1>1 DEF ProgressOf, At
<1>3. At(t, "data")' =>
          session'[t].to = Envelope[session'[t].message] /\ session'[t].next > 0
  BY <1>1 DEF ProgressOf, At
<1>4. At(t, "data")' => Passed(session[t].message, session[t].next)'
  <2>1. At(t, "data")' => session[t].message \in Messages /\ session[t].next \in Nat
    BY <1>1, SessionFields DEF At
  <2>2. At(t, "data")' => Passed(session[t].message, session[t].next)
    BY <1>1 DEF ProgressOf, At
  <2>3. PICK m, next : m = session[t].message /\ next = session[t].next
    OBVIOUS
  <2>4. At(t, "data")' => Passed(m, next)'
    BY <2>1, <2>2, <2>3
  <2>5. m = session'[t].message /\ next = session'[t].next
    BY <1>1, <2>3
  <2> QED
    BY <2>4, <2>5 DEF Passed
<1> QED
  BY <1>2, <1>3, <1>4 DEF ProgressOf

\* After the last RCPT the session holds the recipients of the envelope.
LEMMA EnvelopeNamed ==
  ASSUME SessionsOK, Progress, NEW s \in Sessions, session[s].step = "mail",
         Len(session[s].to) >= Len(Envelope[session[s].message])
  PROVE  session[s].to = Envelope[session[s].message] /\ session[s].next = 1
<1>1. PICK to \in Seq(Recipients) : to = session[s].to
  BY SessionFields
<1>2. PICK e \in Seq(Recipients) : e = Envelope[session[s].message]
  BY SessionFields, SmtpIntakeAssumption
<1>3. Prefix(to, e) /\ session[s].next = 1 /\ Len(to) >= Len(e)
  BY <1>1, <1>2 DEF Progress, ProgressOf, At
<1>4. to = e
  BY <1>3 DEF Prefix
<1> QED
  BY <1>1, <1>2, <1>3, <1>4

\* A step of one session that keeps its part of Progress, and tells the client of nothing new.
LEMMA ProgressKept ==
  ASSUME SessionsOK, RestOK, Progress, AcceptedIsQueued, NEW s \in Sessions,
         \A t \in Sessions : t # s => session'[t] = session[t],
         UNCHANGED rows \/ Enqueue(s), UNCHANGED told, ProgressOf(s)'
  PROVE  Progress' /\ AcceptedIsQueued'
<1>1. \A m \in Messages, next \in Nat : Passed(m, next) => Passed(m, next)'
  BY RowsGrow
<1>2. Progress'
  BY <1>1, OthersProgress DEF Progress
<1>3. AcceptedIsQueued'
  <2>1. ASSUME NEW m \in told
        PROVE  \A n \in DOMAIN Envelope[m] : rows'[<<m, Envelope[m][n]>>] > 0
    <3>1. m \in Messages /\ Len(Envelope[m]) + 1 \in Nat
      BY SmtpIntakeAssumption DEF RestOK
    <3>2. \A n \in DOMAIN Envelope[m] : n < Len(Envelope[m]) + 1
      BY <3>1, SmtpIntakeAssumption
    <3>3. Passed(m, Len(Envelope[m]) + 1)
      BY <2>1 DEF AcceptedIsQueued, Passed
    <3>4. Passed(m, Len(Envelope[m]) + 1)'
      BY <1>1, <3>1, <3>3
    <3> QED
      BY <3>2, <3>4 DEF Passed
  <2> QED
    BY <2>1 DEF AcceptedIsQueued
<1> QED
  BY <1>2, <1>3

LEMMA StepProgress ==
  Typed /\ Progress /\ AcceptedIsQueued /\ [Next]_vars => Progress' /\ AcceptedIsQueued'
<1> SUFFICES ASSUME SessionsOK, RestOK, Exclusive, Progress, AcceptedIsQueued, [Next]_vars
             PROVE  Progress' /\ AcceptedIsQueued'
  BY TypeOKParts DEF Typed
<1> USE SmtpIntakeAssumption
<1>1. ASSUME NEW s \in Sessions, QuietStep(s)
      PROVE  Progress' /\ AcceptedIsQueued'
  <2>1. /\ UNCHANGED <<rows, told>> /\ session'[s].step \notin {"mail", "data"}
        /\ \A t \in Sessions : t # s => session'[t] = session[t]
    BY <1>1, QuietEffect, QuietLeaves DEF QuietStep
  <2>2. ProgressOf(s)'
    BY <2>1 DEF ProgressOf, At
  <2> QED
    BY <2>1, <2>2, ProgressKept
<1>2. ASSUME NEW s \in Sessions, NEW m \in Messages, Mail(s, m)
      PROVE  Progress' /\ AcceptedIsQueued'
  <2>1. /\ UNCHANGED <<rows, told>> /\ session'[s].step = "mail" /\ session'[s].message = m
        /\ Len(session'[s].to) = 0 /\ session'[s].next = 1
        /\ \A t \in Sessions : t # s => session'[t] = session[t]
    BY <1>2, MailEffect DEF Mail, observed
  <2>2. Prefix(session'[s].to, Envelope[m])
    <3>1. Len(Envelope[m]) \in Nat
      OBVIOUS
    <3> QED
      BY <2>1, <3>1 DEF Prefix
  <2>3. ProgressOf(s)'
    BY <2>1, <2>2 DEF ProgressOf, At
  <2> QED
    BY <2>1, <2>3, ProgressKept
<1>3. ASSUME NEW s \in Sessions, Rcpt(s)
      PROVE  Progress' /\ AcceptedIsQueued'
  <2>1. PICK m \in Messages : m = session[s].message
    BY <1>3, SessionFields DEF Rcpt, At
  <2>2. /\ UNCHANGED <<rows, told>> /\ session'[s].step = "mail" /\ session'[s].message = m
        /\ session[s].step = "mail" /\ session'[s].next = session[s].next
        /\ Len(session[s].to) < Len(Envelope[m])
        /\ session'[s].to = Append(session[s].to, Envelope[m][Len(session[s].to) + 1])
        /\ \A t \in Sessions : t # s => session'[t] = session[t]
    BY <1>3, <2>1, RcptEffect DEF Rcpt, observed
  <2>3. PICK to \in Seq(Recipients) : to = session[s].to
    BY SessionFields
  <2>4. PICK e \in Seq(Recipients) : e = Envelope[m]
    OBVIOUS
  <2>5. Len(to) < Len(e) /\ Prefix(to, e) /\ session[s].next = 1
    BY <2>1, <2>2, <2>3, <2>4 DEF Progress, ProgressOf, At
  <2>6. Prefix(Append(to, e[Len(to) + 1]), e)
    <3>1. e[Len(to) + 1] \in Recipients
      BY <2>5
    <3>2. PICK r \in Recipients : r = e[Len(to) + 1]
      BY <3>1
    <3>3. /\ Len(Append(to, r)) = Len(to) + 1
          /\ \A n \in 1..Len(to) + 1 : Append(to, r)[n] = IF n = Len(to) + 1 THEN r ELSE to[n]
      OBVIOUS
    <3>4. Prefix(Append(to, r), e)
      BY <2>5, <3>2, <3>3 DEF Prefix
    <3> QED
      BY <3>2, <3>4
  <2>7. ProgressOf(s)'
    BY <2>2, <2>3, <2>4, <2>5, <2>6 DEF ProgressOf, At
  <2> QED
    BY <2>2, <2>7, ProgressKept
<1>4. ASSUME NEW s \in Sessions, Data(s)
      PROVE  Progress' /\ AcceptedIsQueued'
  <2>1. PICK m \in Messages : m = session[s].message
    BY <1>4, SessionFields DEF Data, At
  <2>2. /\ UNCHANGED <<rows, told>> /\ session'[s].step = "data" /\ session'[s].message = m
        /\ session[s].step = "mail" /\ session'[s].next = session[s].next
        /\ session'[s].to = session[s].to /\ Len(session[s].to) >= Len(Envelope[m])
        /\ \A t \in Sessions : t # s => session'[t] = session[t]
    BY <1>4, <2>1, DataEffect DEF Data, Named, observed
  <2>3. session[s].to = Envelope[m] /\ session[s].next = 1
    BY <1>4, <2>1, EnvelopeNamed DEF Data, At, Named
  <2>4. Passed(m, 1)'
    <3>1. \A n \in DOMAIN Envelope[m] : ~(n < 1)
      OBVIOUS
    <3> QED
      BY <3>1 DEF Passed
  <2>5. ProgressOf(s)'
    BY <2>2, <2>3, <2>4 DEF ProgressOf, At, Passed
  <2> QED
    BY <2>2, <2>5, ProgressKept
<1>5. ASSUME NEW s \in Sessions, Enqueue(s)
      PROVE  Progress' /\ AcceptedIsQueued'
  <2>1. PICK m \in Messages, next \in Nat : m = session[s].message /\ next = session[s].next
    BY <1>5, SessionFields DEF Enqueue, MoreRecipients, At
  <2>2. /\ UNCHANGED told /\ session'[s].step = "data" /\ session'[s].message = m
        /\ session[s].step = "data" /\ session'[s].next = next + 1
        /\ session'[s].to = session[s].to
        /\ \A t \in Sessions : t # s => session'[t] = session[t]
    BY <1>5, <2>1, EnqueueEffect DEF Enqueue, observed
  <2>3. /\ session[s].to = Envelope[m] /\ Recipient(s) = Envelope[m][next]
        /\ Passed(m, next)
    BY <2>1, <2>2 DEF Progress, ProgressOf, At, Recipient
  <2>4. Passed(m, next)'
    BY <1>5, <2>1, <2>3, RowsGrow
  <2>5. Passed(m, next + 1)'
    <3>1. \A n \in DOMAIN Envelope[m] : n < next + 1 => n < next \/ n = next
      OBVIOUS
    <3>2. \A n \in DOMAIN Envelope[m] : Envelope[m][n] \in Recipients
      OBVIOUS
    <3>3. \A r \in Recipients : /\ rows[<<m, r>>] \in Nat
                                /\ r = Recipient(s) => rows'[<<m, r>>] = rows[<<m, r>>] + 1
      BY <1>5, <2>1, RowAdded DEF RestOK
    <3>4. \A n \in DOMAIN Envelope[m] : n = next => rows'[<<m, Envelope[m][n]>>] > 0
      BY <2>3, <3>2, <3>3
    <3> QED
      BY <2>4, <3>1, <3>4 DEF Passed
  <2>6. ProgressOf(s)'
    <3>1. /\ ~At(s, "mail")' /\ session'[s].to = Envelope[session'[s].message]
          /\ session'[s].next > 0
      BY <2>2, <2>3 DEF At
    <3>2. Passed(session[s].message, session[s].next)'
      BY <2>2, <2>5 DEF Passed
    <3> QED
      BY <3>1, <3>2 DEF ProgressOf
  <2> QED
    BY <1>5, <2>2, <2>6, ProgressKept
<1>6. ASSUME NEW s \in Sessions, RefuseRecipient(s)
      PROVE  Progress' /\ AcceptedIsQueued'
  <2>1. session[s].step = "data" /\ Ended(s) /\ UNCHANGED <<rows, told>>
    BY <1>6 DEF RefuseRecipient, MoreRecipients, RefuseMessage, At
  <2>2. /\ \A t \in Sessions : t # s => session'[t] = session[t]
        /\ session'[s].step \notin {"mail", "data"}
    BY <2>1, EndedEffect
  <2>3. ProgressOf(s)'
    BY <2>2 DEF ProgressOf, At
  <2> QED
    BY <2>1, <2>2, <2>3, ProgressKept
\* The loop is at its end: all the recipients are passed.
<1>7. ASSUME NEW s \in Sessions, AcceptMessage(s)
      PROVE  Progress' /\ AcceptedIsQueued'
  <2>1. /\ session[s].step = "data" /\ Ended(s) /\ rows' = rows
        /\ session[s].next > Len(session[s].to)
        /\ told' \in {told, told \cup {session[s].message}}
    BY <1>7 DEF AcceptMessage, At
  <2>2. PICK m \in Messages, next \in Nat : m = session[s].message /\ next = session[s].next
    BY <2>1, SessionFields
  <2>3. /\ \A t \in Sessions : t # s => session'[t] = session[t]
        /\ session'[s].step \notin {"mail", "data"}
    BY <2>1, EndedEffect
  <2>4. \A n \in DOMAIN Envelope[m] : rows[<<m, Envelope[m][n]>>] > 0
    <3>1. session[s].to = Envelope[m] /\ Passed(m, next)
      BY <2>1, <2>2 DEF Progress, ProgressOf, At
    <3>2. \A n \in DOMAIN Envelope[m] : n < next
      BY <2>1, <2>2, <3>1
    <3> QED
      BY <3>1, <3>2 DEF Passed
  <2>5. AcceptedIsQueued'
    BY <2>1, <2>2, <2>4 DEF AcceptedIsQueued
  <2>6. \A k \in Messages, n \in Nat : Passed(k, n) => Passed(k, n)'
    BY <2>1, RowsGrow
  <2>7. ProgressOf(s)'
    BY <2>3 DEF ProgressOf, At
  <2>8. Progress'
    BY <2>3, <2>6, <2>7, OthersProgress DEF Progress
  <2> QED
    BY <2>5, <2>8
<1>8. CASE Crash
  <2>1. UNCHANGED <<rows, told>> /\ \A t \in Sessions : session'[t].step = "closed"
    BY <1>8 DEF Crash, Closed
  <2> QED
    BY <2>1 DEF Progress, ProgressOf, AcceptedIsQueued, At
<1>9. CASE AccountStep \/ (\E s \in Sessions : Hangup(s)) \/ UNCHANGED vars
  <2>1. UNCHANGED <<session, rows, told>>
    BY <1>9
    DEF AccountStep, SetEnabled, SetDisabled, DeleteAccount, AccountChanges, Hangup, vars, observed
  <2> QED
    BY <2>1 DEF Progress, ProgressOf, AcceptedIsQueued, At, Passed
<1> QED
  BY <1>1, <1>2, <1>3, <1>4, <1>5, <1>6, <1>7, <1>8, <1>9, NextCases

\* A client that is told that its message is accepted can forget it: there is a row for every
\* recipient of the envelope, whatever earlier attempts, crashes and other sessions did.
THEOREM Acceptance == Spec => []AcceptedIsQueued
<1>1. Init => Progress /\ AcceptedIsQueued
  BY DEF Init, Progress, ProgressOf, AcceptedIsQueued, At, Closed
<1> QED
  BY <1>1, InitTyped, StepTyped, StepProgress, PTL DEF Spec

-----------------------------------------------------------------------------
(* What is queued more than once *)

Occurrences(m, r) == {n \in DOMAIN Envelope[m] : Envelope[m][n] = r}

Sending(s, m) == At(s, "data") /\ session[s].message = m

\* The rows for r that calls of HandleMail with message m are still to insert: the call of
\* session s at position n, for each pair <<s, n>>.
Left(m, r) ==
    {p \in Sessions \X Nat :
        /\ Sending(p[1], m)
        /\ p[2] \in Occurrences(m, r)
        /\ p[2] >= session[p[1]].next}

\* An attempt that is not among the troubles: the one that succeeded, or the one under way.
Open(m) == m \in told \/ \E s \in Sessions : Sending(s, m) /\ s \notin gone

Attempts(m) == troubles[m] + (IF Open(m) THEN 1 ELSE 0)

WithinOf(m, r) ==
    /\ IsFiniteSet(Left(m, r))
    /\ rows[<<m, r>>] + Cardinality(Left(m, r)) <= Cardinality(Occurrences(m, r)) * Attempts(m)

WithinAttempts == \A m \in Messages, r \in Recipients : WithinOf(m, r)

LEMMA TimesMonotonic ==
  ASSUME NEW a \in Nat, NEW b \in Nat, NEW c \in Nat, b <= c
  PROVE  a * b <= a * c /\ a * b \in Nat
<1>1. PICK d \in Nat : c = b + d
  BY c - b \in Nat
<1>2. a * d \in Nat /\ a * b \in Nat
  OBVIOUS
<1>3. a * (b + d) = a * b + a * d
  OBVIOUS
<1> QED
  BY <1>1, <1>2, <1>3

LEMMA OccurrencesFinite ==
  ASSUME NEW m \in Messages, NEW r
  PROVE  /\ IsFiniteSet(Occurrences(m, r))
         /\ Cardinality(Occurrences(m, r)) \in Nat
         /\ Occurrences(m, r) \subseteq Nat \ {0}
         /\ Occurrences(m, r)' = Occurrences(m, r)
<1>1. DOMAIN Envelope[m] = 1..Len(Envelope[m]) /\ Len(Envelope[m]) \in Nat
  BY SmtpIntakeAssumption
<1>2. Occurrences(m, r) \subseteq 1..Len(Envelope[m])
  BY <1>1 DEF Occurrences
<1>3. IsFiniteSet(1..Len(Envelope[m]))
  <2>1. \A n \in Nat : IsFiniteSet(1..n)
    BY FS_Interval
  <2> QED
    BY <1>1, <2>1, Zenon
<1>4. IsFiniteSet(Occurrences(m, r))
  BY <1>2, <1>3, FS_Subset
<1>5. Occurrences(m, r)' = Occurrences(m, r)
  BY DEF Occurrences
<1> QED
  BY <1>2, <1>4, <1>5, FS_CardinalityType

LEMMA AttemptsTyped ==
  ASSUME RestOK, NEW m \in Messages
  PROVE  /\ Attempts(m) \in Nat /\ troubles[m] \in Nat
         /\ Open(m) => Attempts(m) = troubles[m] + 1
         /\ ~Open(m) => Attempts(m) = troubles[m]
<1>1. troubles[m] \in Nat
  BY SmtpIntakeAssumption DEF RestOK
<1> QED
  BY <1>1 DEF Attempts

\* An attempt that was open is open still, or it is among the troubles now.
LEMMA AttemptsGrow ==
  ASSUME RestOK, RestOK', NEW m \in Messages, troubles'[m] >= troubles[m],
         Open(m) => Open(m)' \/ troubles'[m] = troubles[m] + 1
  PROVE  Attempts(m)' >= Attempts(m)
<1>1. /\ Attempts(m)' \in Nat /\ troubles'[m] \in Nat
      /\ Open(m)' => Attempts(m)' = troubles'[m] + 1
      /\ ~Open(m)' => Attempts(m)' = troubles'[m]
  <2>1. troubles'[m] \in Nat
    BY SmtpIntakeAssumption DEF RestOK
  <2> QED
    BY <2>1 DEF Attempts
<1> QED
  BY <1>1, AttemptsTyped

\* A step that inserts no row of m for r, and gives no session one to insert.
LEMMA WithinKept ==
  ASSUME SessionsOK, SessionsOK', RestOK, RestOK', WithinAttempts,
         NEW m \in Messages, NEW r \in Recipients,
         rows'[<<m, r>>] = rows[<<m, r>>], Attempts(m)' >= Attempts(m),
         \A t \in Sessions :
            Sending(t, m)' => Sending(t, m) /\ session'[t].next >= session[t].next
  PROVE  WithinOf(m, r)'
<1>1. \A t \in Sessions : session[t].next \in Nat /\ session'[t].next \in Nat
  BY DEF SessionsOK, Session
<1>2. Left(m, r)' \subseteq Left(m, r)
  BY <1>1, OccurrencesFinite DEF Left
<1>3. /\ IsFiniteSet(Left(m, r))
      /\ rows[<<m, r>>] + Cardinality(Left(m, r))
            <= Cardinality(Occurrences(m, r)) * Attempts(m)
  BY DEF WithinAttempts, WithinOf
<1>4. /\ IsFiniteSet(Left(m, r)') /\ Cardinality(Left(m, r)') \in Nat
      /\ Cardinality(Left(m, r)) \in Nat
      /\ Cardinality(Left(m, r)') <= Cardinality(Left(m, r))
  BY <1>2, <1>3, FS_Subset, FS_CardinalityType
<1>5. Attempts(m) \in Nat /\ Attempts(m)' \in Nat
  <2>1. troubles[m] \in Nat /\ troubles'[m] \in Nat
    BY SmtpIntakeAssumption DEF RestOK
  <2> QED
    BY <2>1 DEF Attempts
<1>6. /\ Cardinality(Occurrences(m, r)) * Attempts(m)
            <= Cardinality(Occurrences(m, r)) * Attempts(m)'
      /\ Cardinality(Occurrences(m, r)) * Attempts(m) \in Nat
      /\ Cardinality(Occurrences(m, r)) * Attempts(m)' \in Nat
  BY <1>5, OccurrencesFinite, TimesMonotonic
<1>7. rows[<<m, r>>] \in Nat
  BY DEF RestOK
<1>8. rows'[<<m, r>>] + Cardinality(Left(m, r)')
         <= Cardinality(Occurrences(m, r)) * Attempts(m)'
  BY <1>3, <1>4, <1>6, <1>7
<1> QED
  BY <1>4, <1>8, OccurrencesFinite DEF WithinOf

\* DATA: a session is to insert all the rows of the envelope, for an attempt that is new.
LEMMA DataWithin ==
  ASSUME SessionsOK, SessionsOK', RestOK, RestOK', Exclusive, Progress, WithinAttempts,
         NEW s \in Sessions, NEW m \in Messages, Data(s), m = session[s].message,
         NEW r \in Recipients
  PROVE  WithinOf(m, r)'
<1> USE SmtpIntakeAssumption
<1>2. /\ UNCHANGED <<rows, told, troubles, gone>>
      /\ \A t \in Sessions : t # s => session'[t] = session[t]
      /\ session[s].step = "mail" /\ session'[s].step = "data" /\ session'[s].message = m
  BY DataEffect DEF Data, observed
<1>3. Trying(s, m) /\ Sending(s, m)' /\ s \notin gone'
  BY <1>2 DEF Trying, Sending, At, RestOK
<1>4. ~Open(m)
  <2>1. m \notin told /\ \A t \in Sessions : Trying(t, m) => t = s
    BY <1>3 DEF Exclusive
  <2> QED
    BY <1>2, <2>1 DEF Open, Sending, Trying, At
<1>5. /\ Attempts(m) = troubles[m] /\ troubles[m] \in Nat
      /\ Attempts(m)' = troubles[m] + 1
  <2>1. Open(m)'
    BY <1>3 DEF Open
  <2> QED
    BY <1>2, <1>4, <2>1, AttemptsTyped DEF Attempts
<1> DEFINE new == {s} \X Occurrences(m, r)
<1>6. Left(m, r)' \subseteq Left(m, r) \cup new
  <2> SUFFICES ASSUME NEW p \in Left(m, r)'
               PROVE  p \in Left(m, r) \cup new
    OBVIOUS
  <2>1. /\ p \in Sessions \X Nat /\ Sending(p[1], m)' /\ p[2] \in Occurrences(m, r)
        /\ p[2] >= session'[p[1]].next
    BY OccurrencesFinite DEF Left
  <2>2. CASE p[1] = s
    BY <2>1, <2>2
  <2>3. CASE p[1] # s
    <3>1. session'[p[1]] = session[p[1]]
      BY <1>2, <2>1, <2>3
    <3> QED
      BY <2>1, <3>1 DEF Left, Sending, At
  <2> QED
    BY <2>2, <2>3
<1>7. /\ IsFiniteSet(Left(m, r))
      /\ rows[<<m, r>>] + Cardinality(Left(m, r))
            <= Cardinality(Occurrences(m, r)) * troubles[m]
  BY <1>5 DEF WithinAttempts, WithinOf
<1>8. /\ IsFiniteSet(new) /\ Cardinality(new) = Cardinality(Occurrences(m, r))
  <2>1. IsFiniteSet({s}) /\ Cardinality({s}) = 1
    BY FS_Singleton
  <2>2. /\ IsFiniteSet(new)
        /\ Cardinality(new) = Cardinality({s}) * Cardinality(Occurrences(m, r))
    BY <2>1, OccurrencesFinite, FS_Product
  <2> QED
    BY <2>1, <2>2, OccurrencesFinite
<1> HIDE DEF new
<1>9. /\ IsFiniteSet(Left(m, r)') /\ Cardinality(Left(m, r)') \in Nat
      /\ Cardinality(Left(m, r)) \in Nat
      /\ Cardinality(Left(m, r)') <= Cardinality(Left(m, r)) + Cardinality(Occurrences(m, r))
  <2>1. /\ IsFiniteSet(Left(m, r) \cup new)
        /\ Cardinality(Left(m, r) \cup new)
              = Cardinality(Left(m, r)) + Cardinality(new) - Cardinality(Left(m, r) \cap new)
    BY <1>7, <1>8, FS_Union
  <2>2. Cardinality(Left(m, r) \cap new) \in Nat /\ Cardinality(Left(m, r)) \in Nat
    BY <1>7, FS_Subset, FS_CardinalityType
  <2>3. /\ IsFiniteSet(Left(m, r)') /\ Cardinality(Left(m, r)') \in Nat
        /\ Cardinality(Left(m, r)') <= Cardinality(Left(m, r) \cup new)
    BY <1>6, <2>1, FS_Subset, FS_CardinalityType
  <2> QED
    BY <1>8, <2>1, <2>2, <2>3, OccurrencesFinite
<1>10. /\ Cardinality(Occurrences(m, r)) * Attempts(m)'
             = Cardinality(Occurrences(m, r)) * troubles[m] + Cardinality(Occurrences(m, r))
       /\ Cardinality(Occurrences(m, r)) * troubles[m] \in Nat
  <2>1. PICK c \in Nat, t \in Nat : c = Cardinality(Occurrences(m, r)) /\ t = troubles[m]
    BY <1>5, OccurrencesFinite
  <2>2. c * (t + 1) = c * t + c /\ c * t \in Nat
    OBVIOUS
  <2> QED
    BY <1>5, <2>1, <2>2
<1>11. rows[<<m, r>>] \in Nat /\ rows' = rows
  BY <1>2 DEF RestOK
<1>12. rows'[<<m, r>>] + Cardinality(Left(m, r)')
          <= Cardinality(Occurrences(m, r)) * Attempts(m)'
  <2>1. PICK x \in Nat, y \in Nat :
            /\ x = Cardinality(Occurrences(m, r)) * troubles[m]
            /\ y = Cardinality(Occurrences(m, r)) * Attempts(m)'
    BY <1>10, OccurrencesFinite
  <2>2. /\ rows[<<m, r>>] + Cardinality(Left(m, r)) <= x
        /\ y = x + Cardinality(Occurrences(m, r))
    BY <1>7, <1>10, <2>1
  <2>3. rows[<<m, r>>] + Cardinality(Left(m, r)') <= y
    BY <1>9, <1>11, <2>2, OccurrencesFinite
  <2> QED
    BY <1>11, <2>1, <2>3
<1> QED
  BY <1>9, <1>12, OccurrencesFinite DEF WithinOf

\* HandleMail inserts a row that was left to insert.
LEMMA EnqueueWithin ==
  ASSUME SessionsOK, SessionsOK', RestOK, RestOK', Progress, WithinAttempts,
         NEW s \in Sessions, Enqueue(s), NEW m \in Messages, m = session[s].message,
         NEW r \in Recipients, r = Recipient(s)
  PROVE  WithinOf(m, r)'
<1> USE SmtpIntakeAssumption
<1>1. PICK next \in Nat : next = session[s].next
  BY SessionFields
<1>2. /\ UNCHANGED <<told, troubles, gone>> /\ Sending(s, m)
      /\ rows'[<<m, r>>] = rows[<<m, r>>] + 1
      /\ \A t \in Sessions : t # s => session'[t] = session[t]
      /\ session'[s].step = "data" /\ session'[s].message = m
      /\ session[s].next <= Len(session[s].to)
      /\ session'[s].next = next + 1
  <2>1. UNCHANGED <<told, troubles, gone>> /\ Sending(s, m)
    BY EnqueueEffect DEF Enqueue, Sending, At, observed
  <2>2. rows'[<<m, r>>] = rows[<<m, r>>] + 1
    BY RowAdded
  <2> QED
    BY <1>1, <2>1, <2>2, EnqueueEffect
<1> DEFINE p == <<s, next>>
<1>3. next \in Occurrences(m, r)
  <2>1. session[s].to = Envelope[m] /\ next > 0
    BY <1>1, <1>2 DEF Progress, ProgressOf, Sending, At
  <2>2. next <= Len(Envelope[m]) /\ r = Envelope[m][next]
    BY <1>1, <1>2, <2>1 DEF Recipient
  <2> QED
    BY <2>1, <2>2 DEF Occurrences
<1>4. p \in Left(m, r)
  BY <1>1, <1>2, <1>3 DEF Left
<1>5. Left(m, r)' \subseteq Left(m, r) \ {p}
  <2> SUFFICES ASSUME NEW q \in Left(m, r)'
               PROVE  q \in Left(m, r) \ {p}
    OBVIOUS
  <2>1. /\ q \in Sessions \X Nat /\ Sending(q[1], m)' /\ q[2] \in Occurrences(m, r)
        /\ q[2] >= session'[q[1]].next
    BY OccurrencesFinite DEF Left
  <2>2. CASE q[1] = s
    BY <1>1, <1>2, <2>1, <2>2 DEF Left
  <2>3. CASE q[1] # s
    <3>1. session'[q[1]] = session[q[1]]
      BY <1>2, <2>1, <2>3
    <3> QED
      BY <2>1, <2>3, <3>1 DEF Left, Sending, At
  <2> QED
    BY <2>2, <2>3
<1> HIDE DEF p
<1>6. /\ IsFiniteSet(Left(m, r))
      /\ rows[<<m, r>>] + Cardinality(Left(m, r))
            <= Cardinality(Occurrences(m, r)) * Attempts(m)
  BY DEF WithinAttempts, WithinOf
<1>7. /\ IsFiniteSet(Left(m, r)') /\ Cardinality(Left(m, r)') \in Nat
      /\ Cardinality(Left(m, r)) \in Nat
      /\ Cardinality(Left(m, r)') + 1 <= Cardinality(Left(m, r))
  <2>1. /\ IsFiniteSet(Left(m, r) \ {p})
        /\ Cardinality(Left(m, r) \ {p}) = Cardinality(Left(m, r)) - 1
    BY <1>4, <1>6, FS_RemoveElement
  <2>2. /\ IsFiniteSet(Left(m, r)') /\ Cardinality(Left(m, r)') \in Nat
        /\ Cardinality(Left(m, r)) \in Nat
        /\ Cardinality(Left(m, r)') <= Cardinality(Left(m, r) \ {p})
    BY <1>5, <1>6, <2>1, FS_Subset, FS_CardinalityType
  <2> QED
    BY <2>1, <2>2
<1>8. Attempts(m)' = Attempts(m) /\ Attempts(m) \in Nat
  <2>1. \A t \in Sessions : Sending(t, m)' <=> Sending(t, m)
    BY <1>1, <1>2 DEF Sending, At
  <2> QED
    BY <1>2, <2>1, AttemptsTyped DEF Attempts, Open
<1>9. /\ Cardinality(Occurrences(m, r)) * Attempts(m) \in Nat /\ rows[<<m, r>>] \in Nat
  BY <1>8, OccurrencesFinite, TimesMonotonic DEF RestOK
<1>10. rows'[<<m, r>>] + Cardinality(Left(m, r)')
          <= Cardinality(Occurrences(m, r)) * Attempts(m)'
  BY <1>2, <1>6, <1>7, <1>8, <1>9
<1> QED
  BY <1>7, <1>10, OccurrencesFinite DEF WithinOf

\* The steps of one session that end no attempt and begin none.
LEMMA NoAttemptEnds ==
  ASSUME RestOK, RestOK', UNCHANGED <<told, troubles, gone>>,
         \A t \in Sessions, k \in Messages : Sending(t, k) => Sending(t, k)'
  PROVE  \A m \in Messages : Attempts(m)' >= Attempts(m)
<1> SUFFICES ASSUME NEW m \in Messages
             PROVE  Attempts(m)' >= Attempts(m)
  OBVIOUS
<1>1. troubles'[m] >= troubles[m]
  BY AttemptsTyped
<1>2. Open(m) => Open(m)'
  BY DEF Open
<1> QED
  BY <1>1, <1>2, AttemptsGrow

\* An answer the client hears settles the attempt; one it does not hear was settled before.
LEMMA AnswerCounts ==
  ASSUME SessionsOK, RestOK, RestOK', NEW s \in Sessions,
         RefuseRecipient(s) \/ AcceptMessage(s)
  PROVE  \A m \in Messages : Attempts(m)' >= Attempts(m)
<1> SUFFICES ASSUME NEW m \in Messages
             PROVE  Attempts(m)' >= Attempts(m)
  OBVIOUS
<1>1. /\ session[s].step = "data" /\ Ended(s) /\ gone' = gone \ {s}
      /\ told \subseteq told'
  BY DEF RefuseRecipient, AcceptMessage, MoreRecipients, RefuseMessage, Ended, At
<1>2. PICK k \in Messages : k = session[s].message
  BY <1>1, SessionFields
<1>3. \A t \in Sessions : t # s => session'[t] = session[t]
  BY <1>1, EndedEffect
<1>4. /\ s \in gone => troubles' = troubles /\ told' = told
      /\ s \notin gone => k \in told' \/ troubles' = [troubles EXCEPT ![k] = @ + 1]
      /\ troubles' = troubles \/ troubles' = [troubles EXCEPT ![k] = @ + 1]
  BY <1>2 DEF RefuseRecipient, AcceptMessage, RefuseMessage
<1>5. /\ troubles[m] \in Nat
      /\ m # k => troubles'[m] = troubles[m]
      /\ troubles'[m] = troubles[m] \/ troubles'[m] = troubles[m] + 1
      /\ s \notin gone => k \in told' \/ troubles'[k] = troubles[k] + 1
  BY <1>4, AttemptsTyped DEF RestOK
<1>6. Open(m) => Open(m)' \/ troubles'[m] = troubles[m] + 1
  <2>1. SUFFICES ASSUME Open(m), m \notin told
                 PROVE  Open(m)' \/ troubles'[m] = troubles[m] + 1
    BY <1>1 DEF Open
  <2>2. PICK t \in Sessions : Sending(t, m) /\ t \notin gone
    BY <2>1 DEF Open
  <2>3. CASE t = s
    <3>1. m = k /\ s \notin gone
      BY <1>2, <2>2, <2>3 DEF Sending
    <3> QED
      BY <1>5, <3>1 DEF Open
  <2>4. CASE t # s
    <3>1. Sending(t, m)' /\ t \notin gone'
      BY <1>1, <1>3, <2>2, <2>4 DEF Sending, At
    <3> QED
      BY <3>1 DEF Open
  <2> QED
    BY <2>3, <2>4
<1> QED
  BY <1>5, <1>6, AttemptsGrow

LEMMA StepWithin == Typed /\ Progress /\ WithinAttempts /\ [Next]_vars => WithinAttempts'
<1> SUFFICES ASSUME SessionsOK, SessionsOK', RestOK, RestOK', Exclusive, Progress,
                    WithinAttempts, [Next]_vars
             PROVE  WithinAttempts'
  <2>1. Typed /\ [Next]_vars => Typed'
    BY StepTyped
  <2>2. TypeOK' <=> SessionsOK' /\ RestOK'
    BY DEF TypeOK, SessionsOK, RestOK
  <2> QED
    BY <2>1, <2>2, TypeOKParts DEF Typed
<1> USE SmtpIntakeAssumption
<1>1. ASSUME NEW s \in Sessions,
             QuietStep(s) \/ (\E m \in Messages : Mail(s, m)) \/ Rcpt(s)
      PROVE  WithinAttempts'
  <2>1. /\ UNCHANGED <<rows, told, troubles, gone>>
        /\ \A t \in Sessions : t # s => session'[t] = session[t]
        /\ session[s].step # "data" /\ session'[s].step # "data"
    BY <1>1, QuietEffect, QuietLeaves, MailEffect, RcptEffect
    DEF QuietStep, Mail, Rcpt, observed
  <2>2. \A t \in Sessions, m \in Messages :
           /\ Sending(t, m)' <=> Sending(t, m)
           /\ Sending(t, m) => session'[t].next = session[t].next
    BY <2>1 DEF Sending, At
  <2>3. \A m \in Messages : Attempts(m)' >= Attempts(m)
    BY <2>1, <2>2, NoAttemptEnds
  <2>4. \A t \in Sessions : session[t].next \in Nat
    BY SessionFields
  <2> QED
    BY <2>1, <2>2, <2>3, <2>4, WithinKept DEF WithinAttempts
<1>2. ASSUME NEW s \in Sessions, Data(s)
      PROVE  WithinAttempts'
  <2>1. PICK k \in Messages : k = session[s].message
    BY <1>2, SessionFields DEF Data, At
  <2>2. /\ UNCHANGED <<rows, told, troubles, gone>>
        /\ \A t \in Sessions : t # s => session'[t] = session[t]
        /\ session[s].step = "mail" /\ session'[s].message = k
    BY <1>2, <2>1, DataEffect DEF Data, observed
  <2>3. \A t \in Sessions, m \in Messages : m # k =>
           (Sending(t, m)' => Sending(t, m) /\ session'[t].next = session[t].next)
    BY <2>2 DEF Sending, At
  <2>4. \A t \in Sessions, m \in Messages : Sending(t, m) => Sending(t, m)'
    BY <2>2 DEF Sending, At
  <2>5. \A m \in Messages : Attempts(m)' >= Attempts(m)
    BY <2>2, <2>4, NoAttemptEnds
  <2>6. \A t \in Sessions : session[t].next \in Nat
    BY SessionFields
  <2>7. \A m \in Messages, r \in Recipients : m # k => WithinOf(m, r)'
    BY <2>2, <2>3, <2>5, <2>6, WithinKept
  <2>8. \A r \in Recipients : WithinOf(k, r)'
    BY <1>2, <2>1, DataWithin
  <2> QED
    BY <2>7, <2>8 DEF WithinAttempts
<1>3. ASSUME NEW s \in Sessions, Enqueue(s)
      PROVE  WithinAttempts'
  <2>1. PICK k \in Messages, q \in Recipients :
            k = session[s].message /\ q = Recipient(s)
    BY <1>3, SessionFields DEF Enqueue, MoreRecipients, At
  <2>2. /\ UNCHANGED <<told, troubles, gone>>
        /\ \A t \in Sessions : t # s => session'[t] = session[t]
        /\ session[s].step = "data" /\ session'[s].step = "data"
        /\ session'[s].message = session[s].message
        /\ session'[s].next = session[s].next + 1
    BY <1>3, EnqueueEffect DEF Enqueue, observed
  <2>3. \A t \in Sessions, m \in Messages : Sending(t, m)' <=> Sending(t, m)
    BY <2>2 DEF Sending, At
  <2>4. \A m \in Messages : Attempts(m)' >= Attempts(m)
    BY <2>2, <2>3, NoAttemptEnds
  <2>5. \A t \in Sessions : session[t].next \in Nat /\ session'[t].next >= session[t].next
    BY <2>2, SessionFields
  <2>6. \A m \in Messages, r \in Recipients :
            ~(m = k /\ r = q) => rows'[<<m, r>>] = rows[<<m, r>>]
    BY <1>3, <2>1, RowAdded
  <2>7. \A m \in Messages, r \in Recipients : ~(m = k /\ r = q) => WithinOf(m, r)'
    BY <2>3, <2>4, <2>5, <2>6, WithinKept
  <2>8. WithinOf(k, q)'
    BY <1>3, <2>1, EnqueueWithin
  <2> QED
    BY <2>7, <2>8 DEF WithinAttempts
<1>4. ASSUME NEW s \in Sessions, RefuseRecipient(s) \/ AcceptMessage(s)
      PROVE  WithinAttempts'
  <2>1. session[s].step = "data" /\ Ended(s) /\ rows' = rows
    BY <1>4 DEF RefuseRecipient, AcceptMessage, MoreRecipients, RefuseMessage, At
  <2>2. /\ \A t \in Sessions : t # s => session'[t] = session[t]
        /\ session'[s].step # "data"
    BY <2>1, EndedEffect
  <2>3. \A t \in Sessions, m \in Messages :
           Sending(t, m)' => Sending(t, m) /\ session'[t].next = session[t].next
    BY <2>2 DEF Sending, At
  <2>4. \A m \in Messages : Attempts(m)' >= Attempts(m)
    BY <1>4, AnswerCounts
  <2>5. \A t \in Sessions : session[t].next \in Nat
    BY SessionFields
  <2> QED
    BY <2>1, <2>3, <2>4, <2>5, WithinKept DEF WithinAttempts
<1>5. ASSUME NEW s \in Sessions, Hangup(s)
      PROVE  WithinAttempts'
  <2>1. PICK k \in Messages : k = session[s].message
    BY <1>5, SessionFields DEF Hangup, At
  <2>2. /\ UNCHANGED <<session, rows, told>> /\ gone' = gone \cup {s}
        /\ troubles' = [troubles EXCEPT ![k] = @ + 1]
    BY <1>5, <2>1 DEF Hangup
  <2>3. \A m \in Messages : Attempts(m)' >= Attempts(m)
    <3> SUFFICES ASSUME NEW m \in Messages
                 PROVE  Attempts(m)' >= Attempts(m)
      OBVIOUS
    <3>1. /\ troubles[m] \in Nat
          /\ troubles'[m] = IF m = k THEN troubles[m] + 1 ELSE troubles[m]
      BY <2>2, AttemptsTyped DEF RestOK
    <3>2. Open(m) => Open(m)' \/ m = k
      BY <2>1, <2>2 DEF Open, Sending, At
    <3> QED
      BY <3>1, <3>2, AttemptsGrow
  <2>4. \A t \in Sessions, m \in Messages :
           Sending(t, m)' => Sending(t, m) /\ session'[t].next = session[t].next
    BY <2>2 DEF Sending, At
  <2>5. \A t \in Sessions, m \in Messages :
           Sending(t, m)' => Sending(t, m) /\ session'[t].next >= session[t].next
    BY <2>4, SessionFields
  <2>6. \A m \in Messages, r \in Recipients : rows'[<<m, r>>] = rows[<<m, r>>]
    BY <2>2
  <2>7. \A m \in Messages, r \in Recipients : WithinOf(m, r)'
    BY <2>3, <2>5, <2>6, WithinKept
  <2> QED
    BY <2>7 DEF WithinAttempts
<1>6. CASE Crash
  <2>1. /\ UNCHANGED <<rows, told>>
        /\ \A t \in Sessions : session'[t].step = "closed"
        /\ troubles' = [m \in Messages |->
                            IF \E s \in Sessions : At(s, "data") /\ Trying(s, m)
                            THEN troubles[m] + 1 ELSE troubles[m]]
    BY <1>6 DEF Crash, Closed
  <2>2. \A m \in Messages : Attempts(m)' >= Attempts(m)
    <3> SUFFICES ASSUME NEW m \in Messages
                 PROVE  Attempts(m)' >= Attempts(m)
      OBVIOUS
    <3>1. /\ troubles[m] \in Nat
          /\ troubles'[m] = troubles[m] \/ troubles'[m] = troubles[m] + 1
          /\ (\E s \in Sessions : At(s, "data") /\ Trying(s, m)) =>
                troubles'[m] = troubles[m] + 1
      BY <2>1, AttemptsTyped
    <3>2. Open(m) => Open(m)' \/ \E s \in Sessions : At(s, "data") /\ Trying(s, m)
      BY <2>1 DEF Open, Sending, Trying
    <3> QED
      BY <3>1, <3>2, AttemptsGrow
  <2>3. \A t \in Sessions, m \in Messages : ~Sending(t, m)'
    BY <2>1 DEF Sending, At
  <2> QED
    BY <2>1, <2>2, <2>3, WithinKept DEF WithinAttempts
<1>7. CASE AccountStep \/ UNCHANGED vars
  <2>1. UNCHANGED <<session, rows, told, troubles, gone>>
    BY <1>7
    DEF AccountStep, SetEnabled, SetDisabled, DeleteAccount, AccountChanges, vars, observed
  <2>2. \A t \in Sessions, m \in Messages :
           /\ Sending(t, m)' <=> Sending(t, m)
           /\ session'[t].next = session[t].next
    BY <2>1 DEF Sending, At
  <2>3. \A m \in Messages : Attempts(m)' >= Attempts(m)
    BY <2>1, <2>2, NoAttemptEnds
  <2>4. \A t \in Sessions : session[t].next \in Nat
    BY SessionFields
  <2> QED
    BY <2>1, <2>2, <2>3, <2>4, WithinKept DEF WithinAttempts
<1> QED
  BY <1>1, <1>2, <1>3, <1>4, <1>5, <1>6, <1>7, NextCases

LEMMA InitWithin == Init => WithinAttempts
<1> SUFFICES ASSUME Init, NEW m \in Messages, NEW r \in Recipients
             PROVE  WithinOf(m, r)
  BY DEF WithinAttempts
<1> USE SmtpIntakeAssumption
<1>1. Left(m, r) = {} /\ rows[<<m, r>>] = 0 /\ troubles[m] = 0 /\ ~Open(m)
  BY DEF Init, Left, Sending, At, Closed, Open
<1>2. Attempts(m) = 0
  BY <1>1 DEF Attempts
<1>3. IsFiniteSet(Left(m, r)) /\ Cardinality(Left(m, r)) = 0
  BY <1>1, FS_EmptySet
<1>4. Cardinality(Occurrences(m, r)) * 0 = 0
  BY OccurrencesFinite
<1> QED
  BY <1>1, <1>2, <1>3, <1>4 DEF WithinOf

LEMMA WithinCounted == RestOK /\ WithinAttempts => RepeatsCounted
<1> SUFFICES ASSUME RestOK, WithinAttempts, NEW m \in Messages, NEW r \in Recipients
             PROVE  rows[<<m, r>>] <= Cardinality(Occurrences(m, r)) * (1 + troubles[m])
  BY DEF RepeatsCounted, Occurrences
<1>1. /\ rows[<<m, r>>] + Cardinality(Left(m, r))
            <= Cardinality(Occurrences(m, r)) * Attempts(m)
      /\ Cardinality(Left(m, r)) \in Nat /\ rows[<<m, r>>] \in Nat
  BY FS_CardinalityType DEF WithinAttempts, WithinOf, RestOK
<1>2. Attempts(m) \in Nat /\ 1 + troubles[m] \in Nat /\ Attempts(m) <= 1 + troubles[m]
  BY AttemptsTyped
<1>3. /\ Cardinality(Occurrences(m, r)) * Attempts(m)
            <= Cardinality(Occurrences(m, r)) * (1 + troubles[m])
      /\ Cardinality(Occurrences(m, r)) * Attempts(m) \in Nat
      /\ Cardinality(Occurrences(m, r)) * (1 + troubles[m]) \in Nat
  BY <1>2, OccurrencesFinite, TimesMonotonic
<1> QED
  BY <1>1, <1>3

\* A message is queued to whom its envelope names, as often as it names them, and once more at
\* most for every attempt that failed or that the client gave up, although a call of HandleMail
\* whose client is gone goes on inserting rows next to the one that tries again.
THEOREM Repeats == Spec => []RepeatsCounted
<1>1. Init => Progress
  BY DEF Init, Progress, ProgressOf, At, Closed
<1>2. Init => AcceptedIsQueued
  BY DEF Init, AcceptedIsQueued
<1>3. Typed /\ WithinAttempts => RepeatsCounted
  BY WithinCounted, TypeOKParts DEF Typed
<1> QED
  BY <1>1, <1>2, <1>3, InitTyped, StepTyped, StepProgress, InitWithin, StepWithin, PTL
  DEF Spec

=============================================================================
