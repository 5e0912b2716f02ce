----------------------------- MODULE SmtpIntake -----------------------------
(***************************************************************************)
(* The SMTP front end: what a client that submits a message is told, and   *)
(* what ends up in the queue.                                              *)
(*                                                                         *)
(* Session holds a copy of the account it authenticated as and the         *)
(* recipients of the transaction; HandleMail inserts one row after the     *)
(* other.  Sessions run in goroutines of their own, next to each other and *)
(* to the handlers that disable and delete accounts.                       *)
(*                                                                         *)
(* The protocol is the library's (go-smtp), of which the code relies on    *)
(* this: one successful AUTH per connection; RCPT only after MAIL, DATA    *)
(* only after a recipient; MAIL first again after DATA and RSET; a handler *)
(* that is running is not stopped when the client goes away.               *)
(*                                                                         *)
(* Clients are careful: they keep a message until they are told that it    *)
(* was accepted, send it to the same recipients each time, and never over  *)
(* two connections at once unless they gave up waiting on the first.       *)
(***************************************************************************)
EXTENDS Naturals, Sequences, FiniteSets

CONSTANTS
    Users, NoUser,
    Sessions,       \* connections at a time
    Messages, NoMessage,
    Recipients,
    Valid,          \* the recipients extractDomain finds a domain in
    Envelope,       \* Envelope[m]: the recipients of message m, in order
    MaxTroubles     \* bound: attempts at a message that fail or are not heard of

ASSUME SmtpIntakeAssumption ==
    /\ NoUser \notin Users
    /\ NoMessage \notin Messages
    /\ Valid \subseteq Recipients
    /\ Envelope \in [Messages -> Seq(Recipients) \ {<<>>}]
    /\ MaxTroubles \in Nat

VARIABLES
    account,        \* account[u]: "enabled", "disabled" or "gone"
    session,        \* session[s]: see Session
    rows,           \* rows[m, r]: rows ever inserted for message m to recipient r
    told,           \* observation: messages the client was told are accepted
    troubles,       \* observation: troubles[m]: attempts that failed, or went unheard
    gone,           \* observation: sessions whose client went away during HandleMail
    outdated        \* observation: sessions whose account changed after they read it

observed == <<told, troubles, gone, outdated>>
vars == <<account, session, rows, observed>>

\* What goes with the step a session is at: s.user, s.to, the message under way and the
\* position of the loop in HandleMail.
Session ==
    [step : {"closed", "greeting", "verify", "command", "mail", "data"},
     user : Users \cup {NoUser}, message : Messages \cup {NoMessage},
     to : Seq(Recipients), next : Nat]

Closed == [step |-> "closed", user |-> NoUser, message |-> NoMessage, to |-> <<>>, next |-> 1]

TypeOK ==
    /\ account \in [Users -> {"enabled", "disabled", "gone"}]
    /\ session \in [Sessions -> Session]
    /\ \A s \in Sessions :
        /\ session[s].user = NoUser <=> session[s].step \in {"closed", "greeting"}
        /\ session[s].message = NoMessage <=> session[s].step \notin {"mail", "data"}
        /\ session[s].next <= Len(session[s].to) + 1
    /\ rows \in [Messages \X Recipients -> Nat]
    /\ told \subseteq Messages
    /\ troubles \in [Messages -> 0..MaxTroubles]
    /\ \A s \in gone : session[s].step = "data"
    /\ outdated \subseteq Sessions

Init ==
    /\ account = [u \in Users |-> "enabled"]
    /\ session = [s \in Sessions |-> Closed]
    /\ rows = [r \in Messages \X Recipients |-> 0]
    /\ told = {}
    /\ troubles = [m \in Messages |-> 0]
    /\ gone = {}
    /\ outdated = {}

-----------------------------------------------------------------------------
(* Connections and authentication *)

At(s, step) == session[s].step = step

Connect(s) ==
    /\ At(s, "closed")
    /\ session' = [session EXCEPT ![s].step = "greeting"]
    /\ UNCHANGED <<account, rows, observed>>

\* Whether the account is enabled is not asked.
Admitted_bug(u) == account[u] # "gone"

\* The account is there and enabled.
Admitted(u) == account[u] = "enabled"

\* Validate reads the account, and then takes its time to compare the password.
ReadAccount(s, u) ==
    /\ At(s, "greeting")
    /\ Admitted(u)
    /\ session' = [session EXCEPT ![s].step = "verify", ![s].user = u]
    /\ UNCHANGED <<account, rows, observed>>

PasswordRight(s) ==
    /\ At(s, "verify")
    /\ session' = [session EXCEPT ![s].step = "command"]
    /\ UNCHANGED <<account, rows, observed>>

\* The session gets the account although Validate returned an error.
Unauthenticated_bug(s) == [session[s] EXCEPT !.step = "greeting"]

Unauthenticated(s) == [session[s] EXCEPT !.step = "greeting", !.user = NoUser]

PasswordWrong(s) ==
    /\ At(s, "verify")
    /\ session' = [session EXCEPT ![s] = Unauthenticated(s)]
    /\ outdated' = outdated \ {s}
    /\ UNCHANGED <<account, rows, told, troubles, gone>>

\* QUIT, or the connection breaks, outside HandleMail.
Disconnect(s) ==
    /\ session[s].step \notin {"closed", "data"}
    /\ session' = [session EXCEPT ![s] = Closed]
    /\ outdated' = outdated \ {s}
    /\ UNCHANGED <<account, rows, told, troubles, gone>>

-----------------------------------------------------------------------------
(* The transaction *)

\* The recipients of the last transaction are kept.
StartingTo_bug(s) == session[s].to

\* s.to = nil
StartingTo(s) == <<>>

\* The client is trying to submit m over s, and waits for the answer.
Trying(s, m) == session[s].message = m /\ s \notin gone

Mail(s, m) ==
    /\ At(s, "command")
    /\ m \notin told
    /\ \A t \in Sessions : ~Trying(t, m)
    /\ troubles[m] < MaxTroubles
    /\ session' = [session EXCEPT ![s].step = "mail", ![s].message = m,
                                  ![s].to = StartingTo(s), ![s].next = 1]
    /\ UNCHANGED <<account, rows, observed>>

Named(s) == Len(session[s].to)

Rcpt(s) ==
    /\ At(s, "mail")
    /\ Named(s) < Len(Envelope[session[s].message])
    /\ session' = [session EXCEPT
                        ![s].to = Append(@, Envelope[session[s].message][Named(s) + 1])]
    /\ UNCHANGED <<account, rows, observed>>

\* RSET; or DATA, and the body does not arrive whole.  Reset() clears nothing.
Reset(s) ==
    /\ At(s, "mail")
    /\ session' = [session EXCEPT ![s].step = "command", ![s].message = NoMessage]
    /\ UNCHANGED <<account, rows, observed>>

\* DATA, and the body is there.
Data(s) ==
    /\ At(s, "mail")
    /\ Named(s) >= Len(Envelope[session[s].message])
    /\ session' = [session EXCEPT ![s].step = "data"]
    /\ UNCHANGED <<account, rows, observed>>

\* The client stops waiting for the answer; HandleMail goes on.
Hangup(s) ==
    /\ At(s, "data")
    /\ s \notin gone
    /\ gone' = gone \cup {s}
    /\ troubles' = [troubles EXCEPT ![session[s].message] = @ + 1]
    /\ UNCHANGED <<account, session, rows, told, outdated>>

-----------------------------------------------------------------------------
(* HandleMail *)

Ended(s) ==
    /\ session' = [session EXCEPT
                        ![s] = IF s \in gone THEN Closed
                               ELSE [@ EXCEPT !.step = "command", !.message = NoMessage]]
    /\ gone' = gone \ {s}
    /\ outdated' = IF s \in gone THEN outdated \ {s} ELSE outdated

\* The recipient is left out, and the loop goes on.
RefuseMessage_bug(s) ==
    /\ session' = [session EXCEPT ![s].next = @ + 1]
    /\ UNCHANGED <<troubles, gone, outdated>>

\* Data returns an error.  What is queued stays queued.
RefuseMessage(s) ==
    /\ Ended(s)
    /\ troubles' = IF s \in gone THEN troubles
                   ELSE [troubles EXCEPT ![session[s].message] = @ + 1]

Recipient(s) == session[s].to[session[s].next]

MoreRecipients(s) == At(s, "data") /\ session[s].next <= Len(session[s].to)

Enqueue(s) ==
    /\ MoreRecipients(s)
    /\ Recipient(s) \in Valid
    /\ rows' = [rows EXCEPT ![<<session[s].message, Recipient(s)>>] = @ + 1]
    /\ session' = [session EXCEPT ![s].next = @ + 1]
    /\ UNCHANGED <<account, observed>>

\* The recipient has no domain, or its insert fails.
RefuseRecipient(s) ==
    /\ MoreRecipients(s)
    /\ RefuseMessage(s)
    /\ UNCHANGED <<account, rows, told>>

AcceptMessage(s) ==
    /\ At(s, "data")
    /\ session[s].next > Len(session[s].to)
    /\ Ended(s)
    /\ told' = IF s \in gone THEN told ELSE told \cup {session[s].message}
    /\ UNCHANGED <<account, rows, troubles>>

-----------------------------------------------------------------------------
(* Everybody else *)

AccountChanges(u, state) ==
    /\ account' = [account EXCEPT ![u] = state]
    /\ outdated' = outdated \cup {s \in Sessions : session[s].user = u}
    /\ UNCHANGED <<session, rows, told, troubles, gone>>

\* updateUser
SetEnabled(u) == account[u] = "disabled" /\ AccountChanges(u, "enabled")
SetDisabled(u) == account[u] = "enabled" /\ AccountChanges(u, "disabled")

\* deleteUser: its number is not given to another account.
DeleteAccount(u) == account[u] # "gone" /\ AccountChanges(u, "gone")

\* The process ends and starts again.
Crash ==
    /\ session' = [s \in Sessions |-> Closed]
    /\ troubles' = [m \in Messages |->
                        IF \E s \in Sessions : At(s, "data") /\ Trying(s, m)
                        THEN troubles[m] + 1 ELSE troubles[m]]
    /\ gone' = {}
    /\ outdated' = {}
    /\ UNCHANGED <<account, rows, told>>

Next ==
    \/ \E s \in Sessions :
        \/ Connect(s) \/ Disconnect(s)
        \/ \E u \in Users : ReadAccount(s, u)
        \/ PasswordRight(s) \/ PasswordWrong(s)
        \/ \E m \in Messages : Mail(s, m)
        \/ Rcpt(s) \/ Reset(s) \/ Data(s) \/ Hangup(s)
        \/ Enqueue(s) \/ RefuseRecipient(s) \/ AcceptMessage(s)
    \/ \E u \in Users : SetEnabled(u) \/ SetDisabled(u) \/ DeleteAccount(u)
    \/ Crash

Spec == Init /\ [][Next]_vars

-----------------------------------------------------------------------------
(* Properties *)

\* A client that is told that its message is accepted can forget it: there is a row for every
\* recipient, although earlier attempts may have queued some and been refused, given up or
\* lost in a crash.
AcceptedIsQueued ==
    \A m \in told : \A n \in DOMAIN Envelope[m] : rows[<<m, Envelope[m][n]>>] > 0

\* A message is queued to whom its envelope names, as often as it names them, and once more
\* at most for every attempt that failed or that the client gave up: nothing is left over in a
\* session from the transaction before, whose recipients Reset does not clear.
RepeatsCounted ==
    \A m \in Messages, r \in Recipients :
        rows[<<m, r>>] <= Cardinality({n \in DOMAIN Envelope[m] : Envelope[m][n] = r})
                        * (1 + troubles[m])

\* An account that is disabled or gone has only those sessions that read it before.  (They
\* may go on submitting mail: Session keeps a copy of the account.)
OnlyFormerSessions ==
    \A s \in Sessions :
        /\ session[s].user # NoUser
        /\ account[session[s].user] # "enabled"
        => s \in outdated
=============================================================================
