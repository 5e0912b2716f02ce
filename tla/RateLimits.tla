----------------------------- MODULE RateLimits -----------------------------
(***************************************************************************)
(* holdIfLimited: whether a queued mail of one account may go out now, and *)
(* the mail_events rows the answer is computed from.                       *)
(*                                                                         *)
(* There are no counters.  Limits and throttles are queries over the rows  *)
(* of status 'sent', whose created_at is CURRENT_TIMESTAMP: whole seconds. *)
(* The row is written after the mail went out, and the account's owner may *)
(* delete it.                                                              *)
(*                                                                         *)
(* The check is not one step.  It reads the account's row, the domain's    *)
(* rule and the clock, then counts for one limit after the other, and puts *)
(* the mail off; each of these is a statement of its own, and the clock    *)
(* and the dashboards go on in between.                                    *)
(*                                                                         *)
(* Abstractions.  One account: every query filters on user_id.  Clock time *)
(* is a number of ticks, Second of them to the second.  Which mail of the  *)
(* batch is next is module Delivery's business; here the worker may check  *)
(* any waiting mail that is due.                                           *)
(***************************************************************************)
EXTENDS Integers, Sequences, SequencesExt, FiniteSets

CONSTANTS
    Domains,        \* recipient domains, in lower case
    Spellings,      \* how the administrator may type a domain: "lower" among others
    Second,         \* ticks per second
    Windows,        \* the account's windows in seconds: <<1, 60, 3600, 86400>> in the code
    Hour,           \* the window of a domain's limit in seconds: 3600
    RetryDelay,     \* seconds MarkRetry puts a mail off: 30
    AccountChoices, \* what the limits of the account may be set to
    DomainChoices,  \* what the limits of a domain may be set to
    MaxTime,        \* bound: ticks the clock runs for
    MaxMails,       \* bound: mails submitted
    MaxSends        \* bound: mails accepted by an upstream

\* 0 is no limit.  (The code takes any number below 1 for none; the handlers turn a 0 into a
\* default, so what the administrator types is a negative number.)
AccountLimits == [throttle : Nat, limits : [DOMAIN Windows -> Nat]]
DomainLimits == [throttle : Nat, perHour : Nat]

ASSUME RateLimitsAssumption ==
    /\ "lower" \in Spellings
    /\ Second \in Nat \ {0}
    /\ Windows \in Seq(Nat \ {0})
    /\ Hour \in Nat \ {0}
    /\ RetryDelay \in Nat \ {0}
    /\ \A a \in AccountChoices : a \in AccountLimits
    /\ \A r \in DomainChoices : r \in DomainLimits
    /\ {MaxTime, MaxMails, MaxSends} \subseteq Nat

VARIABLES
    now,            \* the clock
    account,        \* limits of the account (columns of users)
    rules,          \* rules[d][s]: limits stored for domain d under spelling s, or NoRule
    waiting,        \* pending mails: their domain and next_attempt_at, in seconds
    mails,          \* mails submitted so far
    events,         \* mail_events of status 'sent': number of the send, domain, created_at
    pc,             \* where the worker is: see Phases
    item,           \* the mail it is at
    user,           \* the limits of the account, as it read them
    rule,           \* the limits of the mail's domain, as it read them
    start,          \* the moment it takes for now
    asked,          \* how many of its Checks it is through with
    wait,           \* what the check that objects asks the mail to wait
    sends,          \* observation: what upstreams accepted, when, and when the event was due;
                    \* Forgotten if the event was deleted or could not be written
    inForce         \* observation: the limits in force since the worker took the mail up

read == <<user, rule, start, asked>>
worker == <<pc, item, read, wait>>
observed == <<sends, inForce>>
vars == <<now, account, rules, waiting, mails, events, worker, observed>>

NoRule == [throttle |-> 0, perHour |-> 0]
NoAccount == [throttle |-> 0, limits |-> [w \in DOMAIN Windows |-> 0]]
NoItem == [id |-> 0]
Forgotten == [at |-> -1]
Nothing == [accounts |-> {}, rules |-> {}]

\* What the worker does next: it takes up a mail, reads the rule, reads the clock, counts,
\* puts the mail off; it waits for SendMail; it has to record that the mail is sent.
Phases == {"idle", "rule", "clock", "check", "hold", "send", "accepted"}

\* It is reading limits and counting.
Checking == pc \in {"rule", "clock", "check"}

Mail == [id : 1..MaxMails, domain : Domains, due : Int]
Send == [domain : Domains, at : 0..MaxTime, logged : 0..MaxTime]
Event == [send : 1..MaxSends, domain : Domains, created : Int]

\* No mail is put off further than the longest window, throttle or retry.
LongestWait ==
    {w * Second : w \in Range(Windows) \cup {Hour, RetryDelay, 1}}
    \cup {a.throttle : a \in AccountChoices} \cup {r.throttle : r \in DomainChoices}

TypeOK ==
    /\ now \in 0..MaxTime
    /\ account \in AccountChoices
    /\ rules \in [Domains -> [Spellings -> DomainChoices \cup {NoRule}]]
    /\ waiting \subseteq Mail
    /\ \A m \in waiting : \E w \in LongestWait : m.due * Second <= now + w
    /\ mails \in 0..MaxMails
    /\ events \subseteq Event
    /\ pc \in Phases
    /\ item \in Mail \cup {NoItem}
    /\ user \in AccountChoices \cup {NoAccount}
    /\ rule \in DomainChoices \cup {NoRule}
    /\ start \in 0..MaxTime
    /\ asked \in 0..Len(Windows) + 3
    /\ wait \in Nat
    /\ sends \in Seq(Send \cup {Forgotten})
    /\ Len(sends) <= MaxSends
    /\ inForce \in [accounts : SUBSET AccountChoices,
                   rules : SUBSET [Spellings -> DomainChoices \cup {NoRule}]]

Init ==
    /\ now = 0
    /\ account \in AccountChoices
    /\ rules = [d \in Domains |-> [s \in Spellings |-> NoRule]]
    /\ waiting = {}
    /\ mails = 0
    /\ events = {}
    /\ pc = "idle"
    /\ item = NoItem
    /\ user = NoAccount /\ rule = NoRule /\ start = 0 /\ asked = 0 /\ wait = 0
    /\ sends = <<>>
    /\ inForce = Nothing

-----------------------------------------------------------------------------
(* The check *)

\* The second a moment is formatted to, and stored as.
Trunc(t) == t \div Second

\* domains.Get(item.UserID, domain): the domain of a mail is in lower case, that of a rule is as
\* it was typed.
RuleFor(d) == rules[d]["lower"]

\* MAX(created_at) of the mails sent to some domains, as a moment
LastSentAt(scope) ==
    Second * Max({e.created : e \in {f \in events : f.domain \in scope}})

SentTo(scope) == {e \in events : e.domain \in scope}

\* The start of the window itself is left out (> for >=).
CountSent_late_bug(scope, window) ==
    Cardinality({e \in SentTo(scope) : e.created > Trunc(start - window * Second)})

\* The window is left out.
CountSent_ever_bug(scope, window) == Cardinality(SentTo(scope))

\* CountSentSince(now - window): the moment is formatted, then compared as text.  Its now is the
\* moment the check took for it.
CountSent(scope, window) ==
    Cardinality({e \in SentTo(scope) : e.created >= Trunc(start - window * Second)})

\* What is left of a throttle, if anything.
ThrottleWait(scope, throttle) ==
    IF throttle > 0 /\ SentTo(scope) # {} /\ throttle > start - LastSentAt(scope)
    THEN throttle - (start - LastSentAt(scope))
    ELSE 0

\* The whole window, if the limit is used up.
LimitWait(scope, limit, window) ==
    IF limit > 0 /\ CountSent(scope, window) >= limit THEN window * Second ELSE 0

\* What is asked of the history, in this order.  A throttle has no window.
Checks ==
    <<[scope |-> Domains, limit |-> user.throttle, window |-> 0],
      [scope |-> {item.domain}, limit |-> rule.throttle, window |-> 0]>>
    \o [w \in DOMAIN Windows |->
          [scope |-> Domains, limit |-> user.limits[w], window |-> Windows[w]]]
    \o <<[scope |-> {item.domain}, limit |-> rule.perHour, window |-> Hour]>>

\* What a check asks the mail to wait.
WaitOf(c) ==
    IF c.window = 0
    THEN ThrottleWait(c.scope, c.limit)
    ELSE LimitWait(c.scope, c.limit, c.window)

\* Limits that are not set are passed over without a query.
Upcoming == {i \in DOMAIN Checks : i > asked /\ Checks[i].limit > 0}

\* The milliseconds of a duration are taken for seconds.
DeferSeconds_bug(ticks) == ticks

\* Defer: whole seconds, and at least one.
DeferSeconds(ticks) == IF ticks < Second THEN 1 ELSE ticks \div Second

PutOff(m, seconds) ==
    waiting' = (waiting \ {m}) \cup {[m EXCEPT !.due = Trunc(now) + seconds]}

-----------------------------------------------------------------------------
(* The worker *)

\* The worker goes to the next mail.
Done ==
    /\ pc' = "idle"
    /\ item' = NoItem
    /\ user' = NoAccount /\ rule' = NoRule /\ start' = 0 /\ asked' = 0 /\ wait' = 0

\* It forgets what the check has read.
EndCheck ==
    /\ user' = NoAccount /\ rule' = NoRule /\ start' = 0 /\ asked' = 0
    /\ inForce' = Nothing

\* The worker is at a mail that was due: GetByID.
ReadAccount(m) ==
    /\ pc = "idle"
    /\ m.due <= Trunc(now)
    /\ pc' = "rule"
    /\ item' = m
    /\ user' = account
    /\ inForce' = [accounts |-> {account}, rules |-> {rules[m.domain]}]
    /\ UNCHANGED <<now, account, rules, waiting, mails, events, rule, start, asked, wait,
                   sends>>

\* domains.Get
ReadRule ==
    /\ pc = "rule"
    /\ pc' = "clock"
    /\ rule' = RuleFor(item.domain)
    /\ UNCHANGED <<now, account, rules, waiting, mails, events, item, user, start, asked, wait,
                   observed>>

\* time.Now()
ReadClock ==
    /\ pc = "clock"
    /\ pc' = "check"
    /\ start' = now
    /\ UNCHANGED <<now, account, rules, waiting, mails, events, item, user, rule, asked, wait,
                   observed>>

\* LastSentAt or CountSentSince finds room.
CheckPasses ==
    /\ pc = "check"
    /\ \E i \in Upcoming :
        /\ \A j \in Upcoming : i <= j
        /\ WaitOf(Checks[i]) = 0
        /\ asked' = i
    /\ UNCHANGED <<now, account, rules, waiting, mails, events, pc, item, user, rule, start, wait,
                   observed>>

\* It finds none; the checks after it are not made.
CheckObjects ==
    /\ pc = "check"
    /\ \E i \in Upcoming :
        /\ \A j \in Upcoming : i <= j
        /\ WaitOf(Checks[i]) > 0
        /\ wait' = WaitOf(Checks[i])
    /\ pc' = "hold"
    /\ EndCheck
    /\ UNCHANGED <<now, account, rules, waiting, mails, events, item, sends>>

\* Defer
Hold ==
    /\ pc = "hold"
    /\ PutOff(item, DeferSeconds(wait))
    /\ Done
    /\ UNCHANGED <<now, account, rules, mails, events, observed>>

\* No check objected.
Pass ==
    /\ pc = "check"
    /\ Upcoming = {}
    /\ pc' = "send"
    /\ EndCheck
    /\ UNCHANGED <<now, account, rules, waiting, mails, events, item, wait, sends>>

\* A statement fails, which costs the mail an attempt, or MarkRetry fails too, or the process
\* ends.  (GetByID may fail as well: to the queue that is the same as the statement after it.)
CheckFails ==
    /\ Checking \/ pc = "hold"
    /\ PutOff(item, RetryDelay) \/ waiting' = waiting
    /\ Done
    /\ inForce' = Nothing
    /\ UNCHANGED <<now, account, rules, mails, events, sends>>

\* SendMail returns nil.
Accepted ==
    /\ pc = "send"
    /\ Len(sends) < MaxSends
    /\ sends' = Append(sends, [domain |-> item.domain, at |-> now, logged |-> now])
    /\ pc' = "accepted"
    /\ UNCHANGED <<now, account, rules, waiting, mails, events, item, read, wait, inForce>>

\* SendMail fails on every account: the mail is retried later, or given up.
Rejected ==
    /\ pc = "send"
    /\ \/ PutOff(item, RetryDelay)
       \/ waiting' = waiting \ {item}
    /\ Done
    /\ UNCHANGED <<now, account, rules, mails, events, observed>>

\* MarkSent, and the event at a time of its own.
LogSent ==
    /\ pc = "accepted"
    /\ waiting' = waiting \ {item}
    /\ events' = events \cup {[send |-> Len(sends), domain |-> item.domain,
                               created |-> Trunc(now)]}
    /\ sends' = [sends EXCEPT ![Len(sends)].logged = now]
    /\ Done
    /\ UNCHANGED <<now, account, rules, mails, inForce>>

Forget(numbers) ==
    sends' = [n \in DOMAIN sends |-> IF n \in numbers THEN Forgotten ELSE sends[n]]

\* The event is not written: its insert fails, or the process ends (before MarkSent, or after).
SentUnlogged ==
    /\ pc = "accepted"
    /\ waiting' \in {waiting, waiting \ {item}}
    /\ Forget({Len(sends)})
    /\ Done
    /\ UNCHANGED <<now, account, rules, mails, events, inForce>>

-----------------------------------------------------------------------------
(* Everybody else *)

Tick ==
    /\ now < MaxTime
    /\ now' = now + 1
    /\ UNCHANGED <<account, rules, waiting, mails, events, worker, observed>>

\* The front end queues a mail; it is due at once.
Submit(d) ==
    /\ mails < MaxMails
    /\ mails' = mails + 1
    /\ waiting' = waiting \cup {[id |-> mails + 1, domain |-> d, due |-> Trunc(now)]}
    /\ UNCHANGED <<now, account, rules, events, worker, observed>>

\* The administrator edits the account, or a package is applied to it.
SetAccount(limits) ==
    /\ account' = limits
    /\ inForce' = IF Checking THEN [inForce EXCEPT !.accounts = @ \cup {limits}] ELSE inForce
    /\ UNCHANGED <<now, rules, waiting, mails, events, worker, sends>>

\* upsertDomainThrottle
SetRule(d, spelling, limits) ==
    /\ rules' = [rules EXCEPT ![d][spelling] = limits]
    /\ inForce' = IF Checking
                  THEN [inForce EXCEPT !.rules = @ \cup {rules'[item.domain]}]
                  ELSE inForce
    /\ UNCHANGED <<now, account, waiting, mails, events, worker, sends>>

\* Some of the account's history is deleted.
DeleteEvents(E) ==
    /\ E # {}
    /\ events' = events \ E
    /\ Forget({e.send : e \in E})
    /\ UNCHANGED <<now, account, rules, waiting, mails, worker, inForce>>

WorkerStep ==
    \/ \E m \in waiting : ReadAccount(m)
    \/ ReadRule
    \/ ReadClock
    \/ CheckPasses
    \/ CheckObjects
    \/ Hold
    \/ Pass
    \/ CheckFails
    \/ Accepted
    \/ Rejected
    \/ LogSent
    \/ SentUnlogged

OtherStep ==
    \/ Tick
    \/ \E d \in Domains : Submit(d)
    \/ \E limits \in AccountChoices : SetAccount(limits)
    \/ \E d \in Domains, s \in Spellings, limits \in DomainChoices : SetRule(d, s, limits)
    \/ \E E \in SUBSET events : DeleteEvents(E)

Next == WorkerStep \/ OtherStep

Spec == Init /\ [][Next]_vars

-----------------------------------------------------------------------------
(* Properties *)

\* The sends that the account's history ought to tell of.
Known == {n \in 1..Len(sends) : sends[n] # Forgotten}

\* Those to some domains that were accepted less than so many ticks ago, and those that were
\* logged less than so many ticks before the moment the check takes for now.
AcceptedWithin(scope, ticks) ==
    {n \in Known : sends[n].domain \in scope /\ now - sends[n].at < ticks}

LoggedWithin(scope, ticks) ==
    {n \in Known : sends[n].domain \in scope /\ start - sends[n].logged < ticks}

\* Limits a of an account and r of a domain d allow one more mail to d: fewer mails than the
\* limit were accepted in any window that ends now, and none within the throttle less a second.
Allow(a, r, d) ==
    /\ AcceptedWithin(Domains, a.throttle - Second + 1) = {}
    /\ AcceptedWithin({d}, r.throttle - Second + 1) = {}
    /\ \A w \in DOMAIN Windows :
          a.limits[w] > 0 =>
            Cardinality(AcceptedWithin(Domains, Windows[w] * Second)) < a.limits[w]
    /\ r.perHour > 0 => Cardinality(AcceptedWithin({d}, Hour * Second)) < r.perHour

\* They object to it: a mail was logged within the throttle, or as many as the limit within the
\* window and the second the cut-off times may add to it.
Object(a, r, d) ==
    \/ LoggedWithin(Domains, a.throttle) # {}
    \/ LoggedWithin({d}, r.throttle) # {}
    \/ \E w \in DOMAIN Windows :
          /\ a.limits[w] > 0
          /\ Cardinality(LoggedWithin(Domains, (Windows[w] + 1) * Second)) >= a.limits[w]
    \/ /\ r.perHour > 0
       /\ Cardinality(LoggedWithin({d}, (Hour + 1) * Second)) >= r.perHour

Passes == pc = "check" /\ pc' = "send"
Objects == pc = "check" /\ pc' = "hold"

\* A mail passes holdIfLimited only where limits that were in force at some time since it was
\* taken up allow one more at the end of the check (README says "minimum milliseconds between
\* sends"), although the limits are read first and the history is asked afterwards, one limit at
\* a time, while both change.  The code sees neither the moment a mail was accepted nor the
\* present one: it counts rows written some time after the mail went out, whose times and whose
\* window are cut down to whole seconds.
PassAllowed ==
    [][Passes =>
        \E a \in inForce.accounts, r \in inForce.rules : Allow(a, r["lower"], item.domain)]_vars

\* A mail is held only for a reason that is there when the objection is made, under limits that
\* were in force at some time since the mail was taken up.
HoldNeeded ==
    [][Objects =>
        \E a \in inForce.accounts, r \in inForce.rules : Object(a, r["lower"], item.domain)]_vars

\* A limit the administrator stored for a domain, before the mail was taken up and as long as
\* the check lasts, holds for mail to that domain, however the administrator typed the domain
\* (README: "per-domain hourly limit per user").
DomainLimitsApply ==
    [][Passes =>
        \A s \in Spellings :
            (\A r \in inForce.rules : r[s].perHour > 0) =>
                \E r \in inForce.rules :
                    Cardinality(AcceptedWithin({item.domain}, Hour * Second)) < r[s].perHour]_vars
=============================================================================
