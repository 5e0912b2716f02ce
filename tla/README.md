# A TLA+ model of the Go SMTP platform

This directory specifies, model-checks and proves properties of the platform
in this repository: users submit mail over authenticated SMTP, the mail is
queued in SQLite, a worker delivers it through assigned upstream SMTP accounts
under per-user and per-domain limits, and two dashboards administer all of it.

All paths below are relative to `src/`. `PROJECT.json` maps every definition
to the lines it models and lists components, runs, mutants, findings, hazards
and theorems.

## The system

| Component | State | Operations | Hard part |
|---|---|---|---|
| Delivery worker (`internal/service/delivery.go`) | the batch it copied out of the queue, `rrIndex` | every 2 s `process`: hold check, deliver, settle | acts on copies; drops the errors of its own updates; dies between send and record |
| Outbound queue (`internal/repo/queue_repo.go`) | table `outbound_queue` | `Enqueue`, `DequeueBatch`, `MarkSent/Retry/Failed`, `Defer`, deletions of pending rows | written by sessions, worker and dashboards without transactions |
| Mail events (`internal/repo/event_repo.go`) | table `mail_events` | `Create`, deletions, `CountSentSince`, `LastSentAt` | the limits are computed from it; owners may delete it |
| Rate limits (`holdIfLimited`, `domain_repo.go`) | limits in `users`, table `domain_throttles` | hold or pass a mail; set limits and rules | times cut down to seconds; history written after the send |
| SMTP front end (`internal/smtp/server.go`, `service/send.go`, `auth.go`) | per session: copy of the account, sender, recipients | `Auth`, `Mail`, `Rcpt`, `Data` | stale account; recipients queued one by one |
| User accounts (`user_repo.go`, `handler.go`) | table `users` | create, update, mode, package, `DeleteHard` | read-modify-write; five deletions in a row |
| Packages (`package_repo.go`, seeds in `db.go`) | table `package_plans` | create, default, delete | two statements for one change; re-seeding at start |
| Upstream pool and rotation (`smtp_repo.go`, `nextRR`) | `upstream_smtps`, `user_smtp_assignments`, `rrIndex` | create, assign, unassign, delete, rotate | list changes under the index |
| HTTP API (`httpapi/handler.go`) | token maps | login, and everything above | sessions outlive accounts |
| Limiter (`service/limiter.go`) | buckets | `CheckAndInc` | none: no one calls it |
| Analytics, configuration, dashboards | none | read-only | none |

The components meet in the database. `db.OpenAndMigrate` opens one connection
(`SetMaxOpenConns(1)`) and no code opens a transaction, so **a SQL statement is
atomic and nothing larger is**. Foreign keys are declared and never switched
on, so rows may outlive the account they belong to. Goroutines are: one worker,
one per SMTP session, one per HTTP request.

What makes each part correct: a queued mail is settled once, for the right
reason, and is neither lost nor repeated more than the at-least-once design
forces; limits in force while a mail is checked are respected; there is one
default package; an update does not undo another; only accounts that exist and
are allowed to send do.

## Modules

| Module | What it is |
|---|---|
| `Outbox` | abstract specification: what the queue promises to whoever submits a mail |
| `Delivery` | the queue, the worker, and everybody who writes the same tables, statement by statement |
| `MCDelivery` | its instances for TLC |
| `DeliveryProofs` | its inductive invariant and nine theorems, one of them that it implements `Outbox` |
| `RateLimits` | `holdIfLimited` and the history it reads, with time |
| `MCRateLimits` | its instances for TLC |
| `RateLimitsProofs` | its inductive invariant, the arithmetic of times cut down to seconds, and four theorems |
| `Packages` | the table of packages: two-statement handlers, and the seeding at every start |
| `MCPackages` | its instances for TLC |
| `PackagesProofs` | its inductive invariant and two theorems |
| `SmtpIntake` | SMTP sessions: login, transaction, the loop of `HandleMail`, accounts that are disabled or deleted meanwhile |
| `MCSmtpIntake` | its instances for TLC |
| `SmtpIntakeProofs` | its inductive invariants and four theorems |
| `UpstreamPool` | upstream SMTP accounts: ownership, assignments, restricted accounts |
| `MCUpstreamPool` | its instances for TLC |
| `UpstreamPoolProofs` | its inductive invariant and two theorems |
| `Relay` | one mail after another in `deliver`: rotation, the order of the tries, the text each upstream gets |
| `MCRelay` | its instances for TLC, with the texts |
| `TextProofs` | what the functions on texts compute, for texts of any length: lemmas |
| `RelayProofs` | the order of the tries, the turns of rotation, the texts, and five theorems |
| `Accounts` | accounts and the user dashboard's sessions: handlers that read a row and write all of it back, logins, deletion |
| `MCAccounts` | its instances for TLC |
| `AccountsProofs` | its inductive invariant and five theorems |

Operators whose name ends in `_bug` are not the code: each is the form that
the definition after it would have after a plausible mistake. `PROJECT.json`
pairs every property of a passing run with one of them, and TLC finds that
property violated when the mistake is put in.

### Delivery

One action is the code between two SQL statements of `process()` together with
the statement that follows; `pc` says which one is next.

| `pc` | Code | Actions |
|---|---|---|
| `idle` | waiting for the ticker | `DequeueBatch` |
| `check` | `holdIfLimited` | `HoldOrphan`, `HoldQueryFails`, `HoldLimited`, `HoldPasses` |
| `defer` | `deferWithReason` | `DeferHeld`, `DeferFails` |
| `holdError` | `MarkRetry` of the error branch | `HoldErrorRetry` |
| `load` | `GetByID`, `ListAssigned` in `deliver` | `LoadAccounts`, `LoadFails` |
| `send` | `smtp.SendMail`, per assigned account | `SendAccepted`, `SendRejected`, `SendUnclear` |
| `accepted`, `logSent` | `MarkSent`, the `sent` event | `SettleSent`, `SettleSentFails`, `LogSent` |
| `deliverError`, `logFailed` | `MarkRetry`, or `MarkFailed` and the `failed` event | `RetryLater`, `GiveUp`, `LogFailed` |

`batch` and `item` are the copies `DequeueBatch` made; the worker decides on
them and updates rows by number. Around it: `Login`, `Logout`, `Enqueue` (one
recipient of `HandleMail`), `DeletePending`, `DeleteEvents`, the three steps of
`DeleteHard` that touch these tables, `AbandonDelete` (one of them fails),
`Elapse` (`next_attempt_at` comes to pass) and `Crash`. `copies` and `unclear`
are observations: what the upstreams accepted, and for which mails the code had
no way to record it.

Kept abstract: the verdict of `holdIfLimited` on an existing account is free
(`RateLimits` computes it), a mail is its row number, `next_attempt_at` is a
flag, an upstream is one more try.

### RateLimits

One account's mails, its `sent` events, its limits and domain rules, and a
clock of `Second` ticks to the second. `holdIfLimited` is as many steps as it has
statements:

| `pc` | Code | Actions |
|---|---|---|
| `idle`, `rule`, `clock` | `GetByID`, `domains.Get`, `time.Now()` | `ReadAccount`, `ReadRule`, `ReadClock` |
| `check` | one `LastSentAt` or `CountSentSince` for each limit that is set, in the code's order (`Checks`) | `CheckPasses`, `CheckObjects`, and `Pass` after the last |
| `hold` | `Defer` | `Hold` |
| any of these | a statement fails, or the process ends | `CheckFails` |
| `send`, `accepted` | `SendMail`; `MarkSent` and the event | `Accepted`, `Rejected`; `LogSent`, `SentUnlogged` |

`Submit`, `SetAccount`, `SetRule`, `DeleteEvents` and the clock (`Tick`) run
between any two of them, so that a mail may be checked against limits that are
out of date by then, and against a history that shrinks while it is asked.
`sends` and `inForce` are observations: what upstreams accepted and when, and
the limits that were in force at any time since the worker took the mail up.
Times are cut down as the code does: `created_at` and the start of a window to
the second, the deferral to whole seconds and at least one.

### Packages

The names in `package_plans` and those flagged `is_default`. `SetDefault` is
`ClearDefault` and then `MarkDefault`, `Delete` is `CheckDelete` and then
`DeletePlan`; any number of HTTP handlers are between the two at once, and
`Restart` ends them all and inserts the packages the code comes with.
`disturbed` is an observation: since the flag was last cleared by a request that
was alone, something happened that the code does not guard against.

### SmtpIntake

One record per connection (`Session` in `smtp/server.go`, plus the position of
the loop in `HandleMail`). `ReadAccount` and `PasswordRight` are the two halves
of `Validate`; `Mail`, `Rcpt`, `Reset`, `Data` the handlers; `Enqueue`,
`RefuseRecipient` and `AcceptMessage` one round of the loop. Clients keep a
message until they are told that it was accepted; they may hang up (`Hangup`)
and try again elsewhere while the first handler is still inserting. `rows`
counts insertions, so that what the worker does later does not matter. What the
library (go-smtp) enforces is stated at the head of the module.

### UpstreamPool

The tables `upstream_smtps` (owner, enabled) and `user_smtp_assignments`, and
the one field of `users` that matters here. The checks of a request are one
action (`SetMode`, `WriteBack`, `UserAssign`, `AdminAssign`, `UserCreate`,
`StartDelete`) that leaves in `request[h]` what handler `h` is still going to
write; each statement is an action after that (`WriteUser`, `AssignToUser`,
`CreateOwn`, `UnlinkAll`, `RemoveUpstream`, `DeleteLinks`, `DeleteUser`), so
that a row is written back as it was read some time before, and an assignment
may be made of an upstream that is gone. `WriteBack` stands for the handlers
that are about other fields and write the mode all the same. `Abandon` is a
statement that fails. `ListAssigned` is what `deliver` gets to see.
Left out: the names, hosts and credentials of upstreams, and `weight`, which is
stored and read by no one.

### Relay

`Begin` reads the user's flag, `ReadList` the list of upstreams, calls `nextRR`
and fixes the order of the tries; `Accepted` and `Rejected` are the answers of
`SendMail`. Flag and list are any values at each read, as both are changed
behind the worker's back. The code keeps one index for each user
(`rrIndex[userID]`), and the mails of one user touch no other's: `rrIndex` is
that of the user whose mails these are. `turns` is an observation: the first
choices since the list last changed. `RewriteFrom` is `rewriteFromHeader` with `splitLines`, `joinCRLF` and
`toLowerPrefix`, on sequences of bytes of which some stand for a word:
`"From:"` for that field's name in any case, `"8bit"` for a byte above 127.
The properties do not use its functions: they read a text as its recipient
would (`Fields`, `Froms`, `Body`). Left out: `TrimSpace` of the address, and
the envelope, which names the same upstream.

### Accounts

`login[i]` and `settings[i]` are the row of account `i`. A handler that changes
settings reads and checks the row in one action (`UpdateUser`,
`SetUserSMTPMode`, `UserSetRotation`, `UserAssignSMTP`), which leaves the whole
changed row in `request[h]`, and `Update` writes it, over whatever is there by
then; an account that is gone stays gone. `ApplyPackage` and `SetPassword` are
one statement each. A login is `ReadAccount` and then `PasswordRight` or
`PasswordWrong`, with bcrypt in between. `DeleteUser` is the last statement of
`DeleteHard`; the ones before it are in `Delivery`. `Abandon` is a statement
that fails, `Restart` loses requests and sessions.

Four things are observations, which no guard reads: `asked` (what the requests
last asked of each setting; `Unknown` after two that overlapped), `excused`
(restricted accounts that rotate because the administrator's update or an
assignment wrote that), `former` (the password was changed after this session's
login read it) and `stale` (another request wrote the row after this one read
it). They make the promises sayable: *a setting stays until it is asked for
otherwise* cannot hold when two requests overlap, and `SettingsKept` says that
this is the only case.
Left out: display names, and the administrator's sessions, which are all alike.

## Runs

| Run | Shows | Bounds |
|---|---|---|
| `delivery_safety` | `TypeOK`, `SnapshotCurrent`, `SentMeansAccepted`, `OnceUnlessUnclear`, `FailedMeansExhausted`, `RetryBudget`, `LogAgrees`, `SettledIsFinal`, and `Delivery` implements `Outbox` | 1 account, 2 mails in one batch, retry limit 1, 2 upstreams, 2 faults |
| `delivery_liveness` | `NothingForgotten` | 1 account, 2 mails, 1 fault |
| `delivery_orphan` | `RetriesEnd` is violated | 1 account, 1 mail, no fault |
| `rates_safety` | `TypeOK`, `PassAllowed`, `HoldNeeded` | 2 domains, 2 mails, 2 sends, 2 s at 2 ticks each |
| `rates_spelling` | `DomainLimitsApply` is violated | 1 domain in 2 spellings, 2 mails |
| `packages_safety` | `SoleDefault` | 4 names, 3 handlers |
| `packages_delete` | `DefaultStays` is violated | 3 names, 2 handlers |
| `intake_safety` | `TypeOK`, `AcceptedIsQueued`, `RepeatsCounted`, `OnlyFormerSessions` | 1 account, 2 connections, 2 messages, 2 failing attempts each |
| `pool_owners` | `TypeOK`, `OwnUpstreamsOnly` | 2 accounts, 2 upstreams ever created, 2 handlers |
| `pool_restricted` | `RestrictedUsesSystem` is violated | 1 account, 1 upstream |
| `relay_safety` | `TypeOK`, `EveryUpstreamOnce`, `TurnsTaken`, `SenderForced`, `RestKept` | 3 upstreams; every text of up to 3 lines of 4 kinds, some of 4, 6 irregular texts |
| `accounts_safety` | `TypeOK`, `SettingsKept`, `RotatesByExcuse`, `ActsForOpener`, `OnlyFormerPasswords` | 2 accounts ever created, settings of 1 of them changed, 2 names, passwords and plans, 2 handlers, 1 session |

Why these bounds are enough to see the interesting cases. Two mails in a batch
are the least for which one is handled while the copy of the other grows stale,
and two faults allow a crash after a failed update, or two failures of the same
mail. A retry limit of 1 (4 in the code) already distinguishes a first attempt,
a retry and giving up; `AttemptCap` lies above every value the limit is
compared with. Accounts interact in no action of `Delivery` other than the
batch order, so the runs take one; the theorems hold for every set of accounts.
Three handlers allow a third request between the statements of two others.
The two messages of `intake_safety` are one that can be accepted and one that is
refused after its first recipient is queued; they share a recipient, and two
connections allow a retry next to the attempt that was given up.
In `pool_owners`, two handlers let an upstream be deleted between the check of
an assignment and its insertion, and a second account and number show whether
what is left behind can come to mean another upstream; users and handlers are
symmetric, as nothing there compares them.
In `relay_safety`, three upstreams are the least for which an order of turns is
more than an alternation. The four kinds of line are a From field, another
line, one that starts with white space and an empty one; three lines put each
of them before, at and after the empty line that ends the header. The irregular
texts have bare LF, bare CR, 8-bit bytes, or nothing.
In `accounts_safety`, two handlers overlap in every way a read and a write can.
The second account is the one that takes the name of the first after it is
deleted. The constraint `Apart` keeps two independent halves from multiplying:
while settings are changed there is one account, no login under way and no
session whose password was changed. The actions on settings read nothing of
names and passwords, and those on sessions read of the settings only `enabled`.
The theorems of `AccountsProofs` hold without this bound, or any other.
In `RateLimits`, two ticks to the second show every cut-off, and windows of one
and two seconds overlap. The account alternates between a throttle with a limit
on the long window and a limit on the short one, so that a mail may be checked
against either while the other is stored, and may be sent twice, as `MarkSent`
and its event may be lost. Only the domains of mails are compared, so the two
are symmetric.

`CHECK_DEADLOCK FALSE` is set for `Delivery` and `RateLimits` because their bounded
instances really may stop: the mails have been submitted, the clock has run out, nothing is left to do.

### Fairness

`FairSpec` is weakly fair to the worker's own steps (the goroutine is scheduled
and its ticker fires), to the passing of each `next_attempt_at`, and to
`SendStep`. The last assumes that a call of `smtp.SendMail` returns. The code
does not enforce that (no deadline is set on the connection); if an upstream
never answers, the worker waits for ever and nothing is delivered for anyone.
No fairness is assumed of users, administrators or crashes.

## What the checks found

* `delivery_orphan`: mail of a deleted account is retried for ever.
  `holdIfLimited` fails on the missing account, and that branch of `process`
  calls `MarkRetry` without looking at the attempts (`delivery.go:53-58`), while
  a session that outlives the account still inserts rows. `README.md:8` promises
  "retry/fail logic".
* `rates_spelling`: a per-domain limit (`README.md:7`) that was typed with a
  capital letter never applies: it is stored as typed (`handler.go:501`) and
  looked up in lower case (`delivery.go:86-90`).
* `packages_delete`: the default package is deleted although `Delete` refuses
  to: the check and the deletion are two statements, and `SetDefault` of another
  request fits between them (`package_repo.go:79-89`). Afterwards registration
  fails with "default package not configured".

* `pool_restricted`: an account that is "restricted to system SMTP only"
  (`handler.go:1145`) goes on sending through the upstreams it created before:
  `setUserSMTPMode` leaves its assignments, and `ListAssigned` does not look at
  the mode (`handler.go:398-402`, `smtp_repo.go:85-106`).

Where a property that holds has to say less than a reader of the code may
expect, its statement names the exception:

* `PassAllowed`: the "minimum milliseconds between sends" (`README.md:6`) may
  fall short by up to a second, because the last send is known to the second
  only (`event_repo.go:123-140`). A mail may pass under limits that were lowered
  while it was checked: they are read first (`delivery.go:81-96`), so that what
  holds is that *some* limits in force since then allow it.
* `EveryUpstreamOnce`: of one call of `deliver`. A mail that failed is retried
  (`delivery.go:69`) over all upstreams anew, those included that took it and
  whose answer was lost.
* `SenderForced`: the header's sender is not forced (`README.md:79`) in a text
  without an empty line, which goes out as it came unless its last line is ended
  (that is then taken for the end of the header), in one with several From
  fields, of which the first is replaced, and in one whose From field goes on in
  a second line, which stays (`delivery.go:249-273`).
* `RestKept`: each byte above 127 becomes two on the way, as
  `string(s[i])` encodes it as a character of its own (`delivery.go:289`), and a
  text without an empty line, which has no body, is not spoken of. Several From
  fields, or folded ones, are no exception here.
* `RotatesByExcuse`: `userAssignSMTP` turns rotation on for a restricted account
  too (`handler.go:1259-1265`), which `userSetRotation` refuses to
  (`handler.go:1280-1284`), and so does `updateUser`.
* `SettingsKept`: of two requests that overlap, the later one undoes the earlier.
* `ActsForOpener`, `OnlyFormerPasswords`: sessions outlive the account, its
  disabling and its password (`handler.go:151-174` looks at the time only).

Properties that hold and are worth knowing: a mail is repeated only if its
acceptance could not be recorded (`OnceUnlessUnclear`); deleting pending rows,
events or accounts at any moment never makes the worker mark another mail's row
(`SentMeansAccepted`, which rests on `AUTOINCREMENT`); whatever the dashboards
change while a mail is checked, it passes only where limits in force since the
check began allow one more in every window that ends with it, as far as the
history still tells (`PassAllowed`); an assignment that points at a deleted upstream never
comes to point at another account's (`OwnUpstreamsOnly`, again by
`AUTOINCREMENT`); a session that outlives its account acts for no other one,
though the name is taken again (`ActsForOpener`, once more by `AUTOINCREMENT`);
as long as a user's list of upstreams stays the same its turns are kept,
whatever lists the index was moved over before (`TurnsTaken`); however long a
text is and whatever line breaks it came with, no From line of its body is
touched and no other field is lost (`RestKept`).

## Proofs

`DeliveryProofs` proves, for every set of accounts, every number of rows and
faults, every batch size and retry limit:

| Theorem | Property |
|---|---|
| `TypeCorrect` | `TypeOK` |
| `Snapshot` | `SnapshotCurrent` |
| `Accepted` | `SentMeansAccepted` |
| `GivenUp` | `FailedMeansExhausted` |
| `SettledStays` | `SettledIsFinal` |
| `WithinBudget` | `RetryBudget` |
| `Once` | `OnceUnlessUnclear` |
| `Statistics` | `LogAgrees` |

The only assumption is `DeliveryAssumption`: the constants are naturals, the
batch is not empty, the cap lies above the retry limit, and `NoUser` is no
account.

The argument. None of the properties is inductive: nothing in them rules out
that a row with the number of a copy is another mail's. The inductive invariant
`IInv` adds that numbers from `nextId` on are unused and were never transmitted
(`Fresh`), that every copy is of a number given out before and no number is
held twice (`Distinct`), that a row present has an owner (`RowsOwned`), and what
each phase of the worker knows about the mail it is at. With it,
`SnapshotCurrent` says that the
worker's decisions, taken on the copy, are right for the row, or that the row is
gone. `StepIInv` proves each worker and environment action on its own;
`ItemHandled` and `QueueUntouched` are the two arguments those steps share.
`WithinBudget`, `Once` and `Statistics` add one conjunct each (`Budget`,
`Recorded`, `Logged`) to `IInv`.

`DeliveryProofs` also proves `Implementation` (`ImplementsOutbox`), under the same
assumption: seen through the mapping of `Delivery!Promise`, the initial states
are initial states of `Outbox` and every step is one of its steps or none. One
lemma for each abstract action says what a step of `Delivery` must do to be that
action, and the theorem goes through the steps of `Delivery`. They fit because
of `IInv`: a copy the worker still acts on is of a pending row or of no row, so
it never transmits or settles what is settled; and no number is given out twice,
so a mail that is removed does not come back. `Unused` adds that a number not
given out yet was never transmitted.

`SmtpIntakeProofs` proves `IntakeTyped` (`TypeOK`), `FormerSessions`
(`OnlyFormerSessions`), `Acceptance` (`AcceptedIsQueued`) and `Repeats`
(`RepeatsCounted`) for any accounts, any number of connections, any messages
with any recipients and any number of attempts that go wrong, from
`SmtpIntakeAssumption`. Three invariants carry them. `Exclusive`: of the
connections whose client has not hung up, one at most submits a message.
`Progress`: the recipients a session holds are a prefix of the envelope's, and
in the loop of `HandleMail` there is a row for every one it has passed, which
gives `Acceptance` when the loop is at its end. `WithinAttempts`: of each
message and recipient, the rows inserted together with those that sessions in
the loop are still going to insert (`Left`), whether or not their client is
there, stay within the envelope's count for every attempt; this is what makes
`RepeatsCounted` inductive, since the row a forgotten call inserts next was
counted when it began.

`RateLimitsProofs` proves `RatesTyped` (`TypeOK`), `Passing` (`PassAllowed`) and
`Holding` (`HoldNeeded`) for any domains and spellings, any number of ticks to
the second, any windows and throttles, and limits and rules that change at any
time, from `RateLimitsAssumption`. The two action properties compare what the
check computes from the rows with the moments of the sends, which it does not
see. `History` relates the two: each row is of one send, no two are of the same,
it has the domain of its mail and the second in which it was written, which is
not before the mail was accepted, and every send is told of that was not
forgotten. `TruncBounds` and the lemmas after it say that
a time cut down to the second is at most a second early and that cutting down
keeps the order of times. So the sends in a window inject into the rows that are
counted (`Passing`), and those inject into the sends of the window and one
second (`Holding`). `History` also speaks of the middle of a check (`ReadOK`,
`AskedOK`): the limits it has read were in force at some time since the mail was
taken up; no mail has been logged since it read the clock, as there is one
worker; and each limit that was found to have room has room still (`Room`),
because rows only go away meanwhile and the clock that counts is the one read at
the start. That is why statements made at different times add up to a verdict
that holds at their end.
`LowerCaseApplies` shows that the finding of
`rates_spelling` is a matter of the spelling alone: in every behaviour whose
domain limits are stored in lower case (`TypedLower`), `DomainLimitsApply` holds,
which asks it of limits stored before the check and as long as it lasts.

`RelayProofs` proves `RelayTyped` (`TypeOK`), `Once` (`EveryUpstreamOnce`),
`Turns` (`TurnsTaken`), `Forced` (`SenderForced`) and `RestStays` (`RestKept`)
for any finite number of upstreams and any texts of any length, from
`RelayAssumption`: upstreams are not bytes, texts consist of the bytes the
module knows, and there is an upstream, as `rrIndex` would have no value to
range over otherwise. `TryOrderPermutes` says that the order of the tries has
each entry of the list once. For `Turns` the invariant must say what `rrIndex`
tells of the past: the first choices of the list, from the last one backwards,
are the entries before `rrIndex`, round the list (`Rotated`); choices of one
round have different places (`Places`), and entries of a list are different.
A list that differs from the last one starts a new round, wherever the index
stands.

`Once` is about one call of `deliver`. `Forced` and `RestStays` need of the
behaviour only that the mail is one that was
submitted and that the upstream tried last is one. The rest is about the
functions on texts, and is in `TextProofs`:

1. *Recursion and induction.* `SplitLines`, `JoinCRLF` and `Normal` are recursive
   functions. `Recursion` shows that a function with their first value and their
   step exists, and `SplitLinesIs`, `JoinCRLFIs` and `NormalIs` that theirs is
   it. What holds of every value follows by `AllNaturals`: a set that has 0, and
   with each number the next, has all numbers, because a number that is missing
   would be preceded by a least one (the well-foundedness of `<`). The library's
   own theorems of induction take an operator, which the provers cannot supply.
2. *Layout.* `Layout` says that a text consists of given lines with CR LF between
   them, each at its position. `JoinCRLF` makes such a text of any lines, and
   `MailRead` says that any mail, with the CRs dropped and the LFs completed, is
   one, of the lines that `SplitLines` finds, but for the bytes above 127, of
   which `SplitLines` makes two.
3. *Reading.* All that the properties read of a text by position is then a matter
   of its lines: `LineIs`, `HeaderEnds`, `FieldsAre`, `OtherLinesAre` and
   `UsualIs` say of which, and `SameBody` that texts whose lines agree after the
   header have the same body.
4. *Rewriting.* `SenderSet` says what `RewriteFrom` does with the lines of any text
   that has an empty one: every line that is no From line stays where it was among
   the others, and if the header was usual, its one From line is that of the
   upstream (`FromAdded`, `FromReplaced`). `Rewritten` puts the four
   together.

`PackagesProofs` proves `OneDefault` (`SoleDefault`) for every set of names and
any number of handlers, from `PackagesAssumption` alone. (`TypeOK` is a part of the
invariant and of no run: a flag is a column, and cannot be on what has no row.) `SoleDefault` is not inductive: it says nothing of
the moment between the two statements. `Undisturbed` adds that, as long as
nothing disturbed it, a request that sets the default is the only request there
is and has cleared every flag, and that no deletion under way names the default.
`DefaultStaysApart` shows that the finding of `packages_delete` takes an
overlap: in every behaviour in which no request sets the default while another
is between its check and its deletion (`Apart`), `DefaultStays` holds, through
failures and restarts. The invariant is that what the check found still holds
(`CheckHolds`).

`UpstreamPoolProofs` proves `PoolTyped` (`TypeOK`) and `OnlyOwnUpstreams`
(`OwnUpstreamsOnly`) for every set of users and any number of upstreams and
handlers, from `UpstreamPoolAssumption`. The property speaks of rows that exist;
what makes it inductive is said of `Claims`, the assignments there are together
with those that requests are still going to make, whether their upstream is
there or not: none is of a number that was not given out (`Fresh`), and if its
upstream is there, it may be used (`Owned`). `Kept` is the argument of all steps
that create no upstream.

`AccountsProofs` proves `AccountsTyped` (`TypeOK`), `SettingsStay`
(`SettingsKept`), `RotationExcused` (`RotatesByExcuse`), `OpenerOnly`
(`ActsForOpener`) and `FormerOnly` (`OnlyFormerPasswords`) for every set of
names, passwords and plans and any number of accounts, sessions and handlers,
from `AccountsAssumption`. The invariant `IInv` says of the requests what makes
the properties inductive: the row a handler holds has what was asked for in it
and is else what is in the table, unless it is stale, and is restricted and
rotating only if its handler need not ask (`GoodWrite`); a login holds a
password that is the account's or a former one (`OpenedBy`); and numbers from
`nextId` on are in no row, session or request. `TablesKept` is the argument of
the steps that only read, `OthersGood` of those that write a row others have
read.

Only model-checked is one property of the passing runs: `NothingForgotten`, which
is liveness under fairness and out of the prover's reach. The four properties that
do not hold are refuted by their runs; of two of them a theorem says when they
would. No module declares a `RECURSIVE` operator:
recursion is in functions, or in the operators of the community modules.

## Not modelled

* `limiter.go`: constructed, never called.
* `analytics_repo.go`, listing and counting for the dashboards: read-only.
* The static dashboards under `web/ui`, the reading of the environment, JSON.
* `monthly_limit`: stored and displayed, consulted by no code that sends mail.
* Starvation of new mail by a batch full of old mail: it depends on the ratio
  of the tick (2 s) to the retry delay (30 s), which `Delivery` abstracts; the
  runs keep the batch as large as the queue.
* In `Accounts`: the time of sessions, which may expire at any moment, and the
  fields of an account that no property tells apart.
* What is planned below.

## Plan

Order: what loses or repeats mail first, then what lets through too much, then
what the administrator's view rests on.

1. Done: `Outbox`, `Delivery`, `RateLimits`, `Packages`, `SmtpIntake`,
   `UpstreamPool`, `Relay` (order, turns and text) and `Accounts` (settings and
   sessions), each with its runs.
2. `extractDomain` against the spellings that clients and rules use.
3. Done: a theorem for every safety property of the passing runs, those of texts
   included, and the refinement of `Outbox`.
4. Done: what two of the findings take, `DefaultStaysApart` and
   `LowerCaseApplies`.
5. Next proofs: facts the theorems rest on that a reader would want by
   themselves and that `TypeOK` does not say, such as that a number of a row is
   never given out twice, that numbers only grow, and that a session in
   `SmtpIntake` never changes its account.
