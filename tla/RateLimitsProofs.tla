-------------------------- MODULE RateLimitsProofs --------------------------
(***************************************************************************)
(* What holds of RateLimits for any domains and spellings, any number of   *)
(* ticks to the second, any windows, and any limits that change at any     *)
(* time.                                                                   *)
(*                                                                         *)
(* Both action properties compare what the check computes with the moments *)
(* at which mails were accepted and logged, which it does not see.  The    *)
(* bridge is History: a row of the history is of one send, was written no  *)
(* earlier than the mail went out, and carries the second in which it was  *)
(* written.  What a second is cut down to is nowhere more than a second    *)
(* early, and cutting down keeps the order of moments: so nothing accepted *)
(* within a window escapes the count, and nothing older than the window    *)
(* and one second is counted.                                              *)
(*                                                                         *)
(* The check is many steps, so History speaks of its middle as well: what  *)
(* it has read was in force since the mail was taken up, no mail is logged *)
(* while it counts, and a limit that had room keeps it (Room), because the *)
(* rows of the history can then only become fewer.                         *)
(***************************************************************************)
EXTENDS RateLimits, FiniteSetTheorems, TLAPS

\* What the proofs use of the assumption on the constants.
LEMMA Constants ==
  /\ Second \in Nat /\ Second > 0 /\ Hour \in Nat \ {0} /\ RetryDelay \in Nat \ {0}
  /\ Len(Windows) \in Nat /\ DOMAIN Windows = 1..Len(Windows)
  /\ \A w \in DOMAIN Windows : Windows[w] \in Nat \ {0}
  BY RateLimitsAssumption

\* The second of a moment begins at most a second before it.
LEMMA TruncBounds ==
  ASSUME NEW t \in Int
  PROVE  /\ Trunc(t) \in Int
         /\ Trunc(t) * Second <= t /\ t < Trunc(t) * Second + Second
  BY RateLimitsAssumption DEF Trunc

LEMMA TruncMonotonic ==
  ASSUME NEW t \in Int, NEW u \in Int, t <= u
  PROVE  Trunc(t) <= Trunc(u)
  BY RateLimitsAssumption DEF Trunc

\* Natural numbers that are bounded have a maximum.
LEMMA MaxOf ==
  ASSUME NEW S \in SUBSET Nat, S # {}, NEW b \in Nat, \A x \in S : x <= b
  PROVE  Max(S) \in S /\ \A x \in S : x <= Max(S)
<1> DEFINE T == {n \in Nat : b - n \in S}
<1>1. PICK s \in S : TRUE
  OBVIOUS
<1>2. T \subseteq Nat /\ b - s \in T
  BY <1>1
<1>3. PICK n \in T : \A k \in T : <<k, n>> \notin OpToRel(<, Nat)
  BY <1>2, NatLessThanWellFounded, WFMin
<1>4. \A k \in T : ~(k < n)
  BY <1>2, <1>3 DEF OpToRel
<1>5. \A x \in S : b - x \in T /\ x <= b - n
  <2> SUFFICES ASSUME NEW x \in S
               PROVE  b - x \in T /\ x <= b - n
    OBVIOUS
  <2>1. b - x \in Nat /\ b - (b - x) = x
    OBVIOUS
  <2>2. b - x \in T
    BY <2>1
  <2>3. ~(b - x < n) /\ n \in Nat
    BY <1>4, <2>2
  <2> QED
    BY <2>1, <2>2, <2>3
<1>6. \E x \in S : \A y \in S : x >= y
  BY <1>3, <1>5
<1> QED
  BY <1>6 DEF Max

-----------------------------------------------------------------------------
(* The history and the sends it tells of *)

\* The worker is at a mail; the send that is not logged yet is the last one.
WorkerOK ==
    /\ pc # "idle" => item \in Mail
    /\ pc = "accepted" => Len(sends) \in Known /\ sends[Len(sends)].domain = item.domain

\* Nothing is accepted, or logged, in the future.
SendsOK == \A n \in Known : sends[n].at <= sends[n].logged /\ sends[n].logged <= now

\* Rows are of sends, at most one of each, and have the domain of the mail and the second in
\* which they were written.
RowsOK ==
    /\ IsFiniteSet(events)
    /\ \A e \in events :
        /\ e.send \in Known
        /\ pc = "accepted" => e.send < Len(sends)
        /\ e.domain = sends[e.send].domain
        /\ e.created = Trunc(sends[e.send].logged)
    /\ \A e, f \in events : e.send = f.send => e = f

\* Every send that is not forgotten has its row, but for the one to be logged.
NoneMissing ==
    \A n \in Known : (pc = "accepted" /\ n = Len(sends)) \/ \E e \in events : e.send = n

\* What the check has read was in force, and it is not ahead of the clock.
ReadOK ==
    /\ Checking => user \in inForce.accounts /\ rules[item.domain] \in inForce.rules
    /\ pc \in {"clock", "check"} => \E r \in inForce.rules : rule = r["lower"]
    /\ ~Checking => inForce = Nothing
    /\ start <= now

\* A check leaves room for one more mail.
Room(c) ==
    \/ c.limit = 0
    \/ c.window = 0 /\ \A e \in SentTo(c.scope) : start - e.created * Second >= c.limit
    \/ c.window > 0 /\ CountSent(c.scope, c.window) < c.limit

\* While the history is asked nothing is added to it, so what had room still has; what a mail is
\* told to wait is within bounds.
AskedOK ==
    /\ pc = "check" => /\ \A n \in Known : sends[n].logged <= start
                       /\ \A i \in DOMAIN Checks : i <= asked => Room(Checks[i])
    /\ pc # "check" => asked = 0
    /\ pc = "hold" => wait > 0 /\ \E w \in LongestWait : wait <= w

History ==
    TypeOK /\ WorkerOK /\ SendsOK /\ RowsOK /\ NoneMissing /\ ReadOK /\ AskedOK

LEMMA KnownSends ==
  ASSUME TypeOK
  PROVE  /\ Known \subseteq 1..Len(sends) /\ Len(sends) \in Nat
         /\ \A n \in Known : sends[n] \in Send /\ sends[n].at \in Nat /\ sends[n].logged \in Nat
<1>1. sends \in Seq(Send \cup {Forgotten})
  BY DEF TypeOK
<1>2. \A n \in 1..Len(sends) : sends[n] \in Send \cup {Forgotten}
  BY <1>1
<1>3. \A s \in Send : s.at \in Nat /\ s.logged \in Nat
  BY RateLimitsAssumption DEF Send
<1> QED
  BY <1>1, <1>2, <1>3 DEF Known

LEMMA EventFacts ==
  ASSUME History, NEW e \in events
  PROVE  /\ e.send \in Known /\ e.domain \in Domains
         /\ sends[e.send] \in Send /\ e.domain = sends[e.send].domain
         /\ sends[e.send].at \in Nat /\ sends[e.send].logged \in Nat
         /\ sends[e.send].at <= sends[e.send].logged /\ sends[e.send].logged <= now
         /\ now \in Nat /\ e.created \in Nat /\ e.created <= Trunc(now)
         /\ e.created * Second <= sends[e.send].logged
         /\ sends[e.send].logged < e.created * Second + Second
         /\ pc = "check" => e.created * Second <= start
<1> USE RateLimitsAssumption
<1>1. e \in Event /\ now \in Nat /\ start \in Nat /\ TypeOK
  BY DEF History, TypeOK
<1>2. e.send \in Known /\ e.domain \in Domains
  BY <1>1 DEF History, RowsOK, Event
<1>3. PICK n \in Known : n = e.send
  BY <1>2
<1>4. sends[n] \in Send /\ sends[n].at \in Nat /\ sends[n].logged \in Nat
  BY <1>1, KnownSends
<1>5. PICK at \in Nat, logged \in Nat : at = sends[n].at /\ logged = sends[n].logged
  BY <1>4
<1>6. /\ e.domain = sends[n].domain /\ e.created = Trunc(logged)
      /\ at <= logged /\ logged <= now /\ (pc = "check" => logged <= start)
  BY <1>3, <1>5 DEF History, RowsOK, SendsOK, AskedOK
<1>7. Trunc(0) = 0
  BY DEF Trunc
<1>8. /\ Trunc(logged) \in Nat /\ Trunc(logged) <= Trunc(now)
      /\ Trunc(logged) * Second <= logged /\ logged < Trunc(logged) * Second + Second
  <2>1. 0 <= logged /\ logged <= now /\ logged \in Int /\ now \in Int
    BY <1>1, <1>6
  <2>2. Trunc(0) <= Trunc(logged) /\ Trunc(logged) <= Trunc(now)
    BY <2>1, TruncMonotonic
  <2> QED
    BY <1>7, <2>1, <2>2, TruncBounds
<1>9. Trunc(logged) * Second \in Int
  BY <1>8
<1>10. pc = "check" => Trunc(logged) * Second <= start
  BY <1>1, <1>6, <1>8, <1>9
<1> QED
  BY <1>1, <1>2, <1>3, <1>4, <1>5, <1>6, <1>8, <1>10

\* The last mail the history tells of.
LEMMA LastSent ==
  ASSUME History, NEW scope, SentTo(scope) # {}
  PROVE  \E e \in SentTo(scope) :
            /\ LastSentAt(scope) = Second * e.created
            /\ \A f \in SentTo(scope) : f.created <= e.created
<1> DEFINE C == {e.created : e \in SentTo(scope)}
<1>1. SentTo(scope) \subseteq events
  BY DEF SentTo
<1>2. now \in Nat /\ Trunc(now) \in Nat
  <2>1. PICK e \in events : TRUE
    BY <1>1
  <2>2. e.created \in Nat /\ e.created <= Trunc(now) /\ now \in Nat
    BY EventFacts
  <2> QED
    BY <2>2, TruncBounds
<1>3. C \in SUBSET Nat /\ C # {} /\ \A x \in C : x <= Trunc(now)
  BY <1>1, EventFacts
<1>4. Max(C) \in C /\ \A x \in C : x <= Max(C)
  BY <1>2, <1>3, MaxOf
<1>5. LastSentAt(scope) = Second * Max(C)
  BY DEF LastSentAt, SentTo
<1> QED
  BY <1>4, <1>5

LEMMA ThrottleWaits ==
  ASSUME History, pc = "check", NEW scope, NEW throttle \in Nat
  PROVE  /\ ThrottleWait(scope, throttle) \in Nat
         /\ ThrottleWait(scope, throttle) <= throttle
         /\ ThrottleWait(scope, throttle) = 0 <=>
               throttle = 0 \/ \A e \in SentTo(scope) : start - e.created * Second >= throttle
<1>1. CASE throttle = 0 \/ SentTo(scope) = {}
  BY <1>1 DEF ThrottleWait
<1>2. CASE throttle > 0 /\ SentTo(scope) # {}
  <2>1. PICK e \in SentTo(scope) :
            /\ LastSentAt(scope) = Second * e.created
            /\ \A f \in SentTo(scope) : f.created <= e.created
    BY <1>2, LastSent
  <2>2. SentTo(scope) \subseteq events
    BY DEF SentTo
  <2>3. PICK last \in Nat : last = e.created * Second /\ LastSentAt(scope) = last
    BY <2>1, <2>2, EventFacts, RateLimitsAssumption
  <2>4. start \in Nat /\ last <= start
    BY <2>1, <2>2, <2>3, EventFacts, RateLimitsAssumption DEF History, TypeOK
  <2>5. \A f \in SentTo(scope) : f.created * Second <= last /\ f.created * Second \in Int
    <3> SUFFICES ASSUME NEW f \in SentTo(scope)
                 PROVE  f.created * Second <= last /\ f.created * Second \in Int
      OBVIOUS
    <3>1. f.created \in Nat /\ e.created \in Nat /\ f.created <= e.created /\ Second \in Nat
      BY <2>1, <2>2, EventFacts, RateLimitsAssumption
    <3>2. PICK k \in Nat : e.created = f.created + k
      BY <3>1, e.created - f.created \in Nat
    <3>3. (f.created + k) * Second = f.created * Second + k * Second /\ k * Second \in Nat
      BY <3>1
    <3> QED
      BY <2>3, <3>1, <3>2, <3>3
  <2>6. ThrottleWait(scope, throttle) =
          IF throttle > start - last THEN throttle - (start - last) ELSE 0
    BY <1>2, <2>3 DEF ThrottleWait
  <2> QED
    BY <1>2, <2>1, <2>3, <2>4, <2>5, <2>6
<1> QED
  BY <1>1, <1>2

LEMMA CountTyped ==
  ASSUME IsFiniteSet(events), NEW scope, NEW window
  PROVE  CountSent(scope, window) \in Nat
<1> DEFINE counted == {e \in SentTo(scope) : e.created >= Trunc(start - window * Second)}
<1>1. counted \subseteq events
  BY DEF SentTo
<1>2. CountSent(scope, window) = Cardinality(counted)
  BY DEF CountSent
<1> HIDE DEF counted
<1> QED
  BY <1>1, <1>2, FS_Subset, FS_CardinalityType

LEMMA LimitWaits ==
  ASSUME NEW scope, NEW limit \in Nat, NEW window \in Nat \ {0}
  PROVE  /\ LimitWait(scope, limit, window) \in {0, window * Second}
         /\ window * Second \in Nat \ {0}
         /\ LimitWait(scope, limit, window) = 0 <=>
               limit = 0 \/ ~(CountSent(scope, window) >= limit)
<1>1. window * Second \in Nat \ {0}
  BY RateLimitsAssumption
<1> QED
  BY <1>1 DEF LimitWait

-----------------------------------------------------------------------------
(* What the checks ask a mail to wait *)

\* The limits the check has read are natural numbers.
LEMMA LimitsTyped ==
  ASSUME TypeOK
  PROVE  /\ user.throttle \in Nat /\ \A w \in DOMAIN Windows : user.limits[w] \in Nat
         /\ rule.throttle \in Nat /\ rule.perHour \in Nat
         /\ user.throttle \in LongestWait \cup {0} /\ rule.throttle \in LongestWait \cup {0}
<1> USE RateLimitsAssumption
<1>1. user \in AccountChoices \cup {NoAccount} /\ rule \in DomainChoices \cup {NoRule}
  BY DEF TypeOK
<1>2. user \in AccountLimits
  <2>1. NoAccount \in AccountLimits
    BY DEF AccountLimits, NoAccount
  <2> QED
    BY <1>1, <2>1
<1>3. rule \in DomainLimits
  <2>1. NoRule \in DomainLimits
    BY DEF DomainLimits, NoRule
  <2> QED
    BY <1>1, <2>1
<1>4. user.throttle \in Nat /\ user.limits \in [DOMAIN Windows -> Nat]
  BY <1>2 DEF AccountLimits
<1>5. rule.throttle \in Nat /\ rule.perHour \in Nat
  BY <1>3 DEF DomainLimits
<1>6. user.throttle \in LongestWait \cup {0}
  BY <1>1 DEF LongestWait, NoAccount
<1>7. rule.throttle \in LongestWait \cup {0}
  BY <1>1 DEF LongestWait, NoRule
<1> QED
  BY <1>4, <1>5, <1>6, <1>7

Check == [scope : SUBSET Domains, limit : Nat, window : Nat]

\* The checks one after the other: both throttles, the limits of the account, the limit of the
\* domain.
LEMMA ChecksAre ==
  ASSUME TypeOK, item \in Mail
  PROVE  /\ Len(Windows) \in Nat /\ DOMAIN Windows = 1..Len(Windows)
         /\ DOMAIN Checks = 1..Len(Windows) + 3
         /\ \A i \in DOMAIN Checks : Checks[i] \in Check
         /\ Checks[1] = [scope |-> Domains, limit |-> user.throttle, window |-> 0]
         /\ Checks[2] = [scope |-> {item.domain}, limit |-> rule.throttle, window |-> 0]
         /\ \A w \in DOMAIN Windows :
               Checks[w + 2] =
                 [scope |-> Domains, limit |-> user.limits[w], window |-> Windows[w]]
         /\ Checks[Len(Windows) + 3] =
              [scope |-> {item.domain}, limit |-> rule.perHour, window |-> Hour]
<1> DEFINE f == [w \in DOMAIN Windows |->
                    [scope |-> Domains, limit |-> user.limits[w], window |-> Windows[w]]]
<1>1. /\ Len(Windows) \in Nat /\ DOMAIN Windows = 1..Len(Windows)
      /\ \A w \in DOMAIN Windows : Windows[w] \in Nat
      /\ Hour \in Nat /\ {item.domain} \in SUBSET Domains
  BY Constants DEF Mail
<1>2. PICK a \in Check, b \in Check, c \in Check :
          /\ a = [scope |-> Domains, limit |-> user.throttle, window |-> 0]
          /\ b = [scope |-> {item.domain}, limit |-> rule.throttle, window |-> 0]
          /\ c = [scope |-> {item.domain}, limit |-> rule.perHour, window |-> Hour]
  BY <1>1, LimitsTyped DEF Check
<1>3. \A w \in DOMAIN Windows : f[w] \in Check
  BY <1>1, LimitsTyped DEF Check
<1>4. f \in Seq(Check) /\ Len(f) = Len(Windows)
  BY <1>1, <1>3
<1>5. Checks = <<a, b>> \o f \o <<c>>
  BY <1>2 DEF Checks
<1>6. \A w \in DOMAIN Windows :
          f[w] = [scope |-> Domains, limit |-> user.limits[w], window |-> Windows[w]]
  OBVIOUS
<1> HIDE DEF f
<1>7. PICK s \in Seq(Check) : s = f
  BY <1>4
<1>8. /\ Len(<<a, b>> \o s \o <<c>>) = Len(s) + 3
      /\ (<<a, b>> \o s \o <<c>>)[1] = a /\ (<<a, b>> \o s \o <<c>>)[2] = b
      /\ \A w \in 1..Len(s) : (<<a, b>> \o s \o <<c>>)[w + 2] = s[w]
      /\ (<<a, b>> \o s \o <<c>>)[Len(s) + 3] = c
      /\ <<a, b>> \o s \o <<c>> \in Seq(Check)
  OBVIOUS
<1>9. Checks = <<a, b>> \o s \o <<c>> /\ Len(s) = Len(Windows)
  BY <1>4, <1>5, <1>7
<1>10. /\ Checks \in Seq(Check) /\ Len(Checks) = Len(Windows) + 3
       /\ Checks[Len(Windows) + 3] = c /\ Checks[1] = a /\ Checks[2] = b
  BY <1>8, <1>9
<1>11. \A w \in DOMAIN Windows : Checks[w + 2] = f[w]
  BY <1>1, <1>7, <1>8, <1>9
<1>12. DOMAIN Checks = 1..Len(Windows) + 3 /\ \A i \in DOMAIN Checks : Checks[i] \in Check
  BY <1>1, <1>10
<1> QED
  BY <1>1, <1>2, <1>6, <1>10, <1>11, <1>12

\* No check asks a mail to wait longer than the longest throttle or window, and one that asks
\* for no wait has room.
LEMMA ChecksWait ==
  ASSUME History, pc = "check", NEW i \in DOMAIN Checks
  PROVE  /\ WaitOf(Checks[i]) \in Nat
         /\ WaitOf(Checks[i]) > 0 => \E w \in LongestWait : w \in Nat /\ WaitOf(Checks[i]) <= w
         /\ WaitOf(Checks[i]) = 0 <=> Room(Checks[i])
<1>1. TypeOK /\ item \in Mail
  BY DEF History, WorkerOK
<1>2. PICK c \in Check : c = Checks[i]
  BY <1>1, ChecksAre
<1>3. c.limit \in Nat /\ c.window \in Nat /\ c.scope \in SUBSET Domains
  BY DEF Check
<1>4. /\ c.window = 0 => c.limit \in LongestWait \cup {0}
      /\ c.window > 0 => c.window * Second \in LongestWait
  <2>1. i \in 1..Len(Windows) + 3 /\ Len(Windows) \in Nat /\ DOMAIN Windows = 1..Len(Windows)
    BY <1>1, ChecksAre
  <2>2. i \in {1, 2, Len(Windows) + 3} \/ (i - 2 \in DOMAIN Windows /\ i = (i - 2) + 2)
    BY <2>1
  <2>3. CASE i \in {1, 2}
    <3>1. c.window = 0 /\ c.limit \in {user.throttle, rule.throttle}
      BY <1>1, <1>2, <2>3, ChecksAre
    <3> QED
      BY <1>1, <3>1, LimitsTyped
  <2>4. ASSUME NEW w \in DOMAIN Windows, i = w + 2
        PROVE  c.window > 0 /\ c.window * Second \in LongestWait
    <3>1. c.window = Windows[w]
      <4>1. Checks[w + 2] =
              [scope |-> Domains, limit |-> user.limits[w], window |-> Windows[w]]
        BY <1>1, ChecksAre
      <4> QED
        BY <1>2, <2>4, <4>1
    <3>2. Windows[w] \in Range(Windows) /\ Windows[w] > 0
      BY Constants DEF Range
    <3> QED
      BY <3>1, <3>2 DEF LongestWait
  <2>5. CASE i = Len(Windows) + 3
    <3>1. c.window = Hour /\ Hour > 0
      BY <1>1, <1>2, <2>5, ChecksAre, Constants
    <3> QED
      BY <3>1 DEF LongestWait
  <2> QED
    BY <2>2, <2>3, <2>4, <2>5
<1>5. CASE c.window = 0
  <2>1. WaitOf(c) = ThrottleWait(c.scope, c.limit)
    BY <1>5 DEF WaitOf
  <2>2. /\ WaitOf(c) \in Nat /\ WaitOf(c) <= c.limit
        /\ WaitOf(c) = 0 <=>
             c.limit = 0 \/ \A e \in SentTo(c.scope) : start - e.created * Second >= c.limit
    BY <1>3, <2>1, ThrottleWaits
  <2>3. WaitOf(c) = 0 <=> Room(c)
    BY <1>5, <2>2 DEF Room
  <2>4. WaitOf(c) > 0 => c.limit \in LongestWait
    BY <1>3, <1>4, <1>5, <2>2
  <2> QED
    BY <1>2, <1>3, <2>2, <2>3, <2>4
<1>6. CASE c.window > 0
  <2>1. WaitOf(c) = LimitWait(c.scope, c.limit, c.window)
    BY <1>3, <1>6 DEF WaitOf
  <2>2. /\ WaitOf(c) \in {0, c.window * Second} /\ c.window * Second \in Nat \ {0}
        /\ WaitOf(c) = 0 <=> c.limit = 0 \/ ~(CountSent(c.scope, c.window) >= c.limit)
    BY <1>3, <1>6, <2>1, LimitWaits
  <2>3. CountSent(c.scope, c.window) \in Nat
    BY CountTyped DEF History, RowsOK
  <2>4. WaitOf(c) = 0 <=> Room(c)
    BY <1>3, <1>6, <2>2, <2>3 DEF Room
  <2> QED
    BY <1>2, <1>4, <1>6, <2>2, <2>4
<1> QED
  BY <1>3, <1>5, <1>6

\* A mail that is put off comes back in time.
LEMMA DueInTime ==
  ASSUME now \in Nat, NEW m \in Mail, NEW seconds \in Nat, NEW w \in LongestWait, w \in Nat,
         seconds * Second <= w
  PROVE  /\ [m EXCEPT !.due = Trunc(now) + seconds] \in Mail
         /\ [m EXCEPT !.due = Trunc(now) + seconds].due * Second <= now + w
<1>0. now \in Int /\ Second \in Nat
  BY Constants
<1>1. Trunc(now) \in Int /\ Trunc(now) * Second <= now
  BY <1>0, TruncBounds
<1>2. (Trunc(now) + seconds) * Second = Trunc(now) * Second + seconds * Second
  BY <1>0, <1>1
<1>3. [m EXCEPT !.due = Trunc(now) + seconds].due = Trunc(now) + seconds
  BY DEF Mail
<1>4. [m EXCEPT !.due = Trunc(now) + seconds] \in Mail
  BY <1>1 DEF Mail
<1>5. Trunc(now) * Second \in Int /\ seconds * Second \in Int
  BY <1>0, <1>1
<1> QED
  BY <1>0, <1>1, <1>2, <1>3, <1>4, <1>5

LEMMA Deferred ==
  ASSUME NEW ticks \in Nat, ticks > 0, NEW w \in LongestWait, w \in Nat, ticks <= w
  PROVE  /\ DeferSeconds(ticks) \in Nat \ {0}
         /\ \E l \in LongestWait : l \in Nat /\ DeferSeconds(ticks) * Second <= l
<1> USE Constants
<1>1. CASE ticks < Second
  <2>1. 1 * Second \in LongestWait
    BY DEF LongestWait
  <2>2. 1 * Second = Second /\ Second \in Nat
    OBVIOUS
  <2> QED
    BY <1>1, <2>1, <2>2 DEF DeferSeconds
<1>2. CASE ~(ticks < Second)
  <2>1. DeferSeconds(ticks) = Trunc(ticks)
    BY <1>2 DEF DeferSeconds, Trunc
  <2>0. ticks \in Int
    OBVIOUS
  <2>2. Trunc(ticks) * Second <= ticks /\ Trunc(ticks) \in Int
    BY <2>0, TruncBounds
  <2>3. Trunc(Second) <= Trunc(ticks) /\ Trunc(Second) = 1
    BY <1>2, TruncMonotonic DEF Trunc
  <2>4. Trunc(ticks) * Second \in Int
    BY <2>2
  <2> QED
    BY <2>1, <2>2, <2>3, <2>4
<1> QED
  BY <1>1, <1>2

LEMMA LongestWaitTyped == LongestWait \subseteq Nat
<1>1. \A a \in AccountChoices : a.throttle \in Nat
  BY RateLimitsAssumption DEF AccountLimits
<1>2. \A r \in DomainChoices : r.throttle \in Nat
  BY RateLimitsAssumption DEF DomainLimits
<1>3. \A w \in Range(Windows) \cup {Hour, RetryDelay, 1} : w \in Nat
  BY Constants DEF Range
<1>4. \A w \in Nat : w * Second \in Nat
  BY Constants
<1> QED
  BY <1>1, <1>2, <1>3, <1>4 DEF LongestWait

-----------------------------------------------------------------------------
(* Types, and the history *)

\* A mail that waits for its next attempt.
WaitsInTime(m) == m \in Mail /\ \E w \in LongestWait : m.due * Second <= now + w

\* TypeOK, the mails apart: what everybody sees, and what the worker has read.
SharedOK ==
    /\ now \in 0..MaxTime
    /\ account \in AccountChoices
    /\ rules \in [Domains -> [Spellings -> DomainChoices \cup {NoRule}]]
    /\ mails \in 0..MaxMails
    /\ events \subseteq Event
    /\ sends \in Seq(Send \cup {Forgotten})
    /\ Len(sends) <= MaxSends

LocalOK ==
    /\ pc \in Phases
    /\ item \in Mail \cup {NoItem}
    /\ user \in AccountChoices \cup {NoAccount}
    /\ rule \in DomainChoices \cup {NoRule}
    /\ start \in 0..MaxTime
    /\ asked \in 0..Len(Windows) + 3
    /\ wait \in Nat
    /\ inForce \in [accounts : SUBSET AccountChoices,
                   rules : SUBSET [Spellings -> DomainChoices \cup {NoRule}]]

LEMMA TypeOKParts == TypeOK <=> SharedOK /\ LocalOK /\ \A m \in waiting : WaitsInTime(m)
  BY DEF TypeOK, SharedOK, LocalOK, WaitsInTime

\* The worker has read nothing, as between two mails.
LEMMA NothingRead ==
  NoAccount \in AccountChoices \cup {NoAccount} /\ 0 \in 0..MaxTime /\ 0 \in 0..Len(Windows) + 3
  /\ Nothing \in [accounts : SUBSET AccountChoices,
                  rules : SUBSET [Spellings -> DomainChoices \cup {NoRule}]]
  BY RateLimitsAssumption DEF Nothing

LEMMA PutOffTyped ==
  ASSUME TypeOK, UNCHANGED now, NEW m \in Mail, NEW seconds \in Nat, PutOff(m, seconds),
         \E w \in LongestWait : seconds * Second <= w
  PROVE  \A k \in waiting' : WaitsInTime(k)'
<1>1. now \in Nat /\ \A k \in waiting : WaitsInTime(k)
  BY RateLimitsAssumption, TypeOKParts DEF SharedOK
<1>2. PICK w \in LongestWait : w \in Nat /\ seconds * Second <= w
  BY LongestWaitTyped
<1>3. PICK l : l = [m EXCEPT !.due = Trunc(now) + seconds]
  OBVIOUS
<1>4. l \in Mail /\ l.due * Second <= now + w
  BY <1>1, <1>2, <1>3, DueInTime
<1>5. WaitsInTime(l)
  BY <1>4 DEF WaitsInTime
<1>6. \A k \in waiting' : k \in waiting \/ k = l
  BY <1>3 DEF PutOff
<1>7. \A k : WaitsInTime(k) => WaitsInTime(k)'
  BY DEF WaitsInTime
<1> QED
  BY <1>1, <1>5, <1>6, <1>7

\* The steps after which some mails wait as they did.
LEMMA SomeWait ==
  ASSUME TypeOK, UNCHANGED now, waiting' \subseteq waiting
  PROVE  \A k \in waiting' : WaitsInTime(k)'
  BY TypeOKParts DEF WaitsInTime

\* The steps of the worker before SendMail: what everybody sees but the mails stays as it is.
LEMMA SharedKept ==
  ASSUME History, UNCHANGED <<now, account, rules, mails, events, sends>>
  PROVE  SharedOK' /\ SendsOK'
<1>1. Known' = Known
  BY DEF Known
<1> QED
  BY <1>1, TypeOKParts DEF History, SharedOK, SendsOK

\* Rows stay what they are unless the worker comes to, or leaves, the moment of logging.
LEMMA RowsKept ==
  ASSUME History, UNCHANGED <<events, sends>>, pc # "accepted", pc' # "accepted"
  PROVE  RowsOK' /\ NoneMissing'
<1>1. Known' = Known
  BY DEF Known
<1> QED
  BY <1>1 DEF History, RowsOK, NoneMissing, Trunc

\* A mail that is done with, whatever becomes of it.
LEMMA DoneOK ==
  ASSUME SharedOK', SendsOK', RowsOK', NoneMissing', \A k \in waiting' : WaitsInTime(k)',
         Done, inForce' = Nothing
  PROVE  History'
<1>1. LocalOK'
  BY NothingRead DEF LocalOK, Done, Phases
<1>2. WorkerOK' /\ ReadOK' /\ AskedOK'
  <2>1. now' \in Nat
    BY RateLimitsAssumption DEF SharedOK
  <2> QED
    BY <2>1 DEF WorkerOK, ReadOK, AskedOK, Done, Checking
<1>3. TypeOK'
  BY <1>1 DEF TypeOK, SharedOK, LocalOK, WaitsInTime
<1> QED
  BY <1>2, <1>3 DEF History

LEMMA ReadAccountHistory ==
  ASSUME History, NEW m \in waiting, ReadAccount(m)
  PROVE  History'
<1>1. TypeOK /\ SharedOK /\ LocalOK /\ m \in Mail /\ m.domain \in Domains
  BY TypeOKParts DEF History, WaitsInTime, Mail
<1>2. /\ UNCHANGED <<now, account, rules, waiting, mails, events, sends>>
      /\ UNCHANGED <<rule, start, asked, wait>>
      /\ pc = "idle" /\ pc' = "rule" /\ item' = m /\ user' = account
      /\ inForce' = [accounts |-> {account}, rules |-> {rules[m.domain]}]
  BY DEF ReadAccount
<1>3. SharedOK' /\ SendsOK' /\ RowsOK' /\ NoneMissing'
  BY <1>2, SharedKept, RowsKept
<1>4. LocalOK'
  <2>1. rules[m.domain] \in [Spellings -> DomainChoices \cup {NoRule}]
        /\ account \in AccountChoices
    BY <1>1 DEF SharedOK
  <2>2. inForce' \in [accounts : SUBSET AccountChoices,
                      rules : SUBSET [Spellings -> DomainChoices \cup {NoRule}]]
    BY <1>2, <2>1
  <2> QED
    BY <1>1, <1>2, <2>1, <2>2 DEF LocalOK, Phases
<1>5. TypeOK'
  BY <1>1, <1>2, <1>3, <1>4, SomeWait DEF TypeOK, SharedOK, LocalOK, WaitsInTime
<1>6. WorkerOK' /\ ReadOK' /\ AskedOK'
  BY <1>1, <1>2 DEF History, WorkerOK, ReadOK, AskedOK, Checking
<1> QED
  BY <1>3, <1>5, <1>6 DEF History

LEMMA ReadRuleHistory ==
  ASSUME History, ReadRule
  PROVE  History'
<1>1. TypeOK /\ SharedOK /\ LocalOK /\ item \in Mail /\ item.domain \in Domains
  BY TypeOKParts DEF History, WorkerOK, ReadRule, Mail
<1>2. /\ UNCHANGED <<now, account, rules, waiting, mails, events, sends>>
      /\ UNCHANGED <<item, user, start, asked, wait, inForce>>
      /\ pc = "rule" /\ pc' = "clock" /\ rule' = rules[item.domain]["lower"]
  BY DEF ReadRule, RuleFor, observed
<1>3. SharedOK' /\ SendsOK' /\ RowsOK' /\ NoneMissing'
  BY <1>2, SharedKept, RowsKept
<1>4. LocalOK'
  <2>1. rule' \in DomainChoices \cup {NoRule}
    BY <1>1, <1>2, RateLimitsAssumption DEF SharedOK
  <2> QED
    BY <1>1, <1>2, <2>1 DEF LocalOK, Phases
<1>5. TypeOK'
  BY <1>1, <1>2, <1>3, <1>4, SomeWait DEF TypeOK, SharedOK, LocalOK, WaitsInTime
<1>6. WorkerOK' /\ ReadOK' /\ AskedOK'
  BY <1>1, <1>2 DEF History, WorkerOK, ReadOK, AskedOK, Checking
<1> QED
  BY <1>3, <1>5, <1>6 DEF History

LEMMA ReadClockHistory ==
  ASSUME History, ReadClock
  PROVE  History'
<1>1. TypeOK /\ SharedOK /\ LocalOK /\ item \in Mail
  BY TypeOKParts DEF History, WorkerOK, ReadClock
<1>2. /\ UNCHANGED <<now, account, rules, waiting, mails, events, sends>>
      /\ UNCHANGED <<item, user, rule, asked, wait, inForce>>
      /\ pc = "clock" /\ pc' = "check" /\ start' = now
  BY DEF ReadClock, observed
<1>3. SharedOK' /\ SendsOK' /\ RowsOK' /\ NoneMissing'
  BY <1>2, SharedKept, RowsKept
<1>4. LocalOK' /\ now \in Nat
  BY <1>1, <1>2, RateLimitsAssumption DEF SharedOK, LocalOK, Phases
<1>5. TypeOK'
  BY <1>1, <1>2, <1>3, <1>4, SomeWait DEF TypeOK, SharedOK, LocalOK, WaitsInTime
<1>6. WorkerOK' /\ ReadOK'
  BY <1>1, <1>2, <1>4 DEF History, WorkerOK, ReadOK, Checking
\* Nothing was asked yet.
<1>7. AskedOK'
  <2>1. Known' = Known
    BY <1>2 DEF Known
  <2>2. \A n \in Known' : sends'[n].logged <= start'
    BY <1>2, <2>1 DEF History, SendsOK
  <2>3. asked = 0
    BY <1>2 DEF History, AskedOK
  <2>4. Checks' = Checks
    BY <1>2 DEF Checks
  <2>5. \A i \in DOMAIN Checks : ~(i <= 0)
    BY <1>1, ChecksAre
  <2> QED
    BY <1>2, <2>2, <2>3, <2>4, <2>5 DEF AskedOK
<1> QED
  BY <1>3, <1>5, <1>6, <1>7 DEF History

LEMMA CheckPassesHistory ==
  ASSUME History, CheckPasses
  PROVE  History'
<1>1. TypeOK /\ SharedOK /\ LocalOK /\ item \in Mail /\ pc = "check"
  BY TypeOKParts DEF History, WorkerOK, CheckPasses
<1>2. /\ UNCHANGED <<now, account, rules, waiting, mails, events, sends>>
      /\ UNCHANGED <<pc, item, user, rule, start, wait, inForce>>
  BY DEF CheckPasses, observed
<1>3. PICK i \in Upcoming :
          /\ \A j \in Upcoming : i <= j
          /\ WaitOf(Checks[i]) = 0
          /\ asked' = i
  BY DEF CheckPasses
<1>4. i \in DOMAIN Checks /\ i \in 1..Len(Windows) + 3
  BY <1>1, ChecksAre DEF Upcoming
<1>5. SharedOK' /\ SendsOK' /\ RowsOK' /\ NoneMissing'
  BY <1>1, <1>2, SharedKept, RowsKept
<1>6. LocalOK'
  <2>1. asked' \in 0..Len(Windows) + 3
    BY <1>3, <1>4, Constants
  <2> QED
    BY <1>1, <1>2, <2>1 DEF LocalOK
<1>7. TypeOK'
  BY <1>1, <1>2, <1>5, <1>6, SomeWait DEF TypeOK, SharedOK, LocalOK, WaitsInTime
<1>8. WorkerOK' /\ ReadOK'
  BY <1>1, <1>2 DEF History, WorkerOK, ReadOK, Checking, Known
\* This check has room, and those passed over have no limit.
<1>9. \A j \in DOMAIN Checks : j <= i => Room(Checks[j])
  <2> SUFFICES ASSUME NEW j \in DOMAIN Checks, j <= i
               PROVE  Room(Checks[j])
    OBVIOUS
  <2>1. /\ j \in Nat /\ i \in Nat /\ asked \in Nat
        /\ Checks[j] \in Check /\ Checks[j].limit \in Nat
    BY <1>1, <1>4, ChecksAre DEF LocalOK, Check
  <2>2. CASE j <= asked
    BY <1>1, <2>2 DEF History, AskedOK
  <2>3. CASE j > asked /\ j < i
    <3>1. j \notin Upcoming
      BY <1>3, <2>1, <2>3
    <3>2. Checks[j].limit = 0
      BY <2>1, <2>3, <3>1 DEF Upcoming
    <3> QED
      BY <3>2 DEF Room
  <2>4. CASE j = i
    BY <1>1, <1>3, <1>4, <2>4, ChecksWait
  <2> QED
    BY <2>1, <2>2, <2>3, <2>4
<1>10. AskedOK'
  <2>1. Known' = Known /\ Checks' = Checks
    BY <1>2 DEF Known, Checks
  <2>2. \A c : Room(c) => Room(c)'
    BY <1>2 DEF Room, SentTo, CountSent, Trunc
  <2> QED
    BY <1>1, <1>2, <1>3, <1>9, <2>1, <2>2 DEF History, AskedOK
<1> QED
  BY <1>5, <1>7, <1>8, <1>10 DEF History

LEMMA CheckObjectsHistory ==
  ASSUME History, CheckObjects
  PROVE  History'
<1>1. TypeOK /\ SharedOK /\ LocalOK /\ item \in Mail /\ pc = "check"
  BY TypeOKParts DEF History, WorkerOK, CheckObjects
<1>2. /\ UNCHANGED <<now, account, rules, waiting, mails, events, sends, item>>
      /\ pc' = "hold" /\ EndCheck
  BY DEF CheckObjects
<1>3. PICK i \in Upcoming : WaitOf(Checks[i]) > 0 /\ wait' = WaitOf(Checks[i])
  BY DEF CheckObjects
<1>4. wait' \in Nat /\ wait' > 0 /\ \E w \in LongestWait : wait' <= w
  <2>1. i \in DOMAIN Checks
    BY DEF Upcoming
  <2> QED
    BY <1>1, <1>3, <2>1, ChecksWait
<1>5. SharedOK' /\ SendsOK' /\ RowsOK' /\ NoneMissing'
  BY <1>1, <1>2, SharedKept, RowsKept
<1>6. LocalOK' /\ now \in Nat
  BY <1>1, <1>2, <1>4, NothingRead, RateLimitsAssumption
  DEF SharedOK, LocalOK, EndCheck, Phases
<1>7. TypeOK'
  BY <1>1, <1>2, <1>5, <1>6, SomeWait DEF TypeOK, SharedOK, LocalOK, WaitsInTime
<1>8. WorkerOK' /\ ReadOK' /\ AskedOK'
  BY <1>1, <1>2, <1>4, <1>6 DEF WorkerOK, ReadOK, AskedOK, Checking, EndCheck, LongestWait
<1> QED
  BY <1>5, <1>7, <1>8 DEF History

LEMMA PassHistory ==
  ASSUME History, Pass
  PROVE  History'
<1>1. TypeOK /\ SharedOK /\ LocalOK /\ item \in Mail /\ pc = "check"
  BY TypeOKParts DEF History, WorkerOK, Pass
<1>2. /\ UNCHANGED <<now, account, rules, waiting, mails, events, sends, item, wait>>
      /\ pc' = "send" /\ EndCheck
  BY DEF Pass
<1>3. SharedOK' /\ SendsOK' /\ RowsOK' /\ NoneMissing'
  BY <1>1, <1>2, SharedKept, RowsKept
<1>4. LocalOK' /\ now \in Nat
  BY <1>1, <1>2, NothingRead, RateLimitsAssumption DEF SharedOK, LocalOK, EndCheck, Phases
<1>5. TypeOK'
  BY <1>1, <1>2, <1>3, <1>4, SomeWait DEF TypeOK, SharedOK, LocalOK, WaitsInTime
<1>6. WorkerOK' /\ ReadOK' /\ AskedOK'
  BY <1>1, <1>2, <1>4 DEF WorkerOK, ReadOK, AskedOK, Checking, EndCheck
<1> QED
  BY <1>3, <1>5, <1>6 DEF History

\* A retry is no longer than the longest wait.
LEMMA RetryInTime == RetryDelay \in Nat /\ \E w \in LongestWait : RetryDelay * Second <= w
<1>1. RetryDelay \in Nat /\ RetryDelay * Second \in LongestWait
  BY Constants DEF LongestWait
<1>2. PICK w \in Nat : w = RetryDelay * Second
  BY <1>1, LongestWaitTyped
<1>3. w <= w
  OBVIOUS
<1> QED
  BY <1>1, <1>2, <1>3

LEMMA HoldHistory ==
  ASSUME History, Hold
  PROVE  History'
<1>1. TypeOK /\ item \in Mail /\ pc = "hold" /\ wait \in Nat
  BY TypeOKParts DEF History, WorkerOK, Hold, LocalOK
<1>2. /\ UNCHANGED <<now, account, rules, mails, events, sends, inForce>>
      /\ PutOff(item, DeferSeconds(wait)) /\ Done
  BY DEF Hold, observed
<1>3. SharedOK' /\ SendsOK' /\ RowsOK' /\ NoneMissing'
  BY <1>1, <1>2, SharedKept, RowsKept DEF Done
<1>4. PICK w \in LongestWait : wait <= w /\ w \in Nat
  BY <1>1, LongestWaitTyped DEF History, AskedOK
<1>5. wait > 0
  BY <1>1 DEF History, AskedOK
<1>6. PICK seconds \in Nat : /\ seconds = DeferSeconds(wait)
                             /\ \E l \in LongestWait : seconds * Second <= l
  BY <1>1, <1>4, <1>5, Deferred
<1>7. \A k \in waiting' : WaitsInTime(k)'
  BY <1>1, <1>2, <1>6, PutOffTyped
<1>8. inForce' = Nothing
  BY <1>1, <1>2 DEF History, ReadOK, Checking
<1> QED
  BY <1>2, <1>3, <1>7, <1>8, DoneOK

LEMMA CheckFailsHistory ==
  ASSUME History, CheckFails
  PROVE  History'
<1>1. TypeOK /\ item \in Mail /\ pc # "accepted"
  BY DEF History, WorkerOK, CheckFails, Checking
<1>2. /\ UNCHANGED <<now, account, rules, mails, events, sends>>
      /\ PutOff(item, RetryDelay) \/ waiting' = waiting
      /\ Done /\ inForce' = Nothing
  BY DEF CheckFails
<1>3. SharedOK' /\ SendsOK' /\ RowsOK' /\ NoneMissing'
  BY <1>1, <1>2, SharedKept, RowsKept DEF Done
<1>4. \A k \in waiting' : WaitsInTime(k)'
  BY <1>1, <1>2, SomeWait, PutOffTyped, RetryInTime
<1> QED
  BY <1>2, <1>3, <1>4, DoneOK

LEMMA RejectedHistory ==
  ASSUME History, Rejected
  PROVE  History'
<1>1. TypeOK /\ item \in Mail /\ pc = "send"
  BY DEF History, WorkerOK, Rejected
<1>2. /\ UNCHANGED <<now, account, rules, mails, events, sends, inForce>>
      /\ PutOff(item, RetryDelay) \/ waiting' = waiting \ {item}
      /\ Done
  BY DEF Rejected, observed
<1>3. SharedOK' /\ SendsOK' /\ RowsOK' /\ NoneMissing'
  BY <1>1, <1>2, SharedKept, RowsKept DEF Done
<1>4. \A k \in waiting' : WaitsInTime(k)'
  BY <1>1, <1>2, SomeWait, PutOffTyped, RetryInTime
<1>5. inForce' = Nothing
  BY <1>1, <1>2 DEF History, ReadOK, Checking
<1> QED
  BY <1>2, <1>3, <1>4, <1>5, DoneOK

LEMMA AcceptedHistory ==
  ASSUME History, Accepted
  PROVE  History'
<1>1. /\ TypeOK /\ SharedOK /\ LocalOK /\ item \in Mail /\ item.domain \in Domains
      /\ now \in 0..MaxTime /\ now \in Nat /\ pc = "send"
  BY TypeOKParts, RateLimitsAssumption DEF History, WorkerOK, Accepted, Mail, SharedOK
<1>2. /\ UNCHANGED <<now, account, rules, waiting, mails, events>>
      /\ UNCHANGED <<item, user, rule, start, asked, wait, inForce>>
      /\ pc' = "accepted" /\ Len(sends) < MaxSends
      /\ sends' = Append(sends, [domain |-> item.domain, at |-> now, logged |-> now])
  BY DEF Accepted, read
<1>3. PICK s \in Send : s = [domain |-> item.domain, at |-> now, logged |-> now]
  BY <1>1 DEF Send
<1>4. PICK n \in Nat : n = Len(sends)
  BY <1>1 DEF SharedOK
<1>5. /\ sends' \in Seq(Send \cup {Forgotten}) /\ Len(sends') = n + 1
      /\ \A k \in 1..n : sends'[k] = sends[k]
      /\ sends'[n + 1] = s
  BY <1>1, <1>2, <1>3, <1>4 DEF SharedOK
<1>6. s # Forgotten /\ s.at = now /\ s.logged = now /\ s.domain = item.domain
  BY <1>1, <1>3 DEF Forgotten
<1>7. Known' = Known \cup {n + 1} /\ Known \subseteq 1..n
  BY <1>4, <1>5, <1>6 DEF Known
<1>8. SharedOK'
  <2>1. Len(sends') <= MaxSends
    BY <1>2, <1>4, <1>5, RateLimitsAssumption
  <2> QED
    BY <1>1, <1>2, <1>5, <2>1 DEF SharedOK
<1>9. TypeOK'
  <2>1. LocalOK'
    BY <1>1, <1>2 DEF LocalOK, Phases
  <2> QED
    BY <1>1, <1>2, <1>8, <2>1, SomeWait DEF TypeOK, SharedOK, LocalOK, WaitsInTime
<1>10. WorkerOK' /\ ReadOK' /\ AskedOK'
  BY <1>1, <1>2, <1>5, <1>6, <1>7 DEF History, WorkerOK, ReadOK, AskedOK, Checking
<1>11. SendsOK'
  <2>1. \A k \in Known : sends'[k] = sends[k]
    BY <1>5, <1>7
  <2>2. sends'[n + 1].at <= sends'[n + 1].logged /\ sends'[n + 1].logged <= now
    BY <1>1, <1>5, <1>6
  <2> QED
    BY <1>2, <1>7, <2>1, <2>2 DEF History, SendsOK
<1>12. RowsOK'
  <2>1. \A e \in events : e.send \in 1..n
    BY <1>7, EventFacts
  <2> QED
    BY <1>2, <1>5, <1>7, <2>1 DEF History, RowsOK, Trunc
<1>13. NoneMissing'
  BY <1>1, <1>2, <1>5, <1>7 DEF History, NoneMissing
<1> QED
  BY <1>9, <1>10, <1>11, <1>12, <1>13 DEF History

LEMMA LogSentHistory ==
  ASSUME History, LogSent
  PROVE  History'
<1>1. /\ TypeOK /\ SharedOK /\ item \in Mail /\ item.domain \in Domains
      /\ now \in 0..MaxTime /\ now \in Nat /\ now \in Int /\ pc = "accepted"
  BY TypeOKParts, RateLimitsAssumption DEF History, WorkerOK, LogSent, Mail, SharedOK
<1>2. PICK n \in 1..MaxSends : n = Len(sends) /\ n \in Known
  BY <1>1, KnownSends DEF History, WorkerOK, SharedOK
<1>3. PICK e : e = [send |-> n, domain |-> item.domain, created |-> Trunc(now)]
  OBVIOUS
<1>4. /\ UNCHANGED <<now, account, rules, mails, inForce>> /\ waiting' = waiting \ {item}
      /\ events' = events \cup {e} /\ sends' = [sends EXCEPT ![n].logged = now]
      /\ Done
  BY <1>2, <1>3 DEF LogSent
<1>5. PICK s \in Send : s = [sends[n] EXCEPT !.logged = now]
  BY <1>1, <1>2, KnownSends DEF Send
<1>6. s.domain = item.domain /\ s.logged = now /\ s.at = sends[n].at /\ s # Forgotten
  BY <1>1, <1>2, <1>5, KnownSends, RateLimitsAssumption
  DEF Send, History, WorkerOK, Forgotten
<1>7. sends' = [sends EXCEPT ![n] = s]
  BY <1>4, <1>5
<1>8. /\ sends' \in Seq(Send \cup {Forgotten}) /\ Len(sends') = n
      /\ \A k \in 1..n : sends'[k] = IF k = n THEN s ELSE sends[k]
  BY <1>1, <1>2, <1>7 DEF SharedOK
<1>9. Known' = Known
  BY <1>2, <1>6, <1>8 DEF Known
<1>10. e \in Event /\ e.send = n /\ e.domain = item.domain /\ e.created = Trunc(now)
  BY <1>1, <1>2, <1>3, TruncBounds DEF Event
<1>11. \A f \in events : f.send \in Known /\ f.send # n
  BY <1>1, <1>2, EventFacts DEF History, RowsOK
<1>12. SharedOK'
  BY <1>1, <1>2, <1>4, <1>8, <1>10 DEF SharedOK
<1>13. SendsOK'
  <2>1. \A k \in Known : /\ sends[k].at \in Nat /\ sends[k].logged \in Nat
                         /\ sends[k].at <= sends[k].logged /\ sends[k].logged <= now
    BY <1>1, KnownSends DEF History, SendsOK
  <2>2. \A k \in Known : k \in 1..n
    BY <1>2 DEF Known
  <2> QED
    BY <1>1, <1>2, <1>4, <1>6, <1>8, <1>9, <2>1, <2>2 DEF SendsOK
<1>14. RowsOK'
  <2>1. IsFiniteSet(events')
    BY <1>4, FS_AddElement DEF History, RowsOK
  <2>2. \A f \in events' : /\ f.send \in Known' /\ f.domain = sends'[f.send].domain
                           /\ f.created = Trunc(sends'[f.send].logged)
    <3>1. \A f \in events : f.send \in 1..n /\ sends'[f.send] = sends[f.send]
      BY <1>2, <1>8, <1>11 DEF Known
    <3>2. sends'[e.send] = s /\ e.send \in Known'
      BY <1>2, <1>8, <1>9, <1>10
    <3> QED
      BY <1>4, <1>6, <1>9, <1>10, <1>11, <3>1, <3>2 DEF History, RowsOK
  <2>3. \A f, g \in events' : f.send = g.send => f = g
    BY <1>4, <1>10, <1>11 DEF History, RowsOK
  <2> QED
    BY <1>4, <2>1, <2>2, <2>3 DEF RowsOK, Trunc, Done
<1>15. NoneMissing'
  BY <1>1, <1>2, <1>4, <1>9, <1>10 DEF History, NoneMissing
<1>16. \A k \in waiting' : WaitsInTime(k)'
  BY <1>1, <1>4, SomeWait
<1>17. inForce' = Nothing
  BY <1>1, <1>4 DEF History, ReadOK, Checking
<1> QED
  BY <1>4, <1>12, <1>13, <1>14, <1>15, <1>16, <1>17, DoneOK

LEMMA Forgetting ==
  ASSUME TypeOK, NEW numbers, Forget(numbers)
  PROVE  /\ sends' \in Seq(Send \cup {Forgotten}) /\ Len(sends') = Len(sends)
         /\ Known' = Known \ numbers
         /\ \A n \in Known' : sends'[n] = sends[n]
<1>1. sends \in Seq(Send \cup {Forgotten})
  BY DEF TypeOK
<1>2. sends' = [n \in 1..Len(sends) |-> IF n \in numbers THEN Forgotten ELSE sends[n]]
  BY <1>1 DEF Forget
<1>3. /\ sends' \in Seq(Send \cup {Forgotten}) /\ Len(sends') = Len(sends)
      /\ \A n \in 1..Len(sends) :
            sends'[n] = IF n \in numbers THEN Forgotten ELSE sends[n]
  BY <1>1, <1>2
<1> QED
  BY <1>3 DEF Known

LEMMA SentUnloggedHistory ==
  ASSUME History, SentUnlogged
  PROVE  History'
<1>1. TypeOK /\ SharedOK /\ pc = "accepted"
  BY TypeOKParts DEF History, SentUnlogged
<1>2. PICK n \in 1..MaxSends : n = Len(sends) /\ n \in Known
  BY <1>1, KnownSends DEF History, WorkerOK, SharedOK
<1>3. /\ UNCHANGED <<now, account, rules, mails, events, inForce>>
      /\ waiting' \subseteq waiting /\ Forget({n}) /\ Done
  BY <1>2 DEF SentUnlogged
<1>4. /\ sends' \in Seq(Send \cup {Forgotten}) /\ Len(sends') = n
      /\ Known' = Known \ {n} /\ \A k \in Known' : sends'[k] = sends[k]
  BY <1>1, <1>2, <1>3, Forgetting
<1>5. SharedOK'
  BY <1>1, <1>2, <1>3, <1>4 DEF SharedOK
<1>6. SendsOK'
  BY <1>3, <1>4 DEF History, SendsOK
<1>7. RowsOK'
  <2>1. \A e \in events : e.send \in Known'
    BY <1>1, <1>2, <1>4 DEF History, RowsOK
  <2> QED
    BY <1>3, <1>4, <2>1 DEF History, RowsOK, Trunc, Done
<1>8. NoneMissing'
  BY <1>1, <1>2, <1>3, <1>4 DEF History, NoneMissing
<1>9. \A k \in waiting' : WaitsInTime(k)'
  BY <1>1, <1>3, SomeWait
<1>10. inForce' = Nothing
  BY <1>1, <1>3 DEF History, ReadOK, Checking
<1> QED
  BY <1>3, <1>5, <1>6, <1>7, <1>8, <1>9, <1>10, DoneOK

LEMMA WorkerHistory ==
  ASSUME History, WorkerStep
  PROVE  History'
  BY ReadAccountHistory, ReadRuleHistory, ReadClockHistory, CheckPassesHistory,
     CheckObjectsHistory, PassHistory, HoldHistory, CheckFailsHistory, AcceptedHistory,
     RejectedHistory, LogSentHistory, SentUnloggedHistory
  DEF WorkerStep

-----------------------------------------------------------------------------
(* Steps of others *)

\* What everybody else may do to limits that are being read.
LEMMA OthersKeep ==
  ASSUME History, UNCHANGED <<start, worker, events, sends>>, now' \in Nat, now <= now',
         inForce.accounts \subseteq inForce'.accounts, inForce.rules \subseteq inForce'.rules,
         Checking => rules'[item.domain] \in inForce'.rules,
         ~Checking => inForce' = inForce
  PROVE  WorkerOK' /\ SendsOK' /\ RowsOK' /\ NoneMissing' /\ ReadOK' /\ AskedOK'
<1>1. UNCHANGED <<pc, item, user, rule, start, asked, wait, events, sends>>
  BY DEF worker, read
<1>2. Known' = Known /\ Checks' = Checks
  BY <1>1 DEF Known, Checks
<1>3. WorkerOK' /\ NoneMissing'
  BY <1>1, <1>2 DEF History, WorkerOK, NoneMissing
<1>4. now \in Nat /\ start \in Nat /\ TypeOK
  BY RateLimitsAssumption DEF History, TypeOK
<1>5. SendsOK'
  BY <1>1, <1>2, <1>4, KnownSends DEF History, SendsOK
<1>6. RowsOK'
  BY <1>1, <1>2 DEF History, RowsOK, Trunc
<1>7. ReadOK'
  BY <1>1, <1>4 DEF History, ReadOK, Checking
<1>8. AskedOK'
  <2>1. \A c : Room(c) => Room(c)'
    BY <1>1 DEF Room, SentTo, CountSent, Trunc
  <2> QED
    BY <1>1, <1>2, <2>1 DEF History, AskedOK
<1> QED
  BY <1>3, <1>5, <1>6, <1>7, <1>8

LEMMA TickHistory ==
  ASSUME History, Tick
  PROVE  History'
<1>1. TypeOK /\ SharedOK /\ LocalOK /\ now \in Nat
  BY TypeOKParts, RateLimitsAssumption DEF History, SharedOK
<1>2. /\ UNCHANGED <<account, rules, waiting, mails, events, sends, inForce, worker>>
      /\ now' = now + 1 /\ now < MaxTime
  BY DEF Tick, observed
<1>3. SharedOK' /\ LocalOK'
  BY <1>1, <1>2, RateLimitsAssumption DEF SharedOK, LocalOK, worker, read
<1>4. \A m \in waiting' : WaitsInTime(m)'
  <2> SUFFICES ASSUME NEW m \in waiting
               PROVE  m \in Mail /\ \E w \in LongestWait : m.due * Second <= now' + w
    BY <1>2 DEF WaitsInTime
  <2>1. m \in Mail /\ m.due \in Int
    BY <1>1, TypeOKParts DEF WaitsInTime, Mail
  <2>2. PICK due \in Int : due = m.due * Second
    BY <2>1, Constants
  <2>3. PICK w \in LongestWait : due <= now + w /\ w \in Nat
    BY <1>1, <2>2, TypeOKParts, LongestWaitTyped DEF WaitsInTime
  <2>4. due <= now' + w
    BY <1>1, <1>2, <2>3
  <2> QED
    BY <2>1, <2>2, <2>3, <2>4
<1>5. now' \in Nat /\ now <= now'
  BY <1>1, <1>2
<1>6. WorkerOK' /\ SendsOK' /\ RowsOK' /\ NoneMissing' /\ ReadOK' /\ AskedOK'
  BY <1>2, <1>5, OthersKeep DEF History, ReadOK, worker, read
<1> QED
  BY <1>3, <1>4, <1>6 DEF History, TypeOK, SharedOK, LocalOK, WaitsInTime

LEMMA SubmitHistory ==
  ASSUME History, NEW d \in Domains, Submit(d)
  PROVE  History'
<1>1. TypeOK /\ SharedOK /\ LocalOK /\ now \in Nat /\ now \in Int
  BY TypeOKParts, RateLimitsAssumption DEF History, SharedOK
<1>2. PICK l : l = [id |-> mails + 1, domain |-> d, due |-> Trunc(now)]
  OBVIOUS
<1>3. /\ UNCHANGED <<now, account, rules, events, sends, inForce, worker>>
      /\ mails < MaxMails /\ mails' = mails + 1 /\ mails \in 0..MaxMails
      /\ waiting' = waiting \cup {l}
  BY <1>1, <1>2 DEF Submit, observed, SharedOK
<1>4. SharedOK' /\ LocalOK'
  BY <1>1, <1>3, RateLimitsAssumption DEF SharedOK, LocalOK, worker, read
<1>5. Trunc(now) \in Int /\ Trunc(now) * Second <= now /\ Trunc(now) * Second \in Int
  <2>1. Trunc(now) \in Int /\ Trunc(now) * Second <= now
    BY <1>1, TruncBounds
  <2> QED
    BY <2>1, Constants
<1>6. l \in Mail /\ l.due = Trunc(now)
  BY <1>2, <1>3, <1>5, RateLimitsAssumption DEF Mail
<1>7. WaitsInTime(l)'
  <2>1. 1 * Second \in LongestWait
    BY DEF LongestWait
  <2>2. PICK w \in LongestWait : w \in Nat
    BY <2>1, LongestWaitTyped
  <2>3. l.due * Second <= now + w
    BY <1>1, <1>5, <1>6, <2>2
  <2> QED
    BY <1>3, <1>6, <2>2, <2>3 DEF WaitsInTime
<1>8. \A m \in waiting' : WaitsInTime(m)'
  BY <1>1, <1>3, <1>7, TypeOKParts DEF WaitsInTime
<1>9. WorkerOK' /\ SendsOK' /\ RowsOK' /\ NoneMissing' /\ ReadOK' /\ AskedOK'
  BY <1>1, <1>3, OthersKeep DEF History, ReadOK, worker, read
<1> QED
  BY <1>4, <1>8, <1>9 DEF History, TypeOK, SharedOK, LocalOK, WaitsInTime

LEMMA SetAccountHistory ==
  ASSUME History, NEW limits \in AccountChoices, SetAccount(limits)
  PROVE  History'
<1>1. TypeOK /\ SharedOK /\ LocalOK /\ now \in Nat
  BY TypeOKParts, RateLimitsAssumption DEF History, SharedOK
<1>2. /\ UNCHANGED <<now, rules, waiting, mails, events, sends, worker>>
      /\ account' = limits
      /\ inForce' = IF Checking
                    THEN [inForce EXCEPT !.accounts = inForce.accounts \cup {limits}]
                    ELSE inForce
  BY DEF SetAccount
<1>3. /\ inForce' \in [accounts : SUBSET AccountChoices,
                       rules : SUBSET [Spellings -> DomainChoices \cup {NoRule}]]
      /\ inForce.accounts \subseteq inForce'.accounts /\ inForce'.rules = inForce.rules
  BY <1>1, <1>2 DEF LocalOK
<1>4. SharedOK' /\ LocalOK'
  BY <1>1, <1>2, <1>3 DEF SharedOK, LocalOK, worker, read
<1>5. WorkerOK' /\ SendsOK' /\ RowsOK' /\ NoneMissing' /\ ReadOK' /\ AskedOK'
  BY <1>1, <1>2, <1>3, OthersKeep DEF History, ReadOK, worker, read
<1> QED
  BY <1>1, <1>2, <1>4, <1>5, SomeWait DEF History, TypeOK, SharedOK, LocalOK, WaitsInTime

LEMMA SetRuleHistory ==
  ASSUME History, NEW d \in Domains, NEW s \in Spellings, NEW limits \in DomainChoices,
         SetRule(d, s, limits)
  PROVE  History'
<1>1. TypeOK /\ SharedOK /\ LocalOK /\ now \in Nat
  BY TypeOKParts, RateLimitsAssumption DEF History, SharedOK
<1>2. /\ UNCHANGED <<now, account, waiting, mails, events, sends, worker>>
      /\ rules' = [rules EXCEPT ![d] = [rules[d] EXCEPT ![s] = limits]]
      /\ inForce' = IF Checking
                    THEN [inForce EXCEPT !.rules = inForce.rules \cup {rules'[item.domain]}]
                    ELSE inForce
  BY DEF SetRule
<1>3. rules' \in [Domains -> [Spellings -> DomainChoices \cup {NoRule}]]
  <2>1. [rules[d] EXCEPT ![s] = limits] \in [Spellings -> DomainChoices \cup {NoRule}]
    BY <1>1 DEF SharedOK
  <2> QED
    BY <1>1, <1>2, <2>1 DEF SharedOK
<1>4. Checking => rules'[item.domain] \in [Spellings -> DomainChoices \cup {NoRule}]
  BY <1>3 DEF History, WorkerOK, Checking, Mail
<1>5. /\ inForce' \in [accounts : SUBSET AccountChoices,
                       rules : SUBSET [Spellings -> DomainChoices \cup {NoRule}]]
      /\ inForce'.accounts = inForce.accounts /\ inForce.rules \subseteq inForce'.rules
      /\ Checking => rules'[item.domain] \in inForce'.rules
  BY <1>1, <1>2, <1>4 DEF LocalOK
<1>6. SharedOK' /\ LocalOK'
  BY <1>1, <1>2, <1>3, <1>5 DEF SharedOK, LocalOK, worker, read
<1>7. WorkerOK' /\ SendsOK' /\ RowsOK' /\ NoneMissing' /\ ReadOK' /\ AskedOK'
  BY <1>1, <1>2, <1>5, OthersKeep DEF worker, read
<1> QED
  BY <1>1, <1>2, <1>6, <1>7, SomeWait DEF History, TypeOK, SharedOK, LocalOK, WaitsInTime

\* Where rows go, what had room still has.
LEMMA RoomKept ==
  ASSUME IsFiniteSet(events), UNCHANGED <<start, now>>, events' \subseteq events,
         NEW c \in Check, Room(c)
  PROVE  Room(c)'
<1>1. SentTo(c.scope)' \subseteq SentTo(c.scope)
  BY DEF SentTo
<1>2. CASE c.limit = 0 \/ c.window = 0
  BY <1>1, <1>2 DEF Room, Check
<1>3. CASE c.limit # 0 /\ c.window > 0
  <2> DEFINE counted == {e \in SentTo(c.scope) :
                             e.created >= Trunc(start - c.window * Second)}
  <2>1. counted' \subseteq counted
    BY <1>1 DEF Trunc
  <2>2. IsFiniteSet(counted)
    BY FS_Subset DEF SentTo
  <2>3. CountSent(c.scope, c.window) = Cardinality(counted)
        /\ CountSent(c.scope, c.window)' = Cardinality(counted')
    BY DEF CountSent
  <2>4. CountSent(c.scope, c.window) < c.limit /\ c.limit \in Nat
    BY <1>3 DEF Room, Check
  <2> HIDE DEF counted
  <2>5. /\ Cardinality(counted') <= Cardinality(counted)
        /\ Cardinality(counted') \in Nat /\ Cardinality(counted) \in Nat
    BY <2>1, <2>2, FS_Subset, FS_CardinalityType
  <2>6. CountSent(c.scope, c.window)' < c.limit
    BY <2>3, <2>4, <2>5
  <2> QED
    BY <1>3, <2>6 DEF Room
<1> QED
  BY <1>2, <1>3 DEF Check, Room

LEMMA DeleteHistory ==
  ASSUME History, NEW E \in SUBSET events, DeleteEvents(E)
  PROVE  History'
<1> DEFINE numbers == {e.send : e \in E}
<1>1. TypeOK /\ SharedOK /\ LocalOK /\ now \in Nat
  BY TypeOKParts, RateLimitsAssumption DEF History, SharedOK
<1>2. /\ UNCHANGED <<now, account, rules, waiting, mails, inForce>>
      /\ UNCHANGED <<pc, item, user, rule, start, asked, wait>>
      /\ events' = events \ E /\ Forget(numbers)
  BY DEF DeleteEvents, worker, read
<1> HIDE DEF numbers
<1>3. /\ sends' \in Seq(Send \cup {Forgotten}) /\ Len(sends') = Len(sends)
      /\ Known' = Known \ numbers /\ \A n \in Known' : sends'[n] = sends[n]
  BY <1>1, <1>2, Forgetting
<1>4. SharedOK' /\ LocalOK'
  BY <1>1, <1>2, <1>3 DEF SharedOK, LocalOK
<1>5. \A e \in events : e \in events' <=> e.send \notin numbers
  BY <1>2 DEF numbers, History, RowsOK
<1>6. pc = "accepted" => Len(sends) \notin numbers
  <2>1. pc = "accepted" => \A e \in events : e.send < Len(sends)
    BY DEF History, RowsOK
  <2>2. Len(sends) \in Nat
    BY <1>1, KnownSends
  <2> QED
    BY <2>1, <2>2 DEF numbers
<1>7. WorkerOK' /\ SendsOK' /\ ReadOK'
  BY <1>2, <1>3, <1>6 DEF History, WorkerOK, SendsOK, ReadOK, Checking
<1>8. RowsOK'
  <2>1. IsFiniteSet(events')
    BY <1>2, FS_Subset DEF History, RowsOK
  <2>2. \A e \in events' : e \in events /\ e.send \in Known'
    BY <1>2, <1>3, <1>5 DEF History, RowsOK
  <2> QED
    BY <1>2, <1>3, <2>1, <2>2 DEF History, RowsOK, Trunc
<1>9. NoneMissing'
  BY <1>2, <1>3, <1>5 DEF History, NoneMissing
<1>10. AskedOK'
  <2>1. Checks' = Checks
    BY <1>2 DEF Checks
  <2>2. ASSUME pc = "check"
        PROVE  \A c \in Check : Room(c) => Room(c)'
    BY <1>2, RoomKept DEF History, RowsOK
  <2>3. pc = "check" => \A i \in DOMAIN Checks : Checks[i] \in Check
    BY <1>1, ChecksAre DEF History, WorkerOK
  <2> QED
    BY <1>2, <1>3, <2>1, <2>2, <2>3 DEF History, AskedOK
<1> QED
  BY <1>1, <1>2, <1>4, <1>7, <1>8, <1>9, <1>10, SomeWait
  DEF History, TypeOK, SharedOK, LocalOK, WaitsInTime

LEMMA StepHistory == History /\ [Next]_vars => History'
<1> SUFFICES ASSUME History, [Next]_vars
             PROVE  History'
  OBVIOUS
<1>1. CASE Next
  BY <1>1, WorkerHistory, TickHistory, SubmitHistory, SetAccountHistory, SetRuleHistory,
     DeleteHistory DEF Next, OtherStep
<1>2. CASE UNCHANGED vars
  <2>1. /\ UNCHANGED <<now, account, rules, waiting, mails, events, sends, inForce>>
        /\ UNCHANGED <<pc, item, user, rule, start, asked, wait>>
    BY <1>2 DEF vars, worker, read, observed
  <2>2. TypeOK'
    BY <2>1 DEF History, TypeOK
  <2>3. now \in Nat /\ now' \in Nat /\ now <= now'
    BY <2>1, RateLimitsAssumption DEF History, TypeOK
  <2> QED
    BY <2>1, <2>2, <2>3, OthersKeep DEF History, ReadOK, worker, read
<1> QED
  BY <1>1, <1>2

LEMMA InitHistory == Init => History
<1> SUFFICES ASSUME Init
             PROVE  History
  OBVIOUS
<1>1. Len(sends) = 0 /\ sends \in Seq(Send \cup {Forgotten}) /\ Known = {}
  BY DEF Init, Known
<1>2. TypeOK
  <2>1. SharedOK /\ LocalOK
    BY <1>1, NothingRead, RateLimitsAssumption DEF Init, SharedOK, LocalOK, Phases
  <2> QED
    BY <2>1, TypeOKParts DEF Init
<1>3. IsFiniteSet(events)
  BY FS_EmptySet DEF Init
<1> QED
  BY <1>1, <1>2, <1>3
  DEF Init, History, WorkerOK, SendsOK, RowsOK, NoneMissing, ReadOK, AskedOK, Checking

\* Every variable keeps its type, and no mail is put off further than the longest throttle,
\* window or retry, whatever moment of a second the clock is at.
THEOREM RatesTyped == Spec => []TypeOK
<1>1. History => TypeOK
  BY DEF History
<1> QED
  BY <1>1, InitHistory, StepHistory, PTL DEF Spec

-----------------------------------------------------------------------------
(* What passes *)

\* A send accepted within a window that ends now has its row among those that are counted: the
\* window that is counted began earlier, and both moments are cut down to whole seconds alike.
LEMMA CountedAccepted ==
  ASSUME History, pc = "check", NEW scope \in SUBSET Domains, NEW window \in Nat \ {0}
  PROVE  /\ CountSent(scope, window) \in Nat
         /\ Cardinality(AcceptedWithin(scope, window * Second)) \in Nat
         /\ Cardinality(AcceptedWithin(scope, window * Second)) <= CountSent(scope, window)
<1> DEFINE counted == {e \in SentTo(scope) : e.created >= Trunc(start - window * Second)}
           accepted == AcceptedWithin(scope, window * Second)
           numbers == {e.send : e \in counted}
<1>1. counted \subseteq events /\ IsFiniteSet(counted)
  BY FS_Subset DEF SentTo, History, RowsOK
<1>2. accepted \subseteq numbers
  <2> SUFFICES ASSUME NEW n \in accepted
               PROVE  n \in numbers
    OBVIOUS
  <2>1. n \in Known /\ sends[n].domain \in scope /\ now - sends[n].at < window * Second
    BY DEF AcceptedWithin
  <2>2. PICK e \in events : e.send = n
    BY <2>1 DEF History, NoneMissing
  <2>3. e \in SentTo(scope)
    BY <2>1, <2>2, EventFacts DEF SentTo
  <2>4. PICK at \in Nat, logged \in Nat :
            at = sends[n].at /\ logged = sends[n].logged /\ at <= logged
    BY <2>2, EventFacts
  <2>5. now \in Nat /\ start \in Nat /\ start <= now /\ window * Second \in Nat
    BY RateLimitsAssumption DEF History, TypeOK, ReadOK
  <2>6. start - window * Second \in Int /\ logged \in Int /\ start - window * Second <= logged
    BY <2>1, <2>4, <2>5
  <2>7. e.created = Trunc(logged)
    BY <2>2, <2>4 DEF History, RowsOK
  <2>8. Trunc(start - window * Second) <= Trunc(logged)
    BY <2>6, TruncMonotonic
  <2>9. Trunc(start - window * Second) \in Int /\ Trunc(logged) \in Int
    BY <2>6, TruncBounds
  <2>10. e.created >= Trunc(start - window * Second)
    BY <2>7, <2>8, <2>9
  <2> QED
    BY <2>2, <2>3, <2>10
<1>3. IsFiniteSet(numbers) /\ Cardinality(numbers) <= Cardinality(counted)
  <2> DEFINE f == [e \in counted |-> e.send]
  <2>1. f \in Surjection(counted, numbers)
    BY DEF Surjection
  <2> HIDE DEF counted, numbers, f
  <2> QED
    BY <1>1, <2>1, FS_Surjection
<1>4. CountSent(scope, window) = Cardinality(counted)
  BY DEF CountSent
<1> HIDE DEF counted, accepted, numbers
<1>5. /\ IsFiniteSet(accepted) /\ Cardinality(accepted) <= Cardinality(numbers)
      /\ Cardinality(accepted) \in Nat /\ Cardinality(numbers) \in Nat
      /\ Cardinality(counted) \in Nat
  BY <1>1, <1>2, <1>3, FS_Subset, FS_CardinalityType
<1> QED
  BY <1>3, <1>4, <1>5 DEF accepted

\* Where a throttle asks for no wait, no mail was accepted within it less a second.
LEMMA ThrottlePasses ==
  ASSUME History, pc = "check", NEW scope \in SUBSET Domains, NEW throttle \in Nat,
         throttle = 0 \/ \A e \in SentTo(scope) : start - e.created * Second >= throttle
  PROVE  AcceptedWithin(scope, throttle - Second + 1) = {}
<1> SUFFICES ASSUME NEW n \in AcceptedWithin(scope, throttle - Second + 1)
             PROVE  FALSE
  OBVIOUS
<1>1. n \in Known /\ sends[n].domain \in scope /\ now - sends[n].at < throttle - Second + 1
  BY DEF AcceptedWithin
<1>2. PICK e \in events : e.send = n
  BY <1>1 DEF History, NoneMissing
<1>3. e \in SentTo(scope)
  BY <1>1, <1>2, EventFacts DEF SentTo
<1>4. PICK at \in Nat, logged \in Nat : at = sends[n].at /\ logged = sends[n].logged
  BY <1>2, EventFacts
<1>5. PICK second \in Nat : second = e.created * Second
  BY EventFacts, Constants
<1>6. /\ at <= logged /\ logged <= now /\ now \in Nat /\ logged < second + Second
      /\ now - at < throttle - Second + 1 /\ Second \in Nat /\ Second > 0
  BY <1>1, <1>2, <1>4, <1>5, EventFacts, Constants
<1>7. start \in Nat /\ start <= now
  BY RateLimitsAssumption DEF History, TypeOK, ReadOK
<1>8. throttle = 0 \/ start - second >= throttle
  BY <1>3, <1>5
<1> QED
  BY <1>6, <1>7, <1>8

\* What a check with room says of the sends, for each kind of check.
LEMMA RoomPasses ==
  ASSUME History, pc = "check", NEW c \in Check, Room(c)
  PROVE  /\ c.window = 0 => AcceptedWithin(c.scope, c.limit - Second + 1) = {}
         /\ c.window > 0 /\ c.limit > 0 =>
              Cardinality(AcceptedWithin(c.scope, c.window * Second)) < c.limit
<1>1. c.limit \in Nat /\ c.window \in Nat /\ c.scope \in SUBSET Domains
  BY DEF Check
<1>2. ASSUME c.window = 0
      PROVE  AcceptedWithin(c.scope, c.limit - Second + 1) = {}
  <2>1. c.limit = 0 \/ \A e \in SentTo(c.scope) : start - e.created * Second >= c.limit
    BY <1>2 DEF Room
  <2> QED
    BY <1>1, <1>2, <2>1, ThrottlePasses
<1>3. ASSUME c.window > 0, c.limit > 0
      PROVE  Cardinality(AcceptedWithin(c.scope, c.window * Second)) < c.limit
  <2>1. CountSent(c.scope, c.window) < c.limit
    BY <1>1, <1>3 DEF Room
  <2>2. /\ CountSent(c.scope, c.window) \in Nat
        /\ Cardinality(AcceptedWithin(c.scope, c.window * Second)) \in Nat
        /\ Cardinality(AcceptedWithin(c.scope, c.window * Second))
              <= CountSent(c.scope, c.window)
    BY <1>1, <1>3, CountedAccepted
  <2> QED
    BY <1>1, <1>3, <2>1, <2>2
<1>4. c.window = 0 => AcceptedWithin(c.scope, c.limit - Second + 1) = {}
  BY <1>2
<1>5. c.window > 0 /\ c.limit > 0 =>
        Cardinality(AcceptedWithin(c.scope, c.window * Second)) < c.limit
  BY <1>3
<1> QED
  BY <1>4, <1>5

\* When no check is left, every one had room.
LEMMA PassRoom ==
  ASSUME History, Pass
  PROVE  pc = "check" /\ item \in Mail /\ TypeOK /\ \A i \in DOMAIN Checks : Room(Checks[i])
<1>1. pc = "check" /\ item \in Mail /\ TypeOK /\ Upcoming = {}
  BY DEF History, WorkerOK, Pass
<1>2. ASSUME NEW i \in DOMAIN Checks
      PROVE  Room(Checks[i])
  <2>1. /\ i \in 1..Len(Windows) + 3 /\ Len(Windows) \in Nat /\ asked \in 0..Len(Windows) + 3
        /\ Checks[i] \in Check /\ Checks[i].limit \in Nat
    BY <1>1, ChecksAre DEF Check, TypeOK
  <2>2. CASE i <= asked
    BY <1>1, <2>2 DEF History, AskedOK
  <2>3. CASE i > asked
    <3>1. Checks[i].limit = 0
      BY <1>1, <2>1, <2>3 DEF Upcoming
    <3> QED
      BY <3>1 DEF Room
  <2> QED
    BY <2>1, <2>2, <2>3
<1> QED
  BY <1>1, <1>2

LEMMA PassAllows ==
  ASSUME History, Pass
  PROVE  Allow(user, rule, item.domain)
<1>1. pc = "check" /\ item \in Mail /\ TypeOK /\ \A i \in DOMAIN Checks : Room(Checks[i])
  BY PassRoom
<1>2. PICK d \in Domains : d = item.domain
  BY <1>1 DEF Mail
<1>3. \A i \in DOMAIN Checks : Checks[i] \in Check
  BY <1>1, ChecksAre
<1>4. /\ 1 \in DOMAIN Checks /\ 2 \in DOMAIN Checks /\ Len(Windows) + 3 \in DOMAIN Checks
      /\ \A w \in DOMAIN Windows : w + 2 \in DOMAIN Checks
  <2>1. /\ DOMAIN Checks = 1..Len(Windows) + 3 /\ Len(Windows) \in Nat
        /\ DOMAIN Windows = 1..Len(Windows)
    BY <1>1, ChecksAre
  <2> QED
    BY <2>1
<1>5. AcceptedWithin(Domains, user.throttle - Second + 1) = {}
  <2>1. PICK c \in Check : c = Checks[1] /\ Room(c)
    BY <1>1, <1>3, <1>4
  <2>2. c.scope = Domains /\ c.limit = user.throttle /\ c.window = 0
    BY <1>1, <2>1, ChecksAre
  <2> QED
    BY <1>1, <2>1, <2>2, RoomPasses
<1>6. AcceptedWithin({d}, rule.throttle - Second + 1) = {}
  <2>1. PICK c \in Check : c = Checks[2] /\ Room(c)
    BY <1>1, <1>3, <1>4
  <2>2. c.scope = {d} /\ c.limit = rule.throttle /\ c.window = 0
    BY <1>1, <1>2, <2>1, ChecksAre
  <2> QED
    BY <1>1, <2>1, <2>2, RoomPasses
<1>7. ASSUME NEW w \in DOMAIN Windows, user.limits[w] > 0
      PROVE  Cardinality(AcceptedWithin(Domains, Windows[w] * Second)) < user.limits[w]
  <2>1. PICK c \in Check : c = Checks[w + 2] /\ Room(c)
    BY <1>1, <1>3, <1>4
  <2>2. Checks[w + 2] = [scope |-> Domains, limit |-> user.limits[w], window |-> Windows[w]]
    BY <1>1, ChecksAre
  <2>3. c.scope = Domains /\ c.limit = user.limits[w] /\ c.window = Windows[w]
    BY <2>1, <2>2
  <2>4. Windows[w] > 0
    BY Constants
  <2> QED
    BY <1>1, <1>7, <2>1, <2>3, <2>4, RoomPasses
<1>8. ASSUME rule.perHour > 0
      PROVE  Cardinality(AcceptedWithin({d}, Hour * Second)) < rule.perHour
  <2>1. PICK c \in Check : c = Checks[Len(Windows) + 3] /\ Room(c)
    BY <1>1, <1>3, <1>4
  <2>2. c.scope = {d} /\ c.limit = rule.perHour /\ c.window = Hour
    BY <1>1, <1>2, <2>1, ChecksAre
  <2>3. Hour > 0
    BY Constants
  <2> QED
    BY <1>1, <1>8, <2>1, <2>2, <2>3, RoomPasses
<1> QED
  BY <1>2, <1>5, <1>6, <1>7, <1>8 DEF Allow

\* Only one step comes to SendMail, and only one to an objection.
LEMMA OneStep ==
  ASSUME Next
  PROVE  (Passes => Pass) /\ (Objects => CheckObjects)
  BY DEF Next, WorkerStep, OtherStep, Passes, Objects, ReadAccount, ReadRule, ReadClock,
         CheckPasses, CheckObjects, Hold, Pass, CheckFails, Accepted, Rejected, LogSent,
         SentUnlogged, Done, Tick, Submit, SetAccount, SetRule, DeleteEvents, worker

LEMMA StepPasses == History /\ [Next]_vars =>
    [Passes =>
        \E a \in inForce.accounts, r \in inForce.rules : Allow(a, r["lower"], item.domain)]_vars
<1> SUFFICES ASSUME History, Next, Passes
             PROVE  \E a \in inForce.accounts, r \in inForce.rules :
                        Allow(a, r["lower"], item.domain)
  OBVIOUS
<1>1. Pass
  BY OneStep
<1>2. Allow(user, rule, item.domain)
  BY <1>1, PassAllows
<1>3. user \in inForce.accounts /\ \E r \in inForce.rules : rule = r["lower"]
  BY <1>1 DEF Pass, History, ReadOK, Checking
<1> QED
  BY <1>2, <1>3

\* A mail passes the check only where limits in force since it was taken up allow one more when
\* the check ends: nothing that was accepted within a window is missing from what was counted,
\* although rows are written some time after the mail went out, times are cut down to whole
\* seconds, and each limit was counted for at a moment of its own.
THEOREM Passing == Spec => PassAllowed
<1> QED
  BY InitHistory, StepHistory, StepPasses, PTL DEF Spec, PassAllowed

-----------------------------------------------------------------------------
(* What is held *)

\* A row that is counted is of a send logged within the window and one second, one row for each.
LEMMA CountedLogged ==
  ASSUME History, NEW scope \in SUBSET Domains, NEW window \in Nat \ {0}
  PROVE  /\ CountSent(scope, window) \in Nat
         /\ Cardinality(LoggedWithin(scope, (window + 1) * Second)) \in Nat
         /\ CountSent(scope, window) <= Cardinality(LoggedWithin(scope, (window + 1) * Second))
<1> DEFINE counted == {e \in SentTo(scope) : e.created >= Trunc(start - window * Second)}
           logged == LoggedWithin(scope, (window + 1) * Second)
           f == [e \in counted |-> e.send]
<1>1. counted \subseteq events /\ IsFiniteSet(events)
  BY DEF SentTo, History, RowsOK
<1>2. ASSUME NEW e \in counted
      PROVE  e.send \in logged
  <2>1. e \in events /\ e.domain \in scope /\ e.created >= Trunc(start - window * Second)
    BY DEF SentTo
  <2>2. PICK n \in Known, at \in Nat, second \in Nat, moment \in Nat :
            /\ n = e.send /\ at = sends[n].logged
            /\ second = e.created * Second /\ moment = start
    <3>1. /\ e.send \in Known /\ sends[e.send].logged \in Nat
          /\ e.created \in Nat /\ start \in Nat
      BY <2>1, EventFacts, RateLimitsAssumption DEF History, TypeOK
    <3>2. e.created * Second \in Nat
      BY <3>1, Constants
    <3> QED
      BY <3>1, <3>2
  <2>3. sends[n].domain \in scope
    BY <2>1, <2>2, EventFacts
  <2>4. second <= at /\ Second \in Nat /\ Second > 0
    BY <2>1, <2>2, EventFacts, Constants
  <2>5. PICK span \in Nat : span = window * Second /\ (window + 1) * Second = span + Second
    BY Constants
  <2>6. PICK begin \in Int : begin = Trunc(moment - span)
    BY TruncBounds
  <2>7. moment - span < begin * Second + Second
    BY <2>6, TruncBounds
  <2>8. begin * Second <= second
    <3>1. e.created \in Nat /\ begin <= e.created
      BY <2>1, <2>2, <2>5, <2>6, EventFacts
    <3>2. PICK k \in Nat : e.created = begin + k
      BY <3>1, e.created - begin \in Nat
    <3>3. (begin + k) * Second = begin * Second + k * Second /\ k * Second \in Nat
      BY <2>4
    <3>4. begin * Second \in Int
      BY <2>4
    <3> QED
      BY <2>2, <3>2, <3>3, <3>4
  <2>9. begin * Second \in Int
    BY <2>4
  <2>10. moment - at < span + Second
    BY <2>4, <2>7, <2>8, <2>9
  <2> QED
    BY <2>2, <2>3, <2>5, <2>10 DEF LoggedWithin
<1>3. f \in Injection(counted, logged)
  <2>1. \A e, h \in counted : e.send = h.send => e = h
    BY <1>1 DEF History, RowsOK
  <2> QED
    BY <1>2, <2>1 DEF Injection, IsInjective
<1>4. logged \subseteq Known /\ Known \subseteq 1..Len(sends) /\ Len(sends) \in Nat
  BY KnownSends DEF LoggedWithin, History
<1>5. IsFiniteSet(1..Len(sends))
  BY <1>4, FS_Interval
<1>6. CountSent(scope, window) = Cardinality(counted)
  BY DEF CountSent
<1> HIDE DEF counted, logged, f
<1>7. IsFiniteSet(Known)
  BY <1>4, <1>5, FS_Subset
<1>8. IsFiniteSet(logged)
  BY <1>4, <1>7, FS_Subset
<1>9. IsFiniteSet(counted) /\ Cardinality(counted) <= Cardinality(logged)
  BY <1>3, <1>8, FS_Injection
<1> QED
  BY <1>6, <1>8, <1>9, FS_CardinalityType DEF logged

\* Where a throttle asks for a wait, a mail was logged within it.
LEMMA ThrottleHolds ==
  ASSUME History, NEW scope \in SUBSET Domains, NEW throttle \in Nat,
         ~(\A e \in SentTo(scope) : start - e.created * Second >= throttle)
  PROVE  LoggedWithin(scope, throttle) # {}
<1>1. PICK e \in SentTo(scope) : ~(start - e.created * Second >= throttle)
  OBVIOUS
<1>2. e \in events /\ e.domain \in scope
  BY DEF SentTo
<1>3. PICK n \in Known, at \in Nat, second \in Nat, moment \in Nat :
          /\ n = e.send /\ at = sends[n].logged
          /\ second = e.created * Second /\ moment = start
  <2>1. /\ e.send \in Known /\ sends[e.send].logged \in Nat
        /\ e.created \in Nat /\ start \in Nat
    BY <1>2, EventFacts, RateLimitsAssumption DEF History, TypeOK
  <2>2. e.created * Second \in Nat
    BY <2>1, Constants
  <2> QED
    BY <2>1, <2>2
<1>4. second <= at /\ sends[n].domain \in scope
  BY <1>2, <1>3, EventFacts
<1>5. moment - at < throttle
  BY <1>1, <1>3, <1>4
<1> QED
  BY <1>3, <1>4, <1>5 DEF LoggedWithin

LEMMA ObjectsHold ==
  ASSUME History, CheckObjects
  PROVE  Object(user, rule, item.domain)
<1>1. pc = "check" /\ item \in Mail /\ TypeOK
  BY DEF History, WorkerOK, CheckObjects
<1>2. PICK d \in Domains : d = item.domain
  BY <1>1 DEF Mail
<1>3. PICK i \in DOMAIN Checks : WaitOf(Checks[i]) > 0
  BY DEF CheckObjects, Upcoming
<1>4. PICK c \in Check : c = Checks[i] /\ ~Room(c)
  <2>1. ~(WaitOf(Checks[i]) = 0)
    BY <1>3
  <2> QED
    BY <1>1, <2>1, ChecksAre, ChecksWait
<1>5. c.limit \in Nat /\ c.window \in Nat /\ c.scope \in SUBSET Domains /\ c.limit > 0
  BY <1>4 DEF Check, Room
<1>6. c.window = 0 => LoggedWithin(c.scope, c.limit) # {}
  BY <1>4, <1>5, ThrottleHolds DEF Room
<1>7. c.window > 0 =>
        Cardinality(LoggedWithin(c.scope, (c.window + 1) * Second)) >= c.limit
  <2> SUFFICES ASSUME c.window > 0
               PROVE  Cardinality(LoggedWithin(c.scope, (c.window + 1) * Second)) >= c.limit
    OBVIOUS
  <2>1. /\ CountSent(c.scope, c.window) \in Nat
        /\ Cardinality(LoggedWithin(c.scope, (c.window + 1) * Second)) \in Nat
        /\ CountSent(c.scope, c.window)
              <= Cardinality(LoggedWithin(c.scope, (c.window + 1) * Second))
    BY <1>5, CountedLogged
  <2>2. ~(CountSent(c.scope, c.window) < c.limit)
    BY <1>4 DEF Room
  <2> QED
    BY <1>5, <2>1, <2>2
<1>8. i \in 1..Len(Windows) + 3 /\ Len(Windows) \in Nat /\ DOMAIN Windows = 1..Len(Windows)
  BY <1>1, ChecksAre
<1>9. i \in {1, 2, Len(Windows) + 3} \/ (i - 2 \in DOMAIN Windows /\ i = (i - 2) + 2)
  BY <1>8
<1>10. CASE i = 1
  <2>1. c.scope = Domains /\ c.limit = user.throttle /\ c.window = 0
    BY <1>1, <1>4, <1>10, ChecksAre
  <2> QED
    BY <1>6, <2>1 DEF Object
<1>11. CASE i = 2
  <2>1. c.scope = {d} /\ c.limit = rule.throttle /\ c.window = 0
    BY <1>1, <1>2, <1>4, <1>11, ChecksAre
  <2> QED
    BY <1>2, <1>6, <2>1 DEF Object
<1>12. ASSUME NEW w \in DOMAIN Windows, i = w + 2
       PROVE  Object(user, rule, item.domain)
  <2>1. Checks[w + 2] = [scope |-> Domains, limit |-> user.limits[w], window |-> Windows[w]]
    BY <1>1, ChecksAre
  <2>2. c.scope = Domains /\ c.limit = user.limits[w] /\ c.window = Windows[w]
    BY <1>4, <1>12, <2>1
  <2>3. Windows[w] > 0
    BY Constants
  <2> QED
    BY <1>5, <1>7, <2>2, <2>3 DEF Object
<1>13. CASE i = Len(Windows) + 3
  <2>1. c.scope = {d} /\ c.limit = rule.perHour /\ c.window = Hour
    BY <1>1, <1>2, <1>4, <1>13, ChecksAre
  <2>2. Hour > 0
    BY Constants
  <2> QED
    BY <1>2, <1>5, <1>7, <2>1, <2>2 DEF Object
<1> QED
  BY <1>9, <1>10, <1>11, <1>12, <1>13

LEMMA StepHolds == History /\ [Next]_vars =>
    [Objects =>
        \E a \in inForce.accounts, r \in inForce.rules : Object(a, r["lower"], item.domain)]_vars
<1> SUFFICES ASSUME History, Next, Objects
             PROVE  \E a \in inForce.accounts, r \in inForce.rules :
                        Object(a, r["lower"], item.domain)
  OBVIOUS
<1>1. CheckObjects
  BY OneStep
<1>2. Object(user, rule, item.domain)
  BY <1>1, ObjectsHold
<1>3. user \in inForce.accounts /\ \E r \in inForce.rules : rule = r["lower"]
  BY <1>1 DEF CheckObjects, History, ReadOK, Checking
<1> QED
  BY <1>2, <1>3

\* A mail is held only for a reason that is there when the objection is made: a mail was logged
\* within the throttle, or as many as the limit within the window and the second that the
\* cut-off times may add to it, under limits in force since the mail was taken up.
THEOREM Holding == Spec => HoldNeeded
<1> QED
  BY InitHistory, StepHistory, StepHolds, PTL DEF Spec, HoldNeeded

-----------------------------------------------------------------------------
(* The limits of domains *)

\* The administrator types domains in lower case where a limit is stored with them.
TypedLower == \A d \in Domains, s \in Spellings : rules[d][s].perHour > 0 => s = "lower"

\* So were those in force while the mail is checked.
InForceLower ==
    \A r \in inForce.rules, s \in Spellings : r[s].perHour > 0 => s = "lower"

LEMMA InitLower == Init => InForceLower
  BY DEF Init, InForceLower, Nothing

LEMMA StepLower ==
  History /\ InForceLower /\ TypedLower /\ TypedLower' /\ [Next]_vars => InForceLower'
<1> SUFFICES ASSUME History, InForceLower, TypedLower, TypedLower', [Next]_vars
             PROVE  InForceLower'
  OBVIOUS
<1>1. \A r \in inForce'.rules :
          \/ r \in inForce.rules
          \/ \E d \in Domains : r = rules[d] \/ r = rules'[d]
  <2>1. CASE inForce' = inForce \/ inForce' = Nothing
    BY <2>1 DEF Nothing
  <2>2. ASSUME NEW m \in waiting, ReadAccount(m)
        PROVE  \A r \in inForce'.rules : \E d \in Domains : r = rules[d]
    BY <2>2, TypeOKParts DEF ReadAccount, History, WaitsInTime, Mail
  <2>3. ASSUME NEW limits \in AccountChoices, SetAccount(limits)
        PROVE  inForce'.rules = inForce.rules
    BY <2>3, TypeOKParts DEF SetAccount, History, LocalOK
  <2>4. ASSUME NEW d \in Domains, NEW s \in Spellings, NEW limits \in DomainChoices,
               SetRule(d, s, limits)
        PROVE  \A r \in inForce'.rules : r \in inForce.rules \/ \E e \in Domains : r = rules'[e]
    <3>1. CASE Checking
      <4>1. item.domain \in Domains
        BY <3>1 DEF History, WorkerOK, Checking, Mail
      <4>2. inForce'.rules = inForce.rules \cup {rules'[item.domain]}
        BY <2>4, <3>1, TypeOKParts DEF SetRule, History, LocalOK
      <4> QED
        BY <4>1, <4>2
    <3>2. CASE ~Checking
      BY <2>4, <3>2 DEF SetRule
    <3> QED
      BY <3>1, <3>2
  <2>5. \/ inForce' = inForce \/ inForce' = Nothing
        \/ \E m \in waiting : ReadAccount(m)
        \/ \E limits \in AccountChoices : SetAccount(limits)
        \/ \E d \in Domains, s \in Spellings, limits \in DomainChoices : SetRule(d, s, limits)
    BY DEF Next, WorkerStep, OtherStep, vars, ReadRule, ReadClock, CheckPasses, CheckObjects,
           EndCheck, Hold, Pass, CheckFails, Accepted, Rejected, LogSent, SentUnlogged, Tick,
           Submit, DeleteEvents, observed
  <2> QED
    BY <2>1, <2>2, <2>3, <2>4, <2>5
<1> QED
  BY <1>1 DEF InForceLower, TypedLower

LEMMA StepDomainLimits == History /\ InForceLower /\ [Next]_vars =>
    [Passes =>
        \A s \in Spellings :
            (\A r \in inForce.rules : r[s].perHour > 0) =>
                \E r \in inForce.rules :
                    Cardinality(AcceptedWithin({item.domain}, Hour * Second)) < r[s].perHour]_vars
<1> SUFFICES ASSUME History, InForceLower, Next, Passes, NEW s \in Spellings,
                    \A r \in inForce.rules : r[s].perHour > 0
             PROVE  \E r \in inForce.rules :
                      Cardinality(AcceptedWithin({item.domain}, Hour * Second)) < r[s].perHour
  OBVIOUS
<1>1. PICK r \in inForce.rules : Allow(user, r["lower"], item.domain)
  <2>1. Pass
    BY OneStep
  <2>2. Allow(user, rule, item.domain)
    BY <2>1, PassAllows
  <2>3. \E r \in inForce.rules : rule = r["lower"]
    BY <2>1 DEF Pass, History, ReadOK
  <2> QED
    BY <2>2, <2>3
<1>2. s = "lower" /\ r["lower"].perHour > 0
  BY DEF InForceLower
<1> QED
  BY <1>1, <1>2 DEF Allow

\* The limit of a domain is passed over for its spelling only: where limits are stored under
\* domains in lower case, as holdIfLimited looks them up, one that is stored while the mail is
\* checked holds for it.
THEOREM LowerCaseApplies == Spec /\ []TypedLower => DomainLimitsApply
<1> QED
  BY InitHistory, StepHistory, InitLower, StepLower, StepDomainLimits, PTL
  DEF Spec, DomainLimitsApply

=============================================================================
