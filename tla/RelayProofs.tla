---------------------------- MODULE RelayProofs -----------------------------
(***************************************************************************)
(* What holds of Relay for any finite number of upstreams and any texts:   *)
(* the order of the upstreams, the rotation, and what they are given.      *)
(*                                                                         *)
(* No upstream is asked twice because the order is the list with its       *)
(* entries elsewhere (Permuted).  That rotation takes turns needs what     *)
(* rrIndex says of the past: the first choices of a list, from the last    *)
(* one backwards, are the entries before rrIndex, round the list           *)
(* (TurnsOK).  What the upstreams are given needs of the behavior only     *)
(* that the mail is one that was submitted and that the upstream that was  *)
(* tried last is one: the rest is about texts (TextProofs).                *)
(***************************************************************************)
EXTENDS TextProofs

LEMMA FollowingIs ==
  ASSUME NEW n \in Nat \ {0}, NEW idx \in 0..n - 1
  PROVE  Following(idx, n) = IF idx + 1 = n THEN 0 ELSE idx + 1
  BY DEF Following

\* A list of upstreams is a sequence without repetitions, which is no longer than there are
\* upstreams.
LEMMA ListFacts ==
  ASSUME NEW l \in Lists
  PROVE  /\ l \in Seq(Upstreams) /\ Len(l) \in Nat /\ DOMAIN l = 1..Len(l)
         /\ Len(l) <= Cardinality(Upstreams)
         /\ \A i \in 1..Len(l) : l[i] \in Upstreams
         /\ \A i, j \in 1..Len(l) : l[i] = l[j] => i = j
<1>1. Cardinality(Upstreams) \in Nat
  BY RelayAssumption, FS_CardinalityType
<1>2. PICK n \in 0..Cardinality(Upstreams) :
          l \in [1..n -> Upstreams] /\ \A i, j \in 1..n : l[i] = l[j] => i = j
  BY DEF Lists
<1>3. n \in Nat /\ n <= Cardinality(Upstreams)
  BY <1>1, <1>2
<1>4. l \in Seq(Upstreams) /\ Len(l) = n
  BY <1>2, <1>3
<1> QED
  BY <1>2, <1>3, <1>4

LEMMA NoList == <<>> \in Lists /\ Len(<<>>) = 0 /\ Cardinality(Upstreams) \in Nat \ {0}
<1>1. Cardinality(Upstreams) \in Nat \ {0}
  BY RelayAssumption, FS_CardinalityType, FS_EmptySet
<1>2. <<>> \in [1..0 -> Upstreams]
  OBVIOUS
<1>3. \A i, j \in 1..0 : <<>>[i] = <<>>[j] => i = j
  OBVIOUS
<1>4. 0 \in 0..Cardinality(Upstreams)
  BY <1>1
<1>5. <<>> \in Lists
  BY <1>2, <1>3, <1>4 DEF Lists
<1> QED
  BY <1>1, <1>5

\* The entries m to n of a list.
LEMMA Part ==
  ASSUME NEW l \in Seq(Upstreams), NEW m \in 1..Len(l) + 1, NEW n \in m - 1..Len(l)
  PROVE  /\ SubSeq(l, m, n) \in Seq(Upstreams) /\ Len(SubSeq(l, m, n)) = n - m + 1
         /\ \A i \in 1..n - m + 1, j \in 1..Len(l) :
               j = m + i - 1 => SubSeq(l, m, n)[i] = l[j]
<1>1. m \in Int /\ n \in Int /\ \A i \in m..n : l[i] \in Upstreams
  OBVIOUS
<1>2. /\ SubSeq(l, m, n) \in Seq(Upstreams)
      /\ Len(SubSeq(l, m, n)) = IF m <= n THEN n - m + 1 ELSE 0
      /\ \A i \in 1..n - m + 1 : SubSeq(l, m, n)[i] = l[m + i - 1]
  BY <1>1, SubSeqProperties
<1>3. m <= n \/ n - m + 1 = 0
  OBVIOUS
<1> QED
  BY <1>2, <1>3

LEMMA Joined ==
  ASSUME NEW a \in Seq(Upstreams), NEW b \in Seq(Upstreams)
  PROVE  /\ a \o b \in Seq(Upstreams) /\ Len(a \o b) = Len(a) + Len(b)
         /\ \A i \in 1..Len(a) + Len(b) :
               (a \o b)[i] = IF i <= Len(a) THEN a[i] ELSE b[i - Len(a)]
  BY ConcatProperties

\* The entry at idx comes first, the others keep their places among each other.
LEMMA TryOrderIs ==
  ASSUME NEW l \in Seq(Upstreams), NEW idx \in 0..Len(l) - 1
  PROVE  /\ TryOrder(l, idx) \in Seq(Upstreams) /\ Len(TryOrder(l, idx)) = Len(l)
         /\ TryOrder(l, idx)[1] = l[idx + 1]
         /\ \A i \in 2..Len(l) :
               TryOrder(l, idx)[i] = IF i - 1 <= idx THEN l[i - 1] ELSE l[i]
<1>1. PICK k \in 1..Len(l) : k = idx + 1 /\ k \in Nat
  OBVIOUS
<1> DEFINE a == SubSeq(l, 1, k - 1)
           b == SubSeq(l, k + 1, Len(l))
           c == a \o b
<1>2. /\ a \in Seq(Upstreams) /\ Len(a) = (k - 1) - 1 + 1
      /\ \A i \in 1..(k - 1) - 1 + 1, j \in 1..Len(l) : j = 1 + i - 1 => a[i] = l[j]
  <2>1. 1 \in 1..Len(l) + 1 /\ k - 1 \in 1 - 1..Len(l)
    BY <1>1
  <2> QED
    BY <2>1, Part
<1>3. /\ b \in Seq(Upstreams) /\ Len(b) = Len(l) - (k + 1) + 1
      /\ \A i \in 1..Len(l) - (k + 1) + 1, j \in 1..Len(l) :
            j = (k + 1) + i - 1 => b[i] = l[j]
  <2>1. k + 1 \in 1..Len(l) + 1 /\ Len(l) \in (k + 1) - 1..Len(l)
    BY <1>1
  <2> QED
    BY <2>1, Part
<1>4. PICK p \in Upstreams : p = l[k]
  BY <1>1
<1>5. TryOrder(l, idx) = <<l[k]>> \o c
  BY <1>1 DEF TryOrder, RemoveAt
<1> HIDE DEF a, b
<1>6. /\ c \in Seq(Upstreams) /\ Len(c) = Len(a) + Len(b)
      /\ \A i \in 1..Len(a) + Len(b) : c[i] = IF i <= Len(a) THEN a[i] ELSE b[i - Len(a)]
  BY <1>2, <1>3, Joined
<1> HIDE DEF c
<1>7. /\ Len(c) = Len(l) - 1
      /\ \A i \in 1..Len(l) - 1, j \in 1..Len(l) :
            /\ i <= k - 1 => c[i] = l[i]
            /\ i > k - 1 /\ j = i + 1 => c[i] = l[j]
  <2>1. Len(a) = k - 1 /\ Len(b) = Len(l) - k /\ Len(l) \in Nat
    BY <1>1, <1>2, <1>3
  <2>2. Len(a) + Len(b) = Len(l) - 1
    BY <1>1, <2>1
  <2> SUFFICES ASSUME NEW i \in 1..Len(l) - 1, NEW j \in 1..Len(l)
               PROVE  /\ i <= k - 1 => c[i] = l[i]
                      /\ i > k - 1 /\ j = i + 1 => c[i] = l[j]
    BY <1>6, <2>2
  <2>3. c[i] = IF i <= k - 1 THEN a[i] ELSE b[i - (k - 1)]
    BY <1>6, <2>1, <2>2
  <2>4. i <= k - 1 => a[i] = l[i]
    <3>1. i <= k - 1 => i \in 1..(k - 1) - 1 + 1 /\ i \in 1..Len(l) /\ i = 1 + i - 1
      BY <1>1, <2>1
    <3> QED
      BY <1>2, <3>1
  <2>5. i > k - 1 /\ j = i + 1 => b[i - (k - 1)] = l[j]
    <3>1. i > k - 1 /\ j = i + 1 =>
              i - (k - 1) \in 1..Len(l) - (k + 1) + 1 /\ j = (k + 1) + (i - (k - 1)) - 1
      BY <1>1, <2>1
    <3> QED
      BY <1>3, <3>1
  <2> QED
    BY <1>1, <2>3, <2>4, <2>5
<1>8. /\ <<p>> \o c \in Seq(Upstreams) /\ Len(<<p>> \o c) = Len(l) /\ (<<p>> \o c)[1] = p
      /\ \A i \in 2..Len(l) : (<<p>> \o c)[i] = c[i - 1]
  BY <1>1, <1>6, <1>7
<1>9. \A i \in 2..Len(l) : c[i - 1] = IF i - 1 <= idx THEN l[i - 1] ELSE l[i]
  <2> SUFFICES ASSUME NEW i \in 2..Len(l)
               PROVE  c[i - 1] = IF i - 1 <= idx THEN l[i - 1] ELSE l[i]
    OBVIOUS
  <2>1. PICK h \in 1..Len(l) - 1 : h = i - 1
    BY <1>1
  <2>2. i \in 1..Len(l) /\ i = h + 1 /\ (h <= k - 1 <=> h <= idx) /\ (h > k - 1 <=> ~(h <= idx))
    BY <1>1, <2>1
  <2> QED
    BY <1>7, <2>1, <2>2
<1>10. /\ TryOrder(l, idx) = <<p>> \o c
       /\ \A i \in 2..Len(l) : (<<p>> \o c)[i] = IF i - 1 <= idx THEN l[i - 1] ELSE l[i]
  BY <1>4, <1>5, <1>8, <1>9
<1>11. l[idx + 1] = p
  BY <1>1, <1>4
<1> QED
  BY <1>8, <1>10, <1>11

-----------------------------------------------------------------------------
(* The order of the upstreams *)

\* The entries of the list, each once, in another order perhaps.
Permuted(o, l) ==
    /\ Len(o) = Len(l)
    /\ \A i, j \in 1..Len(o) : o[i] = o[j] => i = j
    /\ \A i \in 1..Len(o) : \E j \in 1..Len(l) : o[i] = l[j]
    /\ \A j \in 1..Len(l) : \E i \in 1..Len(o) : o[i] = l[j]

\* How far deliver has come in the order.
TriedOK ==
    /\ pc = "read" => Len(order) = 0
    /\ pc = "try" => tried < Len(order)
    /\ pc = "failed" => tried = Len(order)

\* The types, the observation of the turns apart.
WorkerOK ==
    /\ pc \in {"idle", "read", "try", "accepted", "failed"}
    /\ mail \in Mails \cup {<<>>}
    /\ rotates \in BOOLEAN
    /\ list \in Lists
    /\ order \in Seq(Upstreams)
    /\ tried \in 0..Len(order)
    /\ rrIndex \in 0..Cardinality(Upstreams) - 1

LEMMA TryOrderPermutes ==
  ASSUME NEW l \in Lists, NEW idx \in 0..Len(l) - 1
  PROVE  Permuted(TryOrder(l, idx), l)
<1>0. /\ l \in Seq(Upstreams) /\ Len(l) \in Nat
      /\ \A i, j \in 1..Len(l) : l[i] = l[j] => i = j
  BY ListFacts
<1>1. PICK o \in Seq(Upstreams) :
          /\ o = TryOrder(l, idx) /\ Len(o) = Len(l)
          /\ o[1] = l[idx + 1]
          /\ \A i \in 2..Len(l) : o[i] = IF i - 1 <= idx THEN l[i - 1] ELSE l[i]
  BY <1>0, TryOrderIs
\* Where the entry at each place of the order stands in the list
<1> DEFINE at(i) == IF i = 1 THEN idx + 1 ELSE IF i - 1 <= idx THEN i - 1 ELSE i
<1>2. \A i \in 1..Len(l) : at(i) \in 1..Len(l) /\ o[i] = l[at(i)]
  <2> SUFFICES ASSUME NEW i \in 1..Len(l)
               PROVE  at(i) \in 1..Len(l) /\ o[i] = l[at(i)]
    OBVIOUS
  <2>1. i = 1 \/ i \in 2..Len(l)
    BY <1>0
  <2> QED
    BY <1>0, <1>1, <2>1
<1>3. \A i, j \in 1..Len(l) : at(i) = at(j) => i = j
  BY <1>0
<1>4. \A j \in 1..Len(l) : \E i \in 1..Len(l) : at(i) = j
  <2> SUFFICES ASSUME NEW j \in 1..Len(l)
               PROVE  \E i \in 1..Len(l) : at(i) = j
    OBVIOUS
  <2>1. CASE j = idx + 1
    BY <1>0, <2>1
  <2>2. CASE j < idx + 1
    <3>1. j + 1 \in 1..Len(l) /\ at(j + 1) = j
      BY <1>0, <2>2
    <3> QED
      BY <3>1
  <2>3. CASE j > idx + 1
    <3>1. at(j) = j
      BY <1>0, <2>3
    <3> QED
      BY <3>1
  <2> QED
    BY <1>0, <2>1, <2>2, <2>3
<1> HIDE DEF at
<1>5. \A i, j \in 1..Len(o) : o[i] = o[j] => i = j
  <2> SUFFICES ASSUME NEW i \in 1..Len(o), NEW j \in 1..Len(o), o[i] = o[j]
               PROVE  i = j
    OBVIOUS
  <2>1. i \in 1..Len(l) /\ j \in 1..Len(l)
    BY <1>1
  <2>2. at(i) \in 1..Len(l) /\ at(j) \in 1..Len(l) /\ l[at(i)] = l[at(j)]
    BY <1>2, <2>1
  <2>3. at(i) = at(j)
    BY <1>0, <2>2
  <2> QED
    BY <1>3, <2>1, <2>3
<1>6. \A i \in 1..Len(o) : \E j \in 1..Len(l) : o[i] = l[j]
  BY <1>1, <1>2
<1>7. \A j \in 1..Len(l) : \E i \in 1..Len(o) : o[i] = l[j]
  BY <1>1, <1>2, <1>4
<1> QED
  BY <1>1, <1>5, <1>6, <1>7 DEF Permuted

\* The first turn of a list, and the next one.
LEMMA TurnTyped ==
  ASSUME WorkerOK, NEW n \in Nat \ {0}
  PROVE  /\ Turn(n) \in 0..n - 1
         /\ rotates => Turn(n) = IF rrIndex >= n THEN 0 ELSE rrIndex
         /\ Following(Turn(n), n) \in 0..n - 1
<1>1. Cardinality(Upstreams) \in Nat \ {0}
  BY NoList
<1>2. /\ Turn(n) \in 0..n - 1
      /\ rotates => Turn(n) = IF rrIndex >= n THEN 0 ELSE rrIndex
  BY <1>1 DEF WorkerOK, Turn
<1>3. Following(Turn(n), n) \in 0..n - 1
  BY <1>2, FollowingIs
<1> QED
  BY <1>2, <1>3

Tries == WorkerOK /\ TriedOK /\ Permuted(order, list)

LEMMA NoneTried ==
  ASSUME pc = "idle", mail = <<>>, rotates = FALSE, list = <<>>, order = <<>>, tried = 0,
         rrIndex = 0
  PROVE  Tries
<1>1. Len(order) = 0 /\ Len(list) = 0 /\ order \in Seq(Upstreams)
  OBVIOUS
<1>2. WorkerOK
  <2>1. list \in Lists
    BY NoList
  <2>2. tried \in 0..Len(order)
    BY <1>1
  <2>3. rrIndex \in 0..Cardinality(Upstreams) - 1
    BY NoList
  <2> QED
    BY <1>1, <2>1, <2>2, <2>3, Zenon DEF WorkerOK
<1>3. Permuted(order, list)
  BY <1>1 DEF Permuted
<1> QED
  BY <1>2, <1>3 DEF Tries, TriedOK

LEMMA StepTries == Tries /\ [Next]_vars => Tries'
<1> SUFFICES ASSUME Tries, [Next]_vars
             PROVE  Tries'
  OBVIOUS
<1>1. ASSUME NEW text \in Mails, NEW flag \in BOOLEAN, Begin(text, flag)
      PROVE  Tries'
  <2>1. /\ pc' = "read" /\ mail' \in Mails /\ rotates' \in BOOLEAN
        /\ list' = <<>> /\ order' = <<>> /\ tried' = 0 /\ rrIndex' = rrIndex
    BY <1>1 DEF Begin
  <2>2. Len(order') = 0 /\ Len(list') = 0 /\ order' \in Seq(Upstreams) /\ list' \in Lists
    BY <2>1, NoList
  <2>3. WorkerOK'
    <3>1. tried' \in 0..Len(order')
      BY <2>1, <2>2
    <3>2. rrIndex' \in 0..Cardinality(Upstreams) - 1
      BY <2>1 DEF Tries, WorkerOK
    <3>3. pc' \in {"idle", "read", "try", "accepted", "failed"} /\ mail' \in Mails \cup {<<>>}
      BY <2>1
    <3> QED
      BY <2>1, <2>2, <3>1, <3>2, <3>3, Zenon DEF WorkerOK
  <2>4. Permuted(order', list')
    BY <2>2 DEF Permuted
  <2> QED
    BY <2>1, <2>2, <2>3, <2>4 DEF Tries, TriedOK
<1>2. ASSUME NEW l \in Lists, ReadList(l)
      PROVE  Tries'
  <2>1. /\ pc = "read" /\ pc' = "try" /\ l # <<>> /\ list' = l
        /\ UNCHANGED <<mail, rotates, tried>>
        /\ order' = TryOrder(l, Turn(Len(l)))
        /\ rrIndex' = rrIndex \/ rrIndex' = Following(Turn(Len(l)), Len(l))
    BY <1>2 DEF ReadList
  <2>2. PICK n \in Nat \ {0} : n = Len(l) /\ n <= Cardinality(Upstreams)
    BY <2>1, ListFacts
  <2>3. PICK idx \in 0..n - 1 : idx = Turn(Len(l)) /\ Following(Turn(Len(l)), Len(l)) \in 0..n - 1
    BY <2>2, TurnTyped DEF Tries
  <2>4. order' \in Seq(Upstreams) /\ Len(order') = n
    BY <2>1, <2>2, <2>3, ListFacts, TryOrderIs
  <2>5. Permuted(order', list')
    BY <2>1, <2>2, <2>3, TryOrderPermutes
  <2>6. tried = 0
    BY <2>1 DEF Tries, WorkerOK, TriedOK
  <2>7. WorkerOK'
    <3>1. tried' \in 0..Len(order')
      BY <2>1, <2>2, <2>4, <2>6
    <3>2. rrIndex' \in 0..Cardinality(Upstreams) - 1
      <4>1. rrIndex \in 0..Cardinality(Upstreams) - 1
        BY DEF Tries, WorkerOK
      <4>2. idx \in Nat /\ \A i \in 0..n - 1 : i \in 0..Cardinality(Upstreams) - 1
        BY <2>2, NoList
      <4> QED
        BY <2>1, <2>2, <2>3, <4>1, <4>2
    <3>3. pc' \in {"idle", "read", "try", "accepted", "failed"} /\ list' \in Lists
      BY <2>1
    <3>4. mail' \in Mails \cup {<<>>} /\ rotates' \in BOOLEAN
      BY <2>1, Zenon DEF Tries, WorkerOK
    <3> QED
      BY <2>4, <3>1, <3>2, <3>3, <3>4, Zenon DEF WorkerOK
  <2> QED
    BY <2>1, <2>2, <2>4, <2>5, <2>6, <2>7 DEF Tries, TriedOK
<1>3. CASE ReadFails
  BY <1>3 DEF ReadFails, Tries, WorkerOK, TriedOK
<1>4. CASE Accepted
  BY <1>4 DEF Accepted, Tries, WorkerOK, TriedOK
<1>5. CASE Rejected
  BY <1>5 DEF Rejected, Tries, WorkerOK, TriedOK
<1>6. CASE Restart
  <2>1. /\ pc' = "idle" /\ mail' = <<>> /\ rotates' = FALSE
        /\ list' = <<>> /\ order' = <<>> /\ tried' = 0 /\ rrIndex' = 0
    BY <1>6 DEF Restart
  <2>2. Len(order') = 0 /\ Len(list') = 0 /\ order' \in Seq(Upstreams) /\ list' \in Lists
    BY <2>1, NoList
  <2>3. WorkerOK'
    <3>1. tried' \in 0..Len(order')
      BY <2>1, <2>2
    <3>2. rrIndex' \in 0..Cardinality(Upstreams) - 1
      BY <2>1, NoList
    <3> QED
      BY <2>1, <2>2, <3>1, <3>2, Zenon DEF WorkerOK
  <2>4. Permuted(order', list')
    BY <2>2 DEF Permuted
  <2> QED
    BY <2>1, <2>2, <2>3, <2>4 DEF Tries, TriedOK
<1>7. CASE UNCHANGED vars
  BY <1>7 DEF vars, Tries, WorkerOK, TriedOK
<1> QED
  BY <1>1, <1>2, <1>3, <1>4, <1>5, <1>6, <1>7 DEF Next

LEMMA InitTries == Init => Tries
  BY NoneTried DEF Init

LEMMA TriesOnce == Tries => EveryUpstreamOnce
<1> SUFFICES ASSUME Tries
             PROVE  EveryUpstreamOnce
  OBVIOUS
<1> DEFINE asked == SubSeq(order, 1, tried)
<1>1. PICK n \in 0..Len(order) : n = tried /\ order \in Seq(Upstreams) /\ Len(order) \in Nat
  BY DEF Tries, WorkerOK
<1>2. /\ asked \in Seq(Upstreams) /\ Len(asked) = n - 1 + 1
      /\ \A i \in 1..n - 1 + 1, j \in 1..Len(order) : j = 1 + i - 1 => asked[i] = order[j]
  <2>1. 1 \in 1..Len(order) + 1 /\ n \in 1 - 1..Len(order)
    BY <1>1
  <2> QED
    BY <1>1, <2>1, Part
<1> HIDE DEF asked
<1>3. DOMAIN asked = 1..n /\ \A i \in 1..n : asked[i] = order[i]
  BY <1>1, <1>2
<1>4. \A i, j \in DOMAIN asked : asked[i] = asked[j] => i = j
  <2>1. \A i, j \in 1..Len(order) : order[i] = order[j] => i = j
    BY DEF Tries, Permuted
  <2>2. \A i \in 1..n : i \in 1..Len(order)
    BY <1>1
  <2> QED
    BY <1>3, <2>1, <2>2
<1>5. pc = "failed" => ToSet(asked) = ToSet(list)
  <2> SUFFICES ASSUME pc = "failed"
               PROVE  ToSet(asked) = ToSet(list)
    OBVIOUS
  <2>1. n = Len(order) /\ DOMAIN list = 1..Len(list)
    BY <1>1, ListFacts DEF Tries, TriedOK, WorkerOK
  <2>2. /\ \A i \in 1..n : \E j \in 1..Len(list) : order[i] = list[j]
        /\ \A j \in 1..Len(list) : \E i \in 1..n : order[i] = list[j]
    BY <2>1 DEF Tries, Permuted
  <2>3. ToSet(asked) = {order[i] : i \in 1..n}
    BY <1>3 DEF ToSet
  <2>4. ToSet(list) = {list[j] : j \in 1..Len(list)}
    BY <2>1 DEF ToSet
  <2>5. ToSet(asked) \subseteq ToSet(list)
    BY <2>2, <2>3, <2>4, Zenon
  <2>6. ToSet(list) \subseteq ToSet(asked)
    BY <2>2, <2>3, <2>4, Zenon
  <2> QED
    BY <2>5, <2>6, Zenon
<1> QED
  BY <1>4, <1>5 DEF EveryUpstreamOnce, asked

\* A mail has failed only after every upstream of the list was tried, and none of them was tried
\* twice, wherever rotation starts.
THEOREM Once == Spec => []EveryUpstreamOnce
<1> QED
  BY InitTries, StepTries, TriesOnce, PTL DEF Spec

-----------------------------------------------------------------------------
(* Rotation *)

\* Where in a list of n the first choice stands that was made d turns before the last one, when
\* the next one is at r, counted from 0.
Place(r, d, n) == IF r - d >= 1 THEN r - d ELSE r - d + n

\* The first choices f of a list l, up to a round of them, when the next one is at r.
Rotated(f, l, r) ==
    /\ f \in Seq(Upstreams)
    /\ Len(f) <= Len(l)
    /\ Len(f) > 0 => r < Len(l)
    /\ \A m \in 1..Len(f) : f[m] = l[Place(r, Len(f) - m, Len(l))]

TurnsOK == turns.list \in Lists /\ Rotated(turns.firsts, turns.list, rrIndex)

\* Within a round, every turn has a place of its own.
LEMMA Places ==
  ASSUME NEW n \in Nat, NEW r \in Nat, r < n
  PROVE  /\ \A d \in 0..n - 1 : Place(r, d, n) \in 1..n
         /\ \A c, d \in 0..n - 1 : Place(r, c, n) = Place(r, d, n) => c = d
  BY DEF Place

\* A turn later, the same choice is one turn further back, for a round.
LEMMA PlacesMove ==
  ASSUME NEW n \in Nat \ {0}, NEW idx \in 0..n - 1
  PROVE  /\ Place(Following(idx, n), 0, n) = idx + 1
         /\ \A d \in 0..n - 2, e \in 1..n - 1 :
               e = d + 1 => Place(Following(idx, n), e, n) = Place(idx, d, n)
<1>1. PICK q \in 0..n - 1 : q = Following(idx, n) /\ q = IF idx + 1 = n THEN 0 ELSE idx + 1
  BY FollowingIs
<1>2. /\ Place(q, 0, n) = idx + 1
      /\ \A d \in 0..n - 2, e \in 1..n - 1 : e = d + 1 => Place(q, e, n) = Place(idx, d, n)
  BY <1>1 DEF Place
<1> QED
  BY <1>1, <1>2

\* The next turn of a list, after the turns f.
LEMMA NextTurn ==
  ASSUME NEW l \in Lists, l # <<>>, NEW f \in Seq(Upstreams), NEW idx \in 0..Len(l) - 1,
         Rotated(f, l, idx),
         NEW g \in Seq(Upstreams), Len(g) = Len(f) + 1, g[Len(f) + 1] = l[idx + 1],
         \A m \in 1..Len(f) : g[m] = f[m]
  PROVE  Rotated(IF Len(g) > Len(l) THEN Tail(g) ELSE g, l, Following(idx, Len(l)))
<1>1. PICK n \in Nat \ {0} :
          /\ n = Len(l) /\ idx \in 0..n - 1 /\ l \in Seq(Upstreams)
          /\ \A i \in 1..n : l[i] \in Upstreams
  BY ListFacts
<1>2. PICK k \in 0..n : k = Len(f) /\ \A m \in 1..k : f[m] = l[Place(idx, k - m, n)]
  BY <1>1 DEF Rotated
<1>3. PICK q \in 0..n - 1 :
          /\ q = Following(idx, n) /\ Place(q, 0, n) = idx + 1
          /\ \A d \in 0..n - 2, e \in 1..n - 1 : e = d + 1 => Place(q, e, n) = Place(idx, d, n)
  <2>1. Following(idx, n) \in 0..n - 1
    BY <1>1, FollowingIs
  <2>2. /\ Place(Following(idx, n), 0, n) = idx + 1
        /\ \A d \in 0..n - 2, e \in 1..n - 1 :
              e = d + 1 => Place(Following(idx, n), e, n) = Place(idx, d, n)
    BY <1>1, PlacesMove
  <2> QED
    BY <2>1, <2>2
<1>4. /\ g \in Seq(Upstreams) /\ Len(g) = k + 1 /\ g[k + 1] = l[idx + 1]
      /\ \A m \in 1..k : g[m] = f[m]
  BY <1>2
\* What g holds of the last round
<1>5. \A m \in 1..k + 1, e \in 0..n - 1 : e = k + 1 - m => g[m] = l[Place(q, e, n)]
  <2> SUFFICES ASSUME NEW m \in 1..k + 1, NEW e \in 0..n - 1, e = k + 1 - m
               PROVE  g[m] = l[Place(q, e, n)]
    OBVIOUS
  <2>1. CASE m = k + 1
    <3>1. e = 0
      BY <2>1
    <3> QED
      BY <1>3, <1>4, <2>1, <3>1
  <2>2. CASE m \in 1..k
    <3>1. PICK d \in 0..n - 2 : d = k - m /\ e = d + 1 /\ e \in 1..n - 1
      BY <2>2
    <3>2. Place(q, e, n) = Place(idx, d, n)
      BY <1>3, <3>1
    <3>3. g[m] = l[Place(idx, d, n)]
      <4>1. g[m] = f[m] /\ f[m] = l[Place(idx, k - m, n)]
        BY <1>2, <1>4, <2>2
      <4> QED
        BY <3>1, <4>1
    <3> QED
      BY <3>2, <3>3
  <2>3. m = k + 1 \/ m \in 1..k
    BY <1>2
  <2> QED
    BY <2>1, <2>2, <2>3
<1>6. CASE k < n
  <2>1. \A m \in 1..Len(g) : g[m] = l[Place(q, Len(g) - m, n)]
    <3> SUFFICES ASSUME NEW m \in 1..Len(g)
                 PROVE  g[m] = l[Place(q, Len(g) - m, n)]
      OBVIOUS
    <3>1. PICK e \in 0..n - 1 : e = k + 1 - m /\ e = Len(g) - m /\ m \in 1..k + 1
      BY <1>4, <1>6
    <3>2. g[m] = l[Place(q, e, n)]
      BY <1>5, <3>1
    <3> QED
      BY <3>1, <3>2
  <2>2. Len(g) <= Len(l) /\ q < Len(l) /\ ~(Len(g) > Len(l))
    BY <1>1, <1>3, <1>4, <1>6
  <2>3. Rotated(g, l, q)
    BY <1>1, <1>4, <2>1, <2>2 DEF Rotated
  <2> QED
    BY <1>1, <1>3, <2>2, <2>3
<1>7. CASE k = n
  <2> DEFINE h == Tail(g)
  <2>0. h \in Seq(Upstreams) /\ Len(h) = Len(g) - 1 /\ \A i \in 1..Len(h) : h[i] = g[i + 1]
    <3>1. g # <<>>
      BY <1>4
    <3> QED
      BY <1>4, <3>1, HeadTailProperties
  <2> HIDE DEF h
  <2>1. h \in Seq(Upstreams) /\ Len(h) = n /\ \A i \in 1..n : h[i] = g[i + 1]
    BY <1>4, <1>7, <2>0
  <2>2. \A m \in 1..Len(h) : h[m] = l[Place(q, Len(h) - m, n)]
    <3> SUFFICES ASSUME NEW m \in 1..Len(h)
                 PROVE  h[m] = l[Place(q, Len(h) - m, n)]
      OBVIOUS
    <3>1. PICK e \in 0..n - 1, i \in 1..k + 1 :
              e = Len(h) - m /\ i = m + 1 /\ e = k + 1 - i /\ m \in 1..n
      BY <1>7, <2>1
    <3>2. h[m] = g[i] /\ g[i] = l[Place(q, e, n)]
      BY <1>5, <2>1, <3>1
    <3> QED
      BY <3>1, <3>2
  <2>3. Len(g) > Len(l) /\ Len(h) <= Len(l) /\ q < Len(l)
    BY <1>1, <1>3, <1>4, <1>7, <2>1
  <2>4. Rotated(h, l, q)
    BY <1>1, <2>1, <2>2, <2>3 DEF Rotated
  <2> QED
    BY <1>1, <1>3, <2>3, <2>4 DEF h
<1> QED
  BY <1>2, <1>6, <1>7

LEMMA NoTurn ==
  ASSUME NEW l \in Lists, NEW r
  PROVE  Rotated(<<>>, l, r)
<1>1. <<>> \in Seq(Upstreams) /\ Len(<<>>) = 0 /\ Len(l) \in Nat
  BY ListFacts
<1> QED
  BY <1>1 DEF Rotated

Rotation == Tries /\ TurnsOK

LEMMA InitRotation == Init => Rotation
<1> SUFFICES ASSUME Init
             PROVE  Rotation
  OBVIOUS
<1>1. turns.list = <<>> /\ turns.firsts = <<>>
  BY DEF Init, NoTurns
<1>2. TurnsOK
  BY <1>1, NoList, NoTurn DEF TurnsOK
<1> QED
  BY <1>2, InitTries DEF Rotation

LEMMA StepRotation == Rotation /\ [Next]_vars => Rotation'
<1> SUFFICES ASSUME Rotation, [Next]_vars
             PROVE  TurnsOK'
  BY StepTries DEF Rotation
<1>1. ASSUME UNCHANGED <<rrIndex, turns>>
      PROVE  TurnsOK'
  BY <1>1 DEF Rotation, TurnsOK
<1>2. ASSUME NEW text \in Mails, NEW flag \in BOOLEAN, Begin(text, flag)
      PROVE  TurnsOK'
  BY <1>1, <1>2 DEF Begin
<1>3. ASSUME NEW l \in Lists, ReadList(l)
      PROVE  TurnsOK'
  <2>1. CASE ~rotates
    BY <1>1, <1>3, <2>1 DEF ReadList
  <2>2. CASE rotates
    <3>1. PICK idx : /\ idx = Turn(Len(l)) /\ l # <<>>
                     /\ rrIndex' = Following(idx, Len(l)) /\ turns' = TurnsAfter(l, l[idx + 1])
      BY <1>3, <2>2 DEF ReadList
    <3>2. l \in Seq(Upstreams) /\ Len(l) \in Nat \ {0}
      BY <3>1, ListFacts
    <3>3. idx \in 0..Len(l) - 1 /\ idx = IF rrIndex >= Len(l) THEN 0 ELSE rrIndex
      BY <2>2, <3>1, <3>2, TurnTyped DEF Rotation, Tries
    <3>4. PICK f : f = IF turns.list = l THEN turns.firsts ELSE <<>>
      OBVIOUS
    <3>5. f \in Seq(Upstreams) /\ Rotated(f, l, idx)
      <4>1. CASE f = <<>>
        BY <4>1, NoTurn
      <4>2. CASE f # <<>>
        <5>1. f = turns.firsts /\ turns.list = l
          BY <3>4, <4>2
        <5>2. f \in Seq(Upstreams) /\ Rotated(f, l, rrIndex)
          BY <5>1 DEF Rotation, TurnsOK, Rotated
        <5>3. Len(f) > 0
          BY <4>2, <5>2
        <5>4. rrIndex < Len(l) /\ rrIndex \in Nat
          BY <5>2, <5>3, NoList DEF Rotated, Rotation, Tries, WorkerOK
        <5>5. idx = rrIndex
          BY <3>2, <3>3, <5>4
        <5> QED
          BY <5>2, <5>5
      <4> QED
        BY <4>1, <4>2
    <3> DEFINE g == Append(f, l[idx + 1])
    <3>6. /\ g \in Seq(Upstreams) /\ Len(g) = Len(f) + 1 /\ g[Len(f) + 1] = l[idx + 1]
          /\ \A m \in 1..Len(f) : g[m] = f[m]
      <4>1. l[idx + 1] \in Upstreams
        BY <3>2, <3>3
      <4> QED
        BY <3>5, <4>1, AppendProperties
    <3>7. turns'.list = l /\ turns'.firsts = IF Len(g) > Len(l) THEN Tail(g) ELSE g
      BY <3>1, <3>4 DEF TurnsAfter
    <3> HIDE DEF g
    <3>8. Rotated(IF Len(g) > Len(l) THEN Tail(g) ELSE g, l, Following(idx, Len(l)))
      BY <3>1, <3>3, <3>5, <3>6, NextTurn
    <3> QED
      BY <3>1, <3>7, <3>8 DEF TurnsOK
  <2> QED
    BY <2>1, <2>2
<1>4. CASE ReadFails
  BY <1>1, <1>4 DEF ReadFails
<1>5. CASE Accepted
  BY <1>1, <1>5 DEF Accepted
<1>6. CASE Rejected
  BY <1>1, <1>6 DEF Rejected
<1>7. CASE Restart
  <2>1. turns'.list = <<>> /\ turns'.firsts = <<>>
    BY <1>7 DEF Restart, NoTurns
  <2> QED
    BY <2>1, NoList, NoTurn DEF TurnsOK
<1>8. CASE UNCHANGED vars
  BY <1>1, <1>8 DEF vars
<1> QED
  BY <1>2, <1>3, <1>4, <1>5, <1>6, <1>7, <1>8 DEF Next

\* What is kept of the turns are upstreams of the list, and different ones.
LEMMA RotationFacts ==
  ASSUME Rotation
  PROVE  TypeOK /\ TurnsTaken
<1>1. PICK l, f : l = turns.list /\ f = turns.firsts
  OBVIOUS
<1>2. l \in Lists /\ Rotated(f, l, rrIndex)
  BY <1>1 DEF Rotation, TurnsOK
<1>3. PICK n \in Nat : n = Len(l)
  BY <1>2, ListFacts
<1>4. PICK k \in Nat : k = Len(f) /\ k <= n
  BY <1>2, <1>3 DEF Rotated
<1>5. /\ f \in Seq(Upstreams)
      /\ k > 0 => rrIndex < n
      /\ \A m \in 1..k : f[m] = l[Place(rrIndex, k - m, n)]
  BY <1>2, <1>3, <1>4 DEF Rotated
<1>6. rrIndex \in Nat
  BY NoList DEF Rotation, Tries, WorkerOK
<1>7. /\ DOMAIN f = 1..k /\ DOMAIN l = 1..n
      /\ \A i, j \in 1..n : l[i] = l[j] => i = j
  BY <1>5, <1>2, <1>3, <1>4, ListFacts
<1>8. ASSUME NEW m \in 1..k
      PROVE  \E d \in 0..n - 1, i \in 1..n :
                 d = k - m /\ i = Place(rrIndex, d, n) /\ f[m] = l[i]
  <2>1. PICK d \in 0..n - 1 : d = k - m
    <3>1. k <= n
      BY <1>4
    <3> QED
      BY <3>1
  <2>2. Place(rrIndex, d, n) \in 1..n
    BY <1>5, <1>6, Places
  <2> QED
    BY <1>5, <2>1, <2>2
<1>9. TypeOK
  <2>1. \A m \in 1..k : f[m] \in ToSet(l)
    BY <1>7, <1>8 DEF ToSet
  <2>2. f \in Seq(ToSet(l))
    BY <1>5, <1>4, <2>1
  <2> QED
    BY <1>1, <1>2, <2>2, Zenon DEF Rotation, Tries, WorkerOK, TurnsOK, TypeOK
<1>10. TurnsTaken
  <2> SUFFICES ASSUME NEW m \in 1..k, NEW o \in 1..k, f[m] = f[o]
               PROVE  m = o
    BY <1>1, <1>7 DEF TurnsTaken
  <2>1. PICK c \in 0..n - 1, i \in 1..n :
            c = k - m /\ i = Place(rrIndex, c, n) /\ f[m] = l[i]
    BY <1>8
  <2>2. PICK d \in 0..n - 1, j \in 1..n :
            d = k - o /\ j = Place(rrIndex, d, n) /\ f[o] = l[j]
    BY <1>8
  <2>3. i = j
    BY <1>7, <2>1, <2>2
  <2>4. rrIndex < n
    BY <1>5
  <2>5. c = d
    BY <1>6, <2>1, <2>2, <2>3, <2>4, Places
  <2> QED
    BY <2>1, <2>2, <2>5
<1> QED
  BY <1>9, <1>10

\* Every variable keeps its type; rrIndex never passes the number of upstreams, and what is kept of
\* the first choices are upstreams of the list that was rotated over.
THEOREM RelayTyped == Spec => []TypeOK
<1> QED
  BY InitRotation, StepRotation, RotationFacts, PTL DEF Spec

\* Rotation (nextRR): while a user's list stays the same, no upstream is the first choice again
\* before every other one was, although the user's rrIndex outlives every list.
THEOREM Turns == Spec => []TurnsTaken
<1> QED
  BY InitRotation, StepRotation, RotationFacts, PTL DEF Spec

-----------------------------------------------------------------------------
(* What the upstreams are given *)

LEMMA TriesForces ==
  ASSUME Tries
  PROVE  SenderForced /\ RestKept
<1>1. mail \in Seq(Bytes)
  <2>1. <<>> \in Seq(Bytes)
    OBVIOUS
  <2> QED
    BY <2>1, RelayAssumption DEF Tries, WorkerOK
<1>2. ASSUME tried > 0
      PROVE  order[tried] \in Upstreams
  BY <1>2 DEF Tries, WorkerOK
<1>3. ASSUME tried > 0, Blanks(Normal(mail)) # {}
      PROVE  /\ Usual(Normal(mail)) =>
                    /\ Usual(Sent)
                    /\ {Line(Sent, i) : i \in Froms(Sent)} = {FromLine(order[tried])}
             /\ "8bit" \notin ToSet(Normal(mail)) =>
                    Body(Sent) = Body(Normal(mail)) /\ OtherLines(Sent) = OtherLines(Normal(mail))
  <2>1. PICK p \in Upstreams : p = order[tried]
    BY <1>2, <1>3
  <2>2. Sent = RewriteFrom(mail, p)
    BY <2>1 DEF Sent
  <2> QED
    BY <1>1, <1>3, <2>1, <2>2, Rewritten
<1>4. SenderForced
  <2>1. Usual(Normal(mail)) => Blanks(Normal(mail)) # {}
    BY DEF Usual
  <2> QED
    BY <1>3, <2>1, Zenon DEF SenderForced
<1>5. RestKept
  BY <1>3, Zenon DEF RestKept
<1> QED
  BY <1>4, <1>5

\* A mail whose header has at most one From field, of one line, shows the from_email of the
\* upstream that it is given to, and no other sender, whatever upstreams were tried before
\* (rewriteFromHeader, README.md), however long the mail is and however its lines end.
THEOREM Forced == Spec => []SenderForced
<1> QED
  BY InitTries, StepTries, TriesForces, PTL DEF Spec

\* Of any mail in seven bits that has an empty line, rewriteFromHeader leaves the body and the
\* lines of the header that begin no From field as they are, and in their order, however many
\* From fields there are and whether or not they are folded.
THEOREM RestStays == Spec => []RestKept
<1> QED
  BY InitTries, StepTries, TriesForces, PTL DEF Spec

=============================================================================
