----------------------------- MODULE TextProofs -----------------------------
(***************************************************************************)
(* The texts of Relay, for texts of any length: what SplitLines, JoinCRLF, *)
(* Normal and RewriteFrom make of them, and what a reader finds there.     *)
(*                                                                         *)
(* A function that is defined by recursion over the bytes or the lines of  *)
(* a text is the one that each step makes of the one before (Recursion,    *)
(* from the well-foundedness of the natural numbers).  So what it computes *)
(* follows by induction for a set of numbers (AllNaturals): for every text *)
(* there are lines of which it consists, with CR LF between them (Layout), *)
(* and SplitLines finds them (MailRead), up to bytes beyond seven bits.    *)
(*                                                                         *)
(* All that the properties read of a text, by position, is then a matter   *)
(* of its lines: where lines start and end, which of them is the empty     *)
(* line that ends the header, which fields there are, and the body.  What  *)
(* RewriteFrom does is a matter of the lines alone (SenderSet).            *)
(***************************************************************************)
EXTENDS Relay, FiniteSetTheorems, SequenceTheorems, WellFoundedInduction, TLAPS

-----------------------------------------------------------------------------
(* Induction and recursion *)

\* Induction, for a set of numbers: of a set that is not all of them, some number would be the
\* least that is missing.
LEMMA AllNaturals ==
  ASSUME NEW S \in SUBSET Nat, 0 \in S, \A n \in S : n + 1 \in S
  PROVE  \A n \in Nat : n \in S
<1> SUFFICES ASSUME Nat \ S # {}
             PROVE  FALSE
  OBVIOUS
<1>1. PICK n \in Nat \ S : \A k \in Nat \ S : <<k, n>> \notin OpToRel(<, Nat)
  BY NatLessThanWellFounded, WFMin
<1>2. \A k \in Nat : k < n => k \in S
  BY <1>1 DEF OpToRel
<1>3. PICK m \in Nat : n = m + 1
  <2>1. n \in Nat /\ n # 0
    OBVIOUS
  <2>2. n - 1 \in Nat /\ n = (n - 1) + 1
    BY <2>1
  <2> QED
    BY <2>2
<1>4. m \in S
  BY <1>2, <1>3
<1> QED
  BY <1>3, <1>4

\* The same from 1 to n.
LEMMA AllUpTo ==
  ASSUME NEW n \in Nat \ {0}, NEW S, 1 \in S, \A k, j \in 1..n : k = j + 1 /\ j \in S => k \in S
  PROVE  \A k \in 1..n : k \in S
<1> DEFINE T == {k \in Nat : k + 1 <= n => k + 1 \in S}
<1>1. T \in SUBSET Nat /\ 0 \in T
  OBVIOUS
<1>2. \A k \in T : k + 1 \in T
  <2> SUFFICES ASSUME NEW k \in T, k + 1 + 1 <= n
               PROVE  k + 1 + 1 \in S
    OBVIOUS
  <2>1. PICK i \in 1..n, j \in 1..n : i = k + 1 /\ j = k + 1 + 1 /\ j = i + 1
    OBVIOUS
  <2>2. i \in S
    BY <2>1
  <2> QED
    BY <2>1, <2>2
<1> HIDE DEF T
<1>3. \A k \in Nat : k \in T
  BY <1>1, <1>2, AllNaturals, Zenon
<1> SUFFICES ASSUME NEW k \in 1..n
             PROVE  k \in S
  OBVIOUS
<1>4. k - 1 \in Nat /\ (k - 1) + 1 = k
  OBVIOUS
<1> QED
  BY <1>3, <1>4 DEF T

\* f[n] is what n steps make of a.
Computes(f, a, n, step) == f[0] = a /\ \A i \in 1..n : f[i] = step[<<i, f[i - 1]>>]

\* A function with the first value and the step of a recursive definition exists, up to any n.
LEMMA Recursion ==
  ASSUME NEW V, NEW a \in V, NEW n \in Nat, NEW step \in [(1..n) \X V -> V]
  PROVE  \E f \in [0..n -> V] : Computes(f, a, n, step)
<1> DEFINE Steps(f, k) == f[0] = a /\ \A i \in 1..k : f[i] = step[<<i, f[i - 1]>>]
           S == {k \in Nat : k <= n => \E f \in [0..k -> V] : Steps(f, k)}
<1>1. 0 \in S
  <2>1. [i \in 0..0 |-> a] \in [0..0 -> V] /\ Steps([i \in 0..0 |-> a], 0)
    OBVIOUS
  <2> QED
    BY <2>1
<1>2. \A k \in S : k + 1 \in S
  <2> SUFFICES ASSUME NEW k \in S, k + 1 <= n
               PROVE  \E f \in [0..k + 1 -> V] : Steps(f, k + 1)
    OBVIOUS
  <2>1. PICK f \in [0..k -> V] : Steps(f, k)
    OBVIOUS
  <2>2. PICK v \in V : v = step[<<k + 1, f[k]>>]
    BY <2>1
  <2> DEFINE g == [i \in 0..k + 1 |-> IF i = k + 1 THEN v ELSE f[i]]
  <2>3. g \in [0..k + 1 -> V] /\ g[k + 1] = v /\ \A i \in 0..k : g[i] = f[i]
    BY <2>1
  <2> HIDE DEF g
  <2>4. g[0] = a
    BY <2>1, <2>3
  <2>5. \A i \in 1..k + 1 : g[i] = step[<<i, g[i - 1]>>]
    <3> SUFFICES ASSUME NEW i \in 1..k + 1
                 PROVE  g[i] = step[<<i, g[i - 1]>>]
      OBVIOUS
    <3>1. CASE i = k + 1
      <4>1. k \in 0..k /\ k + 1 - 1 = k
        OBVIOUS
      <4>2. g[k] = f[k]
        BY <2>3, <4>1
      <4>3. i - 1 = k
        BY <3>1
      <4> QED
        BY <2>2, <2>3, <3>1, <4>2, <4>3, Zenon
    <3>2. CASE i \in 1..k
      <4>1. i - 1 \in 0..k /\ i \in 0..k
        BY <3>2
      <4> QED
        BY <2>1, <2>3, <3>2, <4>1
    <3> QED
      BY <3>1, <3>2
  <2> QED
    BY <2>3, <2>4, <2>5
<1> HIDE DEF S
<1>3. S \in SUBSET Nat
  BY DEF S
<1>4. n \in S
  BY <1>1, <1>2, <1>3, AllNaturals
<1> QED
  BY <1>4 DEF S, Computes

\* f[n] is what SplitLines has made of the text when it is at byte n.
SplitBy(f, text) ==
    /\ f[0] = << <<>> >> /\ SplitLines(text) = f[Len(text)]
    /\ \A n \in 1..Len(text) : f[n] = AddByte(f[n - 1], text[n])

\* SplitLines is what its steps make of the empty line, byte after byte.
LEMMA SplitLinesIs ==
  ASSUME NEW text \in Seq(Bytes), NEW V, << <<>> >> \in V,
         \A lines \in V, byte \in Bytes : AddByte(lines, byte) \in V
  PROVE  \E f : SplitBy(f, text)
<1>1. PICK n \in Nat : n = Len(text) /\ \A i \in 1..n : text[i] \in Bytes
  OBVIOUS
<1> DEFINE step == [x \in (1..n) \X V |-> AddByte(x[2], text[x[1]])]
           Lines(f) == [i \in 0..n |-> IF i = 0 THEN << <<>> >> ELSE AddByte(f[i - 1], text[i])]
           c == CHOOSE f : f = Lines(f)
<1>2. PICK s \in [(1..n) \X V -> V] :
          \A i \in 1..n, v \in V : s[<<i, v>>] = AddByte(v, text[i])
  <2>1. step \in [(1..n) \X V -> V]
    BY <1>1
  <2>2. \A i \in 1..n, v \in V : step[<<i, v>>] = AddByte(v, text[i])
    OBVIOUS
  <2> HIDE DEF step
  <2> QED
    BY <2>1, <2>2
<1>3. PICK a \in V : a = << <<>> >>
  OBVIOUS
<1>4. PICK f \in [0..n -> V] : Computes(f, a, n, s)
  BY Recursion, Zenon
<1>5. \A i \in 1..n : f[i] = AddByte(f[i - 1], text[i])
  <2> SUFFICES ASSUME NEW i \in 1..n
               PROVE  f[i] = AddByte(f[i - 1], text[i])
    OBVIOUS
  <2>1. i - 1 \in 0..n
    OBVIOUS
  <2>2. PICK v \in V : v = f[i - 1]
    BY <2>1
  <2> QED
    BY <1>2, <1>4, <2>2 DEF Computes
<1>6. f = Lines(f)
  BY <1>3, <1>4, <1>5 DEF Computes
<1>7. c = Lines(c)
  <2> HIDE DEF Lines
  <2> QED
    BY <1>6
<1>8. SplitLines(text) = c[n]
  BY <1>1, Zenon DEF SplitLines
<1> HIDE DEF c
<1>9. c[0] = << <<>> >> /\ \A i \in 1..n : c[i] = AddByte(c[i - 1], text[i])
  <2>1. PICK d : d = Lines(c)
    OBVIOUS
  <2>2. d[0] = << <<>> >> /\ \A i \in 1..n : d[i] = AddByte(c[i - 1], text[i])
    BY <2>1
  <2> QED
    BY <1>7, <2>1, <2>2
<1> QED
  BY <1>1, <1>8, <1>9 DEF SplitBy

\* f[n] is what Normal has made of the text when it is at byte n.
NormalBy(f, text) ==
    /\ f[0] = <<>> /\ Normal(text) = f[Len(text)]
    /\ \A n \in 1..Len(text) : f[n] = Received(f[n - 1], text[n])

\* Normal is what its steps make of the empty text, byte after byte.
LEMMA NormalIs ==
  ASSUME NEW text \in Seq(Bytes), NEW V, <<>> \in V,
         \A t \in V, byte \in Bytes : Received(t, byte) \in V
  PROVE  \E f : NormalBy(f, text)
<1>1. PICK n \in Nat : n = Len(text) /\ \A i \in 1..n : text[i] \in Bytes
  OBVIOUS
<1> DEFINE step == [x \in (1..n) \X V |-> Received(x[2], text[x[1]])]
           Texts(f) == [i \in 0..n |-> IF i = 0 THEN <<>> ELSE Received(f[i - 1], text[i])]
           c == CHOOSE f : f = Texts(f)
<1>2. PICK s \in [(1..n) \X V -> V] :
          \A i \in 1..n, v \in V : s[<<i, v>>] = Received(v, text[i])
  <2>1. step \in [(1..n) \X V -> V]
    BY <1>1
  <2>2. \A i \in 1..n, v \in V : step[<<i, v>>] = Received(v, text[i])
    OBVIOUS
  <2> HIDE DEF step
  <2> QED
    BY <2>1, <2>2
<1>3. PICK a \in V : a = <<>>
  OBVIOUS
<1>4. PICK f \in [0..n -> V] : Computes(f, a, n, s)
  BY Recursion, Zenon
<1>5. \A i \in 1..n : f[i] = Received(f[i - 1], text[i])
  <2> SUFFICES ASSUME NEW i \in 1..n
               PROVE  f[i] = Received(f[i - 1], text[i])
    OBVIOUS
  <2>1. i - 1 \in 0..n
    OBVIOUS
  <2>2. PICK v \in V : v = f[i - 1]
    BY <2>1
  <2> QED
    BY <1>2, <1>4, <2>2 DEF Computes
<1>6. f = Texts(f)
  BY <1>3, <1>4, <1>5 DEF Computes
<1>7. c = Texts(c)
  <2> HIDE DEF Texts
  <2> QED
    BY <1>6
<1>8. Normal(text) = c[n]
  BY <1>1, Zenon DEF Normal
<1> HIDE DEF c
<1>9. c[0] = <<>> /\ \A i \in 1..n : c[i] = Received(c[i - 1], text[i])
  <2>1. PICK d : d = Texts(c)
    OBVIOUS
  <2>2. d[0] = <<>> /\ \A i \in 1..n : d[i] = Received(c[i - 1], text[i])
    BY <2>1
  <2> QED
    BY <1>7, <2>1, <2>2
<1> QED
  BY <1>1, <1>8, <1>9 DEF NormalBy

\* f[n] is what joinCRLF has made of the lines when it is at line n.
JoinedBy(f, lines) ==
    /\ f[1] = lines[1] /\ JoinCRLF(lines) = f[Len(lines)]
    /\ \A k, n \in 1..Len(lines) : n = k + 1 => f[n] = AddLine(f[k], lines[n])

\* JoinCRLF is what its steps make of the first line, line after line.
LEMMA JoinCRLFIs ==
  ASSUME NEW L, NEW V, L \subseteq V, NEW lines \in Seq(L), lines # <<>>,
         \A t \in V, line \in L : AddLine(t, line) \in V
  PROVE  \E f : JoinedBy(f, lines)
<1>1. PICK n \in Nat \ {0} : n = Len(lines) /\ \A i \in 1..n : lines[i] \in L
  OBVIOUS
<1>2. PICK m \in Nat : n = m + 1
  <2>1. n - 1 \in Nat /\ n = n - 1 + 1
    OBVIOUS
  <2> QED
    BY <2>1
<1> DEFINE step == [x \in (1..m) \X V |-> AddLine(x[2], lines[x[1] + 1])]
           Texts(f) == [i \in 1..n |-> IF i = 1 THEN lines[1] ELSE AddLine(f[i - 1], lines[i])]
           c == CHOOSE f : f = Texts(f)
<1>3. PICK s \in [(1..m) \X V -> V] :
          \A i \in 1..m, v \in V : s[<<i, v>>] = AddLine(v, lines[i + 1])
  <2>1. step \in [(1..m) \X V -> V]
    <3>1. \A i \in 1..m : lines[i + 1] \in L
      BY <1>1, <1>2
    <3> QED
      BY <3>1
  <2>2. \A i \in 1..m, v \in V : step[<<i, v>>] = AddLine(v, lines[i + 1])
    OBVIOUS
  <2> HIDE DEF step
  <2> QED
    BY <2>1, <2>2
<1>4. PICK a \in V : a = lines[1]
  BY <1>1
<1>5. PICK g \in [0..m -> V] : Computes(g, a, m, s)
  BY Recursion, Zenon
<1>6. \A i \in 1..m : g[i] = AddLine(g[i - 1], lines[i + 1])
  <2> SUFFICES ASSUME NEW i \in 1..m
               PROVE  g[i] = AddLine(g[i - 1], lines[i + 1])
    OBVIOUS
  <2>1. i - 1 \in 0..m
    OBVIOUS
  <2>2. PICK v \in V : v = g[i - 1]
    BY <2>1
  <2> QED
    BY <1>3, <1>5, <2>2 DEF Computes
<1> DEFINE f == [i \in 1..n |-> g[i - 1]]
<1>7. f = Texts(f)
  <2> SUFFICES ASSUME NEW i \in 1..n
               PROVE  g[i - 1] = IF i = 1 THEN lines[1] ELSE AddLine(f[i - 1], lines[i])
    OBVIOUS
  <2>1. CASE i = 1
    BY <1>4, <1>5, <2>1 DEF Computes
  <2>2. CASE i # 1
    <3>1. PICK j \in 1..m : i = j + 1
      <4>1. i - 1 \in 1..m /\ i = i - 1 + 1
        BY <1>2, <2>2
      <4> QED
        BY <4>1
    <3>2. j \in 1..n /\ i - 1 = j
      BY <1>2, <3>1
    <3>3. f[j] = g[j - 1]
      BY <3>2
    <3> HIDE DEF f
    <3> QED
      BY <1>6, <2>2, <3>1, <3>2, <3>3
  <2> QED
    BY <2>1, <2>2
<1> HIDE DEF f
<1>8. c = Texts(c)
  <2> HIDE DEF Texts
  <2> QED
    BY <1>7
<1>9. JoinCRLF(lines) = c[n]
  BY <1>1, Zenon DEF JoinCRLF
<1> HIDE DEF c
<1>10. c[1] = lines[1] /\ \A i, k \in 1..n : i = k + 1 => c[i] = AddLine(c[k], lines[i])
  <2>1. PICK d : d = Texts(c)
    OBVIOUS
  <2>2. d[1] = lines[1] /\ \A i, k \in 1..n : i = k + 1 => d[i] = AddLine(c[k], lines[i])
    <3>1. \A i, k \in 1..n : i = k + 1 => i # 1 /\ i - 1 = k
      OBVIOUS
    <3> QED
      BY <2>1, <3>1
  <2> QED
    BY <1>8, <2>1, <2>2
<1> QED
  BY <1>1, <1>9, <1>10 DEF JoinedBy

-----------------------------------------------------------------------------
(* Texts and their lines *)

Symbols == (Bytes \ {"CR", "LF"}) \cup Upstreams
LineSet == Seq(Symbols)
Texts == Seq(Symbols \cup {"CR", "LF"})

\* No byte of a line is a line break.
LEMMA NoBreaks == "CR" \notin Symbols /\ "LF" \notin Symbols
  BY RelayAssumption DEF Symbols, Bytes

\* Line k of a text of n lines is at positions at[k] to end[k] - 1.
Spans(n, at, end) ==
    /\ at \in [1..n -> Nat] /\ end \in [1..n -> Nat]
    /\ at[1] = 1
    /\ \A k \in 1..n : at[k] <= end[k]
    /\ \A j, k \in 1..n : k = j + 1 => at[k] = end[j] + 2

\* The text is of the first n of these lines, with CR LF between them.
Layout(text, lines, n, at, end) ==
    /\ Spans(n, at, end)
    /\ end[n] = Len(text) + 1
    /\ \A k \in 1..n : end[k] = at[k] + Len(lines[k])
    /\ \A k \in 1..n : \A i \in 1..Len(lines[k]), p \in 1..Len(text) :
          p + 1 = at[k] + i => text[p] = lines[k][i]
    /\ \A j, k \in 1..n : k = j + 1 => text[end[j]] = "CR" /\ text[end[j] + 1] = "LF"

\* Lines do not overlap.
LEMMA InOrder ==
  ASSUME NEW n \in Nat \ {0}, NEW at, NEW end, Spans(n, at, end)
  PROVE  /\ \A k \in 1..n : at[k] \in Nat /\ end[k] \in Nat /\ 1 <= at[k] /\ at[k] <= end[k]
         /\ \A j, k \in 1..n : j < k => end[j] + 2 <= at[k]
         /\ \A j, k \in 1..n : at[j] = at[k] => j = k
<1>1. /\ \A k \in 1..n : at[k] \in Nat /\ end[k] \in Nat /\ at[k] <= end[k]
      /\ \A j, k \in 1..n : k = j + 1 => at[k] = end[j] + 2
      /\ at[1] = 1
  BY DEF Spans
<1>2. ASSUME NEW j \in 1..n
      PROVE  \A k \in 1..n : j < k => end[j] + 2 <= at[k]
  <2> DEFINE S == {k \in 1..n : j < k => end[j] + 2 <= at[k]}
  <2>1. 1 \in S
    OBVIOUS
  <2>2. \A k, i \in 1..n : k = i + 1 /\ i \in S => k \in S
    <3> SUFFICES ASSUME NEW k \in 1..n, NEW i \in 1..n, k = i + 1, i \in S, j < k
                 PROVE  end[j] + 2 <= at[k]
      OBVIOUS
    <3>1. at[k] = end[i] + 2 /\ at[i] <= end[i] /\ at[i] \in Nat /\ end[i] \in Nat /\ end[j] \in Nat
      BY <1>1
    <3>2. CASE i = j
      BY <3>1, <3>2
    <3>3. CASE j < i
      <4>1. end[j] + 2 <= at[i]
        BY <3>3
      <4> QED
        BY <3>1, <4>1
    <3> QED
      BY <3>2, <3>3
  <2> HIDE DEF S
  <2>3. \A k \in 1..n : k \in S
    BY <2>1, <2>2, AllUpTo
  <2> QED
    BY <2>3 DEF S
<1>3. \A j, k \in 1..n : j < k => end[j] + 2 <= at[k]
  BY <1>2
<1>4. \A k \in 1..n : 1 <= at[k]
  <2> SUFFICES ASSUME NEW k \in 1..n
               PROVE  1 <= at[k]
    OBVIOUS
  <2>1. CASE k = 1
    BY <1>1, <2>1
  <2>2. CASE 1 < k
    <3>1. 1 \in 1..n /\ end[1] + 2 <= at[k]
      BY <1>3, <2>2
    <3> QED
      BY <1>1, <3>1
  <2> QED
    BY <2>1, <2>2
<1>5. \A j, k \in 1..n : at[j] = at[k] => j = k
  <2> SUFFICES ASSUME NEW j \in 1..n, NEW k \in 1..n, j < k
               PROVE  at[j] # at[k]
    OBVIOUS
  <2>1. end[j] + 2 <= at[k] /\ at[j] <= end[j] /\ at[j] \in Nat /\ end[j] \in Nat /\ at[k] \in Nat
    BY <1>1, <1>3
  <2> QED
    BY <2>1
<1> QED
  BY <1>1, <1>3, <1>4, <1>5

\* c is a, and then b.
Joins(c, a, b) ==
    /\ c = a \o b /\ Len(c) = Len(a) + Len(b)
    /\ \A i \in 1..Len(a) : c[i] = a[i]
    /\ \A i \in 1..Len(b), j \in 1..Len(c) : j = Len(a) + i => c[j] = b[i]

\* A concatenation, by position.
LEMMA Concatenated ==
  ASSUME NEW S, NEW a \in Seq(S), NEW b \in Seq(S)
  PROVE  \E c \in Seq(S) : Joins(c, a, b)
<1>1. /\ a \o b \in Seq(S) /\ Len(a \o b) = Len(a) + Len(b)
      /\ \A i \in 1..Len(a) + Len(b) :
            (a \o b)[i] = IF i <= Len(a) THEN a[i] ELSE b[i - Len(a)]
  BY ConcatProperties
<1>2. PICK c \in Seq(S) : c = a \o b
  BY <1>1
<1>3. PICK m \in Nat, n \in Nat : m = Len(a) /\ n = Len(b)
  OBVIOUS
<1>4. Len(c) = m + n /\ \A i \in 1..m + n : c[i] = IF i <= m THEN a[i] ELSE b[i - m]
  BY <1>1, <1>2, <1>3
<1>5. \A i \in 1..m : c[i] = a[i]
  BY <1>4
<1>6. \A i \in 1..n, j \in 1..Len(c) : j = m + i => c[j] = b[i]
  <2>1. \A i \in 1..n, j \in 1..m + n : j = m + i => ~(j <= m) /\ j - m = i
    OBVIOUS
  <2> QED
    BY <1>4, <2>1
<1>7. Joins(c, a, b)
  BY <1>2, <1>3, <1>4, <1>5, <1>6, Zenon DEF Joins
<1> QED
  BY <1>7

\* c is a, and then x.
Grows(c, a, x) ==
    /\ c = Append(a, x) /\ Len(c) = Len(a) + 1
    /\ \A i \in 1..Len(a) : c[i] = a[i]
    /\ c[Len(a) + 1] = x

\* A sequence with one more element, by position.
LEMMA Appended ==
  ASSUME NEW S, NEW a \in Seq(S), NEW x \in S
  PROVE  \E c \in Seq(S) : Grows(c, a, x)
<1>1. /\ Append(a, x) \in Seq(S) /\ Len(Append(a, x)) = Len(a) + 1
      /\ \A i \in 1..Len(a) : Append(a, x)[i] = a[i]
      /\ Append(a, x)[Len(a) + 1] = x
  BY AppendProperties
<1>2. Grows(Append(a, x), a, x)
  BY <1>1, Zenon DEF Grows
<1> QED
  BY <1>1, <1>2

\* What AddLine makes of a text, by position.
LEMMA AddLineIs ==
  ASSUME NEW text \in Texts, NEW line \in LineSet
  PROVE  \E t \in Texts :
            /\ t = AddLine(text, line) /\ Len(t) = Len(text) + 2 + Len(line)
            /\ \A p \in 1..Len(text) : t[p] = text[p]
            /\ t[Len(text) + 1] = "CR" /\ t[Len(text) + 2] = "LF"
            /\ \A i \in 1..Len(line), p \in 1..Len(t) : p = Len(text) + 2 + i => t[p] = line[i]
<1>1. PICK S : S = Symbols \cup {"CR", "LF"}
  OBVIOUS
<1>2. text \in Seq(S) /\ line \in Seq(S)
  <2>1. Symbols \subseteq S
    BY <1>1
  <2>2. line \in Seq(Symbols)
    BY DEF LineSet
  <2> QED
    BY <1>1, <2>1, <2>2 DEF Texts
<1>3. PICK c \in Seq(S) : c = <<"CR", "LF">> /\ Len(c) = 2 /\ c[1] = "CR" /\ c[2] = "LF"
  <2>1. "CR" \in S /\ "LF" \in S
    BY <1>1
  <2>2. <<"CR", "LF">> \in Seq(S)
    BY <2>1
  <2> QED
    BY <2>2
<1>4. PICK a \in Seq(S) : Joins(a, text, c)
  BY <1>2, Concatenated, Zenon
<1>5. PICK t \in Seq(S) : Joins(t, a, line)
  BY <1>2, Concatenated, Zenon
<1>6. AddLine(text, line) = t
  BY <1>3, <1>4, <1>5, Zenon DEF AddLine, Joins
<1>7. PICK m \in Nat, n \in Nat : m = Len(text) /\ n = Len(line)
  BY <1>2
<1>8. Len(a) = m + 2 /\ Len(t) = m + 2 + n
  BY <1>3, <1>4, <1>5, <1>7 DEF Joins
<1>9. \A p \in 1..m : t[p] = text[p]
  <2>1. \A p \in 1..m : p \in 1..Len(a)
    BY <1>8
  <2> QED
    BY <1>4, <1>5, <1>7, <2>1 DEF Joins
<1>10. t[m + 1] = "CR" /\ t[m + 2] = "LF"
  <2>1. m + 1 \in 1..Len(a) /\ m + 2 \in 1..Len(a) /\ 1 \in 1..Len(c) /\ 2 \in 1..Len(c)
    BY <1>3, <1>8
  <2>2. a[m + 1] = c[1] /\ a[m + 2] = c[2]
    BY <1>4, <1>7, <2>1 DEF Joins
  <2> QED
    BY <1>3, <1>5, <2>1, <2>2 DEF Joins
<1>11. \A i \in 1..n, p \in 1..Len(t) : p = m + 2 + i => t[p] = line[i]
  BY <1>5, <1>7, <1>8 DEF Joins
<1>12. t \in Texts
  BY <1>1 DEF Texts
<1> QED
  BY <1>6, <1>7, <1>8, <1>9, <1>10, <1>11, <1>12

LaidOut(text, lines, n) == \E at, end : Layout(text, lines, n, at, end)

\* One line alone is a text that consists of it.
LEMMA LayoutOne ==
  ASSUME NEW lines \in Seq(LineSet), lines # <<>>
  PROVE  LaidOut(lines[1], lines, 1)
<1>1. PICK line \in LineSet : line = lines[1]
  OBVIOUS
<1>2. PICK m \in Nat : m = Len(line)
  BY DEF LineSet
<1>3. PICK at \in [1..1 -> Nat], end \in [1..1 -> Nat] : at[1] = 1 /\ end[1] = m + 1
  <2>1. [i \in 1..1 |-> 1] \in [1..1 -> Nat] /\ [i \in 1..1 |-> m + 1] \in [1..1 -> Nat]
    OBVIOUS
  <2>2. [i \in 1..1 |-> 1][1] = 1 /\ [i \in 1..1 |-> m + 1][1] = m + 1
    OBVIOUS
  <2> QED
    BY <2>1, <2>2
<1>4. \A k \in 1..1 : k = 1
  OBVIOUS
<1>5. Spans(1, at, end)
  BY <1>3, <1>4 DEF Spans
<1>6. \A i \in 1..m, p \in 1..m : p + 1 = at[1] + i => line[p] = line[i]
  BY <1>3
<1>7. end[1] = at[1] + m
  BY <1>3
<1>8. Layout(line, lines, 1, at, end)
  BY <1>1, <1>2, <1>3, <1>4, <1>5, <1>6, <1>7 DEF Layout
<1> QED
  BY <1>1, <1>8 DEF LaidOut

\* Only the first n of the lines matter.
LEMMA LayoutOf ==
  ASSUME NEW text, NEW lines, NEW other, NEW n, LaidOut(text, lines, n),
         \A k \in 1..n : other[k] = lines[k]
  PROVE  LaidOut(text, other, n)
<1>1. PICK at, end : Layout(text, lines, n, at, end)
  BY DEF LaidOut
<1>2. Layout(text, other, n, at, end)
  BY <1>1 DEF Layout
<1> QED
  BY <1>2 DEF LaidOut

\* AddLine adds the next line to a text that consists of those before it.
LEMMA LayoutAddLine ==
  ASSUME NEW text \in Texts, NEW lines \in Seq(LineSet), NEW n \in 1..Len(lines),
         NEW q \in 1..Len(lines), q = n + 1, LaidOut(text, lines, n)
  PROVE  LaidOut(AddLine(text, lines[q]), lines, q)
<1>1. PICK at, end : Layout(text, lines, n, at, end)
  BY DEF LaidOut
<1>2. PICK line \in LineSet : line = lines[q]
  OBVIOUS
<1>3. PICK t \in Texts :
          /\ t = AddLine(text, line) /\ Len(t) = Len(text) + 2 + Len(line)
          /\ \A p \in 1..Len(text) : t[p] = text[p]
          /\ t[Len(text) + 1] = "CR" /\ t[Len(text) + 2] = "LF"
          /\ \A i \in 1..Len(line), p \in 1..Len(t) : p = Len(text) + 2 + i => t[p] = line[i]
  BY AddLineIs
<1>4. PICK m \in Nat, c \in Nat : m = Len(text) /\ c = Len(line)
  BY DEF Texts, LineSet
<1> DEFINE newat == [k \in 1..q |-> IF k = q THEN m + 3 ELSE at[k]]
           newend == [k \in 1..q |-> IF k = q THEN m + 3 + c ELSE end[k]]
<1>5. PICK a, e : a = newat /\ e = newend
  OBVIOUS
<1>6. /\ at \in [1..n -> Nat] /\ end \in [1..n -> Nat] /\ at[1] = 1
      /\ \A k \in 1..n : at[k] <= end[k]
      /\ \A j, k \in 1..n : k = j + 1 => at[k] = end[j] + 2
  BY <1>1 DEF Layout, Spans
<1>7. /\ end[n] = m + 1
      /\ \A k \in 1..n : end[k] = at[k] + Len(lines[k])
      /\ \A k \in 1..n : \A i \in 1..Len(lines[k]), p \in 1..m :
            p + 1 = at[k] + i => text[p] = lines[k][i]
      /\ \A j, k \in 1..n : k = j + 1 => text[end[j]] = "CR" /\ text[end[j] + 1] = "LF"
  BY <1>1, <1>4 DEF Layout
<1>8. /\ a \in [1..q -> Nat] /\ e \in [1..q -> Nat]
      /\ \A k \in 1..n : a[k] = at[k] /\ e[k] = end[k]
      /\ a[q] = m + 3 /\ e[q] = m + 3 + c
  <2>1. \A k \in 1..n : k # q /\ k \in 1..q
    OBVIOUS
  <2>2. \A k \in 1..q : k = q \/ k \in 1..n
    OBVIOUS
  <2> QED
    BY <1>5, <1>6, <2>1, <2>2
<1>9. \A k \in 1..q : k = q \/ k \in 1..n
  OBVIOUS
<1>10. 1 \in 1..n /\ n \in 1..n /\ \A j \in 1..n : j # q
  OBVIOUS
<1> HIDE DEF newat, newend
<1>11. Spans(q, a, e)
  <2>1. \A k \in 1..q : a[k] <= e[k]
    <3>1. a[q] <= e[q]
      BY <1>4, <1>8
    <3>2. \A k \in 1..n : a[k] <= e[k]
      BY <1>6, <1>8
    <3> QED
      BY <1>9, <3>1, <3>2
  <2>2. \A j, k \in 1..q : k = j + 1 => a[k] = e[j] + 2
    <3> SUFFICES ASSUME NEW j \in 1..q, NEW k \in 1..q, k = j + 1
                 PROVE  a[k] = e[j] + 2
      OBVIOUS
    <3>1. j \in 1..n
      OBVIOUS
    <3>2. CASE k = q
      <4>1. j = n
        BY <3>2
      <4> QED
        BY <1>7, <1>8, <3>1, <3>2, <4>1
    <3>3. CASE k \in 1..n
      BY <1>6, <1>8, <3>1, <3>3
    <3> QED
      BY <1>9, <3>2, <3>3
  <2>3. a[1] = 1
    BY <1>6, <1>8, <1>10
  <2> QED
    BY <1>8, <2>1, <2>2, <2>3 DEF Spans
<1>12. /\ Len(t) = m + 2 + c
       /\ \A p \in 1..m : t[p] = text[p]
       /\ t[m + 1] = "CR" /\ t[m + 2] = "LF"
       /\ \A i \in 1..c, p \in 1..Len(t) : p = m + 2 + i => t[p] = line[i]
  BY <1>3, <1>4
<1>13. e[q] = Len(t) + 1
  BY <1>8, <1>12
<1>14. \A k \in 1..q : e[k] = a[k] + Len(lines[k])
  <2>1. e[q] = a[q] + Len(lines[q])
    BY <1>2, <1>4, <1>8
  <2>2. \A k \in 1..n : e[k] = a[k] + Len(lines[k])
    BY <1>7, <1>8
  <2> QED
    BY <1>9, <2>1, <2>2
<1>15. \A k \in 1..n : at[k] \in Nat /\ end[k] \in Nat /\ end[k] <= m + 1
  <2>1. /\ \A k \in 1..n : at[k] \in Nat /\ end[k] \in Nat /\ 1 <= at[k] /\ at[k] <= end[k]
        /\ \A j, k \in 1..n : j < k => end[j] + 2 <= at[k]
    <3>1. n \in Nat \ {0} /\ Spans(n, at, end)
      BY <1>1 DEF Layout
    <3> QED
      BY <3>1, InOrder
  <2> SUFFICES ASSUME NEW k \in 1..n, k # n
               PROVE  end[k] <= m + 1
    BY <1>7, <2>1
  <2>2. k < n
    OBVIOUS
  <2>3. end[k] + 2 <= at[n] /\ at[n] <= end[n] /\ at[n] \in Nat /\ end[k] \in Nat
    BY <1>10, <2>1, <2>2
  <2> QED
    BY <1>7, <2>3
<1>16. ASSUME NEW k \in 1..q, NEW i \in 1..Len(lines[k]), NEW p \in 1..Len(t), p + 1 = a[k] + i
       PROVE  t[p] = lines[k][i]
  <2>1. CASE k = q
    <3>1. i \in 1..c /\ p = m + 2 + i
      <4>1. Len(lines[k]) = c /\ a[k] = m + 3
        BY <1>2, <1>4, <1>8, <2>1
      <4>2. i \in 1..c /\ p + 1 = m + 3 + i
        BY <1>16, <4>1
      <4> QED
        BY <1>12, <4>2
    <3> QED
      BY <1>2, <1>12, <2>1, <3>1
  <2>2. CASE k \in 1..n
    <3>1. PICK y \in Nat, z \in Nat, w \in Nat :
              /\ y = at[k] /\ z = end[k] /\ w = Len(lines[k]) /\ z = y + w /\ z <= m + 1
      <4>1. lines[k] \in LineSet
        OBVIOUS
      <4>2. Len(lines[k]) \in Nat
        BY <4>1 DEF LineSet
      <4>3. at[k] \in Nat /\ end[k] \in Nat /\ end[k] <= m + 1
        BY <1>15, <2>2
      <4>4. end[k] = at[k] + Len(lines[k])
        BY <1>7, <2>2
      <4> QED
        BY <4>2, <4>3, <4>4
    <3>2. p + 1 = y + i /\ i \in 1..w
      BY <1>8, <1>16, <2>2, <3>1
    <3>3. p \in 1..m
      <4>1. i <= w /\ i \in Nat /\ y + w <= m + 1
        BY <3>1, <3>2
      <4>2. p \in Nat /\ 1 <= p
        BY <1>12
      <4> QED
        BY <3>2, <4>1, <4>2
    <3>4. text[p] = lines[k][i]
      BY <1>7, <2>2, <3>1, <3>2, <3>3
    <3> QED
      BY <1>12, <3>3, <3>4
  <2> QED
    BY <1>9, <2>1, <2>2
<1>17. ASSUME NEW j \in 1..q, NEW k \in 1..q, k = j + 1
       PROVE  t[e[j]] = "CR" /\ t[e[j] + 1] = "LF"
  <2>1. j \in 1..n
    BY <1>17
  <2>2. CASE k = q
    <3>1. j = n
      BY <1>17, <2>2
    <3>2. e[j] = m + 1
      BY <1>7, <1>8, <2>1, <3>1
    <3> QED
      BY <1>12, <3>2
  <2>3. CASE k \in 1..n
    <3>1. PICK y \in Nat, z \in Nat : y = end[j] /\ z = at[k] /\ z = y + 2 /\ z <= m + 1 /\ 1 <= y
      <4>1. at[k] = end[j] + 2 /\ at[k] <= end[k] /\ end[k] <= m + 1
        BY <1>6, <1>15, <1>17, <2>1, <2>3
      <4>2. at[k] \in Nat /\ end[j] \in Nat /\ end[k] \in Nat
        BY <1>15, <2>1, <2>3
      <4>3. 1 <= end[j]
        <5>1. 1 <= at[j] /\ at[j] <= end[j] /\ at[j] \in Nat
          BY <1>1, <2>1, InOrder DEF Layout
        <5> QED
          BY <4>2, <5>1
      <4> QED
        BY <4>1, <4>2, <4>3
    <3>2. text[y] = "CR" /\ text[y + 1] = "LF"
      BY <1>7, <1>17, <2>1, <2>3, <3>1
    <3>3. y \in 1..m /\ y + 1 \in 1..m
      BY <3>1
    <3> QED
      BY <1>8, <1>12, <2>1, <3>1, <3>2, <3>3
  <2> QED
    BY <1>9, <2>2, <2>3
<1>18. Layout(t, lines, q, a, e)
  BY <1>11, <1>13, <1>14, <1>16, <1>17 DEF Layout
<1> QED
  BY <1>2, <1>3, <1>18 DEF LaidOut

\* joinCRLF lays out its lines.
LEMMA JoinLaysOut ==
  ASSUME NEW lines \in Seq(LineSet), lines # <<>>
  PROVE  JoinCRLF(lines) \in Texts /\ LaidOut(JoinCRLF(lines), lines, Len(lines))
<1>1. PICK n \in Nat \ {0} : n = Len(lines) /\ \A i \in 1..n : lines[i] \in LineSet
  OBVIOUS
<1>2. LineSet \subseteq Texts
  <2>1. Symbols \subseteq Symbols \cup {"CR", "LF"}
    OBVIOUS
  <2> QED
    BY <2>1 DEF LineSet, Texts
<1>3. \A t \in Texts, line \in LineSet : AddLine(t, line) \in Texts
  BY AddLineIs
<1>4. PICK f : /\ f[1] = lines[1] /\ JoinCRLF(lines) = f[Len(lines)]
               /\ \A k, i \in 1..Len(lines) : i = k + 1 => f[i] = AddLine(f[k], lines[i])
  <2>1. \E f : JoinedBy(f, lines)
    BY <1>2, <1>3, JoinCRLFIs
  <2> QED
    BY <2>1 DEF JoinedBy
<1> DEFINE S == {k \in 1..n : f[k] \in Texts /\ LaidOut(f[k], lines, k)}
<1>5. 1 \in S
  BY <1>1, <1>2, <1>4, LayoutOne
<1>6. \A k, j \in 1..n : k = j + 1 /\ j \in S => k \in S
  <2> SUFFICES ASSUME NEW k \in 1..n, NEW j \in 1..n, k = j + 1, j \in S
               PROVE  f[k] \in Texts /\ LaidOut(f[k], lines, k)
    OBVIOUS
  <2>1. f[k] = AddLine(f[j], lines[k]) /\ lines[k] \in LineSet
    BY <1>1, <1>4
  <2>2. PICK t \in Texts : t = f[j] /\ LaidOut(t, lines, j)
    OBVIOUS
  <2>3. j \in 1..Len(lines) /\ k \in 1..Len(lines)
    BY <1>1
  <2>4. LaidOut(AddLine(t, lines[k]), lines, k)
    BY <2>2, <2>3, LayoutAddLine
  <2> QED
    BY <1>3, <2>1, <2>2, <2>4
<1> HIDE DEF S
<1>7. n \in S
  <2>1. \A k \in 1..n : k \in S
    BY <1>5, <1>6, AllUpTo
  <2> QED
    BY <2>1
<1> QED
  BY <1>1, <1>4, <1>7 DEF S

\* One more byte at the end of a text is one more byte of its last line.
LEMMA LayoutAddByte ==
  ASSUME NEW text \in Texts, NEW lines \in Seq(LineSet), NEW n \in 1..Len(lines),
         LaidOut(text, lines, n), NEW b \in Symbols,
         NEW other \in Seq(LineSet), n \in 1..Len(other),
         \A k \in 1..n : other[k] = IF k = n THEN Append(lines[k], b) ELSE lines[k]
  PROVE  LaidOut(Append(text, b), other, n)
<1>1. PICK at, end : Layout(text, lines, n, at, end)
  BY DEF LaidOut
<1>2. PICK line \in LineSet, c \in Nat : line = lines[n] /\ c = Len(line)
  <2>1. lines[n] \in LineSet
    OBVIOUS
  <2>2. Len(lines[n]) \in Nat
    BY <2>1 DEF LineSet
  <2> QED
    BY <2>1, <2>2
<1>3. PICK m \in Nat : m = Len(text)
  BY DEF Texts
<1>4. PICK t : /\ t = Append(text, b) /\ Len(t) = m + 1
               /\ \A p \in 1..m : t[p] = text[p]
               /\ t[m + 1] = b
  <2>1. \E t : Grows(t, text, b)
    BY Appended DEF Texts
  <2> QED
    BY <1>3, <2>1 DEF Grows
<1>5. PICK l : /\ l = Append(line, b) /\ Len(l) = c + 1
               /\ \A i \in 1..c : l[i] = line[i]
               /\ l[c + 1] = b
  <2>1. \E l : Grows(l, line, b)
    BY Appended DEF LineSet
  <2> QED
    BY <1>2, <2>1 DEF Grows
<1> DEFINE newend == [k \in 1..n |-> IF k = n THEN m + 2 ELSE end[k]]
<1>6. PICK e : e = newend
  OBVIOUS
<1>7. /\ at \in [1..n -> Nat] /\ end \in [1..n -> Nat] /\ at[1] = 1
      /\ \A k \in 1..n : at[k] <= end[k]
      /\ \A j, k \in 1..n : k = j + 1 => at[k] = end[j] + 2
  BY <1>1 DEF Layout, Spans
<1>8. /\ end[n] = m + 1
      /\ \A k \in 1..n : end[k] = at[k] + Len(lines[k])
      /\ \A k \in 1..n : \A i \in 1..Len(lines[k]), p \in 1..m :
            p + 1 = at[k] + i => text[p] = lines[k][i]
      /\ \A j, k \in 1..n : k = j + 1 => text[end[j]] = "CR" /\ text[end[j] + 1] = "LF"
  BY <1>1, <1>3 DEF Layout
<1>9. /\ e \in [1..n -> Nat]
      /\ \A k \in 1..n : k # n => e[k] = end[k]
      /\ e[n] = m + 2
  BY <1>6, <1>7
<1> HIDE DEF newend
<1>10. n \in 1..n /\ at[n] \in Nat /\ at[n] + c = m + 1
  BY <1>2, <1>7, <1>8
<1>11. Spans(n, at, e)
  <2>1. \A k \in 1..n : at[k] <= e[k]
    <3> SUFFICES ASSUME NEW k \in 1..n
                 PROVE  at[k] <= e[k]
      OBVIOUS
    <3>1. CASE k = n
      BY <1>9, <1>10, <3>1
    <3>2. CASE k # n
      BY <1>7, <1>9, <3>2
    <3> QED
      BY <3>1, <3>2
  <2>2. \A j, k \in 1..n : k = j + 1 => at[k] = e[j] + 2
    BY <1>7, <1>9
  <2> QED
    BY <1>7, <1>9, <2>1, <2>2 DEF Spans
<1>12. \A k \in 1..n : e[k] = at[k] + Len(other[k])
  <2> SUFFICES ASSUME NEW k \in 1..n
               PROVE  e[k] = at[k] + Len(other[k])
    OBVIOUS
  <2>1. CASE k = n
    <3>1. other[k] = l
      BY <1>2, <1>5, <2>1
    <3> QED
      BY <1>5, <1>9, <1>10, <2>1, <3>1
  <2>2. CASE k # n
    BY <1>8, <1>9, <2>2
  <2> QED
    BY <2>1, <2>2
<1>13. /\ \A k \in 1..n : at[k] \in Nat /\ end[k] \in Nat /\ 1 <= at[k] /\ at[k] <= end[k]
       /\ \A j, k \in 1..n : j < k => end[j] + 2 <= at[k]
  <2>1. n \in Nat \ {0} /\ Spans(n, at, end)
    BY <1>1 DEF Layout
  <2> QED
    BY <2>1, InOrder
<1>14. ASSUME NEW k \in 1..n, NEW i \in 1..Len(other[k]), NEW p \in 1..Len(t), p + 1 = at[k] + i
       PROVE  t[p] = other[k][i]
  <2>1. CASE k = n
    <3>1. other[k] = l
      BY <1>2, <1>5, <2>1
    <3>2. i \in 1..c + 1 /\ p + 1 = at[n] + i
      BY <1>5, <1>14, <2>1, <3>1
    <3>3. CASE i = c + 1
      <4>1. p = m + 1
        BY <1>10, <3>2, <3>3
      <4> QED
        BY <1>4, <1>5, <3>1, <3>3, <4>1
    <3>4. CASE i # c + 1
      <4>1. i \in 1..c /\ p \in 1..m
        BY <1>10, <1>13, <3>2, <3>4
      <4>2. text[p] = line[i]
        BY <1>2, <1>8, <3>2, <4>1
      <4> QED
        BY <1>4, <1>5, <3>1, <4>1, <4>2
    <3> QED
      BY <3>3, <3>4
  <2>2. CASE k # n
    <3>1. other[k] = lines[k] /\ lines[k] \in LineSet
      BY <2>2
    <3>2. PICK y \in Nat, z \in Nat, w \in Nat :
              /\ y = at[k] /\ z = end[k] /\ w = Len(lines[k]) /\ z = y + w /\ z <= m /\ 1 <= y
      <4>1. Len(lines[k]) \in Nat
        BY <3>1 DEF LineSet
      <4>2. k < n
        BY <2>2
      <4>3. end[k] + 2 <= at[n] /\ at[n] <= m + 1
        BY <1>10, <1>13, <4>2
      <4>4. at[k] \in Nat /\ end[k] \in Nat /\ 1 <= at[k] /\ end[k] = at[k] + Len(lines[k])
        BY <1>8, <1>13
      <4>5. end[k] <= m
        <5>1. end[k] + 2 <= m + 1
          BY <4>3, <4>4, <1>10
        <5> QED
          BY <4>4, <5>1
      <4> QED
        BY <4>1, <4>4, <4>5
    <3>3. i \in 1..w /\ p + 1 = y + i
      BY <1>14, <3>1, <3>2
    <3>4. p \in 1..m
      <4>1. i <= w /\ i \in Nat /\ y + w <= m
        BY <3>2, <3>3
      <4>2. p \in Nat /\ 1 <= p
        BY <1>4
      <4> QED
        BY <3>3, <4>1, <4>2
    <3>5. text[p] = lines[k][i]
      <4>1. i \in 1..Len(lines[k]) /\ p + 1 = at[k] + i
        BY <3>2, <3>3
      <4> QED
        BY <1>8, <3>4, <4>1
    <3> QED
      BY <1>4, <3>1, <3>4, <3>5
  <2> QED
    BY <2>1, <2>2
<1>15. ASSUME NEW j \in 1..n, NEW k \in 1..n, k = j + 1
       PROVE  t[e[j]] = "CR" /\ t[e[j] + 1] = "LF"
  <2>1. j # n /\ e[j] = end[j]
    BY <1>9, <1>15
  <2>2. PICK y \in Nat : y = end[j] /\ y + 1 <= m /\ 1 <= y
    <3>1. at[k] = end[j] + 2 /\ at[k] <= at[n]
      <4>1. at[k] = end[j] + 2
        BY <1>7, <1>15
      <4>2. CASE k = n
        BY <1>13, <4>1, <4>2
      <4>3. CASE k < n
        <5>1. at[k] <= end[k] /\ at[k] \in Nat /\ end[k] \in Nat
          BY <1>13
        <5>2. n \in 1..n /\ at[n] \in Nat
          BY <1>10, <1>13
        <5>3. end[k] + 2 <= at[n]
          BY <1>13, <4>3, <5>2
        <5>4. at[k] <= at[n]
          BY <5>1, <5>2, <5>3
        <5> QED
          BY <4>1, <5>4
      <4> QED
        BY <4>2, <4>3
    <3>2. end[j] \in Nat /\ 1 <= at[j] /\ at[j] <= end[j] /\ at[j] \in Nat
      BY <1>13
    <3>3. PICK y \in Nat : y = end[j] /\ 1 <= y
      BY <3>2
    <3>4. y + 2 <= m + 1
      <4>1. at[n] \in Nat /\ at[n] <= m + 1 /\ m \in Nat
        BY <1>10
      <4>2. y + 2 = at[k]
        BY <3>1, <3>3
      <4> QED
        BY <3>1, <4>1, <4>2
    <3> QED
      BY <3>3, <3>4
  <2>3. text[y] = "CR" /\ text[y + 1] = "LF"
    BY <1>8, <1>15, <2>2
  <2>4. y \in 1..m /\ y + 1 \in 1..m
    BY <2>2
  <2> QED
    BY <1>4, <2>1, <2>2, <2>3, <2>4
<1>16. e[n] = Len(t) + 1
  BY <1>4, <1>9
<1>17. Layout(t, other, n, at, e)
  BY <1>11, <1>12, <1>14, <1>15, <1>16 DEF Layout
<1> QED
  BY <1>4, <1>17 DEF LaidOut

-----------------------------------------------------------------------------
(* The lines that SplitLines finds *)

LineLists == Seq(LineSet) \ {<<>>}

\* The last line l of some lines has become m by a byte that is neither CR nor LF.
LastLine(m, l, byte) ==
    /\ m \in LineSet /\ m # <<>>
    /\ m[1] = IF l = <<>> THEN byte ELSE l[1]
    /\ byte # "8bit" => m = Append(l, byte)

\* What AddByte makes of the last line is a line.
LEMMA LineGrows ==
  ASSUME NEW l \in LineSet, NEW byte \in Bytes \ {"CR", "LF"}
  PROVE  LastLine(Append(l, byte), l, byte) /\ LastLine(l \o <<"8bit", "8bit">>, l, "8bit")
<1>1. byte \in Symbols /\ "8bit" \in Symbols
  BY DEF Symbols, Bytes
<1>2. LastLine(Append(l, byte), l, byte)
  <2>1. PICK c : Grows(c, l, byte)
    BY <1>1, Appended DEF LineSet
  <2>2. PICK n \in Nat : n = Len(l)
    BY DEF LineSet
  <2>3. c = Append(l, byte) /\ c \in LineSet /\ Len(c) = n + 1
    BY <1>1, <2>1, <2>2 DEF Grows, LineSet
  <2>4. c # <<>>
    BY <2>3
  <2>5. CASE l = <<>>
    <3>1. c[1] = byte
      BY <2>1, <2>5 DEF Grows
    <3> QED
      BY <2>3, <2>4, <2>5, <3>1 DEF LastLine
  <2>6. CASE l # <<>>
    <3>1. 1 \in 1..Len(l)
      BY <2>6 DEF LineSet
    <3>2. c[1] = l[1]
      BY <2>1, <3>1 DEF Grows
    <3> QED
      BY <2>3, <2>4, <2>6, <3>2 DEF LastLine
  <2> QED
    BY <2>5, <2>6
<1>3. LastLine(l \o <<"8bit", "8bit">>, l, "8bit")
  <2>1. PICK d \in Seq(Symbols) : d = <<"8bit", "8bit">> /\ Len(d) = 2 /\ d[1] = "8bit"
    <3>1. <<"8bit", "8bit">> \in Seq(Symbols)
      BY <1>1
    <3> QED
      BY <3>1
  <2>2. PICK c \in Seq(Symbols) : Joins(c, l, d)
    BY Concatenated DEF LineSet
  <2>3. PICK n \in Nat : n = Len(l)
    BY DEF LineSet
  <2>4. c = l \o d /\ c \in LineSet /\ Len(c) = n + 2
    BY <2>1, <2>2, <2>3 DEF Joins, LineSet
  <2>5. c # <<>>
    BY <2>4
  <2>6. CASE l = <<>>
    <3>1. 1 \in 1..Len(d) /\ 1 \in 1..Len(c) /\ 1 = Len(l) + 1
      BY <2>1, <2>4, <2>6
    <3>2. c[1] = d[1]
      BY <2>2, <3>1 DEF Joins
    <3> QED
      BY <2>1, <2>4, <2>5, <2>6, <3>2 DEF LastLine
  <2>7. CASE l # <<>>
    <3>1. 1 \in 1..Len(l)
      BY <2>7 DEF LineSet
    <3>2. c[1] = l[1]
      BY <2>2, <3>1 DEF Joins
    <3> QED
      BY <2>1, <2>4, <2>5, <2>7, <3>2 DEF LastLine
  <2> QED
    BY <2>6, <2>7
<1> QED
  BY <1>2, <1>3

\* What a byte makes of the lines
Changed(m, l, byte) ==
    IF byte = "CR" THEN m = l
    ELSE IF byte = "LF" THEN Grows(m, l, <<>>)
    ELSE /\ Len(m) = Len(l)
         /\ \A k \in 1..Len(l) : k # Len(l) => m[k] = l[k]
         /\ LastLine(m[Len(l)], l[Len(l)], byte)

\* What AddByte makes of a list of lines: a CR is dropped, a LF begins a line, another byte
\* belongs to the last line.
LEMMA AddByteIs ==
  ASSUME NEW lines \in LineLists, NEW byte \in Bytes
  PROVE  AddByte(lines, byte) \in LineLists /\ Changed(AddByte(lines, byte), lines, byte)
<1>0. PICK n \in Nat \ {0} : n = Len(lines) /\ lines \in [1..n -> LineSet]
  BY DEF LineLists
<1>1. CASE byte = "CR"
  <2>1. AddByte(lines, byte) = lines
    BY <1>1 DEF AddByte
  <2> QED
    BY <1>1, <2>1 DEF Changed
<1>2. CASE byte = "LF"
  <2>1. AddByte(lines, byte) = Append(lines, <<>>)
    BY <1>2 DEF AddByte
  <2>2. <<>> \in LineSet
    BY DEF LineSet
  <2>3. PICK c \in Seq(LineSet) : c = Append(lines, <<>>) /\ Grows(c, lines, <<>>)
    <3>1. \E c : Grows(c, lines, <<>>)
      BY <2>2, Appended DEF LineLists
    <3> QED
      BY <2>2, <3>1 DEF Grows, LineLists
  <2>4. Len(c) = n + 1
    BY <1>0, <2>3 DEF Grows
  <2>5. c # <<>>
    BY <2>4
  <2> QED
    BY <1>2, <2>1, <2>3, <2>5 DEF Changed, LineLists
<1>3. CASE byte \notin {"CR", "LF"}
  <2>1. PICK l \in LineSet : l = lines[n]
    BY <1>0
  <2>2. PICK m \in LineSet :
            /\ LastLine(m, l, byte)
            /\ AddByte(lines, byte) = [lines EXCEPT ![Len(lines)] = m]
    <3>1. CASE byte = "8bit"
      <4>1. AddByte(lines, byte) = [lines EXCEPT ![Len(lines)] = @ \o <<"8bit", "8bit">>]
        BY <3>1 DEF AddByte
      <4>2. LastLine(l \o <<"8bit", "8bit">>, l, "8bit")
        BY <1>3, LineGrows
      <4>3. l \o <<"8bit", "8bit">> \in LineSet
        BY <4>2 DEF LastLine
      <4> QED
        BY <1>0, <2>1, <3>1, <4>1, <4>2, <4>3
    <3>2. CASE byte # "8bit"
      <4>1. AddByte(lines, byte) = [lines EXCEPT ![Len(lines)] = Append(@, byte)]
        BY <1>3, <3>2 DEF AddByte
      <4>2. LastLine(Append(l, byte), l, byte)
        BY <1>3, LineGrows
      <4>3. Append(l, byte) \in LineSet
        BY <4>2 DEF LastLine
      <4> QED
        BY <1>0, <2>1, <4>1, <4>2, <4>3
    <3> QED
      BY <3>1, <3>2
  <2>3. PICK c : c = [lines EXCEPT ![n] = m]
    OBVIOUS
  <2>4. /\ c \in [1..n -> LineSet] /\ c[n] = m
        /\ \A k \in 1..n : k # n => c[k] = lines[k]
    <3>1. lines \in [1..n -> LineSet] /\ n \in 1..n
      BY <1>0
    <3> QED
      BY <2>3, <3>1
  <2>5. c \in Seq(LineSet) /\ Len(c) = n
    BY <2>4
  <2>6. c # <<>>
    BY <2>5
  <2>7. AddByte(lines, byte) = c
    BY <1>0, <2>2, <2>3
  <2>8. Changed(c, lines, byte)
    BY <1>0, <1>3, <2>1, <2>2, <2>4, <2>5 DEF Changed
  <2> QED
    BY <2>5, <2>6, <2>7, <2>8 DEF LineLists
<1> QED
  BY <1>1, <1>2, <1>3

\* No line has a byte beyond seven bits.
SevenBits(lines) == \A k \in 1..Len(lines) : \A i \in 1..Len(lines[k]) : lines[k][i] # "8bit"

\* The lines of SplitLines are those of the text, but for bytes beyond seven bits.
Mirrors(plain, lines) ==
    /\ Len(plain) = Len(lines)
    /\ \A k \in 1..Len(lines) : plain[k] = <<>> <=> lines[k] = <<>>
    /\ \A k \in 1..Len(lines) : plain[k] # <<>> => plain[k][1] = lines[k][1]
    /\ SevenBits(plain) => plain = lines

\* A text, as Normal has it, and the lines that SplitLines has made of the same bytes
ReadAs(text, lines) ==
    /\ text \in Texts /\ lines \in LineLists
    /\ \E plain \in LineLists : Mirrors(plain, lines) /\ LaidOut(text, plain, Len(plain))

\* Before the first byte, there is one line, which is empty.
LEMMA NothingRead == ReadAs(<<>>, << <<>> >>)
<1>1. PICK line \in LineSet : line = <<>>
  <2>1. <<>> \in LineSet
    BY DEF LineSet
  <2> QED
    BY <2>1
<1>2. PICK lines \in LineLists : lines = << <<>> >> /\ Len(lines) = 1 /\ lines[1] = <<>>
  <2>1. <<line>> \in Seq(LineSet) /\ <<line>> # <<>> /\ Len(<<line>>) = 1 /\ <<line>>[1] = line
    OBVIOUS
  <2> QED
    BY <1>1, <2>1 DEF LineLists
<1>3. LaidOut(<<>>, lines, 1)
  <2>1. LaidOut(lines[1], lines, 1)
    BY <1>2, LayoutOne DEF LineLists
  <2> QED
    BY <1>2, <2>1
<1>4. Mirrors(lines, lines)
  BY DEF Mirrors
<1>5. <<>> \in Texts
  BY DEF Texts
<1> QED
  BY <1>2, <1>3, <1>4, <1>5 DEF ReadAs

\* A LF begins a line for both readers.
LEMMA LineRead ==
  ASSUME NEW text, NEW lines, ReadAs(text, lines)
  PROVE  ReadAs(AddLine(text, <<>>), AddByte(lines, "LF"))
<1>1. text \in Texts /\ lines \in LineLists
  BY DEF ReadAs
<1>2. PICK plain \in LineLists : Mirrors(plain, lines) /\ LaidOut(text, plain, Len(plain))
  BY DEF ReadAs
<1>3. PICK n \in Nat \ {0} : n = Len(plain) /\ n = Len(lines)
  BY <1>2 DEF LineLists, Mirrors
<1>4. <<>> \in LineSet
  BY DEF LineSet
<1>5. PICK m \in LineLists : m = AddByte(lines, "LF") /\ Grows(m, lines, <<>>)
  <2>1. AddByte(lines, "LF") \in LineLists /\ Changed(AddByte(lines, "LF"), lines, "LF")
    BY <1>1, AddByteIs DEF Bytes
  <2> QED
    BY <2>1 DEF Changed
<1>6. PICK c : Grows(c, plain, <<>>)
  BY <1>4, Appended DEF LineLists
<1>7. c \in LineLists /\ Len(c) = n + 1
  <2>1. c \in Seq(LineSet) /\ Len(c) = n + 1
    BY <1>3, <1>4, <1>6 DEF Grows, LineLists
  <2>2. c # <<>>
    BY <2>1
  <2> QED
    BY <2>1, <2>2 DEF LineLists
<1>8. \A k \in 1..n : c[k] = plain[k] /\ m[k] = lines[k]
  BY <1>3, <1>5, <1>6 DEF Grows
<1>9. c[n + 1] = <<>> /\ m[n + 1] = <<>> /\ Len(m) = n + 1
  BY <1>3, <1>5, <1>6 DEF Grows
<1>10. Mirrors(c, m)
  <2>1. \A k \in 1..n + 1 : k \in 1..n \/ k = n + 1
    OBVIOUS
  <2>2. /\ \A k \in 1..n + 1 : c[k] = <<>> <=> m[k] = <<>>
        /\ \A k \in 1..n + 1 : c[k] # <<>> => c[k][1] = m[k][1]
    BY <1>2, <1>3, <1>8, <1>9, <2>1 DEF Mirrors
  <2>3. ASSUME SevenBits(c)
        PROVE  c = m
    <3>1. SevenBits(plain)
      <4>1. \A k \in 1..n : k \in 1..Len(c)
        BY <1>7
      <4> QED
        BY <1>3, <1>8, <2>3, <4>1 DEF SevenBits
    <3>2. plain = lines
      BY <1>2, <3>1 DEF Mirrors
    <3> QED
      BY <1>5, <1>6, <3>2 DEF Grows
  <2> QED
    BY <1>7, <1>9, <2>2, <2>3 DEF Mirrors
<1>11. LaidOut(AddLine(text, <<>>), c, Len(c))
  <2>1. LaidOut(text, c, n)
    BY <1>2, <1>3, <1>8, LayoutOf
  <2>2. PICK q \in 1..Len(c) : q = n + 1 /\ n \in 1..Len(c) /\ q = Len(c) /\ c[q] = <<>>
    BY <1>7, <1>9
  <2>3. c \in Seq(LineSet)
    BY <1>7 DEF LineLists
  <2>4. LaidOut(AddLine(text, c[q]), c, q)
    BY <1>1, <2>1, <2>2, <2>3, LayoutAddLine
  <2> QED
    BY <2>2, <2>4
<1>12. AddLine(text, <<>>) \in Texts
  BY <1>1, <1>4, AddLineIs
<1> QED
  BY <1>5, <1>7, <1>10, <1>11, <1>12 DEF ReadAs

\* Any other byte belongs to the last line for both readers, who differ on one beyond seven bits.
LEMMA ByteRead ==
  ASSUME NEW text, NEW lines, ReadAs(text, lines), NEW byte \in Bytes \ {"CR", "LF"}
  PROVE  ReadAs(Append(text, byte), AddByte(lines, byte))
<1>1. text \in Texts /\ lines \in LineLists
  BY DEF ReadAs
<1>2. PICK plain \in LineLists : Mirrors(plain, lines) /\ LaidOut(text, plain, Len(plain))
  BY DEF ReadAs
<1>3. PICK n \in Nat \ {0} : n = Len(plain) /\ n = Len(lines) /\ n \in 1..Len(plain)
  BY <1>2 DEF LineLists, Mirrors
<1>4. byte \in Symbols
  BY DEF Symbols
<1>5. PICK m \in LineLists : m = AddByte(lines, byte) /\ Changed(m, lines, byte)
  BY <1>1, AddByteIs
<1>6. /\ Len(m) = n /\ \A k \in 1..n : k # n => m[k] = lines[k]
      /\ LastLine(m[n], lines[n], byte)
  BY <1>3, <1>5 DEF Changed
<1>0. \A k \in 1..n : plain[k] \in LineSet
  <2>1. plain \in Seq(LineSet)
    BY DEF LineLists
  <2>2. \A k \in 1..Len(plain) : plain[k] \in LineSet
    BY <2>1
  <2> QED
    BY <1>3, <2>2
<1>7. PICK l \in LineSet : l = plain[n]
  BY <1>0, <1>3
<1>8. PICK e \in LineSet : e = Append(l, byte) /\ LastLine(e, l, byte)
  <2>1. LastLine(Append(l, byte), l, byte)
    BY LineGrows
  <2> QED
    BY <2>1 DEF LastLine
<1>9. PICK c : c = [k \in 1..n |-> IF k = n THEN e ELSE plain[k]]
  OBVIOUS
<1>10. c \in [1..n -> LineSet] /\ c[n] = e /\ \A k \in 1..n : k # n => c[k] = plain[k]
  BY <1>0, <1>9
<1>11. c \in Seq(LineSet) /\ Len(c) = n
  BY <1>10
<1>12. c \in LineLists
  <2>1. c # <<>>
    BY <1>11
  <2> QED
    BY <1>11, <2>1 DEF LineLists
<1>13. Mirrors(c, m)
  <2>1. /\ \A k \in 1..n : plain[k] = <<>> <=> lines[k] = <<>>
        /\ \A k \in 1..n : plain[k] # <<>> => plain[k][1] = lines[k][1]
        /\ SevenBits(plain) => plain = lines
    BY <1>2, <1>3 DEF Mirrors
  <2>2. /\ e # <<>> /\ m[n] # <<>> /\ e[1] = m[n][1]
    BY <1>6, <1>7, <1>8, <2>1 DEF LastLine
  <2>3. /\ \A k \in 1..n : c[k] = <<>> <=> m[k] = <<>>
        /\ \A k \in 1..n : c[k] # <<>> => c[k][1] = m[k][1]
    BY <1>6, <1>10, <2>1, <2>2
  <2>4. ASSUME SevenBits(c)
        PROVE  c = m
    <3>1. Grows(e, l, byte)
      <4>1. \E d : Grows(d, l, byte)
        BY <1>4, Appended DEF LineSet
      <4> QED
        BY <1>8, <4>1 DEF Grows
    <3>2. PICK h \in Nat : h = Len(l)
      BY DEF LineSet
    <3>3. byte # "8bit" /\ \A i \in 1..h : l[i] # "8bit"
      <4>1. \A i \in 1..Len(c[n]) : c[n][i] # "8bit"
        BY <1>11, <2>4 DEF SevenBits
      <4>2. Len(c[n]) = h + 1 /\ c[n][h + 1] = byte /\ \A i \in 1..h : c[n][i] = l[i]
        BY <1>10, <3>1, <3>2 DEF Grows
      <4>3. h + 1 \in 1..h + 1 /\ \A i \in 1..h : i \in 1..h + 1
        OBVIOUS
      <4> QED
        BY <4>1, <4>2, <4>3
    <3>4. SevenBits(plain)
      <4> SUFFICES ASSUME NEW k \in 1..n
                   PROVE  \A i \in 1..Len(plain[k]) : plain[k][i] # "8bit"
        BY <1>3 DEF SevenBits
      <4>1. CASE k = n
        BY <1>7, <3>2, <3>3, <4>1
      <4>2. CASE k # n
        BY <1>10, <1>11, <2>4, <4>2 DEF SevenBits
      <4> QED
        BY <4>1, <4>2
    <3>5. plain = lines
      BY <2>1, <3>4
    <3>6. m[n] = e
      BY <1>6, <1>7, <1>8, <3>3, <3>5 DEF LastLine
    <3>7. \A k \in 1..n : c[k] = m[k]
      BY <1>6, <1>10, <3>5, <3>6
    <3>8. m \in Seq(LineSet)
      BY DEF LineLists
    <3> QED
      BY <1>6, <1>11, <3>7, <3>8
  <2> QED
    BY <1>6, <1>11, <2>3, <2>4 DEF Mirrors
<1>14. LaidOut(Append(text, byte), c, n)
  <2>1. LaidOut(text, plain, n) /\ plain \in Seq(LineSet)
    BY <1>2, <1>3 DEF LineLists
  <2>2. \A k \in 1..n : c[k] = IF k = n THEN Append(plain[k], byte) ELSE plain[k]
    BY <1>7, <1>8, <1>10
  <2>3. n \in 1..Len(c)
    BY <1>11
  <2> QED
    BY <1>1, <1>3, <1>4, <1>11, <2>1, <2>2, <2>3, LayoutAddByte
<1>15. Append(text, byte) \in Texts
  BY <1>1, <1>4 DEF Texts
<1> QED
  BY <1>5, <1>11, <1>12, <1>13, <1>14, <1>15 DEF ReadAs

\* A text with its lines ended by CR LF, and the lines that RewriteFrom works on.
LEMMA MailRead ==
  ASSUME NEW text \in Seq(Bytes)
  PROVE  ReadAs(Normal(text), SplitLines(text))
<1>1. PICK n \in Nat : n = Len(text) /\ \A i \in 1..n : text[i] \in Bytes
  OBVIOUS
<1>2. PICK g : SplitBy(g, text)
  <2>1. << <<>> >> \in LineLists
    BY NothingRead DEF ReadAs
  <2> QED
    BY <2>1, AddByteIs, SplitLinesIs
<1>3. PICK f : NormalBy(f, text)
  <2>1. <<>> \in Texts
    BY DEF Texts
  <2>2. \A t \in Texts, byte \in Bytes : Received(t, byte) \in Texts
    <3> SUFFICES ASSUME NEW t \in Texts, NEW byte \in Bytes
                 PROVE  Received(t, byte) \in Texts
      OBVIOUS
    <3>1. CASE byte = "CR"
      BY <3>1 DEF Received
    <3>2. CASE byte = "LF"
      <4>1. <<>> \in LineSet
        BY DEF LineSet
      <4>2. AddLine(t, <<>>) \in Texts
        BY <4>1, AddLineIs
      <4> QED
        BY <3>2, <4>2 DEF Received
    <3>3. CASE byte \notin {"CR", "LF"}
      <4>1. byte \in Symbols
        BY <3>3 DEF Symbols
      <4>2. Append(t, byte) \in Texts
        BY <4>1 DEF Texts
      <4> QED
        BY <3>3, <4>2 DEF Received
    <3> QED
      BY <3>1, <3>2, <3>3
  <2> QED
    BY <2>1, <2>2, NormalIs
<1> DEFINE S == {i \in Nat : i <= n => ReadAs(f[i], g[i])}
<1>4. 0 \in S
  BY <1>2, <1>3, NothingRead DEF SplitBy, NormalBy
<1>5. \A i \in S : i + 1 \in S
  <2> SUFFICES ASSUME NEW i \in S, i + 1 <= n
               PROVE  ReadAs(f[i + 1], g[i + 1])
    OBVIOUS
  <2>1. PICK k \in 1..n, byte \in Bytes : k = i + 1 /\ k - 1 = i /\ byte = text[k]
    BY <1>1
  <2>2. f[k] = Received(f[i], byte) /\ g[k] = AddByte(g[i], byte)
    BY <1>1, <1>2, <1>3, <2>1 DEF SplitBy, NormalBy
  <2>3. ReadAs(f[i], g[i])
    OBVIOUS
  <2> HIDE DEF S
  <2>4. ReadAs(Received(f[i], byte), AddByte(g[i], byte))
    <3>1. CASE byte = "CR"
      <4>1. Received(f[i], byte) = f[i] /\ AddByte(g[i], byte) = g[i]
        BY <3>1 DEF Received, AddByte
      <4> QED
        BY <2>3, <4>1, Zenon
    <3>2. CASE byte = "LF"
      <4>1. Received(f[i], byte) = AddLine(f[i], <<>>)
        BY <3>2 DEF Received
      <4> QED
        BY <2>3, <3>2, <4>1, LineRead
    <3>3. CASE byte \notin {"CR", "LF"}
      <4>1. Received(f[i], byte) = Append(f[i], byte)
        BY <3>3 DEF Received
      <4> QED
        BY <2>3, <3>3, <4>1, ByteRead
    <3> QED
      BY <3>1, <3>2, <3>3
  <2> QED
    BY <2>1, <2>2, <2>4
<1> HIDE DEF S
<1>6. n \in S
  <2>1. S \in SUBSET Nat
    BY DEF S
  <2> QED
    BY <1>4, <1>5, <2>1, AllNaturals
<1> QED
  BY <1>1, <1>2, <1>3, <1>6 DEF S, SplitBy, NormalBy

-----------------------------------------------------------------------------
(* What a reader finds in a text *)

\* c is the part of a from its place i to its place j.
Cut(c, a, i, j) ==
    /\ c = SubSeq(a, i, j) /\ Len(c) = j - i + 1
    /\ \A k \in 1..Len(c), h \in 1..Len(a) : h = i + k - 1 => c[k] = a[h]

\* A part of a sequence, by position.
LEMMA CutOut ==
  ASSUME NEW S, NEW a \in Seq(S), NEW i \in 1..Len(a) + 1, NEW j \in i - 1..Len(a)
  PROVE  \E c \in Seq(S) : Cut(c, a, i, j)
<1>1. i \in Int /\ j \in Int /\ \A k \in i..j : a[k] \in S
  OBVIOUS
<1>2. /\ SubSeq(a, i, j) \in Seq(S)
      /\ Len(SubSeq(a, i, j)) = IF i <= j THEN j - i + 1 ELSE 0
      /\ \A k \in 1..j - i + 1 : SubSeq(a, i, j)[k] = a[i + k - 1]
  BY <1>1, SubSeqProperties
<1>3. i <= j \/ j - i + 1 = 0
  OBVIOUS
<1>4. PICK c \in Seq(S) : c = SubSeq(a, i, j)
  BY <1>2
<1>5. Len(c) = j - i + 1 /\ \A k \in 1..j - i + 1 : c[k] = a[i + k - 1]
  BY <1>2, <1>3, <1>4
<1>6. Cut(c, a, i, j)
  BY <1>4, <1>5 DEF Cut
<1> QED
  BY <1>6

\* The text of m bytes consists of the n lines, where at and end say.
Laid(text, m, lines, n, at, end) ==
    /\ text \in Texts /\ m = Len(text) /\ m \in Nat
    /\ lines \in Seq(LineSet) /\ n = Len(lines) /\ n \in Nat \ {0}
    /\ Layout(text, lines, n, at, end)

\* Numbers: the lines of a text follow each other, with CR LF between two of them.
LEMMA LaidFacts ==
  ASSUME NEW text, NEW m, NEW lines, NEW n, NEW at, NEW end, Laid(text, m, lines, n, at, end)
  PROVE  /\ \A k \in 1..n : at[k] \in Nat /\ end[k] \in Nat /\ 1 <= at[k] /\ at[k] <= end[k]
         /\ \A k \in 1..n : end[k] <= m + 1 /\ (k # n => end[k] + 1 <= m)
         /\ \A j, k \in 1..n : j < k => end[j] + 2 <= at[k]
         /\ \A j, k \in 1..n : at[j] = at[k] => j = k
         /\ \A k \in 1..n : lines[k] \in LineSet /\ Len(lines[k]) \in Nat
         /\ \A k \in 1..n : end[k] = at[k] + Len(lines[k])
<1>1. n \in Nat \ {0} /\ m \in Nat /\ Spans(n, at, end) /\ end[n] = m + 1
  BY DEF Laid, Layout
<1>2. /\ \A k \in 1..n : at[k] \in Nat /\ end[k] \in Nat /\ 1 <= at[k] /\ at[k] <= end[k]
      /\ \A j, k \in 1..n : j < k => end[j] + 2 <= at[k]
      /\ \A j, k \in 1..n : at[j] = at[k] => j = k
  BY <1>1, InOrder
<1>3. \A k \in 1..n : end[k] <= m + 1 /\ (k # n => end[k] + 1 <= m)
  <2> SUFFICES ASSUME NEW k \in 1..n, k # n
               PROVE  end[k] + 1 <= m
    BY <1>1, <1>2
  <2>1. k < n /\ n \in 1..n
    BY <1>1
  <2>2. end[k] + 2 <= at[n] /\ at[n] <= m + 1
    BY <1>1, <1>2, <2>1
  <2>3. end[k] \in Nat /\ at[n] \in Nat
    BY <1>2, <2>1
  <2> QED
    BY <1>1, <2>2, <2>3
<1>4. \A k \in 1..n : lines[k] \in LineSet
  <2>1. \A k \in 1..Len(lines) : lines[k] \in LineSet
    BY DEF Laid
  <2> QED
    BY <2>1 DEF Laid
<1>5. \A k \in 1..n : Len(lines[k]) \in Nat
  BY <1>4 DEF LineSet
<1>6. \A k \in 1..n : end[k] = at[k] + Len(lines[k])
  BY DEF Laid, Layout
<1> QED
  BY <1>2, <1>3, <1>4, <1>5, <1>6

\* What stands in a line, and after it.
LEMMA InLine ==
  ASSUME NEW text, NEW m, NEW lines, NEW n, NEW at, NEW end, Laid(text, m, lines, n, at, end),
         NEW k \in 1..n
  PROVE  /\ \A i \in 1..Len(lines[k]), p \in 1..m : p + 1 = at[k] + i => text[p] = lines[k][i]
         /\ k # n => text[end[k]] = "CR" /\ text[end[k] + 1] = "LF"
<1>1. /\ \A i \in 1..Len(lines[k]), p \in 1..m : p + 1 = at[k] + i => text[p] = lines[k][i]
      /\ \A j, h \in 1..n : h = j + 1 => text[end[j]] = "CR" /\ text[end[j] + 1] = "LF"
  BY DEF Laid, Layout
<1>2. k # n => k + 1 \in 1..n
  BY DEF Laid
<1> QED
  BY <1>1, <1>2

\* Every byte is in a line or ends one.
LEMMA Covered ==
  ASSUME NEW text, NEW m, NEW lines, NEW n, NEW at, NEW end, Laid(text, m, lines, n, at, end),
         NEW p \in 1..m
  PROVE  \E k \in 1..n : at[k] <= p /\ p <= end[k] + 1 /\ (k = n => p < end[k])
<1>0. n \in Nat \ {0} /\ m \in Nat
  BY DEF Laid
<1>1. /\ \A k \in 1..n : at[k] \in Nat /\ end[k] \in Nat
      /\ at[1] = 1 /\ end[n] = m + 1
      /\ \A j, k \in 1..n : k = j + 1 => at[k] = end[j] + 2
  BY LaidFacts DEF Laid, Layout, Spans
<1> DEFINE Found(k) == at[k] <= p /\ p <= end[k] + 1 /\ (k = n => p < end[k])
           S == {k \in 1..n : p <= end[k] => \E j \in 1..n : Found(j)}
<1>2. 1 \in S
  <2> SUFFICES ASSUME p <= end[1]
               PROVE  Found(1)
    BY <1>0
  <2>1. 1 \in 1..n
    BY <1>0
  <2> QED
    BY <1>0, <1>1, <2>1
<1>3. \A k, j \in 1..n : k = j + 1 /\ j \in S => k \in S
  <2> SUFFICES ASSUME NEW k \in 1..n, NEW j \in 1..n, k = j + 1, j \in S, p <= end[k],
                      ~(p <= end[j])
               PROVE  \E h \in 1..n : Found(h)
    OBVIOUS
  <2>1. at[k] = end[j] + 2 /\ at[k] \in Nat /\ end[j] \in Nat /\ end[k] \in Nat /\ j # n
    BY <1>0, <1>1
  <2>2. CASE p = end[j] + 1
    <3>1. at[j] <= end[j] /\ at[j] \in Nat
      BY LaidFacts
    <3> QED
      BY <2>1, <2>2, <3>1
  <2>3. CASE p # end[j] + 1
    <3>1. at[k] <= p /\ p <= end[k] + 1
      BY <2>1, <2>3
    <3>2. k = n => p < end[k]
      BY <1>0, <1>1
    <3> QED
      BY <3>1, <3>2
  <2> QED
    BY <2>2, <2>3
<1> HIDE DEF S, Found
<1>4. n \in S
  <2>1. \A k \in 1..n : k \in S
    BY <1>0, <1>2, <1>3, AllUpTo
  <2> QED
    BY <1>0, <2>1
<1>5. p <= end[n]
  BY <1>0, <1>1
<1> QED
  BY <1>4, <1>5 DEF S, Found

\* A byte inside a line is no line end.
LEMMA InsideLine ==
  ASSUME NEW text, NEW m, NEW lines, NEW n, NEW at, NEW end, Laid(text, m, lines, n, at, end),
         NEW k \in 1..n, NEW p \in 1..m, at[k] <= p, p < end[k]
  PROVE  \E i \in 1..Len(lines[k]) :
            p + 1 = at[k] + i /\ text[p] = lines[k][i] /\ text[p] \in Symbols
<1>1. PICK y \in Nat, w \in Nat : y = at[k] /\ w = Len(lines[k]) /\ end[k] = y + w /\ m \in Nat
  <2>1. at[k] \in Nat /\ Len(lines[k]) \in Nat /\ end[k] = at[k] + Len(lines[k])
    BY LaidFacts
  <2>2. m \in Nat
    BY DEF Laid
  <2> QED
    BY <2>1, <2>2
<1>2. PICK i \in 1..w : p + 1 = y + i
  <2>1. p \in Nat /\ y \in Nat /\ w \in Nat /\ y <= p /\ p < y + w
    BY <1>1
  <2>2. ASSUME NEW q \in Nat, NEW b \in Nat, NEW c \in Nat, b <= q, q < b + c
        PROVE  \E i \in 1..c : q + 1 = b + i
    <3>1. q - b + 1 \in 1..c /\ q + 1 = b + (q - b + 1)
      BY <2>2
    <3> QED
      BY <3>1
  <2> QED
    BY <2>1, <2>2
<1>3. text[p] = lines[k][i]
  <2>1. i \in 1..Len(lines[k]) /\ p + 1 = at[k] + i
    BY <1>1, <1>2
  <2> QED
    BY <2>1, InLine
<1>4. lines[k] \in LineSet
  BY LaidFacts
<1>5. lines[k][i] \in Symbols
  BY <1>1, <1>4 DEF LineSet
<1> QED
  BY <1>1, <1>2, <1>3, <1>5

\* Two bytes of a text
LEMMA TwoBytes ==
  ASSUME NEW text \in Texts, NEW i \in Nat, 1 <= i, i < Len(text)
  PROVE  SubSeq(text, i, i + 1) = <<"CR", "LF">> <=> text[i] = "CR" /\ text[i + 1] = "LF"
<1>1. PICK m \in Nat : m = Len(text)
  BY DEF Texts
<1>2. i \in 1..m + 1 /\ i + 1 \in i - 1..m
  BY <1>1
<1>3. PICK c : Cut(c, text, i, i + 1)
  BY <1>1, <1>2, CutOut DEF Texts
<1>4. c = SubSeq(text, i, i + 1) /\ Len(c) = 2
  BY <1>3 DEF Cut
<1>5. c[1] = text[i] /\ c[2] = text[i + 1]
  <2>1. /\ 1 \in 1..Len(c) /\ 2 \in 1..Len(c) /\ i \in 1..m /\ i + 1 \in 1..m
        /\ i = i + 1 - 1 /\ i + 1 = i + 2 - 1
    BY <1>1, <1>4
  <2> QED
    BY <1>1, <1>3, <2>1 DEF Cut
<1>6. c \in Seq(Symbols \cup {"CR", "LF"})
  <2>1. \E d \in Seq(Symbols \cup {"CR", "LF"}) : Cut(d, text, i, i + 1)
    BY <1>1, <1>2, CutOut DEF Texts
  <2> QED
    BY <1>4, <2>1 DEF Cut
<1>7. c = <<"CR", "LF">> <=> c[1] = "CR" /\ c[2] = "LF"
  <2>1. PICK d \in Seq(Symbols \cup {"CR", "LF"}) :
            d = <<"CR", "LF">> /\ Len(d) = 2 /\ d[1] = "CR" /\ d[2] = "LF"
    <3>1. <<"CR", "LF">> \in Seq(Symbols \cup {"CR", "LF"})
      OBVIOUS
    <3> QED
      BY <3>1
  <2>2. ASSUME c[1] = "CR", c[2] = "LF"
        PROVE  c = d
    <3>1. \A k \in 1..2 : k = 1 \/ k = 2
      OBVIOUS
    <3>2. \A k \in 1..2 : c[k] = d[k]
      BY <2>1, <2>2, <3>1
    <3>3. Len(c) = 2 /\ Len(d) = 2
      BY <1>4, <2>1
    <3> QED
      BY <1>6, <3>2, <3>3
  <2> QED
    BY <2>1, <2>2
<1> QED
  BY <1>4, <1>5, <1>7

\* The line ends that are read are those that are there.
LEMMA LineEndIs ==
  ASSUME NEW text, NEW m, NEW lines, NEW n, NEW at, NEW end, Laid(text, m, lines, n, at, end),
         NEW i \in Nat, 1 <= i
  PROVE  LineEnd(text, i) <=> \E k \in 1..n : k # n /\ i = end[k]
<1>1. text \in Texts /\ m = Len(text) /\ m \in Nat
  BY DEF Laid
<1>2. LineEnd(text, i) <=> i < m /\ text[i] = "CR" /\ text[i + 1] = "LF"
  BY <1>1, TwoBytes DEF LineEnd
<1>3. ASSUME NEW k \in 1..n, k # n, i = end[k]
      PROVE  i < m /\ text[i] = "CR" /\ text[i + 1] = "LF"
  <2>1. end[k] + 1 <= m
    BY <1>3, LaidFacts
  <2>2. text[end[k]] = "CR" /\ text[end[k] + 1] = "LF"
    BY <1>3, InLine
  <2> QED
    BY <1>1, <1>3, <2>1, <2>2
<1>4. ASSUME i < m, text[i] = "CR"
      PROVE  \E k \in 1..n : k # n /\ i = end[k]
  <2>1. i \in 1..m
    BY <1>1, <1>4
  <2>2. PICK k \in 1..n : at[k] <= i /\ i <= end[k] + 1 /\ (k = n => i < end[k])
    BY <2>1, Covered
  <2>3. ~(i < end[k])
    <3> SUFFICES ASSUME i < end[k]
                 PROVE  FALSE
      OBVIOUS
    <3>1. text[i] \in Symbols
      BY <2>1, <2>2, InsideLine
    <3> QED
      BY <1>4, <3>1, NoBreaks
  <2>4. end[k] \in Nat /\ k # n
    BY <2>2, <2>3, LaidFacts
  <2>5. i # end[k] + 1
    <3>1. text[end[k] + 1] = "LF"
      BY <2>4, InLine
    <3> QED
      BY <1>4, <3>1
  <2> QED
    BY <2>2, <2>3, <2>4, <2>5
<1> QED
  BY <1>2, <1>3, <1>4

\* The positions where a reader sees a line start are those of the lines.
LEMMA StartsAre ==
  ASSUME NEW text, NEW m, NEW lines, NEW n, NEW at, NEW end, Laid(text, m, lines, n, at, end),
         NEW i
  PROVE  i \in Starts(text) <=> \E k \in 1..n : i = at[k]
<1>1. /\ text \in Texts /\ m = Len(text) /\ m \in Nat /\ n \in Nat \ {0}
      /\ at[1] = 1
      /\ \A j, k \in 1..n : k = j + 1 => at[k] = end[j] + 2
  BY DEF Laid, Layout, Spans
<1>2. /\ \A k \in 1..n : at[k] \in Nat /\ end[k] \in Nat /\ 1 <= at[k] /\ at[k] <= end[k]
      /\ \A k \in 1..n : end[k] <= m + 1
  BY LaidFacts
<1>3. ASSUME NEW k \in 1..n, i = at[k]
      PROVE  i \in Starts(text)
  <2>1. i \in 1..m + 1
    <3>1. at[k] \in Nat /\ end[k] \in Nat /\ 1 <= at[k] /\ at[k] <= end[k] /\ end[k] <= m + 1
      BY <1>2
    <3> QED
      BY <1>1, <1>3, <3>1
  <2>2. CASE k = 1
    BY <1>1, <1>3, <2>1, <2>2 DEF Starts
  <2>3. CASE k # 1
    <3>1. PICK j \in 1..n : k = j + 1 /\ j # n
      <4>1. k - 1 \in 1..n /\ k = k - 1 + 1 /\ k - 1 # n
        BY <1>1, <2>3
      <4> QED
        BY <4>1
    <3>2. i = end[j] + 2 /\ end[j] \in Nat /\ 1 <= end[j]
      <4>1. i = end[j] + 2
        BY <1>1, <1>3, <3>1
      <4>2. end[j] \in Nat /\ at[j] \in Nat /\ 1 <= at[j] /\ at[j] <= end[j]
        BY <1>2
      <4> QED
        BY <4>1, <4>2
    <3>3. LineEnd(text, end[j])
      BY <3>1, <3>2, LineEndIs
    <3>4. i > 2 /\ i - 2 = end[j]
      BY <3>2
    <3> QED
      BY <1>1, <2>1, <3>3, <3>4 DEF Starts
  <2> QED
    BY <2>2, <2>3
<1>4. ASSUME i \in Starts(text)
      PROVE  \E k \in 1..n : i = at[k]
  <2>1. i \in 1..m + 1 /\ (i = 1 \/ (i > 2 /\ LineEnd(text, i - 2)))
    BY <1>1, <1>4 DEF Starts
  <2>2. CASE i = 1
    BY <1>1, <2>2
  <2>3. CASE i > 2 /\ LineEnd(text, i - 2)
    <3>1. PICK h \in Nat : h = i - 2 /\ 1 <= h /\ i = h + 2
      BY <1>1, <2>1, <2>3
    <3>2. PICK j \in 1..n : j # n /\ h = end[j]
      BY <2>3, <3>1, LineEndIs
    <3>3. PICK k \in 1..n : k = j + 1
      <4>1. j + 1 \in 1..n
        BY <1>1, <3>2
      <4> QED
        BY <4>1
    <3> QED
      BY <1>1, <3>1, <3>2, <3>3
  <2> QED
    BY <2>1, <2>2, <2>3
<1> QED
  BY <1>3, <1>4

\* The reader sees an empty line where a line is empty and another follows.
LEMMA BlankIs ==
  ASSUME NEW text, NEW m, NEW lines, NEW n, NEW at, NEW end, Laid(text, m, lines, n, at, end),
         NEW k \in 1..n
  PROVE  LineEnd(text, at[k]) <=> k # n /\ lines[k] = <<>>
<1>1. /\ \A h \in 1..n : at[h] \in Nat /\ end[h] \in Nat /\ 1 <= at[h] /\ at[h] <= end[h]
      /\ \A j, h \in 1..n : j < h => end[j] + 2 <= at[h]
      /\ lines[k] \in LineSet /\ Len(lines[k]) \in Nat
      /\ end[k] = at[k] + Len(lines[k])
  BY LaidFacts
<1>2. LineEnd(text, at[k]) <=> \E h \in 1..n : h # n /\ at[k] = end[h]
  BY <1>1, LineEndIs
<1>3. \A h \in 1..n : at[k] = end[h] => h = k
  <2> SUFFICES ASSUME NEW h \in 1..n, at[k] = end[h], h # k
               PROVE  FALSE
    OBVIOUS
  <2>1. CASE h < k
    BY <1>1, <2>1
  <2>2. CASE k < h
    <3>1. end[k] + 2 <= at[h] /\ at[h] <= end[h] /\ at[k] <= end[k]
      BY <1>1, <2>2
    <3>2. end[k] \in Nat /\ at[h] \in Nat /\ end[h] \in Nat /\ at[k] \in Nat
      BY <1>1
    <3> QED
      BY <3>1, <3>2
  <2> QED
    BY <2>1, <2>2
<1>4. at[k] = end[k] <=> lines[k] = <<>>
  <2>1. Len(lines[k]) = 0 <=> lines[k] = <<>>
    BY <1>1 DEF LineSet
  <2> QED
    BY <1>1, <2>1
<1> QED
  BY <1>2, <1>3, <1>4

\* The least of a set is what no other is less than.
LEMMA MinIs ==
  ASSUME NEW S \in SUBSET Nat, NEW x \in S, \A y \in S : x <= y
  PROVE  Min(S) = x
<1>1. \E z \in S : \A y \in S : z <= y
  OBVIOUS
<1>2. Min(S) \in S /\ \A y \in S : Min(S) <= y
  BY <1>1, Zenon DEF Min
<1>3. Min(S) \in Nat /\ Min(S) <= x /\ x <= Min(S)
  BY <1>2
<1> QED
  BY <1>3

\* What the reader sees from the start of a line to its end is that line.
LEMMA LineIs ==
  ASSUME NEW text, NEW m, NEW lines, NEW n, NEW at, NEW end, Laid(text, m, lines, n, at, end),
         NEW k \in 1..n, k # n
  PROVE  Line(text, at[k]) = lines[k]
<1>1. /\ \A h \in 1..n : at[h] \in Nat /\ end[h] \in Nat /\ 1 <= at[h] /\ at[h] <= end[h]
      /\ \A j, h \in 1..n : j < h => end[j] + 2 <= at[h]
      /\ lines[k] \in LineSet
      /\ end[k] + 1 <= m
  BY LaidFacts
<1>2. PICK a \in Nat, e \in Nat, w \in Nat :
          a = at[k] /\ e = end[k] /\ w = Len(lines[k]) /\ e = a + w /\ 1 <= a /\ e + 1 <= m
  <2>1. Len(lines[k]) \in Nat /\ end[k] = at[k] + Len(lines[k])
    BY LaidFacts
  <2> QED
    BY <1>1, <2>1
<1>0. e = a + w /\ 1 <= a /\ e + 1 <= m
  BY <1>2
<1>3. text \in Texts /\ m = Len(text) /\ m \in Nat /\ n \in Nat
  BY DEF Laid
<1>4. PICK S : S = {j \in a..m : LineEnd(text, j)}
  OBVIOUS
<1>5. e \in S
  <2>1. LineEnd(text, e)
    <3>1. 1 <= e
      BY <1>0
    <3>2. \E h \in 1..n : h # n /\ e = end[h]
      BY <1>2
    <3> QED
      BY <3>1, <3>2, LineEndIs
  <2> QED
    BY <1>0, <1>3, <1>4, <2>1
<1>6. \A j \in S : e <= j
  <2> SUFFICES ASSUME NEW j \in S
               PROVE  e <= j
    OBVIOUS
  <2>1. j \in Nat /\ a <= j /\ LineEnd(text, j)
    BY <1>2, <1>4
  <2>2. PICK h \in 1..n : h # n /\ j = end[h]
    <3>1. 1 <= j
      BY <1>2, <2>1
    <3> QED
      BY <2>1, <3>1, LineEndIs
  <2>3. CASE h < k
    <3>1. j + 2 <= a
      BY <1>1, <1>2, <2>2, <2>3
    <3> QED
      BY <2>1, <3>1
  <2>4. CASE h = k
    <3>1. j = e
      BY <1>2, <2>2, <2>4
    <3> QED
      BY <3>1
  <2>5. CASE k < h
    <3>1. e + 2 <= at[h] /\ at[h] <= j /\ at[h] \in Nat
      BY <1>1, <1>2, <2>2, <2>5
    <3> QED
      BY <2>1, <3>1
  <2> QED
    BY <2>3, <2>4, <2>5
<1>7. Min(S) = e
  <2>1. S \in SUBSET Nat
    BY <1>2, <1>4
  <2> QED
    BY <1>5, <1>6, <2>1, MinIs
<1>8. Line(text, at[k]) = SubSeq(text, a, e - 1)
  BY <1>2, <1>3, <1>4, <1>7 DEF Line
<1>9. PICK c \in Seq(Symbols \cup {"CR", "LF"}) : Cut(c, text, a, e - 1)
  <2>1. a \in 1..m + 1 /\ e - 1 \in a - 1..m
    BY <1>0, <1>3
  <2> QED
    BY <1>3, <2>1, CutOut DEF Texts
<1>10. Len(c) = w
  BY <1>0, <1>9 DEF Cut
<1>11. \A i \in 1..w : c[i] = lines[k][i]
  <2> SUFFICES ASSUME NEW i \in 1..w
               PROVE  c[i] = lines[k][i]
    OBVIOUS
  <2>1. PICK p \in 1..m : p = a + i - 1
    <3>1. a + i - 1 \in 1..m
      BY <1>0, <1>3
    <3> QED
      BY <3>1
  <2>2. c[i] = text[p]
    BY <1>3, <1>9, <1>10, <2>1 DEF Cut
  <2>3. text[p] = lines[k][i]
    <3>1. i \in 1..Len(lines[k]) /\ p + 1 = at[k] + i
      BY <1>2, <2>1
    <3> QED
      BY <3>1, InLine
  <2> QED
    BY <2>2, <2>3
<1>12. c = lines[k]
  <2>1. lines[k] \in Seq(Symbols \cup {"CR", "LF"})
    BY <1>1 DEF LineSet
  <2>2. Len(lines[k]) = w /\ Len(c) = w
    BY <1>2, <1>10
  <2> QED
    BY <1>11, <2>1, <2>2
<1> QED
  BY <1>8, <1>9, <1>12 DEF Cut

-----------------------------------------------------------------------------
(* The header *)

\* A set of numbers that is not empty has a least one.
LEMMA Least ==
  ASSUME NEW S \in SUBSET Nat, S # {}
  PROVE  \E x \in S : \A y \in S : x <= y
<1>1. PICK x \in S : \A y \in S : <<y, x>> \notin OpToRel(<, Nat)
  BY NatLessThanWellFounded, WFMin
<1>2. \A y \in S : ~(y < x)
  BY <1>1 DEF OpToRel
<1> QED
  BY <1>2

\* Line h is the empty line that ends the header.
Header(lines, n, h) ==
    /\ h \in 1..n /\ h # n
    /\ lines[h] = <<>>
    /\ \A k \in 1..n : k < h => lines[k] # <<>>

\* The lines of a header that says Usual of its text
LinesUsual(lines, h) ==
    /\ \A j, k \in 1..h - 1 : IsFrom(lines[j]) /\ IsFrom(lines[k]) => j = k
    /\ \A k \in 1..h - 1 : lines[k][1] = "folded" =>
           \E j \in 1..h - 1 : k = j + 1 /\ ~IsFrom(lines[j])

\* Lines start in their order.
LEMMA StartsOrder ==
  ASSUME NEW text, NEW m, NEW lines, NEW n, NEW at, NEW end, Laid(text, m, lines, n, at, end)
  PROVE  \A j, k \in 1..n : j < k <=> at[j] < at[k]
<1>1. /\ \A k \in 1..n : at[k] \in Nat /\ end[k] \in Nat /\ at[k] <= end[k]
      /\ \A j, k \in 1..n : j < k => end[j] + 2 <= at[k]
  BY LaidFacts
<1>2. \A j, k \in 1..n : j < k => at[j] < at[k]
  BY <1>1
<1>3. n \in Nat
  BY DEF Laid
<1> SUFFICES ASSUME NEW j \in 1..n, NEW k \in 1..n, at[j] < at[k], ~(j < k)
             PROVE  FALSE
  BY <1>2
<1>4. CASE j = k
  BY <1>1, <1>4
<1>5. CASE k < j
  <2>1. at[k] < at[j] /\ at[j] \in Nat /\ at[k] \in Nat
    BY <1>1, <1>2, <1>5
  <2> QED
    BY <2>1
<1> QED
  BY <1>3, <1>4, <1>5

\* A line that is not empty starts with its first byte.
LEMMA FirstByte ==
  ASSUME NEW text, NEW m, NEW lines, NEW n, NEW at, NEW end, Laid(text, m, lines, n, at, end),
         NEW k \in 1..n, lines[k] # <<>>
  PROVE  text[at[k]] = lines[k][1]
<1>1. PICK a \in Nat, w \in Nat : a = at[k] /\ w = Len(lines[k])
  BY LaidFacts
<1>2. 1 <= a /\ a + w <= m + 1 /\ m \in Nat
  <2>1. 1 <= at[k] /\ end[k] = at[k] + Len(lines[k]) /\ end[k] <= m + 1
    BY LaidFacts
  <2> QED
    BY <1>1, <2>1 DEF Laid
<1>3. w # 0
  <2>1. lines[k] \in LineSet
    BY LaidFacts
  <2> QED
    BY <1>1, <2>1 DEF LineSet
<1>4. 1 \in 1..w /\ a \in 1..m /\ a + 1 = a + 1
  BY <1>2, <1>3
<1>5. text[a] = lines[k][1]
  BY <1>1, <1>4, InLine
<1> QED
  BY <1>1, <1>5

\* The empty lines the reader sees are those of the list that are not its last.
LEMMA BlanksAre ==
  ASSUME NEW text, NEW m, NEW lines, NEW n, NEW at, NEW end, Laid(text, m, lines, n, at, end),
         NEW i
  PROVE  i \in Blanks(text) <=> \E k \in 1..n : k # n /\ lines[k] = <<>> /\ i = at[k]
<1>1. i \in Blanks(text) <=> i \in Starts(text) /\ LineEnd(text, i)
  BY DEF Blanks
<1>2. i \in Starts(text) <=> \E k \in 1..n : i = at[k]
  BY StartsAre
<1>3. \A k \in 1..n : LineEnd(text, at[k]) <=> k # n /\ lines[k] = <<>>
  BY BlankIs
<1> QED
  BY <1>1, <1>2, <1>3

\* If there is an empty line, a first one of them ends the header.
LEMMA HeaderIs ==
  ASSUME NEW text, NEW m, NEW lines, NEW n, NEW at, NEW end, Laid(text, m, lines, n, at, end),
         Blanks(text) # {}
  PROVE  \E h \in 1..n : Header(lines, n, h)
<1>1. PICK k \in 1..n : k # n /\ lines[k] = <<>>
  BY BlanksAre
<1>2. n \in Nat
  BY DEF Laid
<1>3. PICK S : S = {j \in 1..n : lines[j] = <<>>}
  OBVIOUS
<1>4. S \in SUBSET Nat /\ k \in S
  BY <1>1, <1>3
<1>5. PICK h \in S : \A j \in S : h <= j
  BY <1>4, Least
<1>6. h \in 1..n /\ lines[h] = <<>> /\ h <= k
  BY <1>3, <1>4, <1>5
<1>7. h # n
  BY <1>1, <1>2, <1>6
<1>8. \A j \in 1..n : j < h => lines[j] # <<>>
  <2> SUFFICES ASSUME NEW j \in 1..n, j < h, lines[j] = <<>>
               PROVE  FALSE
    OBVIOUS
  <2>1. j \in S
    BY <1>3
  <2>2. h <= j
    BY <1>5, <2>1
  <2> QED
    BY <1>2, <1>6, <2>2
<1> QED
  BY <1>6, <1>7, <1>8 DEF Header

\* The reader sees the header end where the lines say.
LEMMA HeaderEnds ==
  ASSUME NEW text, NEW m, NEW lines, NEW n, NEW at, NEW end, Laid(text, m, lines, n, at, end),
         NEW h, Header(lines, n, h)
  PROVE  Blanks(text) # {} /\ Min(Blanks(text)) = at[h]
<1>1. h \in 1..n /\ h # n /\ lines[h] = <<>> /\ \A k \in 1..n : k < h => lines[k] # <<>>
  BY DEF Header
<1>2. at[h] \in Blanks(text)
  BY <1>1, BlanksAre
<1>3. \A k \in 1..n : at[k] \in Nat
  BY LaidFacts
<1>4. Blanks(text) \in SUBSET Nat
  BY <1>3, BlanksAre
<1>5. \A i \in Blanks(text) : at[h] <= i
  <2> SUFFICES ASSUME NEW i \in Blanks(text)
               PROVE  at[h] <= i
    OBVIOUS
  <2>1. PICK k \in 1..n : lines[k] = <<>> /\ i = at[k]
    BY BlanksAre
  <2>2. ~(k < h)
    BY <1>1, <2>1
  <2>3. ~(at[k] < at[h])
    BY <1>1, <2>2, StartsOrder
  <2> QED
    BY <1>1, <1>3, <2>1, <2>3
<1>6. Min(Blanks(text)) = at[h]
  BY <1>2, <1>4, <1>5, MinIs
<1> QED
  BY <1>2, <1>6

\* The fields the reader sees are the lines before that one, its From fields those with From.
LEMMA FieldsAre ==
  ASSUME NEW text, NEW m, NEW lines, NEW n, NEW at, NEW end, Laid(text, m, lines, n, at, end),
         NEW h, Header(lines, n, h), NEW i
  PROVE  /\ i \in Fields(text) <=> \E k \in 1..h - 1 : i = at[k]
         /\ i \in Froms(text) <=> \E k \in 1..h - 1 : i = at[k] /\ IsFrom(lines[k])
<1>1. h \in 1..n /\ n \in Nat /\ \A k \in 1..n : k < h => lines[k] # <<>>
  BY DEF Header, Laid
<1>2. Min(Blanks(text)) = at[h]
  BY HeaderEnds
<1>3. i \in Fields(text) <=> \E k \in 1..n : i = at[k] /\ at[k] < at[h]
  <2>1. i \in Fields(text) <=> i \in Starts(text) /\ i < at[h]
    BY <1>2 DEF Fields
  <2>2. i \in Starts(text) <=> \E k \in 1..n : i = at[k]
    BY StartsAre
  <2> QED
    BY <2>1, <2>2
<1>4. \A k \in 1..n : at[k] < at[h] <=> k < h
  BY <1>1, StartsOrder
<1>5. \A k : k \in 1..h - 1 <=> k \in 1..n /\ k < h
  BY <1>1
<1>6. i \in Fields(text) <=> \E k \in 1..h - 1 : i = at[k]
  BY <1>3, <1>4, <1>5, Zenon
<1>7. \A k \in 1..h - 1 : text[at[k]] = "From:" <=> IsFrom(lines[k])
  <2> SUFFICES ASSUME NEW k \in 1..h - 1
               PROVE  text[at[k]] = "From:" <=> IsFrom(lines[k])
    OBVIOUS
  <2>1. k \in 1..n /\ lines[k] # <<>>
    BY <1>1, <1>5
  <2>2. text[at[k]] = lines[k][1]
    BY <2>1, FirstByte
  <2> QED
    BY <2>1, <2>2 DEF IsFrom
<1>8. i \in Froms(text) <=> i \in Fields(text) /\ text[i] = "From:"
  BY DEF Froms
<1>9. i \in Froms(text) <=> \E k \in 1..h - 1 : i = at[k] /\ IsFrom(lines[k])
  BY <1>6, <1>7, <1>8, Zenon
<1> QED
  BY <1>6, <1>9

\* As many as there are of what each of them stands for
LEMMA SameNumber ==
  ASSUME NEW J, IsFiniteSet(J), NEW A, NEW f \in [J -> A],
         \A i, j \in J : f[i] = f[j] => i = j, \A a \in A : \E j \in J : f[j] = a
  PROVE  Cardinality(A) = Cardinality(J)
<1>1. f \in Bijection(J, A)
  BY DEF Bijection, Injection, Surjection, IsInjective
<1>2. ExistsBijection(J, A)
  BY <1>1 DEF ExistsBijection
<1> QED
  BY <1>2, FS_Bijection

\* The fields of a header that are no From fields, and each with how many of them come before it
Others(lines, h) == {k \in 1..h - 1 : ~IsFrom(lines[k])}
Before(lines, h, k) == Cardinality({j \in Others(lines, h) : j < k})
Ranked(lines, h) == {<<Before(lines, h, k), lines[k]>> : k \in Others(lines, h)}

\* The fields that are not From, likewise.
LEMMA OthersAre ==
  ASSUME NEW text, NEW m, NEW lines, NEW n, NEW at, NEW end, Laid(text, m, lines, n, at, end),
         NEW h, Header(lines, n, h), NEW i
  PROVE  i \in Fields(text) \ Froms(text) <=> \E k \in Others(lines, h) : i = at[k]
<1>1. \A j, k \in 1..n : at[j] = at[k] => j = k
  BY LaidFacts
<1>2. \A k \in 1..h - 1 : k \in 1..n
  BY DEF Header, Laid
<1>3. /\ i \in Fields(text) <=> \E k \in 1..h - 1 : i = at[k]
      /\ i \in Froms(text) <=> \E k \in 1..h - 1 : i = at[k] /\ IsFrom(lines[k])
  BY FieldsAre
<1> QED
  BY <1>1, <1>2, <1>3 DEF Others

\* As many of these fields start before a position as there are lines before the line there.
LEMMA BeforeIs ==
  ASSUME NEW text, NEW m, NEW lines, NEW n, NEW at, NEW end, Laid(text, m, lines, n, at, end),
         NEW h, Header(lines, n, h), NEW k \in Others(lines, h)
  PROVE  Cardinality({j \in Fields(text) \ Froms(text) : j < at[k]}) = Before(lines, h, k)
<1>1. PICK J, A : /\ J = {j \in Others(lines, h) : j < k}
                  /\ A = {j \in Fields(text) \ Froms(text) : j < at[k]}
  OBVIOUS
<1>2. h \in 1..n /\ n \in Nat
  BY DEF Header, Laid
<1>3. \A j \in Others(lines, h) : j \in 1..n /\ j \in 1..h - 1
  BY <1>2 DEF Others
<1>4. IsFiniteSet(J)
  <2>1. IsFiniteSet(1..h - 1) /\ J \in SUBSET (1..h - 1)
    BY <1>1, <1>2, <1>3, FS_Interval
  <2> QED
    BY <2>1, FS_Subset
<1>5. \A i \in Others(lines, h) : i < k <=> at[i] < at[k]
  BY <1>3, StartsOrder
<1>6. PICK f : f = [j \in J |-> at[j]]
  OBVIOUS
<1>7. f \in [J -> A]
  <2> SUFFICES ASSUME NEW j \in J
               PROVE  at[j] \in A
    BY <1>6
  <2>1. j \in Others(lines, h) /\ at[j] < at[k]
    BY <1>1, <1>5
  <2>2. at[j] \in Fields(text) \ Froms(text)
    BY <2>1, OthersAre
  <2> QED
    BY <1>1, <2>1, <2>2
<1>8. \A i, j \in J : f[i] = f[j] => i = j
  <2>1. \A i, j \in 1..n : at[i] = at[j] => i = j
    BY LaidFacts
  <2> QED
    BY <1>1, <1>3, <1>6, <2>1
<1>9. \A a \in A : \E j \in J : f[j] = a
  <2> SUFFICES ASSUME NEW a \in A
               PROVE  \E j \in J : f[j] = a
    OBVIOUS
  <2>1. a \in Fields(text) \ Froms(text) /\ a < at[k]
    BY <1>1
  <2>2. PICK j \in Others(lines, h) : a = at[j]
    BY <2>1, OthersAre
  <2>3. j \in J
    BY <1>1, <1>5, <2>1, <2>2
  <2> QED
    BY <1>6, <2>2, <2>3
<1>10. Cardinality(A) = Cardinality(J)
  BY <1>4, <1>7, <1>8, <1>9, SameNumber
<1> QED
  BY <1>1, <1>10 DEF Before

\* So OtherLines is what the lines say it is.
LEMMA OtherLinesAre ==
  ASSUME NEW text, NEW m, NEW lines, NEW n, NEW at, NEW end, Laid(text, m, lines, n, at, end),
         NEW h, Header(lines, n, h)
  PROVE  OtherLines(text) = Ranked(lines, h)
<1>1. PICK O, C : O = Fields(text) \ Froms(text)
                  /\ C = [i \in O |-> Cardinality({j \in O : j < i})]
  OBVIOUS
<1>2. OtherLines(text) = {<<C[i], Line(text, i)>> : i \in O}
  BY <1>1 DEF OtherLines
<1>3. \A i : i \in O <=> \E k \in Others(lines, h) : i = at[k]
  BY <1>1, OthersAre
<1>4. \A k \in Others(lines, h) : k \in 1..n /\ k # n
  BY DEF Others, Header, Laid
<1>5. \A k \in Others(lines, h) : C[at[k]] = Before(lines, h, k)
  <2> SUFFICES ASSUME NEW k \in Others(lines, h)
               PROVE  C[at[k]] = Before(lines, h, k)
    OBVIOUS
  <2>1. at[k] \in O
    BY <1>3
  <2>2. C[at[k]] = Cardinality({j \in O : j < at[k]})
    BY <1>1, <2>1
  <2> QED
    BY <1>1, <2>2, BeforeIs
<1>6. \A k \in Others(lines, h) : Line(text, at[k]) = lines[k]
  BY <1>4, LineIs
<1>7. ASSUME NEW x \in OtherLines(text)
      PROVE  x \in Ranked(lines, h)
  <2>1. PICK i \in O : x = <<C[i], Line(text, i)>>
    BY <1>2, <1>7
  <2>2. PICK k \in Others(lines, h) : i = at[k]
    BY <1>3, <2>1
  <2>3. x = <<Before(lines, h, k), lines[k]>>
    BY <1>5, <1>6, <2>1, <2>2
  <2> QED
    BY <2>2, <2>3 DEF Ranked
<1>8. ASSUME NEW x \in Ranked(lines, h)
      PROVE  x \in OtherLines(text)
  <2>1. PICK k \in Others(lines, h) : x = <<Before(lines, h, k), lines[k]>>
    BY <1>8 DEF Ranked
  <2>2. PICK i \in O : i = at[k]
    BY <1>3
  <2>3. x = <<C[i], Line(text, i)>>
    BY <1>5, <1>6, <2>1, <2>2
  <2> QED
    BY <1>2, <2>3
<1> QED
  BY <1>7, <1>8, Zenon

\* A header has at most one From field if it has at most one such line.
LEMMA AtMostOne ==
  ASSUME NEW S, IsFiniteSet(S)
  PROVE  Cardinality(S) <= 1 <=> \A x, y \in S : x = y
<1>1. Cardinality(S) \in Nat
  BY FS_CardinalityType
<1>2. Cardinality(S) = 0 <=> S = {}
  BY FS_EmptySet
<1>3. Cardinality(S) = 1 <=> \E x : S = {x}
  BY FS_Singleton
<1>4. (S = {} \/ \E x : S = {x}) <=> \A x, y \in S : x = y
  <2>1. ASSUME NEW x, S = {x}
        PROVE  \A y, z \in S : y = z
    BY <2>1
  <2>2. ASSUME NEW x \in S, \A y, z \in S : y = z
        PROVE  S = {x}
    BY <2>2
  <2> QED
    BY <2>1, <2>2
<1> QED
  BY <1>1, <1>2, <1>3, <1>4

\* Whether a text is usual is a matter of its lines.
LEMMA UsualIs ==
  ASSUME NEW text, NEW m, NEW lines, NEW n, NEW at, NEW end, Laid(text, m, lines, n, at, end),
         NEW h, Header(lines, n, h)
  PROVE  Usual(text) <=> LinesUsual(lines, h)
<1>1. h \in 1..n /\ n \in Nat /\ \A k \in 1..n : k < h => lines[k] # <<>>
  BY DEF Header, Laid
<1>2. \A k \in 1..h - 1 : k \in 1..n
  BY <1>1
<1>3. \A k \in 1..n : at[k] \in Nat
  BY LaidFacts
<1>4. \A i : /\ i \in Fields(text) <=> \E k \in 1..h - 1 : i = at[k]
             /\ i \in Froms(text) <=> \E k \in 1..h - 1 : i = at[k] /\ IsFrom(lines[k])
  BY FieldsAre
<1>5. \A i : i \in Fields(text) \ Froms(text) <=> \E k \in 1..h - 1 : i = at[k] /\ ~IsFrom(lines[k])
  BY OthersAre DEF Others
<1>6. \A j, k \in 1..n : at[j] = at[k] => j = k
  BY LaidFacts
<1>7. Cardinality(Froms(text)) <= 1 <=>
          \A j, k \in 1..h - 1 : IsFrom(lines[j]) /\ IsFrom(lines[k]) => j = k
  <2>1. IsFiniteSet(Froms(text))
    <3>1. Froms(text) \in SUBSET (1..m + 1) /\ m \in Nat
      BY DEF Froms, Fields, Starts, Laid
    <3>2. IsFiniteSet(1..m + 1)
      BY <3>1, FS_Interval
    <3> QED
      BY <3>1, <3>2, FS_Subset
  <2>2. (\A x, y \in Froms(text) : x = y) <=>
            \A j, k \in 1..h - 1 : IsFrom(lines[j]) /\ IsFrom(lines[k]) => at[j] = at[k]
    <3>1. ASSUME \A x, y \in Froms(text) : x = y,
                 NEW j \in 1..h - 1, NEW k \in 1..h - 1, IsFrom(lines[j]), IsFrom(lines[k])
          PROVE  at[j] = at[k]
      <4>1. at[j] \in Froms(text) /\ at[k] \in Froms(text)
        BY <1>4, <3>1
      <4> QED
        BY <3>1, <4>1
    <3>2. ASSUME \A j, k \in 1..h - 1 : IsFrom(lines[j]) /\ IsFrom(lines[k]) => at[j] = at[k],
                 NEW x \in Froms(text), NEW y \in Froms(text)
          PROVE  x = y
      <4>1. PICK j \in 1..h - 1 : x = at[j] /\ IsFrom(lines[j])
        BY <1>4
      <4>2. PICK k \in 1..h - 1 : y = at[k] /\ IsFrom(lines[k])
        BY <1>4
      <4> QED
        BY <3>2, <4>1, <4>2
    <3> QED
      BY <3>1, <3>2
  <2> QED
    BY <1>2, <1>6, <2>1, <2>2, AtMostOne
<1>8. \A k \in 1..h - 1 : text[at[k]] = lines[k][1]
  BY <1>1, <1>2, FirstByte
<1>9. \A j, k \in 1..h - 1 : j < k <=> at[j] < at[k]
  BY <1>2, StartsOrder
\* The line before a folded one
<1>10. ASSUME NEW k \in 1..h - 1
       PROVE  (\E i \in Fields(text) \ Froms(text) :
                   i < at[k] /\ \A g \in Fields(text) : g <= i \/ at[k] <= g) <=>
              (\E j \in 1..h - 1 : k = j + 1 /\ ~IsFrom(lines[j]))
  <2>1. ASSUME NEW j \in 1..h - 1, k = j + 1, ~IsFrom(lines[j])
        PROVE  \E i \in Fields(text) \ Froms(text) :
                   i < at[k] /\ \A g \in Fields(text) : g <= i \/ at[k] <= g
    <3>1. at[j] \in Fields(text) \ Froms(text)
      BY <1>5, <2>1
    <3>2. at[j] < at[k]
      BY <1>9, <2>1
    <3>3. ASSUME NEW g \in Fields(text)
          PROVE  g <= at[j] \/ at[k] <= g
      <4>1. PICK d \in 1..h - 1 : g = at[d]
        BY <1>4
      <4>2. d <= j \/ k <= d
        BY <2>1
      <4>3. ~(at[j] < at[d]) \/ ~(at[d] < at[k])
        <5>1. ~(j < d) \/ ~(d < k)
          BY <4>2
        <5> QED
          BY <1>9, <5>1
      <4>4. at[d] \in Nat /\ at[j] \in Nat /\ at[k] \in Nat
        BY <1>2, <1>3
      <4> QED
        BY <4>1, <4>3, <4>4
    <3> QED
      BY <3>1, <3>2, <3>3
  <2>2. ASSUME NEW i \in Fields(text) \ Froms(text), i < at[k],
               \A g \in Fields(text) : g <= i \/ at[k] <= g
        PROVE  \E j \in 1..h - 1 : k = j + 1 /\ ~IsFrom(lines[j])
    <3>1. PICK c \in 1..h - 1 : i = at[c] /\ ~IsFrom(lines[c])
      BY <1>5
    <3>2. c < k
      BY <1>9, <2>2, <3>1
    <3>3. PICK d \in 1..h - 1 : k = d + 1
      <4>1. k - 1 \in 1..h - 1 /\ k = k - 1 + 1
        BY <1>1, <3>2
      <4> QED
        BY <4>1
    <3>4. at[d] \in Fields(text)
      BY <1>4
    <3>5. at[d] <= at[c] \/ at[k] <= at[d]
      BY <2>2, <3>1, <3>4
    <3>6. at[d] \in Nat /\ at[c] \in Nat /\ at[k] \in Nat
      BY <1>2, <1>3
    <3>7. ~(at[c] < at[d]) \/ ~(at[d] < at[k])
      BY <3>5, <3>6
    <3>8. ~(c < d)
      <4>1. d < k
        BY <3>3
      <4> QED
        BY <1>9, <3>7, <4>1
    <3>9. c = d
      BY <3>2, <3>3, <3>8
    <3> QED
      BY <3>1, <3>3, <3>9
  <2> QED
    BY <2>1, <2>2
<1>11. Unfolded(text) <=>
           \A k \in 1..h - 1 : lines[k][1] = "folded" =>
               \E j \in 1..h - 1 : k = j + 1 /\ ~IsFrom(lines[j])
  <2> DEFINE Known(j) == \E i \in Fields(text) \ Froms(text) :
                             i < j /\ \A g \in Fields(text) : g <= i \/ j <= g
  <2>1. Unfolded(text) <=> \A j \in Fields(text) : text[j] = "folded" => Known(j)
    BY Zenon DEF Unfolded
  <2>2. \A k \in 1..h - 1 : Known(at[k]) <=> \E j \in 1..h - 1 : k = j + 1 /\ ~IsFrom(lines[j])
    BY <1>10, Zenon
  <2> HIDE DEF Known
  <2>3. (\A j \in Fields(text) : text[j] = "folded" => Known(j)) <=>
            \A k \in 1..h - 1 : text[at[k]] = "folded" => Known(at[k])
    <3>1. \A k \in 1..h - 1 : at[k] \in Fields(text)
      BY <1>4
    <3>2. \A j \in Fields(text) : \E k \in 1..h - 1 : j = at[k]
      BY <1>4
    <3>3. ASSUME \A k \in 1..h - 1 : text[at[k]] = "folded" => Known(at[k]),
                 NEW j \in Fields(text), text[j] = "folded"
          PROVE  Known(j)
      <4>1. PICK k \in 1..h - 1 : j = at[k]
        BY <3>2
      <4> QED
        BY <3>3, <4>1, Zenon
    <3> QED
      BY <3>1, <3>3, Zenon
  <2> QED
    BY <1>8, <2>1, <2>2, <2>3, Zenon
<1>12. Blanks(text) # {}
  BY HeaderEnds
<1> QED
  BY <1>7, <1>11, <1>12, Zenon DEF Usual, LinesUsual

-----------------------------------------------------------------------------
(* The body *)

\* From their lines h and g on, two texts have the same lines.
SameRest(a, n, h, b, k, g) ==
    /\ k + h = n + g
    /\ \A i \in h..n, j \in g..k : j + h = i + g => b[j] = a[i]

\* The same lines are as far apart in both.
LEMMA SamePlaces ==
  ASSUME NEW t, NEW m, NEW a, NEW n, NEW at, NEW end, Laid(t, m, a, n, at, end),
         NEW u, NEW l, NEW b, NEW k, NEW bt, NEW bend, Laid(u, l, b, k, bt, bend),
         NEW h \in 1..n, NEW g \in 1..k, SameRest(a, n, h, b, k, g)
  PROVE  \A i \in h..n, j \in g..k : j + h = i + g =>
             /\ bt[j] + at[h] = at[i] + bt[g]
             /\ bend[j] + at[h] = end[i] + bt[g]
<1>1. n \in Nat \ {0} /\ k \in Nat \ {0} /\ k + h = n + g
  BY DEF Laid, SameRest
<1>2. /\ \A i \in 1..n : at[i] \in Nat /\ end[i] \in Nat /\ Len(a[i]) \in Nat
      /\ \A i \in 1..n : end[i] = at[i] + Len(a[i])
      /\ \A i, j \in 1..n : j = i + 1 => at[j] = end[i] + 2
  <2>1. /\ \A i \in 1..n : at[i] \in Nat /\ end[i] \in Nat
        /\ \A i \in 1..n : Len(a[i]) \in Nat
        /\ \A i \in 1..n : end[i] = at[i] + Len(a[i])
    BY LaidFacts
  <2>2. \A i, j \in 1..n : j = i + 1 => at[j] = end[i] + 2
    BY DEF Laid, Layout, Spans
  <2> QED
    BY <2>1, <2>2
<1>3. /\ \A j \in 1..k : bt[j] \in Nat /\ bend[j] \in Nat /\ Len(b[j]) \in Nat
      /\ \A j \in 1..k : bend[j] = bt[j] + Len(b[j])
      /\ \A i, j \in 1..k : j = i + 1 => bt[j] = bend[i] + 2
  <2>1. /\ \A j \in 1..k : bt[j] \in Nat /\ bend[j] \in Nat
        /\ \A j \in 1..k : Len(b[j]) \in Nat
        /\ \A j \in 1..k : bend[j] = bt[j] + Len(b[j])
    BY LaidFacts
  <2>2. \A i, j \in 1..k : j = i + 1 => bt[j] = bend[i] + 2
    BY DEF Laid, Layout, Spans
  <2> QED
    BY <2>1, <2>2
<1> DEFINE S == {d \in Nat : \A i \in 1..n, j \in 1..k :
                                 i = h + d /\ j = g + d => bt[j] + at[h] = at[i] + bt[g]}
<1>4. 0 \in S
  <2> SUFFICES ASSUME NEW i \in 1..n, NEW j \in 1..k, i = h, j = g
               PROVE  bt[j] + at[h] = at[i] + bt[g]
    OBVIOUS
  <2>1. at[h] \in Nat /\ bt[g] \in Nat
    BY <1>2, <1>3
  <2> QED
    BY <2>1
<1>5. \A i \in 1..n, j \in 1..k : i >= h /\ j + h = i + g => Len(b[j]) = Len(a[i])
  <2> SUFFICES ASSUME NEW i \in 1..n, NEW j \in 1..k, i >= h, j + h = i + g
               PROVE  b[j] = a[i]
    OBVIOUS
  <2>1. i \in h..n /\ j \in g..k
    BY <1>1
  <2> QED
    BY <2>1 DEF SameRest
<1>6. \A d \in S : d + 1 \in S
  <2> SUFFICES ASSUME NEW d \in S, NEW i \in 1..n, NEW j \in 1..k,
                      i = h + (d + 1), j = g + (d + 1)
               PROVE  bt[j] + at[h] = at[i] + bt[g]
    OBVIOUS
  <2>1. PICK p \in 1..n, q \in 1..k :
            i = p + 1 /\ j = q + 1 /\ p = h + d /\ q = g + d /\ p >= h /\ q + h = p + g
    <3>1. h + d \in 1..n /\ g + d \in 1..k
      BY <1>1
    <3> QED
      BY <1>1, <3>1
  <2>2. bt[q] + at[h] = at[p] + bt[g]
    BY <2>1
  <2>3. Len(b[q]) = Len(a[p])
    BY <1>5, <2>1
  <2>4. at[i] = at[p] + Len(a[p]) + 2
    <3>1. at[i] = end[p] + 2
      BY <1>2, <2>1
    <3>2. end[p] = at[p] + Len(a[p])
      BY <1>2
    <3> QED
      BY <3>1, <3>2
  <2>5. bt[j] = bt[q] + Len(b[q]) + 2
    <3>1. bt[j] = bend[q] + 2
      BY <1>3, <2>1
    <3>2. bend[q] = bt[q] + Len(b[q])
      BY <1>3
    <3> QED
      BY <3>1, <3>2
  <2>6. PICK x \in Nat, y \in Nat, c \in Nat, e \in Nat, w \in Nat :
            /\ x = at[p] /\ y = bt[q] /\ c = at[h] /\ e = bt[g] /\ w = Len(a[p])
    BY <1>2, <1>3
  <2>7. y + c = x + e
    BY <2>2, <2>6
  <2>8. at[i] = x + w + 2 /\ bt[j] = y + w + 2
    BY <2>3, <2>4, <2>5, <2>6
  <2>9. (y + w + 2) + c = (x + w + 2) + e
    BY <2>7
  <2> QED
    BY <2>6, <2>8, <2>9
<1> HIDE DEF S
<1>7. \A d \in Nat : d \in S
  <2>1. S \in SUBSET Nat
    BY DEF S
  <2> QED
    BY <1>4, <1>5, <1>6, <2>1, AllNaturals
<1> SUFFICES ASSUME NEW i \in h..n, NEW j \in g..k, j + h = i + g
             PROVE  /\ bt[j] + at[h] = at[i] + bt[g]
                    /\ bend[j] + at[h] = end[i] + bt[g]
  OBVIOUS
<1>8. PICK d \in Nat : i = h + d /\ j = g + d
  <2>1. i - h \in Nat /\ i = h + (i - h) /\ j = g + (i - h)
    BY <1>1
  <2> QED
    BY <2>1
<1>9. i \in 1..n /\ j \in 1..k /\ i >= h
  BY <1>1
<1>10. bt[j] + at[h] = at[i] + bt[g]
  BY <1>7, <1>8, <1>9 DEF S
<1>11. Len(b[j]) = Len(a[i])
  BY <1>5, <1>9
<1>12. end[i] = at[i] + Len(a[i]) /\ bend[j] = bt[j] + Len(b[j])
  BY <1>2, <1>3, <1>9
<1>13. PICK x \in Nat, y \in Nat, c \in Nat, e \in Nat, w \in Nat :
           /\ x = at[i] /\ y = bt[j] /\ c = at[h] /\ e = bt[g] /\ w = Len(a[i])
  BY <1>2, <1>3, <1>9
<1>14. y + c = x + e
  BY <1>10, <1>13
<1>15. end[i] = x + w /\ bend[j] = y + w
  BY <1>11, <1>12, <1>13
<1>16. (y + w) + c = (x + w) + e
  BY <1>14
<1> QED
  BY <1>10, <1>13, <1>15, <1>16

\* And so are their bytes.
LEMMA SameBytes ==
  ASSUME NEW t, NEW m, NEW a, NEW n, NEW at, NEW end, Laid(t, m, a, n, at, end),
         NEW u, NEW l, NEW b, NEW k, NEW bt, NEW bend, Laid(u, l, b, k, bt, bend),
         NEW h \in 1..n, NEW g \in 1..k, SameRest(a, n, h, b, k, g),
         NEW p \in 1..m, NEW q \in 1..l, at[h] <= p, q + at[h] = p + bt[g]
  PROVE  u[q] = t[p]
<1>1. n \in Nat \ {0} /\ k \in Nat \ {0} /\ k + h = n + g /\ m \in Nat /\ l \in Nat
  BY DEF Laid, SameRest
<1>2. PICK i \in 1..n : at[i] <= p /\ p <= end[i] + 1 /\ (i = n => p < end[i])
  BY Covered
<1>3. i \in h..n
  <2>1. ASSUME i < h
        PROVE  FALSE
    <3>1. end[i] + 2 <= at[h] /\ end[i] \in Nat /\ at[h] \in Nat
      BY <2>1, LaidFacts
    <3> QED
      BY <1>1, <1>2, <3>1
  <2> QED
    BY <1>1, <2>1
<1>4. PICK j \in g..k : j + h = i + g
  <2>1. i + g - h \in g..k /\ (i + g - h) + h = i + g
    BY <1>1, <1>3
  <2> QED
    BY <2>1
<1>5. j \in 1..k /\ (i # n => j # k)
  BY <1>1, <1>3, <1>4
<1>6. bt[j] + at[h] = at[i] + bt[g] /\ bend[j] + at[h] = end[i] + bt[g]
  BY <1>3, <1>4, SamePlaces
<1>7. b[j] = a[i]
  BY <1>3, <1>4 DEF SameRest
<1>8. PICK x \in Nat, y \in Nat, v \in Nat, w \in Nat, c \in Nat, d \in Nat :
          /\ x = at[i] /\ y = bt[j] /\ v = end[i] /\ w = bend[j] /\ c = at[h] /\ d = bt[g]
  <2>1. at[i] \in Nat /\ end[i] \in Nat /\ at[h] \in Nat
    BY LaidFacts
  <2>2. bt[j] \in Nat /\ bend[j] \in Nat /\ bt[g] \in Nat
    BY <1>5, LaidFacts
  <2> QED
    BY <2>1, <2>2
<1>9. y + c = x + d /\ w + c = v + d /\ q + c = p + d /\ x <= p /\ p <= v + 1
  BY <1>2, <1>6, <1>8
<1>10. CASE p < end[i]
  <2>1. PICK o \in 1..Len(a[i]) : p + 1 = at[i] + o /\ t[p] = a[i][o]
    BY <1>2, <1>10, InsideLine
  <2>2. o \in Nat
    <3>1. Len(a[i]) \in Nat
      BY LaidFacts
    <3> QED
      BY <3>1
  <2>3. p + 1 = x + o
    BY <1>8, <2>1
  <2>4. q + 1 = y + o
    BY <1>1, <1>9, <2>2, <2>3
  <2>5. u[q] = b[j][o]
    <3>1. o \in 1..Len(b[j]) /\ q + 1 = bt[j] + o
      BY <1>7, <1>8, <2>4
    <3> QED
      BY <1>5, <3>1, InLine
  <2> QED
    BY <1>7, <2>1, <2>5
<1>11. CASE p = end[i]
  <2>1. i # n
    BY <1>2, <1>8, <1>11
  <2>2. q = bend[j]
    <3>1. p = v
      BY <1>8, <1>11
    <3>2. q = w
      BY <1>1, <1>9, <3>1
    <3> QED
      BY <1>8, <3>2
  <2>3. t[p] = "CR"
    BY <1>11, <2>1, InLine
  <2>4. u[q] = "CR"
    BY <1>5, <2>1, <2>2, InLine
  <2> QED
    BY <2>3, <2>4
<1>12. CASE p = end[i] + 1
  <2>1. i # n
    <3>1. p = v + 1 /\ (i = n => p < v)
      BY <1>2, <1>8, <1>12
    <3> QED
      BY <3>1
  <2>2. q = bend[j] + 1
    <3>1. p = v + 1
      BY <1>8, <1>12
    <3>2. q = w + 1
      BY <1>1, <1>9, <3>1
    <3> QED
      BY <1>8, <3>2
  <2>3. t[p] = "LF"
    BY <1>12, <2>1, InLine
  <2>4. u[q] = "LF"
    BY <1>5, <2>1, <2>2, InLine
  <2> QED
    BY <2>3, <2>4
<1>13. p < v \/ p = v \/ p = v + 1
  BY <1>1, <1>9
<1> QED
  BY <1>8, <1>10, <1>11, <1>12, <1>13

\* Texts that have the same lines after the header have the same body.
LEMMA SameBody ==
  ASSUME NEW t, NEW m, NEW a, NEW n, NEW at, NEW end, Laid(t, m, a, n, at, end),
         NEW u, NEW l, NEW b, NEW k, NEW bt, NEW bend, Laid(u, l, b, k, bt, bend),
         NEW h, NEW g, Header(a, n, h), Header(b, k, g), SameRest(a, n, h, b, k, g)
  PROVE  Body(u) = Body(t)
<1>1. /\ n \in Nat \ {0} /\ k \in Nat \ {0} /\ k + h = n + g /\ m \in Nat /\ l \in Nat
      /\ m = Len(t) /\ l = Len(u) /\ t \in Texts /\ u \in Texts
      /\ h \in 1..n /\ g \in 1..k
  BY DEF Laid, SameRest, Header
<1>2. PICK c \in Nat, d \in Nat : c = at[h] /\ d = bt[g]
  <2>1. at[h] \in Nat
    BY <1>1, LaidFacts
  <2>2. bt[g] \in Nat
    BY <1>1, LaidFacts
  <2> QED
    BY <2>1, <2>2
<1>3. 1 <= c /\ c <= m + 1 /\ 1 <= d /\ d <= l + 1
  <2>1. 1 <= at[h] /\ at[h] <= end[h] /\ end[h] <= m + 1 /\ end[h] \in Nat
    BY <1>1, LaidFacts
  <2>2. 1 <= bt[g] /\ bt[g] <= bend[g] /\ bend[g] <= l + 1 /\ bend[g] \in Nat
    BY <1>1, LaidFacts
  <2>3. PICK e \in Nat : e = end[h]
    BY <2>1
  <2>4. PICK f \in Nat : f = bend[g]
    BY <2>2
  <2>5. 1 <= c /\ c <= e /\ e <= m + 1
    BY <1>2, <2>1, <2>3
  <2>6. 1 <= d /\ d <= f /\ f <= l + 1
    BY <1>2, <2>2, <2>4
  <2>7. m \in Nat /\ l \in Nat
    BY <1>1
  <2> QED
    BY <2>5, <2>6, <2>7
<1>4. Body(t) = SubSeq(t, c, m) /\ Body(u) = SubSeq(u, d, l)
  <2>1. Min(Blanks(t)) = at[h]
    BY HeaderEnds
  <2>2. Min(Blanks(u)) = bt[g]
    BY HeaderEnds
  <2> QED
    BY <1>1, <1>2, <2>1, <2>2 DEF Body
<1>5. l + c = m + d
  <2>1. n \in h..n /\ k \in g..k /\ k + h = n + g
    BY <1>1
  <2>2. bend[k] + at[h] = end[n] + bt[g]
    BY <1>1, <2>1, SamePlaces
  <2>3. end[n] = m + 1 /\ bend[k] = l + 1
    BY <1>1 DEF Laid, Layout
  <2>4. (l + 1) + c = (m + 1) + d
    BY <1>2, <2>2, <2>3
  <2> QED
    BY <1>1, <2>4
<1>6. PICK S : S = Symbols \cup {"CR", "LF"}
  OBVIOUS
<1>7. PICK x \in Seq(S) : Cut(x, t, c, m)
  <2>1. c \in 1..m + 1 /\ m \in c - 1..m
    BY <1>1, <1>3
  <2> QED
    BY <1>1, <1>6, <2>1, CutOut DEF Texts
<1>8. PICK y \in Seq(S) : Cut(y, u, d, l)
  <2>1. d \in 1..l + 1 /\ l \in d - 1..l
    BY <1>1, <1>3
  <2> QED
    BY <1>1, <1>6, <2>1, CutOut DEF Texts
<1>9. PICK w \in Nat : w = Len(x) /\ w = Len(y) /\ w = m - c + 1
  <2>1. Len(x) = m - c + 1 /\ Len(y) = l - d + 1
    BY <1>7, <1>8 DEF Cut
  <2>2. l - d + 1 = m - c + 1 /\ m - c + 1 \in Nat
    <3>1. c \in Nat /\ d \in Nat /\ m \in Nat /\ l \in Nat
      BY <1>1
    <3>2. m + 1 = (m - c + 1) + c /\ l + 1 = (l - d + 1) + d
      BY <3>1
    <3> QED
      BY <1>3, <1>5, <3>1, <3>2
  <2> QED
    BY <2>1, <2>2
<1>10. \A i \in 1..w : y[i] = x[i]
  <2> SUFFICES ASSUME NEW i \in 1..w
               PROVE  y[i] = x[i]
    OBVIOUS
  <2>1. PICK p \in 1..m, q \in 1..l : p = c + i - 1 /\ q = d + i - 1
    <3>1. c + i - 1 \in 1..m /\ d + i - 1 \in 1..l
      BY <1>1, <1>3, <1>5, <1>9
    <3> QED
      BY <3>1
  <2>2. x[i] = t[p] /\ y[i] = u[q]
    BY <1>1, <1>7, <1>8, <1>9, <2>1 DEF Cut
  <2>3. c <= p /\ q + c = p + d
    BY <2>1
  <2>4. u[q] = t[p]
    <3>1. at[h] <= p /\ q + at[h] = p + bt[g]
      BY <1>2, <2>3
    <3>2. h \in 1..n /\ g \in 1..k
      BY <1>1
    <3> QED
      BY <3>1, <3>2, SameBytes
  <2> QED
    BY <2>2, <2>4
<1>11. x = y
  <2>1. Len(x) = w /\ Len(y) = w
    BY <1>9
  <2> QED
    BY <1>10, <2>1
<1> QED
  BY <1>4, <1>7, <1>8, <1>11 DEF Cut

-----------------------------------------------------------------------------
(* RewriteFrom *)

\* The header of lines b, which ends at g, is usual and shows p as its only sender.
OnlySender(b, g, p) ==
    /\ LinesUsual(b, g)
    /\ \E k \in 1..g - 1 : IsFrom(b[k])
    /\ \A k \in 1..g - 1 : IsFrom(b[k]) => b[k] = FromLine(p)

\* The lines b, whose header ends at g, are the lines a, whose header ends at h, with p as a
\* sender, and as the only one if a is usual.
SenderSet(b, m, g, a, n, h, p) ==
    /\ b \in LineLists /\ m = Len(b)
    /\ Header(b, m, g)
    /\ LinesUsual(a, h) => OnlySender(b, g, p)
    /\ Ranked(b, g) = Ranked(a, h)
    /\ m + h = n + g
    /\ \A j \in h..n, k \in g..m : k + h = j + g => b[k] = a[j]

\* The From line of an upstream is a line, and a From field that is not folded.
LEMMA FromLineIs ==
  ASSUME NEW p \in Upstreams
  PROVE  FromLine(p) \in LineSet /\ IsFrom(FromLine(p)) /\ FromLine(p)[1] # "folded"
<1>1. "From:" \in Symbols /\ p \in Symbols
  BY DEF Symbols, Bytes
<1>2. FromLine(p) \in LineSet
  BY <1>1 DEF FromLine, LineSet
<1>3. FromLine(p) # <<>> /\ FromLine(p)[1] = "From:"
  BY DEF FromLine
<1> QED
  BY <1>2, <1>3 DEF IsFrom

\* Without a From field, a first line is added: it is the only one, all else is as before.
LEMMA FromAdded ==
  ASSUME NEW a \in LineLists, NEW n \in Nat \ {0}, n = Len(a),
         NEW h, Header(a, n, h), NEW p \in Upstreams, \A k \in 1..h - 1 : ~IsFrom(a[k])
  PROVE  SenderSet(<<FromLine(p)>> \o a, n + 1, h + 1, a, n, h, p)
<1>0. h \in 1..n /\ h # n /\ a[h] = <<>> /\ \A k \in 1..n : k < h => a[k] # <<>>
  BY DEF Header
<1>1. PICK l \in LineSet : l = FromLine(p)
  BY FromLineIs
<1>2. l # <<>> /\ IsFrom(l) /\ l[1] # "folded"
  BY <1>1, FromLineIs DEF IsFrom
<1>3. PICK o \in Seq(LineSet) : o = <<l>> /\ Len(o) = 1 /\ o[1] = l
  <2>1. <<l>> \in Seq(LineSet)
    OBVIOUS
  <2> QED
    BY <2>1
<1>4. PICK b \in Seq(LineSet) : Joins(b, o, a)
  BY Concatenated DEF LineLists
<1>5. b = <<FromLine(p)>> \o a /\ Len(b) = n + 1 /\ b[1] = l
  <2>1. 1 \in 1..Len(o)
    BY <1>3
  <2> QED
    BY <1>1, <1>3, <1>4, <2>1 DEF Joins
<1>6. \A k \in 1..n, j \in 1..n + 1 : j = k + 1 => b[j] = a[k]
  BY <1>3, <1>4, <1>5 DEF Joins
<1>7. \A j \in 1..n + 1 : j = 1 \/ \E k \in 1..n : j = k + 1
  <2> SUFFICES ASSUME NEW j \in 1..n + 1, j # 1
               PROVE  \E k \in 1..n : j = k + 1
    OBVIOUS
  <2>1. j - 1 \in 1..n /\ j = j - 1 + 1
    OBVIOUS
  <2> QED
    BY <2>1
<1>8. PICK g, m : g = h + 1 /\ m = n + 1
  OBVIOUS
<1>9. g \in Nat /\ m \in Nat \ {0} /\ g \in 1..m /\ g # m /\ h \in Nat
  BY <1>0, <1>8
<1>10. b \in LineLists
  <2>1. b # <<>>
    BY <1>5
  <2> QED
    BY <2>1 DEF LineLists
<1>11. Header(b, m, g)
  <2>1. b[g] = <<>>
    BY <1>0, <1>6, <1>8
  <2>2. \A j \in 1..m : j < g => b[j] # <<>>
    <3> SUFFICES ASSUME NEW j \in 1..m, j < g
                 PROVE  b[j] # <<>>
      OBVIOUS
    <3>1. CASE j = 1
      BY <1>2, <1>5, <3>1
    <3>2. CASE j # 1
      <4>1. PICK k \in 1..n : j = k + 1
        BY <1>7, <1>8, <3>2
      <4>2. k < h
        BY <1>8, <1>9, <4>1
      <4> QED
        BY <1>0, <1>6, <1>8, <4>1, <4>2
    <3> QED
      BY <3>1, <3>2
  <2> QED
    BY <1>9, <2>1, <2>2 DEF Header
\* The lines of the header
<1>12. \A j \in 1..g - 1 : j = 1 \/ \E k \in 1..h - 1 : j = k + 1
  <2> SUFFICES ASSUME NEW j \in 1..g - 1, j # 1
               PROVE  \E k \in 1..h - 1 : j = k + 1
    OBVIOUS
  <2>1. j - 1 \in 1..h - 1 /\ j = j - 1 + 1
    BY <1>8, <1>9
  <2> QED
    BY <2>1
<1>13. \A k \in 1..h - 1, j \in 1..g - 1 : j = k + 1 => b[j] = a[k]
  <2>1. \A k \in 1..h - 1, j \in 1..g - 1 : k \in 1..n /\ j \in 1..n + 1
    BY <1>0, <1>8
  <2> QED
    BY <1>6, <2>1
<1>14. 1 \in 1..g - 1 /\ \A k \in 1..h - 1 : k + 1 \in 1..g - 1
  BY <1>0, <1>8
<1>15. \A j \in 1..g - 1 : IsFrom(b[j]) <=> j = 1
  <2> SUFFICES ASSUME NEW j \in 1..g - 1
               PROVE  IsFrom(b[j]) <=> j = 1
    OBVIOUS
  <2>1. CASE j = 1
    BY <1>2, <1>5, <2>1
  <2>2. CASE j # 1
    <3>1. PICK k \in 1..h - 1 : j = k + 1
      BY <1>12, <2>2
    <3> QED
      BY <1>13, <2>2, <3>1
  <2> QED
    BY <2>1, <2>2
<1>16. ASSUME LinesUsual(a, h)
       PROVE  LinesUsual(b, g)
  <2>1. ASSUME NEW j \in 1..g - 1, b[j][1] = "folded"
        PROVE  \E i \in 1..g - 1 : j = i + 1 /\ ~IsFrom(b[i])
    <3>1. j # 1
      BY <1>2, <1>5, <2>1
    <3>2. PICK k \in 1..h - 1 : j = k + 1
      BY <1>12, <3>1
    <3>3. a[k][1] = "folded"
      BY <1>13, <2>1, <3>2
    <3>4. PICK i \in 1..h - 1 : k = i + 1
      BY <1>16, <3>3 DEF LinesUsual
    <3>5. k \in 1..g - 1 /\ k # 1
      BY <1>8, <1>9, <3>4
    <3> QED
      BY <1>15, <3>2, <3>5
  <2> QED
    BY <1>15, <2>1 DEF LinesUsual
<1>17. \A j : j \in Others(b, g) <=> \E k \in Others(a, h) : j = k + 1
  <2>1. \A j : j \in Others(b, g) <=> j \in 1..g - 1 /\ j # 1
    BY <1>15 DEF Others
  <2>2. \A k : k \in Others(a, h) <=> k \in 1..h - 1
    BY DEF Others
  <2>3. \A k \in 1..h - 1 : k + 1 \in 1..g - 1 /\ k + 1 # 1
    BY <1>8, <1>9
  <2> QED
    BY <1>12, <2>1, <2>2, <2>3
<1>18. \A k \in Others(a, h) : Before(b, g, k + 1) = Before(a, h, k)
  <2> SUFFICES ASSUME NEW k \in Others(a, h)
               PROVE  Before(b, g, k + 1) = Before(a, h, k)
    OBVIOUS
  <2>1. PICK J, A : /\ J = {j \in Others(a, h) : j < k}
                    /\ A = {j \in Others(b, g) : j < k + 1}
    OBVIOUS
  <2>2. \A j \in Others(a, h) : j \in 1..h - 1 /\ j \in Nat
    BY <1>9 DEF Others
  <2>3. IsFiniteSet(J)
    <3>1. J \in SUBSET (1..h - 1)
      BY <2>1, <2>2
    <3>2. IsFiniteSet(1..h - 1)
      BY <1>9, FS_Interval
    <3> QED
      BY <3>1, <3>2, FS_Subset
  <2>4. PICK f : f = [j \in J |-> j + 1]
    OBVIOUS
  <2>5. f \in [J -> A]
    <3>1. \A j \in J : j + 1 \in A
      BY <1>17, <2>1, <2>2
    <3> QED
      BY <2>4, <3>1
  <2>6. \A i, j \in J : f[i] = f[j] => i = j
    BY <2>1, <2>2, <2>4
  <2>7. \A i \in A : \E j \in J : f[j] = i
    <3> SUFFICES ASSUME NEW i \in A
                 PROVE  \E j \in J : f[j] = i
      OBVIOUS
    <3>1. PICK j \in Others(a, h) : i = j + 1
      BY <1>17, <2>1
    <3>2. i < k + 1
      BY <2>1
    <3>3. j \in J
      BY <2>1, <2>2, <3>1, <3>2
    <3> QED
      BY <2>4, <3>1, <3>3
  <2>8. Cardinality(A) = Cardinality(J)
    BY <2>3, <2>5, <2>6, <2>7, SameNumber
  <2> QED
    BY <2>1, <2>8 DEF Before
<1>19. \A k \in Others(a, h) : b[k + 1] = a[k]
  BY <1>13, <1>14 DEF Others
<1>20. Ranked(b, g) = Ranked(a, h)
  <2>1. ASSUME NEW x \in Ranked(b, g)
        PROVE  x \in Ranked(a, h)
    <3>1. PICK j \in Others(b, g) : x = <<Before(b, g, j), b[j]>>
      BY <2>1 DEF Ranked
    <3>2. PICK k \in Others(a, h) : j = k + 1
      BY <1>17
    <3>3. x = <<Before(a, h, k), a[k]>>
      BY <1>18, <1>19, <3>1, <3>2
    <3> QED
      BY <3>3 DEF Ranked
  <2>2. ASSUME NEW x \in Ranked(a, h)
        PROVE  x \in Ranked(b, g)
    <3>1. PICK k \in Others(a, h) : x = <<Before(a, h, k), a[k]>>
      BY <2>2 DEF Ranked
    <3>2. PICK j \in Others(b, g) : j = k + 1
      BY <1>17
    <3>3. x = <<Before(b, g, j), b[j]>>
      BY <1>18, <1>19, <3>1, <3>2
    <3> QED
      BY <3>3 DEF Ranked
  <2> QED
    BY <2>1, <2>2, Zenon
<1>21. \A k \in h..n, j \in g..m : j + h = k + g => b[j] = a[k]
  <2> SUFFICES ASSUME NEW k \in h..n, NEW j \in g..m, j + h = k + g
               PROVE  b[j] = a[k]
    OBVIOUS
  <2>1. k \in 1..n /\ j \in 1..n + 1 /\ j = k + 1
    BY <1>0, <1>8
  <2> QED
    BY <1>6, <2>1
<1>22. m + h = n + g
  BY <1>0, <1>8
<1>23. SenderSet(b, m, g, a, n, h, p)
  <2>1. \E j \in 1..g - 1 : IsFrom(b[j])
    BY <1>14, <1>15
  <2>2. \A j \in 1..g - 1 : IsFrom(b[j]) => b[j] = FromLine(p)
    BY <1>1, <1>5, <1>15
  <2>3. m = Len(b)
    BY <1>5, <1>8
  <2>4. LinesUsual(a, h) => OnlySender(b, g, p)
    BY <1>16, <2>1, <2>2, Zenon DEF OnlySender
  <2> QED
    BY <1>10, <1>11, <1>20, <1>21, <1>22, <2>3, <2>4, Zenon DEF SenderSet
<1> QED
  BY <1>5, <1>8, <1>23

\* A From field, which in a usual mail is the only one, is replaced, and all else is as before.
LEMMA FromReplaced ==
  ASSUME NEW a \in LineLists, NEW n \in Nat \ {0}, n = Len(a),
         NEW h, Header(a, n, h), NEW p \in Upstreams, NEW s \in 1..h - 1, IsFrom(a[s])
  PROVE  SenderSet([a EXCEPT ![s] = FromLine(p)], n, h, a, n, h, p)
<1>1. h \in 1..n /\ h # n /\ a[h] = <<>> /\ \A k \in 1..n : k < h => a[k] # <<>>
  BY DEF Header
<1>2. PICK l \in LineSet : l = FromLine(p) /\ IsFrom(l) /\ l[1] # "folded" /\ l # <<>>
  BY FromLineIs DEF IsFrom
<1>3. PICK b : b = [a EXCEPT ![s] = l]
  OBVIOUS
<1>4. s \in 1..n /\ \A k \in 1..h - 1 : k \in 1..n /\ k < h
  BY <1>1
<1>5. b \in Seq(LineSet) /\ Len(b) = n /\ b[s] = l /\ \A k \in 1..n : k # s => b[k] = a[k]
  <2>1. a \in [1..n -> LineSet]
    BY DEF LineLists
  <2>2. b \in [1..n -> LineSet] /\ b[s] = l /\ \A k \in 1..n : k # s => b[k] = a[k]
    BY <1>3, <1>4, <2>1
  <2> QED
    BY <2>2
<1>6. b \in LineLists
  <2>1. b # <<>>
    BY <1>5
  <2> QED
    BY <1>5, <2>1 DEF LineLists
<1>7. Header(b, n, h)
  <2>1. h # s
    BY <1>1
  <2>2. \A k \in 1..n : k < h => b[k] # <<>>
    BY <1>1, <1>2, <1>5
  <2> QED
    BY <1>1, <1>5, <2>1, <2>2 DEF Header
<1>8. \A k \in 1..h - 1 : k # s => b[k] = a[k]
  BY <1>4, <1>5
<1>9. \A k \in 1..h - 1 : IsFrom(b[k]) <=> IsFrom(a[k])
  BY <1>2, <1>5, <1>8
<1>10. ASSUME LinesUsual(a, h)
       PROVE  OnlySender(b, h, p)
  <2>0. \A k \in 1..h - 1 : IsFrom(a[k]) <=> k = s
    BY <1>10 DEF LinesUsual
  <2>1. ASSUME NEW k \in 1..h - 1, b[k][1] = "folded"
        PROVE  \E i \in 1..h - 1 : k = i + 1 /\ ~IsFrom(b[i])
    <3>1. k # s
      BY <1>2, <1>5, <2>1
    <3>2. a[k][1] = "folded"
      BY <1>8, <2>1, <3>1
    <3>3. PICK i \in 1..h - 1 : k = i + 1 /\ ~IsFrom(a[i])
      BY <1>10, <3>2 DEF LinesUsual
    <3> QED
      BY <1>9, <3>3
  <2>2. \A j, k \in 1..h - 1 : IsFrom(b[j]) /\ IsFrom(b[k]) => j = k
    BY <1>9, <2>0
  <2>3. LinesUsual(b, h)
    BY <2>1, <2>2 DEF LinesUsual
  <2>4. \A k \in 1..h - 1 : IsFrom(b[k]) => b[k] = FromLine(p)
    BY <1>2, <1>5, <1>9, <2>0
  <2>5. IsFrom(b[s])
    BY <1>2, <1>5
  <2> QED
    BY <2>3, <2>4, <2>5, Zenon DEF OnlySender
<1>11. Others(b, h) = Others(a, h)
  BY <1>9 DEF Others
<1>12. \A k \in Others(a, h) : b[k] = a[k]
  BY <1>8 DEF Others
<1>13. Ranked(b, h) = Ranked(a, h)
  <2>1. \A k \in Others(a, h) : Before(b, h, k) = Before(a, h, k)
    BY <1>11 DEF Before
  <2>2. ASSUME NEW x \in Ranked(b, h)
        PROVE  x \in Ranked(a, h)
    BY <1>11, <1>12, <2>1, <2>2 DEF Ranked
  <2>3. ASSUME NEW x \in Ranked(a, h)
        PROVE  x \in Ranked(b, h)
    BY <1>11, <1>12, <2>1, <2>3 DEF Ranked
  <2> QED
    BY <2>2, <2>3, Zenon
<1>14. \A k, j \in h..n : j + h = k + h => b[j] = a[k]
  <2> SUFFICES ASSUME NEW k \in h..n, NEW j \in h..n, j + h = k + h
               PROVE  b[j] = a[k]
    OBVIOUS
  <2>1. j = k /\ k \in 1..n /\ k # s
    BY <1>1
  <2> QED
    BY <1>5, <2>1
<1>15. SenderSet(b, n, h, a, n, h, p)
  BY <1>5, <1>6, <1>7, <1>10, <1>13, <1>14, Zenon DEF SenderSet
<1> QED
  BY <1>2, <1>3, <1>15

\* What RewriteFrom makes of the lines
LEMMA RewriteIs ==
  ASSUME NEW text, NEW a \in LineLists, a = SplitLines(text), NEW n \in Nat \ {0}, n = Len(a),
         NEW h, Header(a, n, h), NEW p \in Upstreams
  PROVE  \E b, m, g : RewriteFrom(text, p) = JoinCRLF(b) /\ SenderSet(b, m, g, a, n, h, p)
<1>1. h \in 1..n /\ h # n /\ a[h] = <<>> /\ \A k \in 1..n : k < h => a[k] # <<>>
  BY DEF Header
<1>2. DOMAIN a = 1..n
  BY DEF LineLists
<1>3. HasBlank(a)
  BY <1>1, <1>2 DEF HasBlank
<1>4. HeaderEnd(a) = h
  <2>1. PICK S : S = {i \in DOMAIN a : a[i] = <<>>}
    OBVIOUS
  <2>2. S \in SUBSET Nat /\ h \in S
    BY <1>1, <1>2, <2>1
  <2>3. \A y \in S : h <= y
    BY <1>1, <1>2, <2>1
  <2>4. Min(S) = h
    BY <2>2, <2>3, MinIs
  <2> QED
    BY <2>1, <2>4 DEF HeaderEnd
<1>5. ~IsFrom(a[h])
  BY <1>1 DEF IsFrom
<1>6. \A k : k \in Senders(a) <=> k \in 1..h - 1 /\ IsFrom(a[k])
  <2>1. \A k : k \in 1..h <=> k = h \/ k \in 1..h - 1
    BY <1>1
  <2> QED
    BY <1>4, <1>5, <2>1 DEF Senders
<1>7. RewriteFrom(text, p) = JoinCRLF(IF Senders(a) = {} THEN <<FromLine(p)>> \o a
                                      ELSE [a EXCEPT ![Min(Senders(a))] = FromLine(p)])
  BY <1>3 DEF RewriteFrom
<1>8. CASE Senders(a) = {}
  <2>1. SenderSet(<<FromLine(p)>> \o a, n + 1, h + 1, a, n, h, p)
    BY <1>6, <1>8, FromAdded
  <2> QED
    BY <1>7, <1>8, <2>1
<1>9. CASE Senders(a) # {}
  <2>0. Senders(a) \in SUBSET Nat
    BY <1>6
  <2>1. PICK s \in Senders(a) : \A y \in Senders(a) : s <= y
    BY <1>9, <2>0, Least
  <2>2. s \in 1..h - 1 /\ IsFrom(a[s])
    BY <1>6, <2>1
  <2>3. Min(Senders(a)) = s
    BY <2>0, <2>1, MinIs
  <2>4. SenderSet([a EXCEPT ![s] = FromLine(p)], n, h, a, n, h, p)
    BY <2>2, FromReplaced
  <2> QED
    BY <1>7, <1>9, <2>3, <2>4
<1> QED
  BY <1>8, <1>9

\* The lines that RewriteFrom works on have the header that the reader of the text sees.
LEMMA Mirrored ==
  ASSUME NEW plain \in LineLists, NEW lines \in LineLists, NEW n \in Nat \ {0},
         n = Len(plain), Mirrors(plain, lines), NEW h, Header(plain, n, h)
  PROVE  /\ n = Len(lines) /\ Header(lines, n, h)
         /\ LinesUsual(plain, h) => LinesUsual(lines, h)
<1>1. /\ n = Len(lines)
      /\ \A k \in 1..n : plain[k] = <<>> <=> lines[k] = <<>>
      /\ \A k \in 1..n : plain[k] # <<>> => plain[k][1] = lines[k][1]
  BY DEF Mirrors
<1>2. h \in 1..n /\ h # n /\ plain[h] = <<>> /\ \A k \in 1..n : k < h => plain[k] # <<>>
  BY DEF Header
<1>3. Header(lines, n, h)
  BY <1>1, <1>2 DEF Header
<1>4. \A k \in 1..h - 1 : k \in 1..n /\ k < h
  BY <1>2
<1>5. \A k \in 1..h - 1 : plain[k][1] = lines[k][1]
  BY <1>1, <1>2, <1>4
<1>6. \A k \in 1..h - 1 : IsFrom(plain[k]) <=> IsFrom(lines[k])
  BY <1>1, <1>4, <1>5 DEF IsFrom
<1>7. LinesUsual(plain, h) => LinesUsual(lines, h)
  BY <1>5, <1>6 DEF LinesUsual
<1> QED
  BY <1>1, <1>3, <1>7

\* A text that is laid out has positions where its lines start and end.
LEMMA LaidBy ==
  ASSUME NEW text \in Texts, NEW lines \in LineLists, NEW n, n = Len(lines),
         LaidOut(text, lines, n)
  PROVE  n \in Nat \ {0} /\ \E m, at, end : Laid(text, m, lines, n, at, end)
<1>1. PICK m \in Nat : m = Len(text)
  BY DEF Texts
<1>2. n \in Nat \ {0} /\ lines \in Seq(LineSet)
  BY DEF LineLists
<1>3. PICK at, end : Layout(text, lines, n, at, end)
  BY DEF LaidOut
<1>4. Laid(text, m, lines, n, at, end)
  BY <1>1, <1>2, <1>3 DEF Laid
<1> QED
  BY <1>2, <1>4

\* A text without bytes beyond seven bits has no such line.
LEMMA SevenBitLines ==
  ASSUME NEW text, NEW m, NEW lines, NEW n, NEW at, NEW end, Laid(text, m, lines, n, at, end),
         "8bit" \notin ToSet(text)
  PROVE  SevenBits(lines)
<1>0. m \in Nat /\ m = Len(text) /\ n = Len(lines) /\ text \in Texts
  BY DEF Laid
<1> SUFFICES ASSUME NEW k \in 1..n, NEW i \in 1..Len(lines[k])
             PROVE  lines[k][i] # "8bit"
  BY <1>0 DEF SevenBits
<1>1. PICK a \in Nat, w \in Nat : a = at[k] /\ w = Len(lines[k])
  BY LaidFacts
<1>2. 1 <= a /\ a + w <= m + 1
  <2>1. 1 <= at[k] /\ end[k] = at[k] + Len(lines[k]) /\ end[k] <= m + 1
    BY LaidFacts
  <2> QED
    BY <1>1, <2>1
<1>3. PICK p \in 1..m : p + 1 = a + i
  <2>1. i \in 1..w
    BY <1>1
  <2>2. a + i - 1 \in 1..m /\ (a + i - 1) + 1 = a + i
    BY <1>0, <1>2, <2>1
  <2> QED
    BY <2>2
<1>4. text[p] = lines[k][i]
  <2>1. p + 1 = at[k] + i
    BY <1>1, <1>3
  <2> QED
    BY <2>1, InLine
<1>5. text[p] \in ToSet(text)
  BY <1>0 DEF ToSet, Texts
<1> QED
  BY <1>4, <1>5

\* The text that RewriteFrom makes of one that has an empty line
LEMMA Rewritten ==
  ASSUME NEW text \in Seq(Bytes), NEW p \in Upstreams, Blanks(Normal(text)) # {},
         NEW sent, sent = RewriteFrom(text, p)
  PROVE  /\ Usual(Normal(text)) =>
                Usual(sent) /\ {Line(sent, i) : i \in Froms(sent)} = {FromLine(p)}
         /\ "8bit" \notin ToSet(Normal(text)) =>
                Body(sent) = Body(Normal(text)) /\ OtherLines(sent) = OtherLines(Normal(text))
<1>1. PICK t, a : t = Normal(text) /\ a = SplitLines(text)
  OBVIOUS
<1>2. ReadAs(t, a)
  BY <1>1, MailRead
<1>3. PICK plain \in LineLists : Mirrors(plain, a) /\ LaidOut(t, plain, Len(plain))
  BY <1>2 DEF ReadAs
<1>4. t \in Texts /\ a \in LineLists
  BY <1>2 DEF ReadAs
<1>5. PICK n : n = Len(plain)
  OBVIOUS
<1>6. n \in Nat \ {0} /\ \E m, at, end : Laid(t, m, plain, n, at, end)
  BY <1>3, <1>4, <1>5, LaidBy
<1>7. PICK m, at, end : Laid(t, m, plain, n, at, end)
  BY <1>6
<1>8. PICK h : Header(plain, n, h)
  <2>1. Blanks(t) # {}
    BY <1>1
  <2> QED
    BY <1>7, <2>1, HeaderIs
<1>9. Usual(t) <=> LinesUsual(plain, h)
  BY <1>7, <1>8, UsualIs
<1>10. n = Len(a) /\ Header(a, n, h) /\ (Usual(t) => LinesUsual(a, h))
  BY <1>3, <1>4, <1>5, <1>6, <1>8, <1>9, Mirrored
<1>11. PICK b, k, g : RewriteFrom(text, p) = JoinCRLF(b) /\ SenderSet(b, k, g, a, n, h, p)
  BY <1>1, <1>4, <1>6, <1>10, RewriteIs
<1>12. b \in LineLists /\ k = Len(b)
  BY <1>11 DEF SenderSet
<1>13. sent \in Texts /\ LaidOut(sent, b, k)
  BY <1>11, <1>12, JoinLaysOut DEF LineLists
<1>14. PICK l, bt, bend : Laid(sent, l, b, k, bt, bend)
  BY <1>12, <1>13, LaidBy
<1>15. Header(b, k, g)
  BY <1>11 DEF SenderSet
<1>16. ASSUME Usual(t)
       PROVE  Usual(sent) /\ {Line(sent, i) : i \in Froms(sent)} = {FromLine(p)}
  <2>0. OnlySender(b, g, p)
    BY <1>10, <1>11, <1>16 DEF SenderSet
  <2>1. Usual(sent)
    BY <1>14, <1>15, <2>0, UsualIs DEF OnlySender
  <2>2. \A i : i \in Froms(sent) <=> \E j \in 1..g - 1 : i = bt[j] /\ IsFrom(b[j])
    BY <1>14, <1>15, FieldsAre
  <2>3. \A j \in 1..g - 1 : Line(sent, bt[j]) = b[j]
    <3>1. \A j \in 1..g - 1 : j \in 1..k /\ j # k
      BY <1>14, <1>15 DEF Header, Laid
    <3> QED
      BY <1>14, <3>1, LineIs
  <2>4. \A i \in Froms(sent) : Line(sent, i) = FromLine(p)
    BY <2>0, <2>2, <2>3 DEF OnlySender
  <2>5. \E i : i \in Froms(sent)
    BY <2>0, <2>2 DEF OnlySender
  <2> QED
    BY <2>1, <2>4, <2>5
<1>17. ASSUME "8bit" \notin ToSet(t)
       PROVE  Body(sent) = Body(t) /\ OtherLines(sent) = OtherLines(t)
  <2>1. plain = a
    <3>1. SevenBits(plain)
      BY <1>7, <1>17, SevenBitLines
    <3> QED
      BY <1>3, <3>1 DEF Mirrors
  <2>2. SameRest(plain, n, h, b, k, g)
    BY <1>11, <2>1 DEF SenderSet, SameRest
  <2>3. Body(sent) = Body(t)
    BY <1>7, <1>8, <1>14, <1>15, <2>2, SameBody
  <2>4. OtherLines(t) = Ranked(plain, h)
    BY <1>7, <1>8, OtherLinesAre
  <2>5. OtherLines(sent) = Ranked(b, g)
    BY <1>14, <1>15, OtherLinesAre
  <2>6. Ranked(b, g) = Ranked(plain, h)
    BY <1>11, <2>1 DEF SenderSet
  <2> QED
    BY <2>3, <2>4, <2>5, <2>6
<1> QED
  BY <1>1, <1>16, <1>17

=============================================================================
