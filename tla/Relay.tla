------------------------------- MODULE Relay --------------------------------
(***************************************************************************)
(* How the worker relays one mail of one user: in which order deliver      *)
(* turns to the upstreams, and what text each of them is given.            *)
(*                                                                         *)
(* The list of upstreams and the rotation flag are whatever the tables     *)
(* hold when they are read, one after the other: the dashboards change     *)
(* them at any time (modules UpstreamPool and Accounts).  The worker is    *)
(* one goroutine, so that one mail is relayed at a time.                   *)
(*                                                                         *)
(* A text is a sequence of bytes, of which some stand for several: "From:" *)
(* is the name of that field in any case, "folded" is white space at the   *)
(* start of a line, "text" is anything in seven bits, "8bit" a byte that   *)
(* is not.  What an upstream is written as in a From field is the upstream *)
(* itself: from_email is never empty (handler.go, createSMTP).             *)
(***************************************************************************)
EXTENDS Naturals, Sequences, SequencesExt, FiniteSetsExt

CONSTANTS
    Upstreams,
    Mails           \* the texts that clients submit

Bytes == {"From:", "text", "folded", "8bit", "CR", "LF"}

ASSUME RelayAssumption ==
    /\ Upstreams # {} /\ IsFiniteSet(Upstreams)
    /\ Upstreams \cap Bytes = {}
    /\ Mails \subseteq Seq(Bytes)

VARIABLES
    pc,             \* what deliver does: "idle" between two mails
    mail,           \* the text of the item
    rotates,        \* the user's flag, as read
    list,           \* the upstreams of the user, as read
    order,          \* in which order they are tried
    tried,          \* how many of them were
    rrIndex,        \* in memory, counted from 0
    turns           \* observation: the list that was last rotated over, and the last first choices

vars == <<pc, mail, rotates, list, order, tried, rrIndex, turns>>

\* What a user can have assigned: every upstream once at most (UNIQUE(user_id, smtp_id)).
Lists == UNION {{l \in [1..n -> Upstreams] : \A i, j \in 1..n : l[i] = l[j] => i = j} :
                    n \in 0..Cardinality(Upstreams)}

NoTurns == [list |-> <<>>, firsts |-> <<>>]

TypeOK ==
    /\ pc \in {"idle", "read", "try", "accepted", "failed"}
    /\ mail \in Mails \cup {<<>>}
    /\ rotates \in BOOLEAN
    /\ list \in Lists
    /\ order \in Seq(Upstreams)
    /\ tried \in 0..Len(order)
    /\ rrIndex \in 0..Cardinality(Upstreams) - 1
    /\ turns.list \in Lists
    /\ turns.firsts \in Seq(ToSet(turns.list))

Init ==
    /\ pc = "idle"
    /\ mail = <<>> /\ rotates = FALSE /\ list = <<>> /\ order = <<>> /\ tried = 0
    /\ rrIndex = 0
    /\ turns = NoTurns

-----------------------------------------------------------------------------
(* The text *)

\* A bug: CR is kept.
AddByte_bug(lines, byte) ==
    IF byte = "LF" THEN Append(lines, <<>>) ELSE [lines EXCEPT ![Len(lines)] = Append(@, byte)]

\* CR is dropped wherever it is, and string(s[i]) is UTF-8: a byte beyond seven bits becomes two.
AddByte(lines, byte) ==
    CASE byte = "CR" -> lines
      [] byte = "LF" -> Append(lines, <<>>)
      [] byte = "8bit" -> [lines EXCEPT ![Len(lines)] = @ \o <<"8bit", "8bit">>]
      [] OTHER -> [lines EXCEPT ![Len(lines)] = Append(@, byte)]

SplitLines(text) ==
    LET lines[n \in 0..Len(text)] ==
            IF n = 0 THEN << <<>> >> ELSE AddByte(lines[n - 1], text[n])
    IN  lines[Len(text)]

AddLine(text, line) == text \o <<"CR", "LF">> \o line

JoinCRLF(lines) ==
    LET text[n \in 1..Len(lines)] ==
            IF n = 1 THEN lines[1] ELSE AddLine(text[n - 1], lines[n])
    IN  text[Len(lines)]

IsFrom(line) == line # <<>> /\ line[1] = "From:"
FromLine(p) == <<"From:", p>>

HasBlank(lines) == \E i \in DOMAIN lines : lines[i] = <<>>
HeaderEnd(lines) == Min({i \in DOMAIN lines : lines[i] = <<>>})

\* A bug: a From: line is looked for in the body as well.
Senders_bug(lines) == {i \in DOMAIN lines : IsFrom(lines[i])}

Senders(lines) == {i \in 1..HeaderEnd(lines) : IsFrom(lines[i])}

RewriteFrom(text, p) ==
    LET lines == SplitLines(text) IN
    IF ~HasBlank(lines)
    THEN text
    ELSE JoinCRLF(IF Senders(lines) = {}
                  THEN <<FromLine(p)>> \o lines
                  ELSE [lines EXCEPT ![Min(Senders(lines))] = FromLine(p)])

-----------------------------------------------------------------------------
(* deliver *)

\* The flag is read first.
Begin(text, flag) ==
    /\ pc \in {"idle", "accepted", "failed"}
    /\ pc' = "read"
    /\ mail' = text
    /\ rotates' = flag
    /\ list' = <<>> /\ order' = <<>> /\ tried' = 0
    /\ UNCHANGED <<rrIndex, turns>>

\* What nextRR answers for a list of n; without rotation the first one comes first.
Turn(n) == IF ~rotates \/ rrIndex >= n THEN 0 ELSE rrIndex

\* Bugs: the index is not moved, or never goes back.
Following_bug(idx, n) == idx
Following_over(idx, n) == idx + 1

Following(idx, n) == (idx + 1) % n

\* A bug: i == idx is not skipped.
TryOrder_bug(l, idx) == <<l[idx + 1]>> \o l

\* The one at idx, and then the others in their order
TryOrder(l, idx) == <<l[idx + 1]>> \o RemoveAt(l, idx + 1)

\* As many first choices as there are upstreams
TurnsAfter(l, first) ==
    LET firsts == Append(IF turns.list = l THEN turns.firsts ELSE <<>>, first) IN
    [list |-> l, firsts |-> IF Len(firsts) > Len(l) THEN Tail(firsts) ELSE firsts]

\* A list as it is at that moment, and nextRR
ReadList(l) ==
    /\ pc = "read"
    /\ l # <<>>
    /\ pc' = "try"
    /\ list' = l
    /\ LET idx == Turn(Len(l)) IN
       /\ order' = TryOrder(l, idx)
       /\ IF rotates
          THEN /\ rrIndex' = Following(idx, Len(l))
               /\ turns' = TurnsAfter(l, l[idx + 1])
          ELSE UNCHANGED <<rrIndex, turns>>
    /\ UNCHANGED <<mail, rotates, tried>>

\* No upstream, or one of the two reads fails.
ReadFails ==
    /\ pc = "read"
    /\ pc' = "failed"
    /\ UNCHANGED <<mail, rotates, list, order, tried, rrIndex, turns>>

\* SendMail returns nil.
Accepted ==
    /\ pc = "try"
    /\ tried' = tried + 1
    /\ pc' = "accepted"
    /\ UNCHANGED <<mail, rotates, list, order, rrIndex, turns>>

\* SendMail returns an error, which may be that of QUIT: the upstream may have taken the mail.
Rejected ==
    /\ pc = "try"
    /\ tried' = tried + 1
    /\ pc' = IF tried' = Len(order) THEN "failed" ELSE "try"
    /\ UNCHANGED <<mail, rotates, list, order, rrIndex, turns>>

Restart ==
    /\ pc' = "idle"
    /\ mail' = <<>> /\ rotates' = FALSE /\ list' = <<>> /\ order' = <<>> /\ tried' = 0
    /\ rrIndex' = 0
    /\ turns' = NoTurns

Next ==
    \/ \E text \in Mails, flag \in BOOLEAN : Begin(text, flag)
    \/ \E l \in Lists : ReadList(l)
    \/ ReadFails \/ Accepted \/ Rejected
    \/ Restart

Spec == Init /\ [][Next]_vars

-----------------------------------------------------------------------------
(* Properties *)

\* One call of deliver gives a mail up only after every upstream of the list was tried, and tries
\* none of them twice: an upstream that took the mail, and whose answer was lost, gets no second
\* copy of it in that call.  (process then has it retried later, over all upstreams anew.)
EveryUpstreamOnce ==
    LET asked == SubSeq(order, 1, tried) IN
    /\ \A i, j \in DOMAIN asked : asked[i] = asked[j] => i = j
    /\ pc = "failed" => ToSet(asked) = ToSet(list)

\* Rotation (nextRR): while a user's list stays the same, no upstream is the first choice again
\* before every other one was, whatever lists were rotated over before.
TurnsTaken ==
    \A m, n \in DOMAIN turns.firsts : m # n => turns.firsts[m] # turns.firsts[n]

\* What the upstream gets that was tried last
Sent == RewriteFrom(mail, order[tried])

\* A text with all its lines ended by CR LF, which is how they are read on the way.
Received(text, byte) ==
    CASE byte = "CR" -> text
      [] byte = "LF" -> AddLine(text, <<>>)
      [] OTHER -> Append(text, byte)
Normal(text) ==
    LET received[n \in 0..Len(text)] ==
            IF n = 0 THEN <<>> ELSE Received(received[n - 1], text[n])
    IN  received[Len(text)]

\* A text as its reader takes it: an empty line ends the header.  Lines are known by their start.
LineEnd(text, i) == i < Len(text) /\ SubSeq(text, i, i + 1) = <<"CR", "LF">>
Starts(text) == {i \in 1..Len(text) + 1 : i = 1 \/ (i > 2 /\ LineEnd(text, i - 2))}
Blanks(text) == {i \in Starts(text) : LineEnd(text, i)}
Body(text) == SubSeq(text, Min(Blanks(text)), Len(text))
Fields(text) == {i \in Starts(text) : i < Min(Blanks(text))}
Line(text, i) == SubSeq(text, i, Min({j \in i..Len(text) : LineEnd(text, j)}) - 1)
Froms(text) == {i \in Fields(text) : text[i] = "From:"}
\* The other fields, each with how many of them come before it
OtherLines(text) ==
    LET others == Fields(text) \ Froms(text) IN
    {<<Cardinality({j \in others : j < i}), Line(text, i)>> : i \in others}
\* No From field goes on in the next line.
Unfolded(text) ==
    \A j \in Fields(text) : text[j] = "folded" =>
        \E i \in Fields(text) \ Froms(text) : i < j /\ \A k \in Fields(text) : k <= i \/ j <= k

\* A header with at most one From field, of one line
Usual(text) == Blanks(text) # {} /\ Cardinality(Froms(text)) <= 1 /\ Unfolded(text)

\* README.md: "Message envelope/header sender address is forced to selected upstream SMTP
\* from_email", of the upstream that is tried, whichever were tried before: the mail shows that
\* sender and no other.  Not so in a text without an empty line, which may go out as it came, with
\* several From fields, of which the first is replaced, or with one that is folded, of which the
\* rest stays.
SenderForced ==
    tried > 0 /\ Usual(Normal(mail)) =>
        /\ Usual(Sent)
        /\ {Line(Sent, i) : i \in Froms(Sent)} = {FromLine(order[tried])}

\* rewriteFromHeader leaves the body alone, and all lines of the header that begin no From field,
\* and their order, however many From fields there are, folded or not: what is a From: line in the
\* body, quoted or attached, stays.  Not so for bytes beyond seven bits; and a text without an
\* empty line has no body, and is not spoken of.
RestKept ==
    LET text == Normal(mail) IN
    tried > 0 /\ Blanks(text) # {} /\ "8bit" \notin ToSet(text) =>
        Body(Sent) = Body(text) /\ OtherLines(Sent) = OtherLines(text)
=============================================================================
