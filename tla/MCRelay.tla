------------------------------ MODULE MCRelay -------------------------------
(***************************************************************************)
(* Instances of Relay for TLC: the upstreams are model values, the texts   *)
(* are all those of a few lines, and some whose lines end otherwise.       *)
(***************************************************************************)
EXTENDS Relay

CONSTANTS p1, p2, p3

Symmetry == Permutations(Upstreams)

From == <<"From:", "text">>
Text == <<"text">>
Folded == <<"folded", "text">>
Lines == {From, Text, Folded, <<>>}

\* Every text of up to three lines, and of four with an empty third
Mail(lines) == JoinCRLF(lines)
Regular == {Mail(lines) : lines \in UNION {[1..n -> Lines] : n \in 1..3}}
    \cup {Mail(lines \o <<<<>>, From>>) : lines \in [1..2 -> Lines]}

\* Lines that end in LF only, a CR on its own, bytes beyond seven bits, and nothing at all
Irregular == {
    <<"text", "LF", "From:", "text", "LF", "LF", "text">>,
    <<"text", "LF", "LF", "From:", "text", "LF">>,
    <<"CR", "From:", "text", "CR", "LF", "CR", "CR", "LF", "text">>,
    <<"text", "CR", "CR", "From:">>,
    <<"From:", "8bit", "CR", "LF", "CR", "LF", "text", "8bit", "text">>,
    <<>>}

SomeMails == Regular \cup Irregular
=============================================================================
