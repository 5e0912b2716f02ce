----------------------------- MODULE MCAccounts -----------------------------
(***************************************************************************)
(* Instances of Accounts for TLC: names, passwords, plans and handlers are *)
(* model values.                                                           *)
(***************************************************************************)
EXTENDS Accounts, TLC

CONSTANTS n1, n2, w1, w2, basic, pro, h1, h2

Symmetry ==
    Permutations(Names) \cup Permutations(Passwords) \cup Permutations(Plans)
        \cup Permutations(Handlers)

\* Bound: one account while settings are not what they are at registration, or are being changed.
\* What changes settings looks at nothing of names and passwords, and the other way round only at
\* enabled, which SmtpIntake varies.
Apart ==
    \/ /\ nextId <= 2
       /\ \A h \in Handlers : ~Pending(h, "login")
       /\ \A s \in sessions : ~s.former
    \/ /\ \A h \in Handlers : ~Pending(h, "write")
       /\ \A i \in Ids : Exists(i) => settings[i] \in {Registered(plan) : plan \in Plans}
=============================================================================
