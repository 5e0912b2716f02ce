---------------------------- MODULE MCSmtpIntake ----------------------------
(***************************************************************************)
(* Instances of SmtpIntake for TLC: one message all of whose recipients    *)
(* are valid, and one that is refused at its second recipient.             *)
(***************************************************************************)
EXTENDS SmtpIntake

CONSTANTS u1, s1, s2, m1, m2, a, b, bad

MCEnvelope == [m \in {m1, m2} |-> IF m = m1 THEN <<a, b>> ELSE <<b, bad>>]
=============================================================================
