------------------------------- MODULE Outbox -------------------------------
(***************************************************************************)
(* What the outbound queue promises to whoever hands a mail to it, with no *)
(* word on how: no rows, statements, retries or worker phases.             *)
(*                                                                         *)
(* A mail is submitted once, under a number that is never given out again. *)
(* One worker at a time claims a batch of pending mails; only a claimed    *)
(* mail is transmitted, possibly more than once (delivery is at least      *)
(* once), never after it is settled, and it is settled as "sent" only      *)
(* after a transmission that an upstream accepted.  An operator may remove *)
(* mails at any time; a removed mail may still go out while it is claimed, *)
(* and not after its claim is released.                                    *)
(***************************************************************************)
EXTENDS Naturals

CONSTANT Ids        \* the numbers mails are known by

VARIABLES
    state,          \* state[i]: where mail i is in its life
    copies,         \* copies[i]: transmissions accepted so far: 0, 1 or 2 (two or more)
    claimed         \* the mails the worker is busy with

vars == <<state, copies, claimed>>

State == {"unused", "pending", "sent", "failed", "removed"}

Init ==
    /\ state = [i \in Ids |-> "unused"]
    /\ copies = [i \in Ids |-> 0]
    /\ claimed = {}

Submit(i) ==
    /\ state[i] = "unused"
    /\ state' = [state EXCEPT ![i] = "pending"]
    /\ UNCHANGED <<copies, claimed>>

Claim(S) ==
    /\ claimed = {}
    /\ \A i \in S : state[i] = "pending"
    /\ claimed' = S
    /\ UNCHANGED <<state, copies>>

Transmit(i) ==
    /\ i \in claimed
    /\ state[i] \in {"pending", "removed"}
    /\ copies' = [copies EXCEPT ![i] = IF @ = 0 THEN 1 ELSE 2]
    /\ UNCHANGED <<state, claimed>>

Settle(i, verdict) ==
    /\ i \in claimed
    /\ state[i] = "pending"
    /\ verdict = "sent" => copies[i] > 0
    /\ state' = [state EXCEPT ![i] = verdict]
    /\ UNCHANGED <<copies, claimed>>

Release(S) ==
    /\ claimed' = claimed \ S
    /\ UNCHANGED <<state, copies>>

Remove(S) ==
    /\ \A i \in S : state[i] # "unused"
    /\ state' = [i \in Ids |-> IF i \in S THEN "removed" ELSE state[i]]
    /\ UNCHANGED <<copies, claimed>>

Next ==
    \/ \E i \in Ids :
        \/ Submit(i)
        \/ Transmit(i)
        \/ \E verdict \in {"sent", "failed"} : Settle(i, verdict)
    \/ \E S \in SUBSET Ids :
        \/ Claim(S)
        \/ Release(S)
        \/ Remove(S)

Spec == Init /\ [][Next]_vars
=============================================================================
