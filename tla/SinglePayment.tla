---------------------------- MODULE SinglePayment ----------------------------
(***************************************************************************)
(* What an account with one saved payment promises: a payment is sent only  *)
(* when every payment sent before it has been settled, and what was settled *)
(* had been sent.                                                           *)
(***************************************************************************)
CONSTANT Payments

VARIABLES sent, settled

Init == sent = {} /\ settled = {}

Send ==
    /\ sent = settled
    /\ \E p \in Payments \ sent : sent' = sent \cup {p}
    /\ UNCHANGED settled

Settle ==
    /\ \E p \in sent \ settled : settled' = settled \cup {p}
    /\ UNCHANGED sent

Next == Send \/ Settle

Spec == Init /\ [][Next]_<<sent, settled>>
=============================================================================
