----------------------------- MODULE MCCollector -----------------------------
(* A contract, a slot associated with the sender, one hashed from the       *)
(* paymaster, one of nobody.                                                *)
EXTENDS Collector

MCSlots == {[kind |-> "plain", of |-> Sender],
            [kind |-> "word", of |-> Sender],
            [kind |-> "hash", of |-> Paymaster]}
=============================================================================
