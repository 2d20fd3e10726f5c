------------------------------ MODULE MCEvents ------------------------------
(* Instances of Events for TLC: a first operation that deploys its account *)
(* and is sponsored, and a plain one of another account.                   *)
EXTENDS Events

MCLower == [a \in Spelling |-> a]

Op(sender, nonce, paymaster, factory) ==
  [sender |-> sender, nonce |-> nonce, paymaster |-> paymaster,
   factory |-> factory, maxFeePerGas |-> 10, maxPriorityFeePerGas |-> 10]

MCUserOp == { Op(1, 0, 3, 4), Op(2, 0, Absent, Absent) }
=============================================================================
