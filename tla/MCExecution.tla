----------------------------- MODULE MCExecution -----------------------------
(* Instances of Execution for TLC.                                         *)
EXTENDS Execution

Op(sender, paymaster, factory, cost, fee) ==
  [sender |-> sender, nonce |-> 0, paymaster |-> paymaster, factory |-> factory, cost |-> cost,
   maxFeePerGas |-> fee, maxPriorityFeePerGas |-> fee]

\* Two operations that one paymaster pays for, at the same cost, and one that
\* may replace the first, both of which deploy their account.
MCOps == {Op(1, 9, 8, 1, 10), Op(2, 9, Absent, 1, 10), Op(1, Absent, 8, 1, 20)}

\* The second one costs more.
MCUneven == {Op(1, 9, Absent, 1, 10), Op(2, 9, Absent, 2, 10)}

MCDeposit == [p \in Paymaster |-> 1]
MCTwo == [p \in Paymaster |-> 2]
=============================================================================
