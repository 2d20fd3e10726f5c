----------------------------- MODULE MCMempool -----------------------------
(* Instances of Mempool for TLC.  An address is written as a number and    *)
(* its checksummed spelling as the number plus 100.                        *)
EXTENDS Mempool

MCLower == [a \in Spelling |-> IF a > 100 THEN a - 100 ELSE a]

Op(sender, nonce, paymaster, factory, fee, priorityFee) ==
  [sender |-> sender, nonce |-> nonce, paymaster |-> paymaster,
   factory |-> factory, maxFeePerGas |-> fee, maxPriorityFeePerGas |-> priorityFee]

\* Account 1 (in two spellings) and account 2, entity 3 in every role.
MCStableOps ==
  { Op(1, 0, 3, Absent, 10, 10),      \* sponsored
    Op(1, 0, 3, Absent, 20, 20),      \* ... with both fees raised
    Op(1, 0, 3, Absent, 10, 20),      \* ... with one fee raised
    Op(1, 1, Absent, Absent, 10, 10),
    Op(101, 0, 3, Absent, 10, 10),    \* the first one, spelled differently
    Op(2, 0, Absent, 3, 10, 10),      \* deployed by the same entity
    Op(3, 0, Absent, Absent, 10, 10)  \* the entity as an account
  }

\* The replacement brings in a paymaster: entity 3, or account 1.
MCSwapOps ==
  { Op(1, 0, Absent, Absent, 10, 10),
    Op(1, 1, Absent, Absent, 10, 10),
    Op(2, 0, Absent, Absent, 10, 10),
    Op(2, 0, 1, Absent, 20, 20),
    Op(2, 0, 3, Absent, 20, 20)
  }
=============================================================================
