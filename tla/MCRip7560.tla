------------------------------ MODULE MCRip7560 ------------------------------
(* Instances of Rip7560 for TLC.                                           *)
EXTENDS Rip7560

Op(sender, fee) ==
  [sender |-> sender, nonce |-> 0, maxFeePerGas |-> fee, maxPriorityFeePerGas |-> fee]

\* An operation and its replacement.
MCPair == {Op(1, 10), Op(1, 20)}

\* PUSH, PULL from a node with its own hashes, and PULL with 1-wei transactions.
Mode(push, dev, same) == [push |-> push, dev |-> dev, sameHash |-> same]
MCModes == {Mode(TRUE, FALSE, TRUE), Mode(FALSE, FALSE, FALSE), Mode(FALSE, TRUE, TRUE)}
=============================================================================
