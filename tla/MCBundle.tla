------------------------------ MODULE MCBundle ------------------------------
(* Instances of BundleManager for TLC.  Accounts 1 and 2, paymaster 3,     *)
(* factory 4; the checksummed spelling of an address is the number + 100.  *)
EXTENDS BundleManager

MCLower == [a \in Spelling |-> IF a > 100 THEN a - 100 ELSE a]

Op(sender, nonce, paymaster, factory, fee, gas, prefund, auth) ==
  [sender |-> sender, nonce |-> nonce, paymaster |-> paymaster, factory |-> factory,
   maxFeePerGas |-> fee, maxPriorityFeePerGas |-> fee,
   gas |-> gas, prefund |-> prefund, auth |-> auth]

Delegate(d) == [signer |-> 1, delegate |-> d]

MCAuth == {Delegate(d) : d \in {1, 2}}

\* Sponsored operations of two accounts, a second one of the first account, and
\* two tuples that contradict each other.
MCSponsored ==
  { Op(1, 0, 3, Absent, 10, 1, 3, Absent),
    Op(2, 0, 3, 4, 10, 1, 3, Delegate(2)),
    Op(1, 1, Absent, Absent, 10, 1, 1, Delegate(1)) }

\* Sponsored operations, one of which replaces another.
MCReplacing ==
  { Op(1, 0, 3, Absent, 10, 1, 1, Absent),
    Op(1, 0, 3, Absent, 20, 1, 1, Absent),
    Op(2, 0, 3, Absent, 10, 1, 1, Absent) }

\* The replacement has another paymaster.
MCSwapping ==
  { Op(1, 0, 3, Absent, 10, 1, 1, Absent),
    Op(1, 0, 4, Absent, 20, 1, 1, Absent),
    Op(2, 0, 3, Absent, 10, 1, 1, Absent) }

\* Operations that differ in what they pay and in what they use, of one
\* paymaster: either may be replaced while it is validated again, and one pays
\* less than a bundle asks for.
MCSized ==
  { Op(1, 0, 3, Absent, 20, 1, 1, Absent),
    Op(1, 0, 3, Absent, 30, 2, 1, Absent),
    Op(2, 0, 3, Absent, 10, 1, 1, Absent),
    Op(2, 0, 3, Absent, 20, 2, 1, Absent) }

\* One account and one paymaster, each in two spellings.
MCSpelled ==
  { Op(1, 0, 3, Absent, 10, 1, 1, Absent),
    Op(101, 1, Absent, Absent, 10, 1, 1, Absent),
    Op(2, 0, 103, Absent, 10, 1, 1, Absent) }
=============================================================================
