------------------------------ MODULE KeyedPool ------------------------------
(***************************************************************************)
(* What MempoolManager promises to the modules that use it, with neither   *)
(* reputation nor counters: a set of operations with one operation per     *)
(* (sender, nonce), in which an operation only ever gives way to one that  *)
(* pays more, or leaves.                                                   *)
(***************************************************************************)
EXTENDS Integers

CONSTANT UserOp    \* the operations, records with (at least) these fields:
                   \* sender, nonce, maxFeePerGas, maxPriorityFeePerGas

VARIABLE pool

SameKey(p, q) == p.sender = q.sender /\ p.nonce = q.nonce

\* A replacement raises both fees by ten percent or more.
OutBids(new, old) ==
  /\ 10 * new.maxPriorityFeePerGas >= 11 * old.maxPriorityFeePerGas
  /\ 10 * new.maxFeePerGas >= 11 * old.maxFeePerGas

PoolInit == pool = {}

Put(op) ==
  /\ \A other \in pool : ~SameKey(op, other)
  /\ pool' = pool \union {op}

Replace(old, new) ==
  /\ SameKey(old, new)
  /\ OutBids(new, old)
  /\ pool' = (pool \ {old}) \union {new}

Drop(gone) == pool' = pool \ gone

PoolNext ==
  \/ \E op \in UserOp : Put(op)
  \/ \E old \in pool, new \in UserOp : Replace(old, new)
  \/ \E gone \in SUBSET pool : Drop(gone)

PoolSpec == PoolInit /\ [][PoolNext]_pool
=============================================================================
