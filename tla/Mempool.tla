------------------------------- MODULE Mempool -------------------------------
(***************************************************************************)
(* The bundler's mempool: MempoolManager.ts, on top of the reputations it  *)
(* reads and updates.                                                      *)
(*                                                                         *)
(* An operation is a record of what the manager looks at; distinct records *)
(* of UserOp are distinct operations.  The array of MempoolEntry objects   *)
(* is the set of the operations in it: its order decides only which of two *)
(* operations that pay the same priority fee is offered first.             *)
(***************************************************************************)
EXTENDS Reputation, FiniteSets

CONSTANTS
  UserOp,                       \* the operations clients may submit
  ThrottledEntityMempoolCount,  \* THROTTLED_ENTITY_MEMPOOL_COUNT = 4
  SkipValidation                \* values of the flag: {FALSE} for ERC-4337

\* Every operation has a sender; paymaster and factory are optional.
ASSUME UserOpAssumption ==
  /\ \A op \in UserOp :
       /\ op.sender \in Spelling
       /\ op.paymaster \in Spelling \union {Absent}
       /\ op.factory \in Spelling \union {Absent}
       /\ op.maxFeePerGas \in Nat
       /\ op.maxPriorityFeePerGas \in Nat
  /\ SkipValidation \subseteq BOOLEAN

ASSUME ThrottledAssumption == ThrottledEntityMempoolCount \in Nat

VARIABLES
  mempool,      \* the operations held
  entryCount    \* _entryCount: per address, its uses in the mempool

poolVars == <<entries, mempool, entryCount>>

-----------------------------------------------------------------------------
(* Operations, their keys and their entities                               *)

\* getPackedNonce is part of the record.  Both fields are compared as they
\* are spelled.
SameKey(p, q) == p.sender = q.sender /\ p.nonce = q.nonce

\* The manager lower-cases each address before it compares or counts it.
\* An absent one is its own lower case.
lower(addr) == IF addr = Absent THEN Absent ELSE Lower[addr]

\* The hash commits to the addresses, not to their spelling.
SameHash(p, q) ==
  [p EXCEPT !.sender = lower(@), !.paymaster = lower(@), !.factory = lower(@)]
    = [q EXCEPT !.sender = lower(@), !.paymaster = lower(@), !.factory = lower(@)]

SentBy(ops, a)     == {op \in ops : lower(op.sender) = a}
PaidBy(ops, a)     == {op \in ops : lower(op.paymaster) = a}
DeployedBy(ops, a) == {op \in ops : lower(op.factory) = a}

\* How often the operations name the address, in any of the three roles.
Uses(ops, a) == Cardinality(SentBy(ops, a)) + Cardinality(PaidBy(ops, a))
                  + Cardinality(DeployedBy(ops, a))

getKnownSenders == {lower(op.sender) : op \in mempool}

getKnownEntities ==
  {lower(op.paymaster) : op \in mempool} \union {lower(op.factory) : op \in mempool}

-----------------------------------------------------------------------------
(* Counters                                                                *)

incrementEntryCount(count, op) ==
  [a \in Address |-> count[a] + Uses({op}, a)]

forgetsFactory(count, ops) ==               \* variant: one call is missing
  [a \in Address |-> NonNegative(count[a] - Cardinality(SentBy(ops, a))
                                           - Cardinality(PaidBy(ops, a)))]

\* One decrement per use, each of them stopping at zero (a deleted entry).
decrementEntryCount(count, ops) ==
  [a \in Address |-> NonNegative(count[a] - Uses(ops, a))]

-----------------------------------------------------------------------------
(* Admission                                                               *)

bannedOnly(reps, count, title, addr) ==     \* variant: no limit on unstaked
  addr # Absent => getStatus(reps, addr) # "BANNED"

\* Does checkReputationStatus return (TRUE) or throw (FALSE)?
checkReputationStatus(reps, count, title, addr) ==
  addr # Absent =>
    /\ getStatus(reps, addr) # "BANNED"
    /\ count[Lower[addr]] > ThrottledEntityMempoolCount
         => getStatus(reps, addr) # "THROTTLED"
    /\ count[Lower[addr]] >= calculateMaxAllowedMempoolOpsUnstaked(reps, title, addr)
         => checkStake(reps, addr)

checkReputation(op) ==
  /\ checkReputationStatus(entries, entryCount, "account", op.sender)
  /\ checkReputationStatus(entries, entryCount, "paymaster", op.paymaster)
  /\ checkReputationStatus(entries, entryCount, "deployer", op.factory)

senderNotEntity(op) ==                      \* variant: only one of the two ways
  lower(op.sender) \notin getKnownEntities

\* The sender serves no other operation, and no operation is sent by the
\* paymaster or the factory.
checkMultipleRolesViolation(op) ==
  /\ lower(op.sender) \notin getKnownEntities
  /\ lower(op.paymaster) \notin getKnownSenders
  /\ lower(op.factory) \notin getKnownSenders

raisesOneFee(old, new) ==                   \* variant: the other fee is free
  10 * new.maxPriorityFeePerGas >= 11 * old.maxPriorityFeePerGas

\* new >= old * 1.1 for both fees.  The code multiplies in floating point and
\* may refuse an increase of exactly ten percent.
checkReplaceUserOp(old, new) ==
  /\ 10 * new.maxPriorityFeePerGas >= 11 * old.maxPriorityFeePerGas
  /\ 10 * new.maxFeePerGas >= 11 * old.maxFeePerGas

\* The sender is counted if it passes checkStake, always with +1; the two
\* other entities are counted with val.
updateOpSeen(reps, skip, op, val) ==
  LET sender == IF ~skip /\ checkStake(reps, op.sender)
                THEN updateSeenStatus(reps, op.sender, 1) ELSE reps
  IN  updateSeenStatus(updateSeenStatus(sender, op.paymaster, val), op.factory, val)

-----------------------------------------------------------------------------
(* Actions                                                                 *)

Remove(ops) ==
  /\ mempool' = mempool \ ops
  /\ entryCount' = decrementEntryCount(entryCount, ops)

WithinBound == \A a \in Address : entries'[a].opsSeen <= MaxOps

besideTheOld(skip, old, op) ==              \* variant: pushed, not put in its place
  /\ SameKey(old, op)
  /\ checkReplaceUserOp(old, op)
  /\ mempool' = mempool \union {op}
  /\ entries' = updateOpSeen(updateOpSeen(entries, skip, old, -1), skip, op, 1)
  /\ UNCHANGED entryCount

\* The replacement takes the old operation's place: neither the reputations
\* nor the roles of its entities are looked at, and no counter moves.
ReplaceUserOp(skip, old, op) ==
  /\ SameKey(old, op)
  /\ checkReplaceUserOp(old, op)
  /\ mempool' = (mempool \ {old}) \union {op}
  /\ entries' = updateOpSeen(updateOpSeen(entries, skip, old, -1), skip, op, 1)
  /\ UNCHANGED entryCount

AddNewUserOp(skip, op) ==
  /\ \A other \in mempool : ~SameKey(other, op)
  /\ skip \/ (checkReputation(op) /\ checkMultipleRolesViolation(op))
  /\ mempool' = mempool \union {op}
  /\ entryCount' = incrementEntryCount(entryCount, op)
  /\ entries' = updateOpSeen(entries, skip, op, 1)

\* A refused operation throws before anything has changed.
AddUserOp(skip, op) ==
  /\ \/ \E old \in mempool : ReplaceUserOp(skip, old, op)
     \/ AddNewUserOp(skip, op)
  /\ WithinBound

\* What one call of removeUserOp per operation, by its hash, may take out.
RemovalsByHash(ops) ==
  {gone \in SUBSET {op \in mempool : \E other \in ops : SameHash(op, other)} :
     \A other \in ops :
       (\E op \in mempool : SameHash(op, other)) =>
         Cardinality({op \in gone : SameHash(op, other)}) = 1}

\* EventsManager removes by hash.
RemoveByHash(op) == \E gone \in RemovalsByHash({op}) : Remove(gone)

\* BundleManager removes by sender and nonce, whichever operation is there.
RemoveByKey(op) == \E gone \in mempool : SameKey(gone, op) /\ Remove({gone})

\* What removeBannedAddr may take out: each operation that names the address,
\* in this spelling, is removed by its hash; operations of the same hash may go
\* with it, depending on the order of the array.
BannedRemovals(addr) ==
  LET named == {op \in mempool : addr \in {op.sender, op.paymaster, op.factory}}
  IN  {gone \in SUBSET mempool :
         /\ named \subseteq gone
         /\ \A op \in gone : \E other \in named : SameHash(op, other)}

RemoveBannedAddr(addr) == \E gone \in BannedRemovals(addr) : Remove(gone)

ClearMempool ==
  /\ DebugRpc
  /\ mempool' = {}
  /\ entryCount' = [a \in Address |-> 0]

MempoolInit ==
  /\ RepInit
  /\ mempool = {}
  /\ entryCount = [a \in Address |-> 0]

MempoolNext ==
  \/ \E skip \in SkipValidation, op \in UserOp : AddUserOp(skip, op)
  \/ /\ \/ \E op \in UserOp : RemoveByHash(op)
        \/ \E op \in UserOp : RemoveByKey(op)
        \/ \E addr \in Spelling : RemoveBannedAddr(addr)
        \/ ClearMempool
     /\ UNCHANGED entries
  \/ RepNext /\ UNCHANGED <<mempool, entryCount>>
  \/ DebugNext /\ UNCHANGED <<mempool, entryCount>>

MempoolSpec == MempoolInit /\ [][MempoolNext]_poolVars

-----------------------------------------------------------------------------
(* Properties                                                              *)

PoolTypeOK ==
  /\ RepTypeOK
  /\ mempool \subseteq UserOp
  /\ entryCount \in [Address -> Nat]

\* At most one operation per (sender, nonce) (MempoolManager.ts:81-88).
UniqueKeys == \A p, q \in mempool : SameKey(p, q) => p = q

\* Clients that only bump fees: a replacement names the paymaster and the
\* factory of the operation it replaces.
StableEntities ==
  \A p, q \in UserOp :
    SameKey(p, q) => /\ lower(p.paymaster) = lower(q.paymaster)
                     /\ lower(p.factory) = lower(q.factory)

\* "count entities in mempool." (MempoolManager.ts:29): the counter of every
\* address is the number of its uses by the operations now held, after any
\* sequence of additions, replacements and removals.
CountsExact == \A a \in Address : entryCount[a] = Uses(mempool, a)

\* No operation is sent by the paymaster or the factory of another one
\* (MempoolManager.ts:131-156), in whatever order the two came.
RoleSeparation ==
  \A p, q \in mempool :
    p # q => lower(p.sender) \notin {lower(q.paymaster), lower(q.factory)}

Unlimited == {Lower[a] : a \in WhiteList} \union Staked

\* "UREP-010: An unstaked sender is only allowed to have
\* SAME_SENDER_MEMPOOL_COUNT" operations (ReputationManager.ts:271).
SenderLimit ==
  \A a \in Address \ Unlimited :
    Cardinality(SentBy(mempool, a)) <= SameSenderMempoolCount

EntitiesOf(op) == {op.sender, op.paymaster, op.factory} \ {Absent}

\* "GREP-010 A `BANNED` address is not allowed into the mempool"
\* (MempoolManager.ts:167): no step that brings an operation in has a banned
\* entity in it.
BannedNotAdmitted ==
  [][\A op \in mempool' \ mempool :
       \A addr \in EntitiesOf(op) : getStatus(entries, addr) # "BANNED"]_poolVars

UsedBy(ops, a) == SentBy(ops, a) \union PaidBy(ops, a) \union DeployedBy(ops, a)

\* [UREP-020] An unstaked paymaster or factory enters with one more operation
\* only while it has fewer of them than its inclusions so far entitle it to
\* (ReputationManager.ts:265-287).  It is the operations that are counted
\* here, not entryCount.
UnstakedEntityLimit ==
  [][\A op \in mempool' \ mempool :
       \A addr \in {op.paymaster, op.factory} \ {Absent} :
         Lower[addr] \notin Unlimited =>
           \/ Cardinality(UsedBy(mempool', Lower[addr]))
                <= Cardinality(UsedBy(mempool, Lower[addr]))
           \/ Cardinality(UsedBy(mempool, Lower[addr]))
                < calculateMaxAllowedMempoolOpsUnstaked(entries, "paymaster", addr)]_poolVars

\* The pool that other modules rely on.
Pool == INSTANCE KeyedPool WITH pool <- mempool
MempoolImplementsPool == Pool!PoolSpec
=============================================================================
