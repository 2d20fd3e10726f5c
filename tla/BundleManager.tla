---------------------------- MODULE BundleManager ----------------------------
(***************************************************************************)
(* How a bundle is made and sent: BundleManager.ts.  sendNextBundle, under *)
(* the manager's mutex, flushes the mempool of what is already on chain,   *)
(* walks over a snapshot of it (createBundle) and sends what it chose      *)
(* (sendBundle); both undo reputations and remove operations on failure.   *)
(*                                                                         *)
(* Every await is a point where other code runs: clients add and replace   *)
(* operations, the live listener removes included ones, other bundlers     *)
(* include operations.  Between two awaits a step is atomic.               *)
(*                                                                         *)
(* External, modelled by what the code expects of them: the second         *)
(* validation and its outcomes, the EntryPoint's deposits and verdicts,    *)
(* the node.  How events reach the bundler is the subject of Events; here  *)
(* the mempool learns of an included operation at some later time.         *)
(***************************************************************************)
EXTENDS Mempool, FiniteSetsExt

CONSTANTS
  MaxBundleGas,                 \* BundleManager.maxBundleGas, from the config
  MinBaseFee,                   \* the arguments of createBundle, 0 for none:
  RequestMaxBundleGas,          \*   sendNextBundle passes 0, 0, 0
  RequestMaxBundleSize,
  ThrottledEntityBundleCount,   \* THROTTLED_ENTITY_BUNDLE_COUNT = 4
  ConditionalRpc,               \* send with eth_sendRawTransactionConditional
  ConcurrentSubmit,             \* may clients add operations while a bundle is
                                \* made?  Not if sendUserOperation started it,
                                \* which holds the ExecutionManager's mutex; yes
                                \* if a timer or debug_bundler_sendBundleNow did.
  Reasons,                      \* how the reasons of a FailedOp start
  Balances,                     \* what EntryPoint.balanceOf may answer
  Authorization                 \* EIP-7702 tuples, records [signer, delegate]

ASSUME BundleAssumption ==
  /\ {MaxBundleGas, MinBaseFee, RequestMaxBundleGas, RequestMaxBundleSize,
      ThrottledEntityBundleCount} \subseteq Nat
  /\ {ConditionalRpc, ConcurrentSubmit} \subseteq BOOLEAN
  /\ Reasons \subseteq {"AA1", "AA2", "AA3", "other"}
  /\ Balances \subseteq Nat
  /\ Absent \notin Authorization
  /\ \A op \in UserOp :
       /\ op.gas \in Nat            \* preOpGas + callGasLimit
       /\ op.prefund \in Nat        \* what validation requires of the payer
       /\ op.auth \in Authorization \union {Absent}

VARIABLES
  pc,                 \* the await, or the point of the loop, it is at
  snapshot,           \* entries: the mempool when the walk began
  todo,               \* those of the snapshot not yet looked at
  cur,                \* the operation being looked at, or blamed, or Absent
  reason,             \* the revert reason it failed with
  bundle,             \* the operations chosen
  storageOf,          \* per operation, the senders whose storage it touched
  paymasterDeposit,   \* per paymaster, what is left of its deposit, or Unread
  balanceRead,        \* history: what EntryPoint.balanceOf answered
  stakedEntityCount,  \* per paymaster and factory, its operations counted
  authList,           \* sharedAuthorizationList
  totalGas,           \* the gas of the operations chosen
  mined,              \* operations on chain
  flushed,            \* those of them the bundler has handled the event of
  sent,               \* operations of the plain transactions the node accepted
  pending,            \* what sendUserOperation has validated, not yet added, or Absent
  crashed             \* history: entities given to crashedHandleOps

loopVars == <<snapshot, todo, cur, reason, bundle, storageOf, paymasterDeposit,
              balanceRead, stakedEntityCount, authList, totalGas>>
chainVars == <<mined, flushed, sent, pending, crashed>>
bundleVars == <<poolVars, pc, loopVars, chainVars>>

Unread == -1

-----------------------------------------------------------------------------
(* The checks before the second validation                                 *)

\* The length compared is that of the snapshot, not of the bundle.
SizeReached == /\ RequestMaxBundleSize # 0
               /\ Cardinality(snapshot) >= RequestMaxBundleSize

LowFee(op) == MinBaseFee # 0 /\ op.maxFeePerGas < MinBaseFee

Banned(op) == \/ getStatus(entries, op.paymaster) = "BANNED"
              \/ getStatus(entries, op.factory) = "BANNED"

\* (status === THROTTLED ?? count > 4) is the comparison alone: a boolean is
\* never null, so the count is not looked at.
Throttled(op) == \/ getStatus(entries, op.paymaster) = "THROTTLED"
                 \/ getStatus(entries, op.factory) = "THROTTLED"

neverRepeated(op) == FALSE                  \* variant: senders are not recorded

Repeated(op) == op.sender \in {other.sender : other \in bundle}

\* getSortedForInclusion sorts by ascending priority fee, ties in the order of
\* the array.
Offered(op) ==
  /\ pc = "loop"
  /\ op \in todo
  /\ \A other \in todo : op.maxPriorityFeePerGas <= other.maxPriorityFeePerGas
  /\ ~SizeReached

RemoveIfThere(op) ==
  IF \E gone \in mempool : SameKey(gone, op) THEN RemoveByKey(op)
  ELSE UNCHANGED <<mempool, entryCount>>

\* continue mainLoop, with nothing but the mempool or the reputations changed.
PassOver(op) ==
  /\ todo' = todo \ {op}
  /\ UNCHANGED <<pc, snapshot, cur, reason, bundle, storageOf, paymasterDeposit,
                 balanceRead, stakedEntityCount, authList, totalGas, chainVars>>

StopAtSize ==
  /\ pc = "loop" /\ todo # {} /\ SizeReached
  /\ pc' = "created"
  /\ UNCHANGED <<poolVars, loopVars, chainVars>>

SkipLowFee(op) ==
  /\ Offered(op) /\ LowFee(op)
  /\ PassOver(op) /\ UNCHANGED poolVars

RemoveBanned(op) ==
  /\ Offered(op) /\ ~LowFee(op) /\ Banned(op)
  /\ RemoveIfThere(op)
  /\ PassOver(op) /\ UNCHANGED entries

SkipThrottled(op) ==
  /\ Offered(op) /\ ~LowFee(op) /\ ~Banned(op) /\ Throttled(op)
  /\ PassOver(op) /\ UNCHANGED poolVars

SkipRepeated(op) ==
  /\ Offered(op) /\ ~LowFee(op) /\ ~Banned(op) /\ ~Throttled(op) /\ Repeated(op)
  /\ PassOver(op) /\ UNCHANGED poolVars

Revalidate(op) ==
  /\ Offered(op)
  /\ ~LowFee(op) /\ ~Banned(op) /\ ~Throttled(op) /\ ~Repeated(op)
  /\ pc' = "validateUserOp"
  /\ cur' = op
  /\ todo' = todo \ {op}
  /\ UNCHANGED <<poolVars, snapshot, reason, bundle, storageOf, paymasterDeposit,
                 balanceRead, stakedEntityCount, authList, totalGas, chainVars>>

EndOfWalk ==
  /\ pc = "loop" /\ todo = {}
  /\ pc' = "created"
  /\ UNCHANGED <<poolVars, loopVars, chainVars>>

-----------------------------------------------------------------------------
(* The second validation succeeds                                          *)

\* The EntryPoint accepts each (sender, nonce) once.
Fresh(op) == \A other \in mined : ~(lower(op.sender) = lower(other.sender)
                                    /\ op.nonce = other.nonce)

knownSenders == {lower(op.sender) : op \in snapshot}

anyStorage(op, touched) == FALSE            \* variant: no storage is foreign

TouchesOther(op, touched) ==
  \E a \in touched : a # lower(op.sender) /\ a \in knownSenders

reachedTooLate(op) == totalGas > MaxBundleGas   \* variant: op itself is free

GasReached(op) ==
  \/ totalGas + op.gas > MaxBundleGas
  \/ RequestMaxBundleGas # 0 /\ totalGas + op.gas >= RequestMaxBundleGas

conflictOfDelegates(op) == FALSE            \* variant: any tuple is merged

\* mergeEip7702Authorizations; an ERC-4337 operation has at most one tuple.
AuthConflict(op) ==
  op.auth # Absent /\ \E auth \in authList : /\ auth.signer = op.auth.signer
                                             /\ auth.delegate # op.auth.delegate

MergedAuth(op) ==
  IF op.auth = Absent \/ (\E auth \in authList : auth.signer = op.auth.signer)
  THEN authList ELSE authList \union {op.auth}

BackToLoop == pc' = "loop" /\ cur' = Absent

\* The rest of the loop's body, once the deposit is known to do.  The entities
\* are counted and the deposit is spent before the authorizations are merged,
\* which may still keep the operation out.
Choose(op, deposits) ==
  /\ paymasterDeposit' = deposits
  /\ stakedEntityCount' =
       [a \in Spelling |-> stakedEntityCount[a]
          + Cardinality({p \in {<<"pm", op.paymaster>>, <<"factory", op.factory>>} : p[2] = a})]
  /\ IF AuthConflict(op) THEN UNCHANGED <<bundle, authList, totalGas>>
     ELSE /\ bundle' = bundle \union {op}
          /\ authList' = MergedAuth(op)
          /\ totalGas' = totalGas + op.gas
  /\ BackToLoop

Validated(touched) ==
  /\ pc = "validateUserOp"
  /\ Fresh(cur)
  /\ UNCHANGED <<poolVars, snapshot, todo, reason, balanceRead, chainVars>>

SkipForeignStorage(touched) ==
  /\ Validated(touched)
  /\ TouchesOther(cur, touched)
  /\ BackToLoop
  /\ UNCHANGED <<bundle, storageOf, paymasterDeposit, stakedEntityCount,
                 authList, totalGas>>

StopAtGas(touched) ==
  /\ Validated(touched)
  /\ ~TouchesOther(cur, touched) /\ GasReached(cur)
  /\ pc' = "created" /\ cur' = Absent
  /\ UNCHANGED <<bundle, storageOf, paymasterDeposit, stakedEntityCount,
                 authList, totalGas>>

alwaysAffordable(op, deposit) == TRUE       \* variant: no comparison

Affordable(op, deposit) == deposit >= op.prefund

notDeducted(op, deposit) ==                 \* variant: the deposit stays whole
  IF Affordable(op, deposit)
  THEN Choose(op, [paymasterDeposit EXCEPT ![op.paymaster] = deposit])
  ELSE /\ paymasterDeposit' = [paymasterDeposit EXCEPT ![op.paymaster] = deposit]
       /\ BackToLoop
       /\ UNCHANGED <<bundle, stakedEntityCount, authList, totalGas>>

SpendDeposit(op, deposit) ==
  IF Affordable(op, deposit)
  THEN Choose(op, [paymasterDeposit EXCEPT ![op.paymaster] = deposit - op.prefund])
  ELSE /\ paymasterDeposit' = [paymasterDeposit EXCEPT ![op.paymaster] = deposit]
       /\ BackToLoop
       /\ UNCHANGED <<bundle, stakedEntityCount, authList, totalGas>>

\* No paymaster, or one whose deposit has been read: no await.
ConsiderAtOnce(touched) ==
  /\ Validated(touched)
  /\ ~TouchesOther(cur, touched) /\ ~GasReached(cur)
  /\ storageOf' = [storageOf EXCEPT ![cur] = touched]
  /\ \/ cur.paymaster = Absent /\ Choose(cur, paymasterDeposit)
     \/ /\ cur.paymaster # Absent
        /\ paymasterDeposit[cur.paymaster] # Unread
        /\ SpendDeposit(cur, paymasterDeposit[cur.paymaster])

AwaitBalance(touched) ==
  /\ Validated(touched)
  /\ ~TouchesOther(cur, touched) /\ ~GasReached(cur)
  /\ cur.paymaster # Absent
  /\ paymasterDeposit[cur.paymaster] = Unread
  /\ storageOf' = [storageOf EXCEPT ![cur] = touched]
  /\ pc' = "getPaymasterBalance"
  /\ UNCHANGED <<cur, bundle, paymasterDeposit, stakedEntityCount, authList, totalGas>>

BalanceArrives(balance) ==
  /\ pc = "getPaymasterBalance"
  /\ balanceRead' = [balanceRead EXCEPT ![cur.paymaster] = balance]
  /\ SpendDeposit(cur, balance)
  /\ UNCHANGED <<poolVars, snapshot, todo, reason, storageOf, chainVars>>

-----------------------------------------------------------------------------
(* The second validation fails: _handleSecondValidationException           *)

\* _findEntityToBlame; undefined is Absent.
Blame(r, op) ==
  CASE r = "AA3" -> IF lower(op.sender) \in Staked THEN op.sender ELSE op.paymaster
    [] r = "AA2" -> IF lower(op.factory) \in Staked THEN op.factory ELSE op.sender
    [] r = "AA1" -> op.factory
    [] OTHER -> Absent

undoSeen(reps, op) ==
  updateSeenStatus(updateSeenStatus(updateSeenStatus(
    reps, op.sender, -1), op.paymaster, -1), op.factory, -1)

triedAgain ==                               \* variant: the walk comes back to it
  /\ pc = "validateUserOp"
  /\ todo' = todo \union {cur}
  /\ BackToLoop
  /\ UNCHANGED <<poolVars, snapshot, reason, bundle, storageOf, paymasterDeposit,
                 balanceRead, stakedEntityCount, authList, totalGas, chainVars>>

\* An exception that is no FailedOp: nobody is blamed.
ValidationThrows ==
  /\ pc = "validateUserOp"
  /\ RemoveIfThere(cur)
  /\ BackToLoop
  /\ UNCHANGED <<entries, snapshot, todo, reason, bundle, storageOf, paymasterDeposit,
                 balanceRead, stakedEntityCount, authList, totalGas, chainVars>>

\* Whom to blame is asked of the EntryPoint's stakes: another await.
ValidationReverts(r) ==
  /\ pc = "validateUserOp"
  /\ reason' = r
  /\ pc' = "blameValidation"
  /\ UNCHANGED <<poolVars, snapshot, todo, cur, bundle, storageOf, paymasterDeposit,
                 balanceRead, stakedEntityCount, authList, totalGas, chainVars>>

blameAndKeep ==                             \* variant: the operation stays
  /\ pc = "blameValidation"
  /\ entries' = updateSeenStatus(undoSeen(entries, cur), Blame(reason, cur), 1)
  /\ BackToLoop
  /\ reason' = Absent
  /\ UNCHANGED <<mempool, entryCount, snapshot, todo, bundle, storageOf,
                 paymasterDeposit, balanceRead, stakedEntityCount, authList,
                 totalGas, chainVars>>

\* addr !== null is always true: a missing entity is undefined.  What is
\* removed is whichever operation has the sender and the nonce by now.
BlameValidation ==
  /\ pc = "blameValidation"
  /\ entries' = updateSeenStatus(undoSeen(entries, cur), Blame(reason, cur), 1)
  /\ RemoveIfThere(cur)
  /\ BackToLoop
  /\ reason' = Absent
  /\ UNCHANGED <<snapshot, todo, bundle, storageOf, paymasterDeposit, balanceRead,
                 stakedEntityCount, authList, totalGas, chainVars>>

-----------------------------------------------------------------------------
(* sendNextBundle and sendBundle                                           *)

ResetLoop ==
  /\ pc' = "idle"
  /\ snapshot' = {} /\ todo' = {} /\ bundle' = {} /\ authList' = {}
  /\ cur' = Absent /\ reason' = Absent /\ totalGas' = 0
  /\ storageOf' = [op \in UserOp |-> {}]
  /\ paymasterDeposit' = [a \in Spelling |-> Unread]
  /\ balanceRead' = [a \in Spelling |-> Unread]
  /\ stakedEntityCount' = [a \in Spelling |-> 0]

\* The events of operations that came on chain.
Flush(ops) ==
  /\ \E gone \in RemovalsByHash(ops) : Remove(gone)
  /\ entries' = [a \in Address |-> [entries[a] EXCEPT !.opsIncluded = @ + Uses(ops, a)]]
  /\ flushed' = flushed \union ops

StartBundle ==
  /\ pc = "idle"
  /\ pending = Absent \/ ConcurrentSubmit
  /\ Flush(mined \ flushed)
  /\ snapshot' = mempool'
  /\ todo' = mempool'
  /\ pc' = "loop"
  /\ UNCHANGED <<cur, reason, bundle, storageOf, paymasterDeposit, balanceRead,
                 stakedEntityCount, authList, totalGas, mined, sent, pending, crashed>>

\* Are stakes asked for to find out whom to blame?
AsksForStake == reason = "AA3" \/ (reason = "AA2" /\ cur.factory # Absent)

\* A request fails, or checkFatal finds that it cannot go on, and the exception
\* ends the walk or the sending: nobody is blamed and nothing is removed.  What
\* sendBundle swallows, because it is no FailedOp, has the same effect.
GiveUp ==
  /\ \/ pc \in {"validateUserOp", "getPaymasterBalance"}
     \/ pc \in {"blameValidation", "blameSend"} /\ AsksForStake
     \/ pc = "created" /\ bundle # {}
  /\ ResetLoop
  /\ UNCHANGED <<poolVars, chainVars>>

NothingToSend ==
  /\ pc = "created" /\ bundle = {}
  /\ ResetLoop
  /\ UNCHANGED <<poolVars, chainVars>>

PlainTransaction == ~ConditionalRpc /\ authList = {}

neverAwaits == FALSE                        \* variant: no receipt is awaited

\* Only the plain transaction is waited for.  The receipt of an EIP-7702 one is
\* asked for at once, is null, and the TypeError is swallowed.
AwaitsReceipt == PlainTransaction

SendAccepted ==
  /\ pc = "created" /\ bundle # {}
  /\ sent' = IF PlainTransaction THEN sent \union bundle ELSE sent
  /\ IF AwaitsReceipt THEN pc' = "wait" /\ UNCHANGED loopVars ELSE ResetLoop
  /\ UNCHANGED <<poolVars, mined, flushed, pending, crashed>>

\* The transaction is mined and none of its operations failed.
BundleMined ==
  /\ pc = "wait"
  /\ \A op \in bundle : Fresh(op)
  /\ mined' = mined \union bundle
  /\ ResetLoop
  /\ UNCHANGED <<poolVars, flushed, sent, pending, crashed>>

\* It was mined and reverted, or the node no longer answers: no FailedOp to be
\* parsed, and the operations may be bundled again.
WaitFails ==
  /\ pc = "wait"
  /\ sent' = sent \ bundle
  /\ ResetLoop
  /\ UNCHANGED <<poolVars, mined, flushed, pending, crashed>>

\* The node refuses it with FailedOp(op, r).
SendReverts(op, r) ==
  /\ pc = "created" /\ op \in bundle
  /\ cur' = op /\ reason' = r
  /\ pc' = "blameSend"
  /\ UNCHANGED <<poolVars, snapshot, todo, bundle, storageOf, paymasterDeposit,
                 balanceRead, stakedEntityCount, authList, totalGas, chainVars>>

keepOthers(addr, op) ==                     \* variant: only op is removed
  RemoveIfThere(op)

\* removeBannedAddr(addr), then removeUserOp(op).
RemoveBlamed(addr, op) ==
  \E gone \in BannedRemovals(addr) :
    LET rest == {other \in mempool \ gone : SameKey(other, op)}
    IN  IF rest = {} THEN Remove(gone)
        ELSE \E other \in rest : Remove(gone \union {other})

BlameSend ==
  /\ pc = "blameSend"
  /\ LET addr == Blame(reason, cur)
     IN  IF addr = Absent
         THEN RemoveIfThere(cur) /\ UNCHANGED <<entries, crashed>>
         ELSE /\ RemoveBlamed(addr, cur)
              /\ entries' = crashedHandleOps(undoSeen(entries, cur), addr)
              /\ crashed' = crashed \union {Lower[addr]}
  /\ ResetLoop
  /\ UNCHANGED <<mined, flushed, sent, pending>>

-----------------------------------------------------------------------------
(* What goes on around it                                                  *)

\* sendUserOperation up to its awaits, under the ExecutionManager's mutex: what
\* passes the first validation is not on chain.
Submit ==
  /\ pc = "idle" \/ ConcurrentSubmit
  /\ pending = Absent
  /\ \E op \in UserOp : Fresh(op) /\ pending' = op
  /\ UNCHANGED <<poolVars, pc, loopVars, mined, flushed, sent, crashed>>

\* And after them (ExecutionManager.ts:59-65): by now it may be on chain, and
\* bundles may have been made and blamed.
Admit ==
  /\ pending # Absent
  /\ AddUserOp(FALSE, pending)
  /\ pending' = Absent
  /\ UNCHANGED <<pc, loopVars, mined, flushed, sent, crashed>>

\* A check of the mempool or of the deposit throws, or a request fails.
Refuse ==
  /\ pending # Absent
  /\ pending' = Absent
  /\ UNCHANGED <<poolVars, pc, loopVars, mined, flushed, sent, crashed>>

\* Another bundler, or a bundle that was not waited for.
Include(op) ==
  /\ Fresh(op)
  /\ mined' = mined \union {op}
  /\ UNCHANGED <<poolVars, pc, loopVars, flushed, sent, pending, crashed>>

\* The live listener.
EventArrives(op) ==
  /\ op \in mined \ flushed
  /\ Flush({op})
  /\ UNCHANGED <<pc, loopVars, mined, sent, pending, crashed>>

BundleInit ==
  /\ MempoolInit
  /\ pc = "idle"
  /\ snapshot = {} /\ todo = {} /\ bundle = {} /\ authList = {}
  /\ cur = Absent /\ reason = Absent /\ totalGas = 0
  /\ storageOf = [op \in UserOp |-> {}]
  /\ paymasterDeposit = [a \in Spelling |-> Unread]
  /\ balanceRead = [a \in Spelling |-> Unread]
  /\ stakedEntityCount = [a \in Spelling |-> 0]
  /\ mined = {} /\ flushed = {} /\ sent = {} /\ pending = Absent /\ crashed = {}

WalkStep ==
  \/ StopAtSize
  \/ \E op \in todo : \/ SkipLowFee(op)
                      \/ RemoveBanned(op)
                      \/ SkipThrottled(op)
                      \/ SkipRepeated(op)
                      \/ Revalidate(op)
  \/ EndOfWalk
  \/ \E touched \in SUBSET knownSenders : \/ SkipForeignStorage(touched)
                                          \/ StopAtGas(touched)
                                          \/ ConsiderAtOnce(touched)
                                          \/ AwaitBalance(touched)
  \/ \E balance \in Balances : BalanceArrives(balance)
  \/ ValidationThrows
  \/ \E r \in Reasons : ValidationReverts(r)
  \/ BlameValidation

SendStep ==
  \/ GiveUp
  \/ NothingToSend
  \/ SendAccepted
  \/ BundleMined
  \/ WaitFails
  \/ \E op \in bundle, r \in Reasons : SendReverts(op, r)
  \/ BlameSend

Around ==
  \/ Submit
  \/ Admit
  \/ Refuse
  \/ \E op \in UserOp : Include(op)
  \/ \E op \in UserOp : EventArrives(op)

BundleNext == StartBundle \/ WalkStep \/ SendStep \/ Around

BundleSpec == BundleInit /\ [][BundleNext]_bundleVars

\* Every request is answered, or fails, in the end, and the transaction that is
\* waited for is mined: the code itself sets no timeout.
BundleFairSpec == BundleSpec /\ WF_bundleVars(WalkStep \/ SendStep)

-----------------------------------------------------------------------------
(* Properties                                                              *)

BundleTypeOK ==
  /\ PoolTypeOK
  /\ pc \in {"idle", "loop", "validateUserOp", "getPaymasterBalance",
             "blameValidation", "created", "wait", "blameSend"}
  /\ snapshot \subseteq UserOp /\ todo \subseteq snapshot /\ bundle \subseteq snapshot
  /\ cur \in snapshot \union {Absent}
  /\ reason \in Reasons \union {Absent}
  /\ storageOf \in [UserOp -> SUBSET Address]
  /\ paymasterDeposit \in [Spelling -> Nat \union {Unread}]
  /\ balanceRead \in [Spelling -> Nat \union {Unread}]
  /\ stakedEntityCount \in [Spelling -> Nat]
  /\ authList \subseteq Authorization
  /\ totalGas \in Nat
  /\ flushed \subseteq mined /\ mined \subseteq UserOp
  /\ sent \subseteq UserOp
  /\ pending \in UserOp \union {Absent}
  /\ crashed \subseteq Address

\* "each sender is allowed only once per bundle" (BundleManager.ts:324).
OnePerSender ==
  \A p, q \in bundle : lower(p.sender) = lower(q.sender) => p = q

\* No operation of a bundle touches the storage of the account that sends
\* another one of it (BundleManager.ts:388-397): neither can change what the
\* other's validation has seen.
StorageIsolation ==
  \A p, q \in bundle : p # q => lower(q.sender) \notin storageOf[p]

PrefundOf(ops) == MapThenSumSet(LAMBDA op : op.prefund, ops)

\* "paymaster deposit should be enough for all UserOps in the bundle."
\* (BundleManager.ts:320): together they need no more of a paymaster than the
\* balance the EntryPoint reported.
PaymasterSolvent ==
  \A a \in Spelling :
    balanceRead[a] # Unread => PrefundOf(PaidBy(bundle, Lower[a])) <= balanceRead[a]

\* One transaction carries one delegate per account: the operations of a bundle
\* agree on it, and the list that is sent holds the tuple of each
\* (BundleManager.ts:435-446).
AuthConsistent ==
  \A op \in bundle : op.auth # Absent =>
    /\ \E auth \in authList : auth.signer = op.auth.signer
    /\ \A auth \in authList :
         auth.signer = op.auth.signer => auth.delegate = op.auth.delegate

\* The gas of the chosen operations adds up to what the limits allow, the one
\* added last included (BundleManager.ts:399-415).
GasBounded ==
  LET gas == MapThenSumSet(LAMBDA op : op.gas, bundle)
  IN  /\ gas <= MaxBundleGas
      /\ RequestMaxBundleGas # 0 => gas < RequestMaxBundleGas

\* No operation of an entity that crashed a bundle is in the mempool, and none
\* comes back (BundleManager.ts:199-206): not as a replacement, and not when
\* operations of that entity were admitted while the bundle was being sent.
CrashedStayOut == \A op \in mempool : crashed \intersect
                    {lower(addr) : addr \in EntitiesOf(op)} = {}

\* What a plain transaction that the node accepted carries is not put into
\* another bundle (BundleManager.ts:80-82 and :171-173), unless waiting for the
\* first one failed.  The other kinds of transaction are not waited for, and their
\* operations are bundled again.
NotBundledAgain == pc = "created" => bundle \intersect sent = {}

\* "undo all "updateSeen" of all entities, and only blame "addr""
\* (BundleManager.ts:493): an undo takes back what the operation itself had
\* added, so a paymaster or factory has been seen at least once for each
\* operation of it that the mempool still holds.
SeenCoversPool ==
  \A a \in Address : entries[a].opsSeen >= Cardinality(PaidBy(mempool, a))
                                             + Cardinality(DeployedBy(mempool, a))

\* The mutex of sendNextBundle is released: no mix of skips, stops, failures
\* and blame keeps a bundle from being finished.
BundlingEnds == pc # "idle" ~> pc = "idle"

-----------------------------------------------------------------------------
(* What comments and messages of the code say, and the code does not do    *)

\* "throttled entities are allowed minimal number of entries per bundle"
\* (ReputationManager.ts:11, BundleManager.ts:322): an operation is passed over
\* for a throttled entity only if the bundle holds too many of that entity.
ThrottledHaveTheirShare ==
  [][\A op \in todo : SkipThrottled(op) =>
       \E addr \in {op.paymaster, op.factory} \ {Absent} :
         stakedEntityCount[addr] > ThrottledEntityBundleCount]_bundleVars

\* "exiting after maxBundleSize is reached" (BundleManager.ts:339): the walk
\* stops for the size only when the bundle has that size.
StopsAtTheSize ==
  [][StopAtSize => Cardinality(bundle) >= RequestMaxBundleSize]_bundleVars

\* "failed validation. don't try anymore this userop" (BundleManager.ts:500):
\* it is this one that leaves the mempool.
OnlyTheFailedLeaves ==
  [][BlameValidation => mempool \ mempool' \subseteq {cur}]_bundleVars

\* "after submitting the bundle, remove all UserOps from the mempool"
\* (BundleManager.ts:143).
SubmittedLeave ==
  [][SendAccepted => bundle \intersect mempool' = {}]_bundleVars

\* "banned entities are allowed none" (ReputationManager.ts:11-12): none of the
\* entities of an operation is banned when it is put into the bundle.
BannedNotBundled ==
  [][\A op \in bundle' \ bundle : \A addr \in EntitiesOf(op) :
       getStatus(entries, addr) # "BANNED"]_bundleVars
=============================================================================
