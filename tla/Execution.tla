------------------------------ MODULE Execution ------------------------------
(***************************************************************************)
(* How an operation enters the bundler and when a bundle is attempted:     *)
(* ExecutionManager.ts and DepositManager.ts.  sendUserOperation holds the *)
(* ExecutionManager's mutex from the validation of an operation to the end *)
(* of the attempt that follows it; sendNextBundle holds the                *)
(* BundleManager's.  A timer and debug_bundler_sendBundleNow attempt       *)
(* bundles without the first mutex.                                        *)
(*                                                                         *)
(* The mempool is the KeyedPool it implements (Mempool); a bundle is what  *)
(* BundleManager promises of one: fresh operations of the mempool.         *)
(* External: the node, the EntryPoint, async-mutex (first come, first      *)
(* served), other bundlers.                                                *)
(***************************************************************************)
EXTENDS KeyedPool, Sequences, FiniteSetsExt

CONSTANTS
  Client,           \* RPC connections
  Timer,            \* callbacks of setInterval that may be pending together
  Paymaster,
  Factory,
  Absent,           \* no paymaster, no factory; no request
  Unread,           \* no cached deposit; no answer
  Deposit,          \* per paymaster, its deposit at the start
  PoolSizes,        \* values of maxMempoolSize that setAutoBundler sets
  OtherBundlers,    \* do other bundlers include operations of UserOp?
  DebugRpc          \* are the debug methods enabled?

Caller == Client \union Timer

ASSUME ExecutionAssumption ==
  /\ Client \intersect Timer = {}
  /\ Deposit \in [Paymaster -> Nat]
  /\ PoolSizes \subseteq Nat
  /\ {OtherBundlers, DebugRpc} \subseteq BOOLEAN
  /\ Absent \notin UserOp /\ Absent \notin Paymaster /\ Unread \notin Nat
  /\ \A op \in UserOp : /\ op.paymaster \in Paymaster \union {Absent}
                        /\ op.factory \in Factory \union {Absent}
                        /\ op.cost \in Nat

VARIABLES
  pc,               \* per caller, the await it is at
  request,          \* per caller, the operation that sendUserOperation is at
  execQueue,        \* the ExecutionManager's mutex: its holder, then who waits
  bundleQueue,      \* the BundleManager's
  bundle,           \* what the holder of the latter is sending
  maxMempoolSize,
  timerOn,          \* is an interval set?
  deposits,         \* the DepositManager's cache
  answer,           \* per client, the balance the node has read for it
  balance,          \* the EntryPoint's deposits
  mined,            \* operations on chain
  flushed,          \* those whose event has been handled
  chargedSince      \* history: per paymaster, operations mined since the node
                    \* last read its deposit

chainVars == <<balance, mined, chargedSince>>
configVars == <<maxMempoolSize, timerOn>>
execVars == <<pool, pc, request, execQueue, bundleQueue, bundle, configVars,
              deposits, answer, flushed, chainVars>>

Holds(queue, c) == queue # <<>> /\ Head(queue) = c

Goto(c, place) == pc' = [pc EXCEPT ![c] = place]

Fresh(op) == \A other \in mined : ~SameKey(op, other)

-----------------------------------------------------------------------------
(* The end of an attempt, and of the request it belongs to                 *)

\* The call returns or throws; sendUserOperation releases its mutex.
Leave(c) ==
  /\ Goto(c, "idle")
  /\ IF request[c] # Absent
     THEN /\ execQueue' = Tail(execQueue)
          /\ request' = [request EXCEPT ![c] = Absent]
     ELSE UNCHANGED <<execQueue, request>>

neverReleases(queue) == queue               \* variant: not in a finally

Release(queue) == Tail(queue)

-----------------------------------------------------------------------------
(* sendUserOperation                                                       *)

SendUserOperation(c, op) ==
  /\ c \in Client /\ pc[c] = "idle"
  /\ request' = [request EXCEPT ![c] = op]
  /\ execQueue' = Append(execQueue, c)
  /\ Goto(c, "queued")
  /\ UNCHANGED <<pool, bundleQueue, bundle, configVars, deposits, answer, flushed, chainVars>>

MayEnter(c) == pc[c] = "queued" /\ Holds(execQueue, c)

\* validateInputParameters throws or not; then the first await.
ValidateInput(c) ==
  /\ MayEnter(c)
  /\ Goto(c, "validateUserOp")
  /\ UNCHANGED <<pool, request, execQueue, bundleQueue, bundle, configVars, deposits,
                 answer, flushed, chainVars>>

\* The simulation refuses an operation whose nonce is used.
Validated(c) ==
  /\ pc[c] = "validateUserOp" /\ Fresh(request[c])
  /\ Goto(c, "getOperationHash")
  /\ UNCHANGED <<pool, request, execQueue, bundleQueue, bundle, configVars, deposits,
                 answer, flushed, chainVars>>

HashArrives(c) ==
  /\ pc[c] = "getOperationHash"
  /\ Goto(c, "checkPaymasterDeposit")
  /\ UNCHANGED <<pool, request, execQueue, bundleQueue, bundle, configVars, deposits,
                 answer, flushed, chainVars>>

\* A check fails or a request to the node does, and the client is told so.
Refused(c) ==
  /\ \/ MayEnter(c)
     \/ pc[c] \in {"validateUserOp", "getOperationHash", "getPaymasterBalance", "addUserOp"}
  /\ Leave(c)
  /\ answer' = [answer EXCEPT ![c] = Unread]
  /\ UNCHANGED <<pool, bundleQueue, bundle, configVars, deposits, flushed, chainVars>>

SponsoredBy(ops, p) == {op \in ops : op.paymaster = p}

coversItself(deposit, op) == deposit >= op.cost   \* variant: others are forgotten

\* Each operation of the paymaster in the mempool is taken to cost what the
\* new one costs.
Covers(deposit, op) ==
  deposit >= op.cost * (1 + Cardinality(SponsoredBy(pool, op.paymaster)))

\* The rest of checkPaymasterDeposit, once the deposit is known.
Decide(c, deposit) ==
  IF Covers(deposit, request[c])
  THEN Goto(c, "addUserOp") /\ UNCHANGED <<execQueue, request>>
  ELSE Leave(c)

CheckPaymasterDeposit(c) ==
  /\ pc[c] = "checkPaymasterDeposit"
  /\ LET p == request[c].paymaster
     IN  \/ /\ p = Absent
            /\ Goto(c, "addUserOp") /\ UNCHANGED <<execQueue, request>>
         \/ /\ p # Absent /\ deposits[p] = Unread
            /\ Goto(c, "getPaymasterBalance") /\ UNCHANGED <<execQueue, request>>
         \/ /\ p # Absent /\ deposits[p] # Unread
            /\ Decide(c, deposits[p])
  /\ UNCHANGED <<pool, bundleQueue, bundle, configVars, deposits, answer, flushed, chainVars>>

\* The node's answer is on its way: it may be old when it arrives.
NodeReads(c) ==
  /\ pc[c] = "getPaymasterBalance" /\ answer[c] = Unread
  /\ LET p == request[c].paymaster
     IN  /\ answer' = [answer EXCEPT ![c] = balance[p]]
         /\ chargedSince' = [chargedSince EXCEPT ![p] = {}]
  /\ UNCHANGED <<pool, pc, request, execQueue, bundleQueue, bundle, configVars, deposits,
                 flushed, balance, mined>>

BalanceArrives(c) ==
  /\ pc[c] = "getPaymasterBalance" /\ answer[c] # Unread
  /\ deposits' = [deposits EXCEPT ![request[c].paymaster] = answer[c]]
  /\ Decide(c, answer[c])
  /\ answer' = [answer EXCEPT ![c] = Unread]
  /\ UNCHANGED <<pool, bundleQueue, bundle, configVars, flushed, chainVars>>

\* mempoolManager.addUserOp, then attemptBundle(false) up to its first await.
AddUserOp(c) ==
  /\ pc[c] = "addUserOp"
  /\ Put(request[c]) \/ \E old \in pool : Replace(old, request[c])
  /\ IF Cardinality(pool') >= maxMempoolSize
     THEN /\ Goto(c, "sendNextBundle")
          /\ bundleQueue' = Append(bundleQueue, c)
          /\ UNCHANGED <<execQueue, request>>
     ELSE Leave(c) /\ UNCHANGED bundleQueue
  /\ UNCHANGED <<bundle, configVars, deposits, answer, flushed, chainVars>>

-----------------------------------------------------------------------------
(* attemptBundle: sendNextBundle under its mutex, then the cache           *)

ForceAttempt(c) ==
  /\ pc[c] = "idle"
  /\ Goto(c, "sendNextBundle")
  /\ bundleQueue' = Append(bundleQueue, c)
  /\ UNCHANGED <<pool, request, execQueue, bundle, configVars, deposits, answer, flushed,
                 chainVars>>

\* setInterval calls again whether or not the last attempt has ended.
TimerFires(t) == t \in Timer /\ timerOn /\ ForceAttempt(t)

SendBundleNow(c) == c \in Client /\ DebugRpc /\ ForceAttempt(c)

\* handlePastEvents: the events that have not been handled.
Flush ==
  /\ pool' = pool \ (mined \ flushed)
  /\ flushed' = mined

FlushFirst(c) ==
  /\ pc[c] = "sendNextBundle" /\ Holds(bundleQueue, c)
  /\ Flush
  /\ Goto(c, "createBundle")
  /\ UNCHANGED <<request, execQueue, bundleQueue, bundle, configVars, deposits, answer,
                 chainVars>>

Charge(ops, p) == MapThenSumSet(LAMBDA op : op.cost, SponsoredBy(ops, p))

Affordable(ops) == \A p \in Paymaster : Charge(ops, p) <= balance[p]

\* The walk begins with the lowest priority fee.
Cheapest(op) ==
  \A other \in pool \ {op} : op.maxPriorityFeePerGas < other.maxPriorityFeePerGas

\* Nobody throttled pays for it or deploys its account: it is not passed over.
OnItsOwn(op) == op.paymaster = Absent /\ op.factory = Absent

keepsRefused == {}                          \* variant: the refused are kept

\* The walk reaches its first operation whatever the limits; the second
\* validation refuses one that is on chain, and it leaves.
RefusedFirst == {op \in pool : Cheapest(op) /\ OnItsOwn(op) /\ ~Fresh(op)}

\* Of the others not chosen some leave, refused by the second validation or for
\* a banned entity; those that are passed over or never reached stay, on chain
\* or not.
CreateBundle(c) ==
  /\ pc[c] = "createBundle"
  /\ \E chosen \in SUBSET {op \in pool : Fresh(op)} :
       /\ Affordable(chosen)
       /\ \A p, q \in chosen : p.sender = q.sender => p = q
       /\ bundle' = chosen
       /\ \E others \in SUBSET (pool \ chosen) :
            pool' = pool \ (RefusedFirst \union others)
  /\ Goto(c, "sendBundle")
  /\ UNCHANGED <<request, execQueue, bundleQueue, configVars, deposits, answer, flushed,
                 chainVars>>

Mine(ops) ==
  /\ \A op \in ops : Fresh(op)
  /\ Affordable(ops)
  /\ mined' = mined \union ops
  /\ balance' = [p \in Paymaster |-> balance[p] - Charge(ops, p)]
  /\ chargedSince' = [p \in Paymaster |-> chargedSince[p] \union SponsoredBy(ops, p)]

\* sendNextBundle returns: its mutex is free, and maxMempoolSize is looked at.
Returned(c) ==
  /\ bundleQueue' = Release(bundleQueue)
  /\ bundle' = {}
  /\ Goto(c, IF maxMempoolSize = 0 THEN "handlePastEvents" ELSE "clearCache")

\* It is mined, or nothing had to be sent.
BundleMined(c) ==
  /\ pc[c] = "sendBundle"
  /\ Mine(bundle)
  /\ Returned(c)
  /\ UNCHANGED <<pool, request, execQueue, configVars, deposits, answer, flushed>>

Banned(addr) ==
  {op \in pool : addr # Absent /\ addr \in {op.sender, op.paymaster, op.factory}}

\* The node refuses it for an operation, which leaves with those of the entity
\* to blame, if one is found; or it fails otherwise: sendBundle swallows the
\* exception.
SendFails(c) ==
  /\ pc[c] = "sendBundle" /\ bundle # {}
  /\ \/ UNCHANGED pool
     \/ \E blamed \in bundle :
        \E addr \in {Absent, blamed.sender, blamed.paymaster, blamed.factory} :
          pool' = pool \ ({blamed} \union Banned(addr))
  /\ Returned(c)
  /\ UNCHANGED <<request, execQueue, configVars, deposits, answer, flushed, chainVars>>

\* An exception inside sendNextBundle: the cache is not cleared, and the client
\* gets an error although its operation is in the mempool.
NextBundleThrows(c) ==
  /\ \/ pc[c] = "sendNextBundle" /\ Holds(bundleQueue, c)
     \/ pc[c] \in {"createBundle", "sendBundle"}
  /\ bundleQueue' = Release(bundleQueue)
  /\ bundle' = {}
  /\ Leave(c)
  /\ UNCHANGED <<pool, configVars, deposits, answer, flushed, chainVars>>

FlushAgain(c) ==
  /\ pc[c] = "handlePastEvents"
  /\ \/ Flush /\ Goto(c, "clearCache") /\ UNCHANGED <<execQueue, request>>
     \/ Leave(c) /\ UNCHANGED <<pool, flushed>>      \* it throws
  /\ UNCHANGED <<bundleQueue, bundle, configVars, deposits, answer, chainVars>>

\* debug_bundler_sendBundleNow scans once more.
ClearCache(c) ==
  /\ pc[c] = "clearCache"
  /\ deposits' = [p \in Paymaster |-> Unread]
  /\ IF c \in Client /\ request[c] = Absent
     THEN Goto(c, "flushLast") /\ UNCHANGED <<execQueue, request>>
     ELSE Leave(c)
  /\ UNCHANGED <<pool, bundleQueue, bundle, configVars, answer, flushed, chainVars>>

FlushLast(c) ==
  /\ pc[c] = "flushLast"
  /\ Flush \/ UNCHANGED <<pool, flushed>>              \* or it throws
  /\ Leave(c)
  /\ UNCHANGED <<bundleQueue, bundle, configVars, deposits, answer, chainVars>>

-----------------------------------------------------------------------------
(* What goes on around it                                                  *)

\* debug_bundler_setBundleInterval and setBundlingMode: "auto" is no interval
\* and size 0, "manual" no interval and a size that is never reached.
SetAutoBundler(on, size) ==
  /\ DebugRpc
  /\ timerOn' = on
  /\ maxMempoolSize' = size
  /\ UNCHANGED <<pool, pc, request, execQueue, bundleQueue, bundle, deposits, answer, flushed,
                 chainVars>>

\* The live listener removes an included operation.
EventArrives(op) ==
  /\ op \in mined \ flushed
  /\ pool' = pool \ {op}
  /\ flushed' = flushed \union {op}
  /\ UNCHANGED <<pc, request, execQueue, bundleQueue, bundle, configVars, deposits, answer,
                 chainVars>>

Include(op) ==
  /\ OtherBundlers
  /\ Mine({op})
  /\ UNCHANGED <<pool, pc, request, execQueue, bundleQueue, bundle, configVars, deposits,
                 answer, flushed>>

\* maxMempoolSize is 0 and there is no interval unless something sets them.
ExecInit ==
  /\ PoolInit
  /\ pc = [c \in Caller |-> "idle"]
  /\ request = [c \in Caller |-> Absent]
  /\ execQueue = <<>> /\ bundleQueue = <<>> /\ bundle = {}
  /\ maxMempoolSize = 0 /\ timerOn = FALSE
  /\ deposits = [p \in Paymaster |-> Unread]
  /\ answer = [c \in Client |-> Unread]
  /\ balance = Deposit
  /\ mined = {} /\ flushed = {}
  /\ chargedSince = [p \in Paymaster |-> {}]

ClientStep(c) ==
  \/ ValidateInput(c)
  \/ Validated(c)
  \/ HashArrives(c)
  \/ Refused(c)
  \/ CheckPaymasterDeposit(c)
  \/ NodeReads(c)
  \/ BalanceArrives(c)
  \/ AddUserOp(c)

AttemptStep(c) ==
  \/ FlushFirst(c)
  \/ CreateBundle(c)
  \/ BundleMined(c)
  \/ SendFails(c)
  \/ NextBundleThrows(c)
  \/ FlushAgain(c)
  \/ ClearCache(c)
  \/ FlushLast(c)

ExecNext ==
  \/ \E c \in Client, op \in UserOp : SendUserOperation(c, op)
  \/ \E c \in Client : ClientStep(c)
  \/ \E c \in Caller : AttemptStep(c)
  \/ \E t \in Timer : TimerFires(t)
  \/ \E c \in Client : SendBundleNow(c)
  \/ \E on \in BOOLEAN, size \in PoolSizes : SetAutoBundler(on, size)
  \/ \E op \in UserOp : EventArrives(op) \/ Include(op)

ExecSpec == ExecInit /\ [][ExecNext]_execVars

-----------------------------------------------------------------------------
(* Properties                                                              *)

Places == {"idle", "queued", "validateUserOp", "getOperationHash", "checkPaymasterDeposit",
           "getPaymasterBalance", "addUserOp", "sendNextBundle", "createBundle",
           "sendBundle", "handlePastEvents", "clearCache", "flushLast"}

ExecTypeOK ==
  /\ pool \subseteq UserOp /\ bundle \subseteq UserOp
  /\ pc \in [Caller -> Places]
  /\ request \in [Caller -> UserOp \union {Absent}]
  /\ execQueue \in Seq(Client) /\ bundleQueue \in Seq(Caller)
  /\ maxMempoolSize \in Nat /\ timerOn \in BOOLEAN
  /\ deposits \in [Paymaster -> Nat \union {Unread}]
  /\ answer \in [Client -> Nat \union {Unread}]
  /\ balance \in [Paymaster -> Nat]
  /\ flushed \subseteq mined /\ mined \subseteq UserOp
  /\ chargedSince \in [Paymaster -> SUBSET UserOp]

\* Operations of one cost, the case the check computes exactly
\* (DepositManager.ts:36-41).  When an operation of a paymaster is admitted, its
\* pending operations are paid for by its deposit and by what was charged, since
\* the deposit was read, for operations that are no longer in the mempool: the
\* stale cache errs by no more than those, whatever runs between the reading of
\* the balance and the addition.
AdmissionCovered ==
  [][\A op \in pool' \ pool : op.paymaster # Absent =>
       Charge(pool' \ mined', op.paymaster)
         <= balance'[op.paymaster]
              + Charge(chargedSince'[op.paymaster] \ pool', op.paymaster)]_execVars

\* "[EREP-010] paymaster is required to have balance for all its pending
\* transactions." (DepositManager.ts:43): so it is when one is admitted.
PaymasterCovered ==
  [][\A op \in pool' \ pool : op.paymaster # Absent =>
       Charge(pool' \ mined', op.paymaster) <= balance'[op.paymaster]]_execVars
=============================================================================
