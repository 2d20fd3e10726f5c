---------------------------- MODULE BundlerServer ----------------------------
(***************************************************************************)
(* The JSON-RPC server in front of Execution: BundlerServer.ts,            *)
(* MethodHandlerERC4337.ts and DebugMethodHandler.ts.  A connection posts  *)
(* a batch; its items are handled one after the other, each to its end,    *)
(* and whatever a method throws becomes the item's error.  An item that is *)
(* null throws before, where nothing catches it.                           *)
(*                                                                         *)
(* An item is Null or a record with a method and what the method looks at  *)
(* of its parameters.  Results are not modelled but for a receipt's logs.  *)
(***************************************************************************)
EXTENDS Execution, SequencesExt

CONSTANTS
  Batch,        \* per connection, what may be posted: sequences of items
  Null,         \* an item that cannot be destructured
  Rip7560,      \* config.rip7560
  Receipt       \* transaction receipts: sequences of logs

\* The methods, by what handles them.
PrivateMethods == {"aa_getRip7560Bundle"}
RipMethods == PrivateMethods \union {"eth_sendTransaction", "eth_getTransactionReceipt",
                                     "debug_bundler_sendTransactionSkipValidation"}
ReputationMethods == {"debug_bundler_setReputation", "debug_bundler_clearReputation",
                      "debug_bundler_dumpReputation"}      \* their state: Reputation
DebugMethods ==
  {"debug_bundler_sendBundleNow", "debug_bundler_setBundlingMode",
   "debug_bundler_setBundleInterval", "debug_bundler_clearState",
   "debug_bundler_clearMempool", "debug_bundler_dumpMempool",
   "debug_bundler_getStakeStatus"} \union ReputationMethods
LocalMethods == {"eth_supportedEntryPoints", "web3_clientVersion", "debug_bundler_dumpMempool"}
                  \union ReputationMethods
NodeMethods == {"eth_chainId", "eth_getUserOperationByHash", "eth_estimateUserOperationGas",
                "eth_getUserOperationReceipt", "eth_getRip7560TransactionDebugInfo",
                "debug_bundler_getStakeStatus"} \union RipMethods
ClearMethods == {"debug_bundler_clearState", "debug_bundler_clearMempool"}
ModeMethods == {"debug_bundler_setBundlingMode", "debug_bundler_setBundleInterval"}
KnownMethods == DebugMethods \union LocalMethods \union NodeMethods
                  \union {"eth_sendUserOperation"}

\* What an item carries is of its type.
ASSUME ServerAssumption ==
  /\ \A c \in Client : \A items \in Batch[c] :
       /\ items \in Seq(Range(items))
       /\ \A item \in Range(items) \ {Null} :
            /\ item.method = "eth_sendUserOperation" => item.op \in UserOp
            /\ item.method \in ModeMethods => item.on \in BOOLEAN /\ item.size \in PoolSizes
  /\ \A logs \in Receipt : logs \in Seq(Range(logs))

VARIABLES
  batch,        \* per connection, the items of the request
  port,         \* the port it came in at
  replies,      \* the answers so far
  at,           \* where the handler of the current item is
  shown,        \* the logs of the receipt found last
  down          \* has an exception that nothing caught ended the process?

serverVars == <<batch, port, replies, at, shown, down>>
allVars == <<execVars, serverVars>>

Current(c) == batch[c][Len(replies[c]) + 1]

\* The next item is handled when the one before it has been answered.
Ready(c) == at[c] = "ready" /\ Len(replies[c]) < Len(batch[c])

Reply(c, outcome) ==
  /\ replies' = [replies EXCEPT ![c] = Append(@, outcome)]
  /\ at' = [at EXCEPT ![c] = "ready"]
  /\ UNCHANGED <<batch, port, down>>

Wait(c, place) ==
  /\ at' = [at EXCEPT ![c] = place]
  /\ UNCHANGED <<batch, port, replies, shown, down>>

-----------------------------------------------------------------------------
(* The request                                                             *)

Post(c, p, items) ==
  /\ ~down
  /\ batch[c] = <<>>
  /\ batch' = [batch EXCEPT ![c] = items]
  /\ port' = [port EXCEPT ![c] = p]
  /\ replies' = [replies EXCEPT ![c] = <<>>]
  /\ UNCHANGED <<execVars, at, shown, down>>

\* res.send once every item has its answer; an idle connection has no port.
Respond(c) ==
  /\ batch[c] # <<>> /\ at[c] = "ready"
  /\ Len(replies[c]) = Len(batch[c])
  /\ batch' = [batch EXCEPT ![c] = <<>>]
  /\ replies' = [replies EXCEPT ![c] = <<>>]
  /\ port' = [port EXCEPT ![c] = "public"]
  /\ shown' = <<>>
  /\ UNCHANGED <<execVars, at, down>>

\* The private port serves the builder's method only, the public one the rest.
Available(c) == (Current(c).method \in PrivateMethods) <=> (port[c] = "private")

\* Without debug RPC the handler is a Proxy that throws on every property.
Supported(c) ==
  LET m == Current(c).method
  IN  /\ m \in KnownMethods
      /\ m \in RipMethods => Rip7560
      /\ m \in DebugMethods => DebugRpc

Serves(c, methods) ==
  /\ Ready(c) /\ Current(c) # Null
  /\ Available(c) /\ Supported(c) /\ Current(c).method \in methods

\* Destructuring null throws outside the try of handleRpc.  Express does not look
\* at the promise of an async handler, nothing handles its rejection, and node
\* ends the process.
Throws(c) ==
  /\ Ready(c) /\ Current(c) = Null
  /\ down' = TRUE
  /\ UNCHANGED <<execVars, batch, port, replies, at, shown>>

Rejected(c) ==
  /\ Ready(c) /\ Current(c) # Null /\ ~(Available(c) /\ Supported(c))
  /\ Reply(c, "error")
  /\ UNCHANGED <<execVars, shown>>

-----------------------------------------------------------------------------
(* The methods                                                             *)

\* _validateParameters throws, or an EIP-7702 tuple is not supported.
BadParameters(c) ==
  /\ Serves(c, {"eth_sendUserOperation", "eth_estimateUserOperationGas"})
  /\ ~Current(c).wellFormed
  /\ Reply(c, "error")
  /\ UNCHANGED <<execVars, shown>>

HandleSend(c) ==
  /\ Serves(c, {"eth_sendUserOperation"}) /\ Current(c).wellFormed
  /\ SendUserOperation(c, Current(c).op)
  /\ Wait(c, "execManager")

HandleSendBundleNow(c) ==
  /\ Serves(c, {"debug_bundler_sendBundleNow"})
  /\ SendBundleNow(c)
  /\ Wait(c, "execManager")

HandleMode(c) ==
  /\ Serves(c, ModeMethods)
  /\ SetAutoBundler(Current(c).on, Current(c).size)
  /\ Reply(c, "result")
  /\ UNCHANGED shown

\* The reputations, which clearState resets too, are not part of this module.
HandleClear(c) ==
  /\ Serves(c, ClearMethods)
  /\ pool' = {}
  /\ Reply(c, "result")
  /\ UNCHANGED <<pc, request, execQueue, bundleQueue, bundle, configVars, deposits, answer,
                 flushed, chainVars, shown>>

HandleLocal(c) ==
  /\ Serves(c, LocalMethods)
  /\ Reply(c, "result")
  /\ UNCHANGED <<execVars, shown>>

\* The first request to the node: the call of simulateHandleOp for an
\* estimate, the query for the event of an operation.
AskNode(c) ==
  /\ Serves(c, NodeMethods)
  /\ Current(c).method = "eth_estimateUserOperationGas" => Current(c).wellFormed
  /\ Wait(c, "node")
  /\ UNCHANGED execVars

\* It fails or is the last; without an event the answer is null.
NodeEnds(c) ==
  /\ \/ at[c] = "node"
     \/ at[c] = "again" /\ Current(c).method # "eth_getUserOperationReceipt"
  /\ Reply(c, "result") \/ Reply(c, "error")
  /\ UNCHANGED <<execVars, shown>>

\* eth_estimateGas after simulateHandleOp, the transaction after its event.
AskAgain(c) ==
  /\ at[c] = "node"
  /\ Current(c).method \in {"eth_estimateUserOperationGas", "eth_getUserOperationByHash",
                            "eth_getUserOperationReceipt"}
  /\ Wait(c, "again")
  /\ UNCHANGED execVars

scanFromStart(hash, logs) ==                \* variant: from the first log on
  [start |-> 0, end |-> IF \E i \in DOMAIN logs : logs[i].kind = "event" /\ logs[i].hash = hash
                        THEN SelectLastInSeq(logs, LAMBDA l : l.kind = "event") ELSE 0]

\* The loop of _filterLogs; 0 is the code's -1.
Scan(hash, logs) ==
  FoldLeftDomain(
    LAMBDA found, i :
      CASE logs[i].kind = "before" -> [start |-> i, end |-> i]
        [] logs[i].kind = "event" /\ logs[i].hash = hash -> [found EXCEPT !.end = i]
        [] logs[i].kind = "event" /\ logs[i].hash # hash /\ found.end = 0 ->
             [found EXCEPT !.start = i]
        [] OTHER -> found,
    [start |-> 0, end |-> 0], logs)

FilterLogs(hash, logs) ==
  LET found == Scan(hash, logs) IN SubSeq(logs, found.start + 1, found.end - 1)

\* The transaction that carries the event.
ReceiptArrives(c, logs) ==
  /\ at[c] = "again" /\ Current(c).method = "eth_getUserOperationReceipt"
  /\ \E i \in DOMAIN logs : logs[i].kind = "event" /\ logs[i].hash = Current(c).hash
  /\ shown' = FilterLogs(Current(c).hash, logs)
  /\ Reply(c, "result")
  /\ UNCHANGED execVars

-----------------------------------------------------------------------------
(* Steps of the ExecutionManager                                           *)

EndsNow(c) == pc[c] # "idle" /\ pc'[c] = "idle"

\* It came to its regular end.
ReturnsNow(c) ==
  \/ pc[c] = "clearCache"
  \/ pc[c] = "flushLast" /\ flushed' = mined
  \/ pc[c] = "addUserOp" /\ pool' # pool

\* The operation is accepted, and its hash is asked for.
ExecReturns(c) ==
  /\ at[c] = "execManager" /\ EndsNow(c) /\ ReturnsNow(c)
  /\ IF request[c] # Absent THEN Wait(c, "node") ELSE Reply(c, "result") /\ UNCHANGED shown

ExecThrows(c) ==
  /\ at[c] = "execManager" /\ EndsNow(c) /\ ~ReturnsNow(c)
  /\ Reply(c, "error")
  /\ UNCHANGED shown

ConnectionStep(c) ==
  /\ ~down
  /\ ClientStep(c) \/ AttemptStep(c)
  /\ \/ ExecReturns(c)
     \/ ExecThrows(c)
     \/ ~EndsNow(c) /\ UNCHANGED serverVars

TimerStep(t) == ~down /\ (TimerFires(t) \/ AttemptStep(t)) /\ UNCHANGED serverVars

ChainStep == ~down /\ (\E op \in UserOp : EventArrives(op) \/ Include(op)) /\ UNCHANGED serverVars

ServerInit ==
  /\ ExecInit
  /\ batch = [c \in Client |-> <<>>]
  /\ port = [c \in Client |-> "public"]
  /\ replies = [c \in Client |-> <<>>]
  /\ at = [c \in Client |-> "ready"]
  /\ shown = <<>>
  /\ down = FALSE

HandlerStep(c) ==
  /\ ~down
  /\ \/ Throws(c)
     \/ Rejected(c)
     \/ BadParameters(c)
     \/ HandleSend(c)
     \/ HandleSendBundleNow(c)
     \/ HandleMode(c)
     \/ HandleClear(c)
     \/ HandleLocal(c)
     \/ AskNode(c)
     \/ NodeEnds(c)
     \/ AskAgain(c)
     \/ \E logs \in Receipt : ReceiptArrives(c, logs)
     \/ Respond(c)

ServerNext ==
  \/ \E c \in Client : \E p \in {"public", "private"}, items \in Batch[c] : Post(c, p, items)
  \/ \E c \in Client : HandlerStep(c) \/ ConnectionStep(c)
  \/ \E t \in Timer : TimerStep(t)
  \/ ChainStep

ServerSpec == ServerInit /\ [][ServerNext]_allVars

\* Every request to the node is answered or fails, and the timer fires while it
\* is set; the node does not fail for ever, or no bundle is made.
ServerFairSpec ==
  /\ ServerSpec
  /\ \A c \in Client : WF_allVars(HandlerStep(c) \/ ConnectionStep(c))
  /\ \A t \in Timer : /\ WF_allVars(TimerStep(t))
                      /\ SF_allVars(~down /\ FlushFirst(t) /\ UNCHANGED serverVars)
                      /\ SF_allVars(~down /\ CreateBundle(t) /\ UNCHANGED serverVars)

-----------------------------------------------------------------------------
(* Properties                                                              *)

ServerTypeOK ==
  /\ ExecTypeOK
  /\ \A c \in Client : batch[c] \in Batch[c] \union {<<>>}
  /\ port \in [Client -> {"public", "private"}]
  /\ \A c \in Client : /\ replies[c] \in Seq({"result", "error"})
                       /\ Len(replies[c]) <= Len(batch[c])
                       /\ at[c] # "ready" => Len(replies[c]) < Len(batch[c])
  /\ at \in [Client -> {"ready", "execManager", "node", "again"}]
  /\ down \in BOOLEAN

\* Items whose methods throw, wait for the mutex behind each other's bundles or for
\* the node (BundlerServer.ts:135-145): every batch is answered, one reply per item,
\* unless an item that is null ends the process.
BatchAnswered == \A c \in Client : batch[c] # <<>> ~> (batch[c] = <<>> \/ down)

\* That every batch is answered, whatever is in it or in the batches of others: not
\* so, as an item that is null throws outside the try (BundlerServer.ts:156).
EveryBatchAnswered == \A c \in Client : batch[c] # <<>> ~> batch[c] = <<>>

\* An operation may be on chain by the time it is added, its event handled
\* before (ExecutionManager.ts:61-69), and then only a second validation removes
\* it (BundleManager.ts:336-386).  While the timer attempts bundles, it leaves if
\* nothing in the mempool is cheaper, or the mempool changes so that something is.
CheapestStaleLeaves ==
  \A op \in UserOp :
    (op \in pool \intersect mined /\ Cheapest(op) /\ OnItsOwn(op))
      ~> (op \notin pool \/ ~Cheapest(op) \/ ~timerOn \/ down)

\* That any operation on chain leaves: not so, as a walk may pass over it or end
\* before it each time (BundleManager.ts:338-414).
StaleLeaves ==
  \A op \in UserOp : op \in pool \intersect mined ~> (op \notin pool \/ ~timerOn \/ down)

\* The logs of an operation are those after the event of the one before it, or
\* after BeforeExecution, up to its own event.
OwnLogs(hash, logs) ==
  LET own == SelectInSeq(logs, LAMBDA l : l.kind = "event" /\ l.hash = hash)
      before == SelectLastInSeq(SubSeq(logs, 1, own - 1), LAMBDA l : l.kind # "other")
  IN  SubSeq(logs, before + 1, own - 1)

\* However the logs of a bundle are laid out, the answer ends with the logs of
\* the operation (MethodHandlerERC4337.ts:219-248): none of them is lost.
OwnLogsKept ==
  [][\A c \in Client, logs \in Receipt :
       ReceiptArrives(c, logs) => IsSuffix(OwnLogs(Current(c).hash, logs), shown')]_allVars

\* "filter full bundle logs, and leave only logs for the given userOpHash"
\* (MethodHandlerERC4337.ts:216): nothing else is in the answer.
OnlyOwnLogs ==
  [][\A c \in Client, logs \in Receipt :
       ReceiptArrives(c, logs) => shown' = OwnLogs(Current(c).hash, logs)]_allVars
=============================================================================
