--------------------------------- MODULE Sdk ---------------------------------
(***************************************************************************)
(* The client library: the account API, the signer and the provider that   *)
(* make an operation of a transaction (BaseAccountAPI.ts,                  *)
(* SimpleAccountAPI.ts, ERC4337EthersSigner.ts, ERC4337EthersProvider.ts,  *)
(* HttpRpcClient.ts), and the listener that waits for it                   *)
(* (UserOperationEventListener.ts).                                        *)
(*                                                                         *)
(* Several transactions of one account are under way at once.  Every read  *)
(* of the chain is an await, so the chain may move between any two.        *)
(***************************************************************************)
EXTENDS Integers, FiniteSets

CONSTANTS Tx,         \* transactions the client sends
          Polled,     \* those whose client polls as well as waits
          ChainIdOk,  \* is the bundler on the chain of the provider?
          MaxBlock,   \* bound on the blocks that are mined
          MaxPolls    \* polls of getUserOpReceipt before its timeout

SdkAssumption == Polled \subseteq Tx /\ ChainIdOk \in BOOLEAN
                   /\ MaxBlock \in Nat /\ MaxPolls \in Nat

ASSUME SdkAssumption

VARIABLES
  \* the chain and the bundler
  height,     \* the latest block
  deployed,   \* the account has code
  nonce,      \* its nonce
  pool,       \* operations the bundler has accepted
  mined,      \* block of each operation, 0 before
  result,     \* of each: "none", "success", "reverted", or "silent": no reason
  \* the account API
  isPhantom,  \* "not deployed", as far as it knows
  tx,         \* where sendTransaction is
  factory,    \* the operation names the factory
  opNonce,    \* its nonce
  \* the listeners of wait()
  listener,   \* where each is
  from,       \* block after which its subscription hears events
  timer,      \* "none", "set", "fired"
  promise,    \* "none", "pending", "ok", "status0", "reason", "timeout"
  \* getUserOpReceipt
  polls,      \* polls left
  receipt     \* "none", "pending", "found", "null"

chain   == <<height, deployed, nonce, pool, mined, result>>
account == <<isPhantom, tx, factory, opNonce>>
waits   == <<listener, from, timer, promise>>
polling == <<polls, receipt>>
sdkVars    == <<chain, account, waits, polling>>

SdkInit ==
  /\ height = 1
  /\ deployed = FALSE
  /\ nonce = 0
  /\ pool = {}
  /\ mined = [t \in Tx |-> 0]
  /\ result = [t \in Tx |-> "none"]
  /\ isPhantom = TRUE
  /\ tx = [t \in Tx |-> "idle"]
  /\ factory = [t \in Tx |-> FALSE]
  /\ opNonce = [t \in Tx |-> 0]
  /\ listener = [t \in Tx |-> "none"]
  /\ from = [t \in Tx |-> 0]
  /\ timer = [t \in Tx |-> "none"]
  /\ promise = [t \in Tx |-> "none"]
  /\ polls = [t \in Tx |-> MaxPolls]
  /\ receipt = [t \in Tx |-> "none"]

-----------------------------------------------------------------------------
(* Making and sending an operation.                                         *)

\* Variant: "0x" is taken for code.
anyCode == FALSE

\* checkAccountPhantom: asks the chain only while it says phantom.
StillPhantom == isPhantom /\ ~deployed

\* sendTransaction, up to the calldata and its gas: it throws without a target,
\* and with neither data nor value.
Begin(t) ==
  /\ tx[t] = "idle"
  /\ \E complete \in BOOLEAN :
       tx' = [tx EXCEPT ![t] = IF complete THEN "callData" ELSE "error"]
  /\ UNCHANGED <<chain, isPhantom, factory, opNonce, waits, polling>>

\* getRequiredFactoryData.
NameFactory(t) ==
  /\ tx[t] = "callData"
  /\ isPhantom' = StillPhantom
  /\ factory' = [factory EXCEPT ![t] = StillPhantom]
  /\ tx' = [tx EXCEPT ![t] = "factory"]
  /\ UNCHANGED <<chain, opNonce, waits, polling>>

\* getNonce, after the gas of the creation and the fees are asked for.
ReadNonce(t) ==
  /\ tx[t] = "factory"
  /\ isPhantom' = StillPhantom
  /\ opNonce' = [opNonce EXCEPT ![t] = IF StillPhantom THEN 0 ELSE nonce]
  /\ tx' = [tx EXCEPT ![t] = "signed"]
  /\ UNCHANGED <<chain, factory, waits, polling>>

\* What the bundler's validation lets in: the account is created once, and
\* the nonce is the account's.
Admissible(t) == factory[t] = ~deployed /\ opNonce[t] = nonce

\* sendUserOpToBundler, once the chain id is validated.
Send(t) ==
  /\ tx[t] = "signed"
  /\ \/ /\ ChainIdOk /\ Admissible(t)
        /\ pool' = pool \cup {t}
        /\ tx' = [tx EXCEPT ![t] = "sent"]
     \/ /\ tx' = [tx EXCEPT ![t] = "error"]
        /\ UNCHANGED pool
  /\ UNCHANGED <<height, deployed, nonce, mined, result, isPhantom, factory,
                 opNonce, waits, polling>>

\* A block, with one operation of the pool or none.
Mine ==
  /\ height < MaxBlock
  /\ height' = height + 1
  /\ \/ UNCHANGED <<deployed, nonce, pool, mined, result>>
     \/ \E t \in pool, r \in {"success", "reverted", "silent"} :
          /\ Admissible(t)
          /\ mined' = [mined EXCEPT ![t] = height']
          /\ result' = [result EXCEPT ![t] = r]
          /\ pool' = pool \ {t}
          /\ nonce' = nonce + 1
          /\ deployed' = TRUE
  /\ UNCHANGED <<account, waits, polling>>

-----------------------------------------------------------------------------
(* The listener.  A promise is settled once.                                *)

Settle(t, how) ==
  promise' = [promise EXCEPT ![t] = IF @ = "pending" THEN how ELSE @]

Move(t, place) == listener' = [listener EXCEPT ![t] = place]

\* setTimeout in the constructor.
StartTimer(t) == timer' = [timer EXCEPT ![t] = "set"]

\* wait(), waitForTransaction or getTransactionReceipt: the constructor sets
\* the timer, start() another of 100 ms.
Wait(t) ==
  /\ tx[t] = "sent"
  /\ listener[t] = "none"
  /\ Move(t, "starting")
  /\ StartTimer(t)
  /\ promise' = [promise EXCEPT ![t] = "pending"]
  /\ UNCHANGED <<chain, account, from, polling>>

\* The query, of the latest block only.
Query(t) ==
  /\ listener[t] = "starting"
  /\ Move(t, IF mined[t] = height THEN "heard" ELSE "unheard")
  /\ UNCHANGED <<chain, account, from, timer, promise, polling>>

\* once(), when nothing was found: it hears of later blocks.
Subscribe(t) ==
  /\ listener[t] = "unheard"
  /\ Move(t, "listening")
  /\ from' = [from EXCEPT ![t] = height]
  /\ UNCHANGED <<chain, account, timer, promise, polling>>

Hear(t) ==
  /\ listener[t] = "listening"
  /\ mined[t] > from[t]
  /\ Move(t, "heard")
  /\ UNCHANGED <<chain, account, from, timer, promise, polling>>

\* Variant: the promise is resolved before the failure is looked into.
resolvesFirst(t) ==
  /\ Settle(t, "ok")
  /\ Move(t, IF result[t] = "success" THEN "done" ELSE "failed")

\* The receipt: a success resolves the promise.
OnReceipt(t) ==
  IF result[t] = "success"
  THEN Settle(t, "ok") /\ Move(t, "done")
  ELSE UNCHANGED promise /\ Move(t, "failed")

\* wait() then asks once more whether the account is deployed.
GetReceipt(t) ==
  /\ listener[t] = "heard"
  /\ OnReceipt(t)
  /\ isPhantom' = IF promise'[t] = "ok" /\ promise[t] # "ok" /\ factory[t]
                  THEN StillPhantom ELSE isPhantom
  /\ UNCHANGED <<chain, tx, factory, opNonce, from, timer, polling>>

\* extractFailureReason rejects when it finds a reason, and the promise is
\* resolved after it.
GetReason(t) ==
  /\ listener[t] = "failed"
  /\ Settle(t, IF result[t] = "reverted" THEN "reason" ELSE "status0")
  /\ Move(t, "done")
  /\ isPhantom' = IF promise'[t] = "status0" /\ promise[t] # "status0" /\ factory[t]
                  THEN StillPhantom ELSE isPhantom
  /\ UNCHANGED <<chain, tx, factory, opNonce, from, timer, polling>>

\* Variant: a listener that listens is not timed out.
patient(t) == timer[t] = "set" /\ listener[t] # "listening"

\* The timer is never cleared.
Expires(t) == timer[t] = "set"

\* stop() takes off a listener of another name than once() put on: the
\* subscription stays.
Timeout(t) ==
  /\ Expires(t)
  /\ timer' = [timer EXCEPT ![t] = "fired"]
  /\ Settle(t, "timeout")
  /\ UNCHANGED <<chain, account, listener, from, polling>>

-----------------------------------------------------------------------------
(* getUserOpReceipt, which polls all blocks.                                *)

StartPolling(t) ==
  /\ t \in Polled
  /\ tx[t] = "sent"
  /\ receipt[t] = "none"
  /\ receipt' = [receipt EXCEPT ![t] = "pending"]
  /\ UNCHANGED <<chain, account, waits, polls>>

Poll(t) ==
  /\ receipt[t] = "pending"
  /\ polls[t] > 0
  /\ polls' = [polls EXCEPT ![t] = @ - 1]
  /\ receipt' = [receipt EXCEPT ![t] = IF mined[t] # 0 THEN "found" ELSE @]
  /\ UNCHANGED <<chain, account, waits>>

GiveUp(t) ==
  /\ receipt[t] = "pending"
  /\ polls[t] = 0
  /\ receipt' = [receipt EXCEPT ![t] = "null"]
  /\ UNCHANGED <<chain, account, waits, polls>>

SdkNext ==
  \/ Mine
  \/ \E t \in Tx :
       \/ Begin(t) \/ NameFactory(t) \/ ReadNonce(t) \/ Send(t)
       \/ Wait(t) \/ Query(t) \/ Subscribe(t) \/ Hear(t) \/ GetReceipt(t)
       \/ GetReason(t) \/ Timeout(t)
       \/ StartPolling(t) \/ Poll(t) \/ GiveUp(t)

\* The node answers, its events are delivered, and the timers fire.
SdkFairSpec ==
  /\ SdkInit /\ [][SdkNext]_sdkVars
  /\ \A t \in Tx :
       /\ WF_sdkVars(Query(t) \/ Subscribe(t) \/ GetReceipt(t) \/ GetReason(t))
       /\ WF_sdkVars(Hear(t))
       /\ WF_sdkVars(Timeout(t))
       /\ WF_sdkVars(Poll(t) \/ GiveUp(t))

-----------------------------------------------------------------------------
SdkTypeOK ==
  /\ height \in 1..MaxBlock
  /\ \A t \in Tx :
       /\ mined[t] \in {0} \cup 2..height
       /\ (mined[t] = 0) = (result[t] = "none")
       /\ (promise[t] = "none") = (listener[t] = "none")
       /\ promise[t] = "pending" => timer[t] = "set" /\ listener[t] # "done"
       /\ polls[t] \in 0..MaxPolls

\* The account that the API takes for deployed is: an operation without a
\* factory is never made for an account that does not exist
\* (BaseAccountAPI.ts:100-113, 132-137).
KnowsDeployed ==
  /\ ~isPhantom => deployed
  /\ \A t \in Tx : tx[t] \in {"factory", "signed", "sent"} /\ ~factory[t] => deployed

\* What wait() says is what happened: a receipt for a success, the reason of
\* a failure when there is one, a status of zero when there is none
\* (UserOperationEventListener.ts:56-96), although reject and resolve are both
\* called and the timer may fire between.
OutcomeIsTrue ==
  \A t \in Tx : /\ promise[t] = "ok" => result[t] = "success"
                /\ promise[t] = "reason" => result[t] = "reverted"
                /\ promise[t] = "status0" => result[t] = "silent"

\* wait() comes to an end, whatever becomes of the operation, and so does the
\* polling (UserOperationEventListener.ts:30-33, BaseAccountAPI.ts:304-313).
WaitEnds ==
  \A t \in Tx : /\ promise[t] = "pending" ~> promise[t] # "pending"
                /\ receipt[t] = "pending" ~> receipt[t] # "pending"

\* A subscription only waits for what can still come.  Not so: the operation
\* may be mined in a block before the latest, or between the query and the
\* subscription: "listener takes time... first query directly"
\* (UserOperationEventListener.ts:39).
NothingIsMissed ==
  \A t \in Tx : listener[t] = "listening" => mined[t] = 0 \/ mined[t] > from[t]

\* Not so: an operation that creates the account starts its nonces.
CreatorIsFirst ==
  \A t \in Tx : tx[t] = "sent" \/ tx[t] = "signed" => (factory[t] => opNonce[t] = 0)
=============================================================================
