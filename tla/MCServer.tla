------------------------------ MODULE MCServer ------------------------------
(* Instances of BundlerServer for TLC.                                     *)
EXTENDS BundlerServer

Op(sender, fee) ==
  [sender |-> sender, nonce |-> 0, paymaster |-> Absent, factory |-> Absent, cost |-> 1,
   maxFeePerGas |-> fee, maxPriorityFeePerGas |-> fee]

Cheap == Op(1, 10)
Dear == Op(2, 20)
MCOps == {Cheap, Dear}
MCDeposit == [p \in Paymaster |-> 0]

Send(op, ok) == [method |-> "eth_sendUserOperation", op |-> op, wellFormed |-> ok]
Interval(n) == [method |-> "debug_bundler_setBundleInterval", on |-> n # 0, size |-> 1]
GetReceipt(h) == [method |-> "eth_getUserOperationReceipt", hash |-> h]
Call(m) == [method |-> m]

\* The second connection only sends.
MCBatch == [c \in Client |->
  IF c = CHOOSE first \in Client : TRUE
  THEN { <<Send(Cheap, TRUE)>>,
         <<GetReceipt(1)>>,
         <<Interval(1), Call("debug_bundler_sendBundleNow")>>,
         <<Send(Cheap, FALSE), Call("debug_bundler_clearMempool"),
           Call("web3_clientVersion"), Null>> }
  ELSE {<<Send(Dear, TRUE)>>}]

Event(h) == [kind |-> "event", hash |-> h]
Log(n) == [kind |-> "other", hash |-> n]
Before == [kind |-> "before", hash |-> 0]

\* What one handleOps emits: logs of the validations, then per operation its
\* logs and its event; and the layouts of the unit tests, without the marker.
MCReceipt ==
  { <<Log(0), Before, Log(1), Event(1), Log(2), Event(2)>>,
    <<Before, Log(2), Event(2), Log(1), Event(1)>>,
    <<Log(2), Event(2), Log(1), Event(1), Log(3), Event(3)>>,
    <<Event(1)>>, <<Before, Event(1), Event(2)>> }
=============================================================================
