------------------------------- MODULE Rip7560 -------------------------------
(***************************************************************************)
(* Bundling for native account abstraction: BundleManagerRIP7560.ts,       *)
(* MethodHandlerRIP7560.ts and the branch of attemptBundle for them.  A    *)
(* bundle is a list of transactions that is handed to a block builder      *)
(* (PULL) or sent to the node (PUSH) and remembered in sentBundles until   *)
(* the node knows its status.  Nothing here takes a mutex.                 *)
(*                                                                         *)
(* External: the node, and the walk of BundleManager.createBundle, of      *)
(* which BundleManager has the detail.                                     *)
(***************************************************************************)
EXTENDS KeyedPool, Sequences, FiniteSets

CONSTANTS
  Requests,     \* requests in the ExecutionManager's mutex: none or one
  Timer,        \* forced attempts: callbacks of setInterval, debug requests
  Puller,       \* calls of aa_getRip7560Bundle
  Modes,        \* configurations: push (rip7560Mode is PUSH), dev (gethDevMode),
                \* sameHash (the node hashes a bundle as computeBundleHash does)
  MaxSent       \* bound on the length of sentBundles

Caller == Requests \union Timer \union Puller

ASSUME RipAssumption ==
  /\ Cardinality(Requests) <= 1
  /\ Modes \subseteq [push : BOOLEAN, dev : BOOLEAN, sameHash : BOOLEAN]
  /\ MaxSent \in Nat

VARIABLES
  mode,         \* the configuration, which never changes
  sentBundles,  \* what is remembered: the operations, and who made the hash
  pc,           \* per caller, the await it is at
  index,        \* how far its loop over sentBundles has come
  list,         \* the array it loops over, if that has been replaced since;
                \* <<>> while it is sentBundles itself, which may grow
  bundlesToClear,
  snapshot,     \* the mempool its walk began with, then its bundle
  handedOut,    \* history: operations in a bundle since they were last added
  overlapped    \* history: have two scans run at the same time?

ripVars == <<mode, overlapped, pool, sentBundles, pc, index, list, bundlesToClear, snapshot, handedOut>>

Goto(c, place) == pc' = [pc EXCEPT ![c] = place]

Hash(b) == IF mode.sameHash THEN b.ops ELSE b

Scanning(c) == pc[c] \in {"status", "statusOnly"}

Array(c) == IF list[c] = <<>> THEN sentBundles ELSE list[c]

Leaves(ops) == pool' = pool \ ops

-----------------------------------------------------------------------------
(* handlePastEvents                                                        *)

\* It returns to sendNextBundle, or to attemptBundle, which returns.
AfterScan(c) == IF pc[c] = "statusOnly" THEN "idle" ELSE "createBundle"

\* The filter, over the first i bundles.
Remaining(noted) ==
  LET kept[i \in 0..Len(sentBundles)] ==
        IF i = 0 THEN <<>>
        ELSE IF Hash(sentBundles[i]) \in noted THEN kept[i - 1]
             ELSE Append(kept[i - 1], sentBundles[i])
  IN  kept[Len(sentBundles)]

\* The loop has ended: what the node knows is forgotten.  filter makes a new
\* array; the loops of others go on over the old one.
EndOfLoop(c, noted) ==
  /\ Goto(c, AfterScan(c))
  /\ index' = [index EXCEPT ![c] = 1]
  /\ bundlesToClear' = [bundlesToClear EXCEPT ![c] = {}]
  /\ sentBundles' = Remaining(noted)
  /\ list' = [d \in Caller |-> CASE d = c -> <<>>
                                 [] d # c /\ Scanning(d) /\ noted # {} -> Array(d)
                                 [] OTHER -> list[d]]

BeginScan(c, place) ==
  /\ Goto(c, IF sentBundles # <<>> THEN place
             ELSE IF place = "statusOnly" THEN "idle" ELSE "createBundle")
  /\ overlapped' = (overlapped \/ \E d \in Caller : Scanning(d))
  /\ UNCHANGED <<sentBundles, index, list, bundlesToClear, snapshot>>

onlyKnown(b, known) == IF known THEN b.ops ELSE {}   \* variant

\* The operations leave the mempool whatever the status is.
Cleared(b, known) == b.ops

BundleStatus(c) ==
  /\ Scanning(c)
  /\ \E known \in BOOLEAN :
       LET b == Array(c)[index[c]]
       IN  /\ known => b.by = "node" \/ mode.sameHash
           /\ Leaves(Cleared(b, known))
           /\ LET noted == IF known THEN bundlesToClear[c] \union {Hash(b)}
                           ELSE bundlesToClear[c]
              IN  IF index[c] < Len(Array(c))
                  THEN /\ index' = [index EXCEPT ![c] = @ + 1]
                       /\ bundlesToClear' = [bundlesToClear EXCEPT ![c] = noted]
                       /\ UNCHANGED <<pc, sentBundles, list>>
                  ELSE EndOfLoop(c, noted)
  /\ UNCHANGED <<mode, overlapped, snapshot, handedOut>>

-----------------------------------------------------------------------------
(* createBundle and sendBundle                                             *)

Full == Len(sentBundles) >= MaxSent         \* the bound on sentBundles

BeginWalk(c) ==
  /\ Goto(c, "walk")
  /\ snapshot' = [snapshot EXCEPT ![c] = pool]
  /\ UNCHANGED <<mode, overlapped, sentBundles, index, list, bundlesToClear, pool, handedOut>>

CreateBundle(c) == pc[c] = "createBundle" /\ BeginWalk(c)

GetRip7560Bundle(c) == c \in Puller /\ pc[c] = "idle" /\ BeginWalk(c)

OnePerSender(ops) == \A p, q \in ops : p.sender = q.sender => p = q

forgetsPulled(b) == sentBundles             \* variant: createBundle pushes nothing

Remember(b) == Append(sentBundles, b)

\* The walk has ended.  Of the operations that are not in the bundle some leave
\* the mempool, refused or of a banned entity; those that were passed over, and
\* those behind a limit, stay.  What is in the bundle may have left meanwhile.
WalkEnds(c) ==
  /\ pc[c] = "walk" /\ ~Full
  /\ \E bundle \in SUBSET snapshot[c] :
       /\ OnePerSender(bundle)
       /\ \E refused \in SUBSET (snapshot[c] \ bundle) : Leaves(refused)
       /\ handedOut' = handedOut \union bundle
       /\ sentBundles' = IF bundle = {} THEN sentBundles
                         ELSE Remember([by |-> "here", ops |-> bundle])
       /\ snapshot' = [snapshot EXCEPT ![c] = IF c \in Puller THEN {} ELSE bundle]
       /\ Goto(c, IF c \in Puller \/ bundle = {} THEN "idle" ELSE "sendBundle")
  /\ UNCHANGED <<mode, overlapped, index, list, bundlesToClear>>

\* eth_sendRip7560TransactionsBundle, answered by the node's hash: the bundle is
\* remembered once more.
SendBundle(c) ==
  /\ pc[c] = "sendBundle" /\ ~Full
  /\ sentBundles' = Append(sentBundles, [by |-> "node", ops |-> snapshot[c]])
  /\ snapshot' = [snapshot EXCEPT ![c] = {}]
  /\ Goto(c, "idle")
  /\ UNCHANGED <<mode, overlapped, index, list, bundlesToClear, pool, handedOut>>

\* Any request to the node fails; the attempt ends.
Fails(c) ==
  /\ pc[c] # "idle"
  /\ Goto(c, "idle")
  /\ snapshot' = [snapshot EXCEPT ![c] = {}]
  /\ index' = [index EXCEPT ![c] = 1]
  /\ list' = [list EXCEPT ![c] = <<>>]
  /\ bundlesToClear' = [bundlesToClear EXCEPT ![c] = {}]
  /\ UNCHANGED <<mode, overlapped, sentBundles, pool, handedOut>>

\* At the bound every attempt fails.
AtBound(c) == pc[c] \in {"createBundle", "walk", "sendBundle"} /\ Full /\ Fails(c)

-----------------------------------------------------------------------------
(* Who calls                                                               *)

\* sendRIP7560Transaction: sendUserOperation attempts a bundle in PUSH mode
\* only, and if the mempool holds enough.
SendTransaction(r, op) ==
  /\ r \in Requests /\ pc[r] = "idle"
  /\ Put(op) \/ \E old \in pool : Replace(old, op)
  /\ handedOut' = handedOut \ {op}
  /\ \/ mode.push /\ BeginScan(r, "status")
     \/ UNCHANGED <<overlapped, sentBundles, pc, index, list, bundlesToClear, snapshot>>
  /\ UNCHANGED mode

OneWeiMode == ~mode.push /\ mode.dev

\* attemptBundle(true).
Attempt(t) ==
  /\ t \in Timer /\ pc[t] = "idle"
  /\ \/ /\ ~OneWeiMode
        /\ BeginScan(t, "status")
     \/ /\ OneWeiMode                       \* send 1 wei, wait for the receipt
        /\ Goto(t, "receipt")
        /\ UNCHANGED <<overlapped, sentBundles, index, list, bundlesToClear, snapshot>>
  /\ UNCHANGED <<mode, pool, handedOut>>

\* Among 22 polls; else it throws.
OneWeiMined(t) ==
  /\ pc[t] = "receipt"
  /\ BeginScan(t, "statusOnly")
  /\ UNCHANGED <<mode, pool, handedOut>>

RipInit ==
  /\ PoolInit
  /\ mode \in Modes
  /\ sentBundles = <<>>
  /\ pc = [c \in Caller |-> "idle"]
  /\ index = [c \in Caller |-> 1]
  /\ list = [c \in Caller |-> <<>>]
  /\ bundlesToClear = [c \in Caller |-> {}]
  /\ snapshot = [c \in Caller |-> {}]
  /\ handedOut = {} /\ overlapped = FALSE

Step(c) ==
  \/ BundleStatus(c)
  \/ CreateBundle(c)
  \/ WalkEnds(c)
  \/ SendBundle(c)
  \/ OneWeiMined(c)
  \/ AtBound(c)

RipNext ==
  \/ \E r \in Requests, op \in UserOp : SendTransaction(r, op)
  \/ \E t \in Timer : Attempt(t)
  \/ \E c \in Puller : GetRip7560Bundle(c)
  \/ \E c \in Caller : Step(c) \/ Fails(c)

RipSpec == RipInit /\ [][RipNext]_ripVars

\* In PUSH mode the timer fires; in PULL mode nothing has to attempt a bundle
\* again.  The node answers, and no request that is repeated for ever, the status
\* of the i-th bundle among them, fails every time.
RipFairSpec ==
  /\ RipSpec
  /\ \A t \in Timer : /\ WF_ripVars(mode.push /\ Attempt(t)) /\ WF_ripVars(Step(t))
                      /\ SF_ripVars(WalkEnds(t))
                      /\ \A i \in 1..MaxSent : SF_ripVars(BundleStatus(t) /\ index[t] = i)

-----------------------------------------------------------------------------
(* Properties                                                              *)

Places == {"idle", "status", "statusOnly", "createBundle", "walk", "sendBundle", "receipt"}

RipTypeOK ==
  /\ pool \subseteq UserOp /\ mode \in Modes
  /\ Len(sentBundles) <= MaxSent
  /\ \A i \in DOMAIN sentBundles : sentBundles[i].ops \in SUBSET UserOp \ {{}}
  /\ pc \in [Caller -> Places]
  /\ \A c \in Caller : /\ Scanning(c) => index[c] \in DOMAIN Array(c)
                       /\ snapshot[c] \subseteq UserOp
  /\ handedOut \subseteq UserOp

\* While one scan at a time runs, builders pull and clients send again what has
\* left between its awaits (BundleManagerRIP7560.ts:59-75): what is handed out
\* and still in the mempool is remembered, so that the next scan removes it.
HandedOutRemembered ==
  overlapped \/ \A op \in pool \intersect handedOut : \E i \in DOMAIN sentBundles : op \in sentBundles[i].ops

\* In PUSH mode, while clients send again and builders pull, what is handed out
\* leaves in the end, by a scan that survives its failures, and is not handed out
\* for ever; a bundle of unknown status does not stop it
\* (BundleManagerRIP7560.ts:63-70).
HandedOutLeaves ==
  \A op \in UserOp :
    (mode.push /\ op \in pool \intersect handedOut) ~> (op \notin pool \/ overlapped)

\* An operation leaves because it was handed out, refused or replaced.  Violated
\* for one that is sent again: a bundle whose status stays unknown is kept, and
\* removes it in every scan, before the walk.
LeavesOnceHandedOut ==
  [][\A c \in Caller : BundleStatus(c) => pool \ pool' \subseteq handedOut]_ripVars
=============================================================================
