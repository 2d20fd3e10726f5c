------------------------------- MODULE Events -------------------------------
(***************************************************************************)
(* How the bundler learns what was included on chain: EventsManager.ts.    *)
(*                                                                         *)
(* Two sources feed the same handlers.  handlePastEvents scans the chain   *)
(* from lastBlock on, with an await for the head of the chain (first time  *)
(* only) and one for the query; the live listener of initEventListener is  *)
(* called with each UserOperationEvent some time after it happened.        *)
(* runBundler always installs the listener, so scans never run without it. *)
(* The chain and the node are external: blocks appear, with the operations *)
(* of any bundler, and a request is answered with the chain of that        *)
(* moment.                                                                 *)
(*                                                                         *)
(* An operation is on chain at most once (its nonce), so the set of events *)
(* (block, kind, operation) says all that the log does.  Aggregators never *)
(* pass validation (ValidationManager.ts:436) and have no events.          *)
(***************************************************************************)
EXTENDS Mempool

CONSTANTS
  Scanner,     \* the calls of handlePastEvents that may overlap
  ScanWindow,  \* 1000: how far back the first scan starts
  MaxBlock     \* bound of the model: the last block

ASSUME EventsAssumption ==
  /\ ScanWindow \in Nat
  /\ MaxBlock \in Nat

VARIABLES
  head,         \* the number of the last block
  log,          \* the events of the chain
  undelivered,  \* UserOperationEvents the listener has still to be given
  lastBlock,    \* EventsManager.lastBlock, 0 while undefined
  firstBlock,   \* history: the block the first scan started from, or 0
  scan,         \* per scanner: where it is, and what the node has answered
  admitting,    \* what sendUserOperation has validated but not yet added, or Absent
  overtaken     \* history: operations added after the listener handled their event

eventsVars == <<head, log, undelivered, lastBlock, firstBlock, scan, admitting, overtaken>>
sendVars == <<admitting, overtaken>>
allVars == <<poolVars, eventsVars>>

Block == 0..MaxBlock
Event == [block : Block, event : {"UserOperationEvent", "AccountDeployed"}, op : UserOp]

Idle == [pc |-> "idle", from |-> 0, answer |-> {}]

Later(m, n) == IF m < n THEN n ELSE m

-----------------------------------------------------------------------------
(* The handlers                                                            *)

UserOperationEvents(evs) == {ev \in evs : ev.event = "UserOperationEvent"}
AccountDeployedEvents(evs) == {ev \in evs : ev.event = "AccountDeployed"}

\* How often _includedAddress is called for the address: for sender and
\* paymaster of a UserOperationEvent, for the factory of an AccountDeployed.
Inclusions(evs, a) ==
  Cardinality({ev \in UserOperationEvents(evs) : lower(ev.op.sender) = a})
  + Cardinality({ev \in UserOperationEvents(evs) : lower(ev.op.paymaster) = a})
  + Cardinality({ev \in AccountDeployedEvents(evs) : lower(ev.op.factory) = a})

\* updateIncludedStatus, once per inclusion.
includeAll(reps, evs) ==
  [a \in Address |-> [reps[a] EXCEPT !.opsIncluded = @ + Inclusions(evs, a)]]

\* lastBlock after the events, given in the order of the chain.
lastBlockAfter(last, evs) ==
  IF evs = {} THEN last
  ELSE CHOOSE b \in 1..(MaxBlock + 1) : /\ \E ev \in evs : ev.block = b - 1
                                        /\ \A ev \in evs : ev.block <= b - 1

sinceTheCursor(evs) ==              \* variant: against handling an event twice
  LET news == {ev \in evs : ev.block >= lastBlock}
  IN  /\ \E gone \in RemovalsByHash({ev.op : ev \in UserOperationEvents(evs)}) : Remove(gone)
      /\ entries' = includeAll(entries, news)
      /\ lastBlock' = lastBlockAfter(lastBlock, evs)

leaveInMempool(evs) ==              \* variant: removeUserOp is not called
  /\ UNCHANGED <<mempool, entryCount>>
  /\ entries' = includeAll(entries, evs)
  /\ lastBlock' = lastBlockAfter(lastBlock, evs)

\* handleEvent for each of the events, with nothing in between.
HandleEvents(evs) ==
  /\ \E gone \in RemovalsByHash({ev.op : ev \in UserOperationEvents(evs)}) : Remove(gone)
  /\ entries' = includeAll(entries, evs)
  /\ lastBlock' = lastBlockAfter(lastBlock, evs)

-----------------------------------------------------------------------------
(* handlePastEvents                                                        *)

\* The first call awaits the number of the head; the others query at once.
ScanStart(s) ==
  /\ scan[s].pc = "idle"
  /\ scan' = [scan EXCEPT ![s] =
                IF lastBlock = 0 THEN [Idle EXCEPT !.pc = "getBlockNumber"]
                ELSE [Idle EXCEPT !.pc = "queryFilter", !.from = lastBlock]]
  /\ UNCHANGED <<poolVars, head, log, undelivered, lastBlock, firstBlock, sendVars>>

NodeAnswersHead(s) ==
  /\ scan[s].pc = "getBlockNumber"
  /\ scan' = [scan EXCEPT ![s] = [Idle EXCEPT !.pc = "gotBlockNumber", !.from = head]]
  /\ UNCHANGED <<poolVars, head, log, undelivered, lastBlock, firstBlock, sendVars>>

\* Math.max(1, head - 1000), stored whatever lastBlock has become meanwhile.
ScanInit(s) ==
  /\ scan[s].pc = "gotBlockNumber"
  /\ lastBlock' = Later(1, scan[s].from - ScanWindow)
  /\ firstBlock' = lastBlock'
  /\ scan' = [scan EXCEPT ![s] = [Idle EXCEPT !.pc = "queryFilter", !.from = lastBlock']]
  /\ UNCHANGED <<poolVars, head, log, undelivered, sendVars>>

\* A node that refuses a range beyond its head answers with the error that
\* handlePastEvents swallows, which leaves as much as an empty answer.
NodeAnswersQuery(s) ==
  /\ scan[s].pc = "queryFilter"
  /\ scan' = [scan EXCEPT ![s] =
                [pc |-> "gotEvents", from |-> scan[s].from,
                 answer |-> {ev \in log : ev.block >= scan[s].from}]]
  /\ UNCHANGED <<poolVars, head, log, undelivered, lastBlock, firstBlock, sendVars>>

\* Any other failure of a request is thrown to the caller.
ScanFails(s) ==
  /\ scan[s].pc \in {"getBlockNumber", "queryFilter"}
  /\ scan' = [scan EXCEPT ![s] = Idle]
  /\ UNCHANGED <<poolVars, head, log, undelivered, lastBlock, firstBlock, sendVars>>

ScanHandle(s) ==
  /\ scan[s].pc = "gotEvents"
  /\ HandleEvents(scan[s].answer)
  /\ scan' = [scan EXCEPT ![s] = Idle]
  /\ UNCHANGED <<head, log, undelivered, firstBlock, sendVars>>

-----------------------------------------------------------------------------
(* The live listener: only UserOperationEvents, block after block          *)

Deliver ==
  \E ev \in undelivered :
    /\ \A other \in undelivered : ev.block <= other.block
    /\ HandleEvents({ev})
    /\ undelivered' = undelivered \ {ev}
    /\ UNCHANGED <<head, log, firstBlock, scan, sendVars>>

-----------------------------------------------------------------------------
(* The chain, and the clients that fill the mempool                        *)

OnChain == {ev.op : ev \in UserOperationEvents(log)}

\* The EntryPoint accepts each (sender, nonce) once.
Valid(op) == \A other \in OnChain : ~(Lower[op.sender] = Lower[other.sender]
                                      /\ op.nonce = other.nonce)

EventsOf(ops, block) ==
  {[block |-> block, event |-> "UserOperationEvent", op |-> op] : op \in ops}
  \union {[block |-> block, event |-> "AccountDeployed", op |-> op] :
            op \in {o \in ops : o.factory # Absent}}

\* A block with any operations, of this bundler or another.
NewBlock ==
  /\ head < MaxBlock
  /\ \E ops \in SUBSET {op \in UserOp : Valid(op)} :
       /\ IsFiniteSet(ops)
       /\ \A p, q \in ops : Lower[p.sender] = Lower[q.sender] /\ p.nonce = q.nonce => p = q
       /\ log' = log \union EventsOf(ops, head + 1)
       /\ undelivered' = undelivered \union
                           UserOperationEvents(EventsOf(ops, head + 1))
  /\ head' = head + 1
  /\ UNCHANGED <<poolVars, lastBlock, firstBlock, scan, sendVars>>

\* sendUserOperation, up to its awaits: what passes validation is not on chain.
\* The mutex of the ExecutionManager admits one operation at a time.
ValidateUserOp ==
  /\ admitting = Absent
  /\ \E op \in UserOp : Valid(op) /\ admitting' = op
  /\ UNCHANGED <<poolVars, head, log, undelivered, lastBlock, firstBlock, scan, overtaken>>

\* Its end, after the awaits of the validation, the hash and the deposit: by
\* then the operation may be included, and its event handled.
SendUserOperation ==
  /\ admitting # Absent
  /\ AddUserOp(FALSE, admitting)
  /\ overtaken' = IF admitting \in OnChain /\ \A ev \in undelivered : ev.op # admitting
                  THEN overtaken \union {admitting} ELSE overtaken
  /\ admitting' = Absent
  /\ UNCHANGED <<head, log, undelivered, lastBlock, firstBlock, scan>>

\* A check of the mempool or of the deposit refuses it, or a request fails.
SendFails ==
  /\ admitting # Absent
  /\ admitting' = Absent
  /\ UNCHANGED <<poolVars, head, log, undelivered, lastBlock, firstBlock, scan, overtaken>>

EventsInit ==
  /\ MempoolInit
  /\ head = 0
  /\ log = {}
  /\ undelivered = {}
  /\ lastBlock = 0
  /\ firstBlock = 0
  /\ scan = [s \in Scanner |-> Idle]
  /\ admitting = Absent
  /\ overtaken = {}

ScanStep(s) ==
  \/ ScanStart(s)
  \/ NodeAnswersHead(s)
  \/ ScanInit(s)
  \/ NodeAnswersQuery(s)
  \/ ScanFails(s)
  \/ ScanHandle(s)

EventsNext ==
  \/ \E s \in Scanner : ScanStep(s)
  \/ Deliver
  \/ NewBlock
  \/ ValidateUserOp
  \/ SendUserOperation
  \/ SendFails

EventsSpec == EventsInit /\ [][EventsNext]_allVars

\* ethers polls the node, so every event reaches the listener in the end.
\* Nothing calls handlePastEvents periodically, so scans are not assumed fair.
EventsFairSpec == EventsSpec /\ WF_allVars(Deliver)

-----------------------------------------------------------------------------
(* Properties                                                              *)

EventsTypeOK ==
  /\ PoolTypeOK
  /\ admitting \in UserOp \union {Absent}
  /\ overtaken \subseteq UserOp
  /\ head \in Block
  /\ log \subseteq Event
  /\ undelivered \subseteq UserOperationEvents(log)
  /\ lastBlock \in 0..(MaxBlock + 1)
  /\ firstBlock \in 0..(MaxBlock + 1)
  /\ scan \in [Scanner ->
                 [pc : {"idle", "getBlockNumber", "gotBlockNumber", "queryFilter", "gotEvents"},
                  from : 0..(MaxBlock + 1), answer : SUBSET log]]

Scanned == {ev \in log : firstBlock <= ev.block /\ ev.block < lastBlock}

\* Whatever overlapping scans, failed requests and a lastBlock moved back and
\* forth do, every event that the listener has been given is in the inclusions
\* of its sender and paymaster, and only addresses that events of the chain
\* name have any: an entity is never throttled for want of an operation that
\* the listener saw (EventsManager.ts:28-34, 75-80).
DeliveredAreCounted ==
  \A a \in Address :
    /\ entries[a].opsIncluded >= Inclusions(UserOperationEvents(log) \ undelivered, a)
    /\ entries[a].opsIncluded > 0 => Inclusions(log, a) > 0

\* "process all new events since last run" (EventsManager.ts:36) read as a
\* promise of the cursor does not hold, either way.  That no event is passed
\* over: whenever no scan is under way, what lies below lastBlock is counted.
NoInclusionMissed ==
  firstBlock # 0 /\ (\A s \in Scanner : scan[s].pc = "idle") =>
    \A a \in Address : entries[a].opsIncluded >= Inclusions(Scanned, a)

\* And that no event is counted more than once.
NoInclusionCountedTwice ==
  \A a \in Address : entries[a].opsIncluded <= Inclusions(log, a)

\* An included operation leaves the mempool, whatever scans are under way,
\* unless its event was handled before it was added: nothing comes for it any
\* more then (ExecutionManager.ts:59-65 awaits three times before it adds).
IncludedLeaves ==
  \A op \in UserOp :
    (op \in mempool /\ op \in OnChain /\ op \notin overtaken) ~> op \notin mempool

\* What that rests on: an operation that is held though it is on chain was
\* added too late, or the listener has still to be given its event.
StaleIsOvertaken ==
  \A op \in mempool :
    op \in OnChain => op \in overtaken \/ \E ev \in undelivered : ev.op = op

\* Without the exception it does not hold.
EveryIncludedLeaves ==
  \A op \in UserOp : (op \in mempool /\ op \in OnChain) ~> op \notin mempool
=============================================================================
