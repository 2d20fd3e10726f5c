# Verification of the ERC-4337 bundler

TLA+ modules, TLC models and TLAPS proofs for the bundler in `src/packages`.
File names without a path are under `src/packages/bundler/src/modules/`.

## 1. Inventory

The bundler is one Node.js process. A step between two `await`s is atomic;
everything else interleaves: RPC requests, timers, the event listener, answers
of the Ethereum node.

| Component | State | Operations | Interacts with |
|---|---|---|---|
| Reputation (`ReputationManager.ts`) | per address `opsSeen`, `opsIncluded`; white and black list | count as seen (also -1) or included, penalty for a crashed bundle, hourly decay, debug reset and set | called by mempool, events, bundling; asks the EntryPoint for stakes |
| Mempool (`MempoolManager.ts`) | array of entries, use counter per address | add or replace, remove by hash, by sender and nonce, by banned address, clear | reads and updates reputations |
| Events (`EventsManager.ts`) | `lastBlock` | scan past events, live listener | removes from the mempool, counts inclusions |
| Bundling (`BundleManager.ts`) | mutex; the locals of a walk over the mempool | make a bundle, validate each operation again, send, blame a failure | all of the above; the node |
| Execution, deposits (`ExecutionManager.ts`, `DepositManager.ts`) | mutex, timer, maximal mempool size; cached deposits | accept an operation, attempt a bundle, check the paymaster's deposit | validation, mempool, bundling |
| RIP-7560 (`BundleManagerRIP7560.ts`, `MethodHandlerRIP7560.ts`) | bundles sent | variants of bundling for native account abstraction, without a mutex | mempool, node |
| Validation (`packages/validation-manager`) | hashes of the code seen first, kept in the mempool entry | check parameters, simulate, read time ranges, compare code, check gas | node, rules |
| ERC-7562 rules (`ERC7562Parser.ts`, `TracerResultParser.ts`) | `currentEntity`, `bailOnViolation`, violations of one parse | judge the trace of a validation | tracers |
| Tracers (`BundlerCollectorTracer.ts`, `GethTracer.ts`) | levels, keccaks, the last three opcodes | look at each step of the EVM | node |
| RPC server (`BundlerServer.ts`, `MethodHandlerERC4337.ts`, `DebugMethodHandler.ts`) | per request, the replies so far | batches, two ports, dispatch, errors, receipts | everything |
| Configuration (`Config.ts`, `runBundler.ts`, `initServer.ts`, ...) | configuration | wiring | everything |
| SDK (`packages/sdk`) | `isPhantom`; per wait: timer, subscription | build and send operations, wait for one, preVerificationGas | bundler, node |
| Utilities (`packages/utils`) | none | packing, hashes, storage maps, revert reasons | everything |

What is hard, and what makes each part correct:

- *Reputation.* Rounding and decay of two counters that are compared; undos that
  may exceed what was counted; addresses in different spellings. Correct if an
  entity's standing worsens only by what it did, and a crash bans at once.
- *Mempool.* A counter per address kept beside the array; replacement as a
  second way in; three roles of an address. Correct if keys are unique, counters
  are exact, roles are apart and the limits hold after every sequence.
- *Events.* Two sources that deliver the same events late, twice or in another
  order, and one cursor; operations that are added after awaits. Correct if no
  event is lost and an included operation leaves.
- *Bundling.* A walk over a snapshot with three awaits per operation, and failure
  handling that undoes reputations. Correct if the operations of a bundle are
  independent, paid for and within the limits; if what crashed stays out; if
  nothing is sent twice; if the undo fits the mempool; if the mutex is released.
- *Execution, deposits, server.* Two nested mutexes, a cache of deposits, an addition
  three awaits after its validation, attempts that a timer queues behind each
  other, items that cannot be read. Correct if what is admitted is paid for, what
  was already mined leaves, and every request is answered.
- *RIP-7560.* An array that several scans filter and several walks append to.
  Correct if what is handed out is remembered and leaves.
- *Validation.* Answers of the node that are taken at different times, two rounds,
  calls found by position. Correct if what is accepted lasts and runs the code
  that was first seen, and nothing is refused without a reason.
- *Rules, tracers.* A field that follows the recursion without being restored, a
  sampling of steps that must lose no breach. Correct if each step is judged as
  its own entity's, if what is accepted is isolated, if stakes never harm.
- *SDK.* Reads of the chain that the chain overtakes, an event between query and
  subscription, a timer that is never cleared. Correct if `wait()` ends and tells
  the truth and a missing account is never taken for deployed.

`PROJECT.json` lists the hazards line by line.

## 2. Modules

| Module | Models | State and actions |
|---|---|---|
| `Reputation` | `ReputationManager.ts` | `entries`; one action per method. The methods are also operators on `entries`, since other modules call several of them in one step |
| `Mempool` (extends `Reputation`) | `MempoolManager.ts` | `mempool`, `entryCount`; `ReplaceUserOp`/`AddNewUserOp` are the two branches of `addUserOp`, the removals are the three ways of its callers |
| `KeyedPool` | abstract | what the mempool promises: one operation per key, replaced only by one that pays more |
| `Events` (extends `Mempool`) | `EventsManager.ts` | `lastBlock`, and per running scan the await it is at; `Deliver` is the listener; `NewBlock` the chain; `ValidateUserOp` and `SendUserOperation` the two ends of the awaits of an admission, with `admitting` between them |
| `BundleManager` (extends `Mempool`) | `BundleManager.ts` | `pc` is the await; the locals of `createBundle`; one action per exit of the loop's body, per answer of the node and per failure. `Submit` and `Admit` (or `Refuse`) are the two ends of the awaits of an admission, with `pending` between them |
| `Execution` (extends `KeyedPool`) | `ExecutionManager.ts`, `DepositManager.ts` | `pc` per caller (clients and timer callbacks), the queues of both mutexes, the deposit cache, `maxMempoolSize`; one action per await |
| `BundlerServer` (extends `Execution`) | `BundlerServer.ts`, `MethodHandlerERC4337.ts`, `DebugMethodHandler.ts` | per connection the batch, its replies, the handler of the current item; `HandlerStep` and what each kind of method waits for; `down` once the process has ended |
| `Rip7560` (extends `KeyedPool`) | `BundleManagerRIP7560.ts`, `MethodHandlerRIP7560.ts` | `sentBundles`, per caller the array its loop is over; one action per answer of the node |
| `Validation` (extends `PreVerificationGas`) | `ValidationManager.ts` | `stage` is the await, `round` which validation it is; `known` are the code hashes in the mempool entry; the chain moves at any time |
| `PreVerificationGas` | `PreVerificationGasCalculator.ts` | pure: `Calculate` and its parts |
| `Erc7562` | `ERC7562Parser.ts` | `currentEntity`, `bailOnViolation`; one action per frame, one operator per rule |
| `Collector` | `BundlerCollectorTracer.ts`, `TracerResultParser.ts` | the EVM runs freely under the EntryPoint (`history`), the tracer's state `c` follows; `Accepts` is the parser |
| `Sdk` | account API, signer, provider, listener | `tx` per transaction, `isPhantom`; `listener`, `timer`, `promise` per wait |
| `MC...` | | constants for TLC |
| `MempoolProofs` | | theorems about `Reputation`, `Mempool` and `Events` |
| `BundleProofs`, `RipProofs`, `CollectorProofs` | | theorems about the module they are named for |
| `Erc7562Proofs` | | theorems about `Erc7562` |
| `ValidationProofs` | | theorems about `Validation`, `PreVerificationGas` and `Sdk` |
| `ServerProofs` | | theorems about `Execution` and `BundlerServer` |
| `SumLemmas` | | sums over finite sets, for all of them |

How the data is abstracted:

- An address is kept as spelled, and `Lower` maps it to its lower case, because
  part of the code compares spellings. `Absent` is a missing paymaster or
  factory.
- A missing reputation entry reads like one of zeros everywhere but in the debug
  dump, so `entries` is total. `floor` of the inclusion rate is integer division.
- The mempool is a set. Of the array's order only ties between equal fees
  remain, and those are nondeterministic. Where an operation by hash matches
  two spellings of one operation, either may be removed.
- The 10% fee increase is exact; the code multiplies by 1.1 in floating point and
  may refuse an increase of exactly 10%.
- Aggregators are left out: `ValidationManager.ts:436` refuses them. So is
  `skipValidation` except as a value of `SkipValidation`: only a RIP-7560 debug
  method sets it.
- `mergeToAccountRootHash` is false in `initServer.ts` and left out, with the
  storage map that is sent to `eth_sendRawTransactionConditional`.
- In `BundleManager` the flush by `handlePastEvents` is one step that handles all
  events of the moment; `Events` has the detail. What the EntryPoint does is
  reduced to what the code relies on: a (sender, nonce) is accepted once.
  The request parameters of `createBundle`, which only the RIP-7560 interface
  passes, and the reasons with which the EntryPoint reverts are constants.
- Between the validation of an operation and its addition lie the awaits of
  `ExecutionManager.ts:59-65`. Where clients take part (`Events`, `BundleManager`,
  `Execution`) they are two actions, between which the operation may be
  included, its event handled, or its entity banned.
- `hourlyCron` is an action of `Reputation` although `setReputationCron` is never
  called; `BundleManager` leaves it out, so there standings never recover.
- `Execution` sees the mempool through `KeyedPool`, which `Mempool` implements, and
  a bundle through what `BundleManager` promises: some operations of the mempool,
  none of them mined. Of the others any may leave, refused by the second validation
  or banned, or stay, passed over or never reached (`BundleManager.ts:338-414`).
  Only of the first of the walk (`Cheapest`, and with no paymaster or factory that
  could be throttled) it is known that it is validated again, so that it leaves
  if it is on chain (`RefusedFirst`). Validation either accepts or throws. `async-mutex` serves in
  the order of arrival. A deposit only falls, by what is mined.
- In `BundlerServer` an item of a batch may be `Null`. Its destructuring
  (`BundlerServer.ts:156`, `175`, `193-198`) is outside the `try`; express 4 ignores the
  promise of the handler, nothing listens for unhandled rejections, and node (16 in
  the Dockerfile, 18 in the workflow) then ends the process (`Throws`, `down`).
- `Rip7560` reduces the walk of `createBundle` to its result: operations of
  different senders are chosen, some others leave, the rest is passed over. Whether the node's bundle hash is the bundler's own is a
  mode, since the code compares the two.
- A trace of `Erc7562` is the sequence of its frames in the order of the recursion,
  each with what the rules look at. Accesses of storage are charged to the `to` of
  a frame, as `_checkStorage` does (`ERC7562Parser.ts:635`), for `DELEGATECALL` too,
  where the storage is that of the frame's `from` (`StorageOf`). Two calls of one parser
  do not overlap, as `requireCompliance` has no await.
- `Collector` gives the contracts `MaxSteps` free steps besides their returns. It
  names the opcodes that the code tells apart and one of each other kind. A look
  at the code of an address directly before or after a `RETURN` is exempt
  (`Missed`, `Suspected`), because the window of three opcodes is cut there.
- `Validation` does not decide the rules again: a trace keeps them, needs a stake or
  breaks them. One contract version stands for its code hash. The verification gas
  of a simulation has no bound but the operation's limits, since
  `MAX_VERIFICATION_GAS_USED` is compared with nothing.
- `PreVerificationGas` counts in parts of a gas (`Unit` = 320, since the overheads
  are 9.5 and 8.2 gas per word of 32 bytes). An operation is reduced to its zero
  and nonzero bytes; those of `preVerificationGas` itself are counted from its
  value. Where the code divides by `expectedBundleSize` the model rounds to a
  part of a gas.
- In `Sdk` a transaction of the chain carries one operation. The API reads the
  latest state, and any number of blocks may come between two reads.

## 3. Runs

Parameters of the code (slacks 10 and 50, denominator 10, limits 4 and 10) are
scaled down so that throttling, bans and limits happen within a few operations.

| Run | Shows | Instance |
|---|---|---|
| `MCMempool` | `PoolTypeOK`, `UniqueKeys`, `CountsExact`, `RoleSeparation`, `SenderLimit`, `UnstakedEntityLimit`, `CrashBansEntity`, and that `Mempool` implements `KeyedPool` | 7 operations: a replacement that raises both fees and one that raises one, an account in two spellings, one entity in all three roles |
| `MCEvents` | `DeliveredAreCounted`, `IncludedLeaves`, with overlapping scans and the listener | 2 blocks, 2 operations, 2 scans, a window of 0 so that the first scan leaves out the first block; one client |
| `MCBundle` | `BundleTypeOK`, `OnePerSender`, `StorageIsolation`, `PaymasterSolvent`, `AuthConsistent`, `NotBundledAgain` | 3 operations of 2 accounts, one paymaster whose balance (4 or 6) pays for one or two prefunds of 3, one factory, tuples of one signer for two delegates; bundle after bundle, all failures |
| `MCBundleLive` | `GasBounded`, `CrashedStayOut`, `SeenCoversPool`, `BundlingEnds` | clients begin and end an admission at every await, of new operations and of replacements, one for the operation that is being validated again; a minimal fee, and two gas limits (one inclusive, one not) that stop the walk at, before and after the last operation; a failed operation is its paymaster's fault (the other reasons: `MCBundle`), and both slacks are 2, so that two sponsored operations fit in a bundle |
| `MCExecution` | `AdmissionCovered` | 2 clients, a timer, other bundlers; 2 operations of one paymaster, whose deposit pays for one, and a replacement without paymaster |
| `MCServer` | `BatchAnswered`, `CheapestStaleLeaves`, `OwnLogsKept` | 2 connections, of which the second only sends, a timer; a cheap operation and a dear one; batches with every kind of item, good, malformed and null, at both ports; receipts of 1 to 3 operations |
| `MCRip7560` | `HandedOutRemembered`, `HandedOutLeaves` | an operation and its replacement; a request, a timer, a builder; the three modes |
| `MCErc7562` | `VerdictIsRight`, `UnstakedTouchSenderOnly`, `OnlySenderDeployed`, `StakeOnlyHelps` | each entity does one thing a rule may forbid, before or after a call of its callee into the paymaster, or delegates to another contract's code; every combination of stakes; one parse after another |
| `MCCollector` | `AcceptedStepsObeyRules`, `LawfulIsAccepted`, `ReferencedIsComplete` | with and without factory and paymaster, 3 free steps, 4 plain opcodes, 3 kinds of slots |
| `MCValidation` | `AcceptedInTime`, `ModifiedCodeNoticed`, `RefusedWithReason`, `EarlyRefusalIsFinal` | 14 operations of all shapes, two of them with 30000 bytes, which use more gas than `MAX_VERIFICATION_GAS_USED`; mainnet's gas configuration, 4 time ranges, 3 seconds, native and unsafe mode |
| `MCSdk` | `KnowsDeployed`, `OutcomeIsTrue`, `WaitEnds` | 2 transactions of one account, 3 blocks, one of them polled for as well |
| `MCReputationCron` | (violated) `BackoffRaisesNothing` | 2 entities |

`RepTypeOK`, `EventsTypeOK`, `ExecTypeOK`, `ServerTypeOK`, `RipTypeOK`, `ParserTypeOK`,
`CollectorTypeOK`, `ValidationTypeOK` and `SdkTypeOK` are the type invariants of the
other modules; they hold in the instances of the runs above. `RepTypeOK` and `StandingWorsensOnlyBySeen` are
proved for every instance (section 4), and hold in that of `MCReputationCron.cfg`.

Bounds: `MaxOps` stops additions that would take a counter beyond it. It bounds
`Reputation` and `Mempool`; in `BundleManager` it never applies, since admission
itself stops once an entity is banned. `MaxBlock` bounds the chain of `Events` and
of `Sdk`, `MaxTime` and `MaxVersion` the clock and the upgrades of `Validation`, where
three seconds pass every edge of the ranges and one upgrade suffices to differ.
`MaxSent` bounds `sentBundles`: an attempt at the bound fails, as any attempt may;
two bundles are one that a scan notes and one that arrives meanwhile.
`ConcurrentSubmit` is false when bundles are made by `sendUserOperation`, which
holds the `ExecutionManager`'s mutex, and true when a timer or
`debug_bundler_sendBundleNow` makes them. Two operations in a bundle are enough
for every pairwise property; the third lets one be passed over between them.
Deadlock checking is off where the modelled world ends: the chain of `Events` and
`Sdk` at `MaxBlock`, one operation in `Validation`, one `handleOps` in `Collector`; and
in `BundlerServer`, where the process may end.

What the properties leave out on purpose, each for a disagreement below:
`AdmissionCovered` speaks of operations of one cost and adds what was charged since
the deposit was read; `HandedOutRemembered` and `HandedOutLeaves` hold until two scans
overlap; `RefusedWithReason` holds for `factoryData` that is not the empty `0x` and
for the native tracer; `IncludedLeaves` excepts an operation that was added after
its events were handled (`overtaken`); `CheapestStaleLeaves` is about the first
operation of the walk; `BatchAnswered` allows for the end of the process;
`UnstakedTouchSenderOnly` excepts frames that run in another's storage;
`ModifiedCodeNoticed` excepts upgrades between two answers of the node about the
same code (`Gap`); `EarlyRefusalIsFinal` excepts operations whose data is so long
that EIP-7623's floor counts even at `MAX_VERIFICATION_GAS_USED`, if they use more.
`DeliveredAreCounted` says at least once, since twice is possible.

A stale operation, one that is in the mempool although it is on chain, may stay for
ever. No event comes for it any more. A second validation would remove it, but that
needs attempts of a timer (in ERC-4337 mode `initServer.ts:63-65` sets none, only
`debug_bundler_setBundleInterval` does, otherwise a later operation's bundle) and a walk
that reaches it, every time passing it over otherwise: `MCServerLate`, `MCEventsLate`.
In PULL mode nothing attempts a bundle (`ExecutionManager.ts:70`), so what was handed
out leaves only if a builder happens to ask again.

No operation is accepted by way of the JavaScript tracer (`MCValidationJs`). The
properties and theorems of `Collector` are therefore about the tracer and its parser
by themselves: what they would decide of a validation. They say nothing about an
operation that this program accepts, with the native tracer or without one.

Fairness:

- `IncludedLeaves` assumes only that the listener is given every event in
  the end (ethers polls the node); nothing calls the scans periodically.
- `BundlingEnds` and `BatchAnswered` assume that the node answers each request and
  that a transaction that is waited for is mined or reverted. The code sets no
  timeout, so without that the mutex may be held for ever.
- `CheapestStaleLeaves` assumes besides that among the attempts of a timer that keeps
  firing the events are read and a bundle is made again and again (strong
  fairness of `FlushFirst` and `CreateBundle`: not every request to the node fails).
- `HandedOutLeaves` is about PUSH mode, the one in which the server sets a timer
  (`initServer.ts:63-65`), and assumes that it fires, that the node answers, and that
  a request that is repeated for ever does not fail every time.
- `WaitEnds` assumes that timers fire, the node answers, and polls go on.

### Disagreements

Each of these configurations has properties that a comment or message of the
code states, or that one would expect of it, and that TLC finds violated.
`PROJECT.json` lists `MCReputationCron` as a run and quotes the line it contradicts;
the comment of each property does so for the others. All can be run by hand,
with one of the properties kept at a time:
`tlc -config MCBundleLimits.cfg MCBundle`, and likewise with the module whose name
the configuration begins with.

| Configuration | What happens |
|---|---|
| `MCReputationCron` | the hourly decay computes the inclusions from what was seen |
| `MCReputationLists` | list entries spelled with a checksum have no effect on the standing |
| `MCMempoolSwap` | a replacement with other entities is neither counted nor checked (`MempoolManager.ts:84`): counters drift, a banned address gets in |
| `MCEventsLate` | scans and listener share the cursor and the handlers: an event is counted twice (`EventsManager.ts:30`), or passed over; an operation that is included and delivered while it is being admitted stays in the mempool (`ExecutionManager.ts:59-65`) |
| `MCBundleLimits` | `(... === THROTTLED ?? count > 4)` never counts, so throttled entities get nothing (`BundleManager.ts:360`); the size limit looks at the mempool, not at the bundle; what was sent stays in the mempool |
| `MCBundleReplaced` | a replacement that arrives during the second validation is removed, or its reputations undone twice |
| `MCBundleSpelled` | two spellings of one address are two senders, two deposits, two entities |
| `MCExecutionStale` | a deposit that was cached before an inclusion pays for one more operation (`DepositManager.ts:60`) |
| `MCServerLate` | an operation on chain stays, as each walk passes over it or ends before it (`BundleManager.ts:338-414`); an item that is null leaves all requests unanswered (`BundlerServer.ts:156`) |
| `MCServerReceipt` | the receipt of an operation also has the logs of those before it in the bundle, since `BeforeExecution` sets `endIndex` (`MethodHandlerERC4337.ts:216`) |
| `MCErc7562Delegate` | code of the sender that an unstaked entity delegates to touches that entity's storage and passes: a frame is judged by its `to`, and `delegatecallStorageAddress` is only reported (`ERC7562Parser.ts:635`, `274-279`) |
| `MCCollectorRules` | `GAS` before any opcode with CALL in its name, `CALLER` for example, is not counted (`BundlerCollectorTracer.ts:316`); a deposit to the EntryPoint is refused, as the selector is compared with one that never occurs; the entities' own addresses are not among the referenced ones |
| `MCValidationEstimate` | the estimated `preVerificationGas` is refused, as its own bytes were counted as zero (`PreVerificationGasCalculator.ts:138`, `MethodHandlerERC4337.ts:138`); code that changes between the trace and the request for its hashes goes unnoticed (`ValidationManager.ts:344`, `391`); an operation with much data is refused early although it would be accepted after a simulation that uses more than 500000 gas (`ValidationManager.ts:528`) |
| `MCValidationJs` | with a separate tracer node no operation is accepted: the records of the JavaScript tracer have no `input` to decode (`ValidationManager.ts:71`, `runBundler.ts:89`) |
| `MCSdkMissed` | the listener looks at the latest block only and may miss the event; an operation may name the factory with a nonce other than zero, when the account is deployed between the two reads (`UserOperationEventListener.ts:39`) |

Further ones have no configuration of their own: `BannedNotBundled` (a banned sender is
bundled; slacks 0), `LeavesOnceHandedOut` (`MCRip7560.cfg` with `RipSpec`),
`PaymasterCovered` with `MCUneven` and `MCTwo` (operations of different cost,
`DepositManager.ts:39`), `StorageMapHolds` (`Accesses = {"SLOAD"}`, `Simple = {}`,
`MaxSteps = 4`), and `RefusedWithReason` with `MCEmptyData`: `factoryData` of `0x` with
the EIP-7702 marker shifts the calls by one (`ValidationManager.ts:135`). The
`CREATE` checks of `TracerResultParser.ts` (203-232) never apply, since the collected
levels have no `type`.

## 4. Theorems

Each is about every value of the constants: any operations, limits, chains and
contracts, any number of clients. `PROJECT.json` lists them with the property of a run
that each states. A hypothesis is either an `ASSUME` of the module, which TLC
evaluates on every run, or named in the theorem; the table at the end says what
each one leaves out and which configuration shows that it is needed.

How the proofs go. For each component there is an inductive invariant: the property
and what the code keeps true for it. One lemma per action shows that the action
keeps it, and the last step puts them together. Every invariant was checked by
TLC before. Inductions over data (the elements of a sum, the prefixes of a list,
the frames of a trace) are by a smallest counterexample: a set of natural
numbers has a least member, and a set of subsets of a finite set has a minimal
one (`SmallestNumber`, `SmallestSet`). `SumLemmas` follows the fold by which the
community modules define a sum and proves that it does not depend on the order,
grows with the set and is additive.

`MempoolProofs`, on reputations:

- `RepTypeCorrect` (invariant `RepTypeOK`);
- `CrashBans` (`CrashBansEntity`), from the type invariant and `PenaltyAssumption`: the
  penalty is worth more expected inclusions than the slack forgives;
- `StandingHolds` (`StandingWorsensOnlyBySeen`), for a denominator of at least 2. The
  case that needs arithmetic is the decay: `DecayForgives` says that a division by
  the denominator never exceeds the 23/24 that remain, so a tick leaves everybody
  in good standing. With a denominator of 1 the property is false.

On the mempool:

- `PoolTypeCorrect`. The invariant is inductive.
- `KeysStayUnique`: the only steps that add are the two branches of `addUserOp`,
  and each looks for the key.
- `CountsStayExact`, for `StableEntities`. The proof needs that the mempool is
  finite, that keys are unique, and that counting is additive over disjoint sets.
- `RolesStayApart`, for `StableEntities` and while validation is not skipped.
- `SenderStaysLimited` and `UnstakedEntitiesStayLimited`, from `CountsStayExact`: the
  checks compare counters, the theorems speak of the operations. The second is
  about the moment of entry, since an entity's inclusions may fall later.
- `MempoolRefinesPool`: every step of the mempool is a step of `KeyedPool` or a
  stutter.

On events:

- `DeliveredStayCounted`: whatever scans run beside the listener, which `runBundler.ts:218`
  always installs, an address has at least as many inclusions as events naming it
  that the listener delivered, and none if the chain does not name it. The invariant
  `EventsInv` adds what a scan's answer can hold (`ChainTypes`). Exactly as many is
  what one would expect; `MCEventsLate` refutes it.
- `StaleAreOvertaken`, for `OneHashEach`: an operation that is held though it is on chain
  was added after its events, or one has still to be delivered. It is the safety
  part of `IncludedLeaves`.

`BundleProofs`, with clients, other bundlers and the listener active at every await:

- `BundleTypeCorrect`. Its invariant `TypeInv` adds that an operation of the snapshot
  is at hand at the awaits that need one, that nothing is left of a bundle when
  the next one begins, and that the mempool stays well typed under the undos.
- `SendersStayApart` and `StorageStaysIsolated`, for `OneSpelling`. The sender is
  compared before two awaits and the operation joins the bundle after them;
  `SendersApart` says that the comparison still holds then, `OwnStorage` that each
  operation touches no account of the snapshot but its own.
- `AuthStaysConsistent`: the property is inductive.
- `SentStaysSent`. `SentIsKnown` says that what was sent is on chain or waited for;
  the second validation refuses what is on chain.
- `GasStaysBounded`: `totalGas` is the sum over the bundle (`GasInv`) and was compared
  before the await for the deposit; nothing is added between.
- `PaymasterStaysSolvent`, for `OnePaymasterSpelling`. `DepositInv`: what is left of a
  deposit and the prefunds of the paymaster's operations in the bundle add up to
  no more than the balance that was read, once, when the first of them came.
- `CrashedStayOutForGood`, for `StableEntities`, `OneEntitySpelling`, `NoneWhiteListed` and
  `PenaltyLasts`. `CrashInv` bounds an entity's inclusions by its operations that are
  flushed, so the penalty outweighs them; and no operation of the mempool or
  snapshot names a crashed entity, so none is left whose undo could lift the ban.
- `SeenStaysCovered`, for `StableEntities` and `RolesFixed`. `SeenInv` counts, besides the
  mempool, the operations that the walk still holds (`Held`): each of them may yet
  be undone, once, even if its entry was replaced or removed meanwhile.

`RipProofs`:

- `HandedOutStaysRemembered`. A bundle is remembered in the step that hands it out. The
  part that takes several steps is forgetting: `StillToCome` says that what is
  handed out and in the mempool lies in the list at or after the index of the
  scan that runs, so the filter at its end drops only bundles that have left.

`Erc7562Proofs`:

- `StakeNeverHurts`: for every trace and frame, the violations with one more stake are
  among those without it. One lemma per rule.
- `TheVerdictIsRight`, for `NoReentry`. The parser keeps one `currentEntity` and does not
  restore it when recursion returns. `Underway` says that after each frame it is the
  entity of that frame's own branch (`OwnEntity`) and that what was found is what
  the frames so far violate. That it is right at the next frame too, though that
  may belong to another branch, is an induction over the frames between.
- `UnstakedStayAtTheSender` and `OnlyTheSenderIsDeployed` follow from the verdict, rule by
  rule. The first is about frames that use their own storage: of `DELEGATECALL` and
  `CALLCODE` it does not hold (`MCErc7562Delegate`).

`CollectorProofs`:

- `TracerKeepsWhatRan`: the invariant `CollectorInv`. The tracer sees one opcode at a time
  and keeps levels, counts and three opcodes; `Records` says how these are
  determined by the `history` of all steps.
- `ReferencedStaysComplete`, from it.
- `AcceptedStepsKeepTheRules` and `LawfulOperationsPass` are the two directions of what
  the parser accepts, for any contracts. Each states the exceptions that the code
  makes. `AcceptedStepsStayLawful` and `LawfulStaysAccepted` are the properties of the
  runs, under hypotheses that rule these out.

`ValidationProofs`:

- `AcceptedIsInTime`: what was judged last is of this simulation and of this round, at
  every await (`Staged`).
- `ModifiedCodeIsNoticed`: `CodeFollowed` follows a contract's code from the first trace to
  the hashes, the comparison and the second trace; each agrees with the next but
  for the upgrades in the two gaps (`unseen`).
- `EarlyRefusalStaysFinal`: the requirement falls as the verification gas rises
  (`CalculateFalls`), and where the floor does not count it stays the same
  (`CalculateLevels`), so the check with the highest value supposed is the weakest.
  For any table of gas costs and any gas used.
- `RefusalHasReason`, for `NoJsTracer`, `NoEmptyFactoryData` and `ClockFits`: above all, the
  positions at which the calls are decoded are those of the account and the
  paymaster, for every shape of operation.
- `DeployedIsKnown`: what the account API has read of a monotonic chain remains true.
- `WaitTellsTheTruth`: the promise is settled once, by an event of the chain or by a
  timer.

`ServerProofs`:

- `AdmissionStaysCovered`, for `OneCost`. `Exclusive`: a request that has left the
  queue of the mutex is its holder up to the end of the attempt that follows. So
  at most one client is between the check of a deposit and the addition
  (`OneAdmits`), and nobody else adds. `DepositsRead`: a cached or awaited deposit is what
  the EntryPoint holds now and what was charged since it was read (`Owed`); and
  what the check asked for stays covered up to the addition, since meanwhile the
  mempool only shrinks. In the end `Owed` is split into what was charged for
  operations that are gone and for those that are still in the mempool; the
  latter are not pending.
- `ServedStayCovered`: every step of the server is a step of `Execution`, leaves it
  alone, or empties the mempool (`ServerStepIsExecStep`); so the same holds behind it.
  That what a batch carries is of its type is `ServerAssumption` in `BundlerServer`,
  which TLC evaluates on the server's runs.
- `OwnLogsStay`, for `OneBundle`. The loop of `_filterLogs` is followed turn by turn
  (`ScanByTurns` unfolds the fold of the model, `ScanFinds` is the induction): it ends
  at the operation's event, and begins at a mark that is not after the last one
  before it.

| Hypothesis | Says | Without it |
|---|---|---|
| `StableEntities` | a replacement names the entities of what it replaces | `MCMempoolSwap` |
| `OneHashEach` | no two operations have one hash: clients spell addresses in one way | an event removes the other spelling and leaves the operation |
| `SkipValidation \subseteq {FALSE}` | no operation skips the checks; only a RIP-7560 debug method does | the checks are not made |
| `OneSpelling`, `OnePaymasterSpelling`, `OneEntitySpelling` | clients spell each sender, paymaster or entity in one way | `MCBundleSpelled` |
| `NoneWhiteListed` | the white list does not protect the entities of the operations | a listed entity is never banned |
| `PenaltyLasts` | the penalty exceeds what the operations naming an entity can earn it: with the code's numbers, up to 949 of them | enough inclusions lift the ban |
| `RolesFixed` | no account is also a paymaster or factory | the undo of a sender, who is always counted on entry, and that of an entity meet |
| `NoReentry` | the system's contracts are not called again from within a call that goes on afterwards | the current entity is not restored |
| `NoHiding`, `NoDeposit` | no opcode that hides a `GAS` runs; no contract deposits at the EntryPoint | `MCCollectorRules` |
| `NoJsTracer`, `NoEmptyFactoryData` | a native tracer or none; no `0x` beside the EIP-7702 marker | `MCValidationJs`, `MCEmptyData` |
| `ClockFits` | the clock is far from the value that means "for ever" | a range without an end has one |
| `OneCost` | the operations of a paymaster cost the same | `MCUneven` (`DepositManager.ts:39`) |
| `OneBundle` | a receipt is that of one `handleOps`: its marker precedes the events, hashes differ, as the comment at `MethodHandlerERC4337.ts:216-218` says | the marker of a second one resets the end |

Only model-checked: `IncludedLeaves`, `BundlingEnds`, `BatchAnswered`, `CheapestStaleLeaves`,
`HandedOutLeaves` and `WaitEnds`, the liveness properties, since fairness and `ENABLED`
are beyond the provers; and the type invariants of `Events`, `Execution`,
`BundlerServer`, `Rip7560`, `Erc7562`, `Collector`, `Validation` and `Sdk` as they stand in
those modules. The parts of these that the proofs need are in the inductive
invariants (`ChainTypes`, `ExecTypes`, `RipTypes`, `ValTypes`, ...).

## 5. Not modelled, and the plan

Not modelled: `Config.ts`, `runBundler.ts` and the other wiring (what it decides is in
the constants); `ValidationManagerRIP7560.ts`, which forwards to a method of the node;
`GethTracer.ts` and `decodeHelper.ts`, which convert requests and answers;
`AltMempoolConfig.ts`, which nothing applies; `debug_bundler_setConfiguration`;
`setReputationCron`, which nothing calls; the encodings, hashes, signatures and
deployments of `packages/utils` and `packages/sdk`; contracts, tests and scripts.
Reorganisations of the chain are not handled by the code and not modelled.

Next:

1. Mutual exclusion of the `BundleManager`'s queue in `Execution`, and that its two
   mutexes are never waited for in a circle.
2. The type invariants of the remaining modules as theorems.
3. An abstract specification of a bundle (independent, solvent operations) that
   `BundleManager` implements, and of admission that `Execution` does; that the
   server implements `Execution` but for clearing.
