------------------------------- MODULE Erc7562 -------------------------------
(***************************************************************************)
(* ERC7562Parser.ts: the validation rules, checked frame by frame over the *)
(* call tree that geth's native tracer returns.  One parser is used for    *)
(* every operation; requireCompliance throws at the first violation,       *)
(* parseResults lists them all.                                            *)
(*                                                                         *)
(* A call tree is the sequence of its frames in the order the parser       *)
(* recurses into them, each with its caller's position.  Addresses (lower  *)
(* case, as the code compares them) and slots are numbers.                 *)
(***************************************************************************)
EXTENDS Integers, Sequences, SequencesExt

CONSTANTS
  EntryPoint, SenderCreator, NonceManager,
  Absent,       \* no factory, paymaster or nonce manager; no call
  Trace         \* what may be parsed, records with these fields:
                \* sender, factory, paymaster: the operation's
                \* staked: per entity; context: does the paymaster return one?
                \* keccak: pairs of the address hashed first and the hash
                \* frames: the calls, see above

Zero == 0

\* Frames come after their caller's, and a call's frames before the next call's.
CallTree(frames) ==
  /\ Len(frames) \in Nat /\ DOMAIN frames = 1..Len(frames)
  /\ \A i \in DOMAIN frames :
       /\ frames[i].parent \in 0..(i - 1) /\ frames[i].to # Absent
       /\ \A j \in (frames[i].parent + 1)..(i - 1) : frames[j].parent >= frames[i].parent

ASSUME Erc7562Assumption ==
  /\ {Zero, EntryPoint, SenderCreator} \subseteq Nat
  /\ \A t \in Trace :
       /\ DOMAIN t = {"sender", "factory", "paymaster", "staked", "context", "keccak", "frames"}
       /\ t.staked \in [DOMAIN t.staked -> BOOLEAN]
       /\ CallTree(t.frames)

VARIABLES
  bailOnViolation,
  method,           \* requireCompliance, parseResults, or Absent between calls
  trace,            \* its arguments
  at,               \* the frame it recurses into next
  currentEntity,
  ruleViolations,   \* pairs of a frame and the rule it violates
  outcome           \* of the call that has ended

parserVars == <<bailOnViolation, method, trace, at, currentEntity, ruleViolations, outcome>>

bannedOpCodes ==
  {"BASEFEE", "BLOCKHASH", "COINBASE", "DIFFICULTY", "GAS", "GASLIMIT", "GASPRICE", "INVALID",
   "NUMBER", "ORIGIN", "PREVRANDAO", "RANDOM", "SELFDESTRUCT", "TIMESTAMP", "BLOBHASH",
   "BLOBBASEFEE"}

opcodesOnlyInStakedEntities == {"BALANCE", "SELFBALANCE"}

-----------------------------------------------------------------------------
(* Entities                                                                *)

isEntityStaked(t, e) == e \in DOMAIN t.staked /\ t.staked[e]

\* The entities that a call by f may enter, in the order they are looked for.
Entities(t, f) ==
  << [name |-> "account", address |-> t.sender],
     [name |-> "factory", address |-> IF f.from = SenderCreator THEN t.factory ELSE Absent],
     [name |-> "paymaster", address |-> t.paymaster],
     [name |-> "EntryPoint", address |-> EntryPoint],
     [name |-> "SenderCreator", address |-> SenderCreator],
     [name |-> "NativeNonceManager", address |-> NonceManager] >>

None == [name |-> "none", address |-> Absent]

anyCallChanges(f) == TRUE                   \* variant

\* Only what the system's own contracts call changes the entity.
changesEntity(f) == f.from \in {Zero, EntryPoint, SenderCreator}

entityNumber(t, f) == SelectInSeq(Entities(t, f), LAMBDA e : e.address = f.to)

\* "could not find entity name for address"
unknownEntity(t, f) == changesEntity(f) /\ entityNumber(t, f) = 0

entityAfter(t, f, e) ==
  IF changesEntity(f) /\ entityNumber(t, f) # 0 THEN Entities(t, f)[entityNumber(t, f)] ELSE e

MaxStruct == 128    \* the maximum size of a structure that is assumed

\* The slot is the address, or within a structure at a hash of it; hashes are
\* kept for the operation's three addresses.
associatedWith(t, slot, addr) ==
  \/ slot = addr
  \/ /\ addr \in {t.sender, t.paymaster, t.factory}
     /\ \E k \in t.keccak : k[1] = addr /\ k[2] <= slot /\ slot < k[2] + MaxStruct

-----------------------------------------------------------------------------
(* The checks of a frame f while e is the current entity: is it violated?  *)

isCallToEntryPoint(f) == f.to = EntryPoint /\ f.from \notin {EntryPoint, Zero}

checkOp011(t, f, e) == f.to # EntryPoint /\ f.opcodes \intersect bannedOpCodes # {}

checkOp020(t, f, e) == f.outOfGas

anyCreate(t, f, e) ==                       \* variant: CREATE2 as well
  f.type \in {"CREATE", "CREATE2"} /\ t.factory = Absent

checkOp031(t, f, e) ==
  /\ f.type \in {"CREATE", "CREATE2"}
  /\ ~ \/ /\ t.factory # Absent /\ f.type = "CREATE"               \* OP-032
          /\ e.name \in {"account", "factory"} /\ f.from = t.sender
       \/ f.from \in {t.sender, t.factory} /\ isEntityStaked(t, "factory")  \* EREP-060
       \/ e.name = "factory" /\ f.to = t.sender

isPrecompiled(addr) == addr \in 1..999

isForbiddenPrecompiled(addr) == isPrecompiled(addr) /\ addr > 9

\* codeless: those of the accessed addresses that have no code.
checkOp041(t, f, e) ==
  \E addr \in f.codeless : ~isPrecompiled(addr) /\ addr \notin {t.sender, EntryPoint}

checkOp054(t, f, e) ==
  /\ isCallToEntryPoint(f)
  /\ f.method \notin {"acceptAccount", "acceptPaymaster", "sigFailAccount", "sigFailPaymaster",
                      "depositTo", "0x"}

checkOp054ExtCode(t, f, e) == EntryPoint \in f.extCode

checkOp061(t, f, e) == ~isCallToEntryPoint(f) /\ f.value # 0

checkOp062(t, f, e) == \E addr \in f.accessed : isForbiddenPrecompiled(addr)

stakedSuspected(t, f, e) ==                 \* variant: the negation is lost
  f.opcodes \intersect opcodesOnlyInStakedEntities # {} /\ isEntityStaked(t, e.name)

checkOp080(t, f, e) ==
  f.opcodes \intersect opcodesOnlyInStakedEntities # {} /\ ~isEntityStaked(t, e.name)

checkErep050(t, f, e) == e.name = "paymaster" /\ ~isEntityStaked(t, "paymaster") /\ t.context

readsAreFree(t, f, e, slot) ==              \* variant: STO-033 without a stake
  slot \notin f.writes \/ (f.to = t.sender)

\* Transient storage is treated like storage.
allowedSlot(t, f, e, slot) ==
  LET isSenderAssociated == associatedWith(t, slot, t.sender)
      isReadOnly == slot \notin f.writes
  IN  \/ f.to = t.sender                                                 \* STO-010
      \/ isSenderAssociated /\ t.factory = Absent                        \* STO-021
      \/ isSenderAssociated /\ isEntityStaked(t, "factory")              \* STO-022
      \/ /\ isEntityStaked(t, e.name)                                    \* STO-031..033
         /\ f.to = e.address \/ associatedWith(t, slot, e.address) \/ isReadOnly

checkStorage(t, f, e) ==
  /\ f.to \notin {EntryPoint, NonceManager}
  /\ \E slot \in f.reads \union f.writes : ~allowedSlot(t, f, e, slot)

\* The checks in the order of the code, by the rule that is reported.
Checks(t, f, e) ==
  << <<"OP-011", checkOp011(t, f, e)>>, <<"OP-020", checkOp020(t, f, e)>>,
     <<"OP-011", checkOp031(t, f, e)>>, <<"OP-041", checkOp041(t, f, e)>>,
     <<"OP-054", checkOp054(t, f, e)>>, <<"OP-054", checkOp054ExtCode(t, f, e)>>,
     <<"OP-061", checkOp061(t, f, e)>>, <<"OP-062", checkOp062(t, f, e)>>,
     <<"OP-011", checkOp080(t, f, e)>>, <<"EREP-050", checkErep050(t, f, e)>>,
     <<"STO-010", checkStorage(t, f, e)>> >>

Violated(t, f, e) == {Checks(t, f, e)[k][1] : k \in {n \in 1..11 : Checks(t, f, e)[n][2]}}

\* The EntryPoint's calls to itself are not looked at, nor what they call.
selfCall(f) == f.to = EntryPoint /\ f.from = EntryPoint

Skipped(t) ==
  LET skipped[i \in 0..Len(t.frames)] ==
        i # 0 /\ (selfCall(t.frames[i]) \/ skipped[t.frames[i].parent])
  IN  skipped

-----------------------------------------------------------------------------
(* The calls                                                               *)

Ends(o) ==
  /\ outcome' = o
  /\ method' = Absent
  /\ UNCHANGED <<trace, at, currentEntity>>

Init7562(m, t) ==
  /\ method = Absent
  /\ trace' = t
  /\ at' = 1
  /\ currentEntity' = None
  /\ ruleViolations' = {}
  /\ IF Len(t.frames) < 2
     THEN method' = Absent /\ outcome' = "thrown"   \* no calls from entrypoint
     ELSE method' = m /\ outcome' = "running"

RequireCompliance(t) ==
  /\ Init7562("requireCompliance", t)
  /\ bailOnViolation' = TRUE

ParseResults(t) ==
  /\ Init7562("parseResults", t)
  /\ UNCHANGED bailOnViolation

\* An exception leaves bailOnViolation as it is.
InnerStep ==
  /\ method # Absent /\ at <= Len(trace.frames) /\ ~Skipped(trace)[at]
  /\ LET f == trace.frames[at]
         e == entityAfter(trace, f, currentEntity)
     IN  IF unknownEntity(trace, f)
         THEN Ends("thrown") /\ UNCHANGED ruleViolations
         ELSE /\ ruleViolations' =
                   ruleViolations \union ({at} \X Violated(trace, f, e))
              /\ IF bailOnViolation /\ Violated(trace, f, e) # {}
                 THEN Ends("thrown")
                 ELSE /\ at' = at + 1
                      /\ currentEntity' = e
                      /\ UNCHANGED <<method, trace, outcome>>
  /\ UNCHANGED bailOnViolation

SkipFrame ==
  /\ method # Absent /\ at <= Len(trace.frames) /\ Skipped(trace)[at]
  /\ at' = at + 1
  /\ UNCHANGED <<bailOnViolation, method, trace, currentEntity, ruleViolations, outcome>>

Return ==
  /\ method # Absent /\ at > Len(trace.frames)
  /\ Ends("returned")
  /\ bailOnViolation' = (method = "parseResults" /\ bailOnViolation)
  /\ UNCHANGED ruleViolations

ParserInit ==
  /\ bailOnViolation = FALSE
  /\ method = Absent
  /\ trace \in Trace
  /\ at = 1
  /\ currentEntity = None
  /\ ruleViolations = {}
  /\ outcome = "none"

ParserNext ==
  \/ \E t \in Trace : RequireCompliance(t) \/ ParseResults(t)
  \/ InnerStep
  \/ SkipFrame
  \/ Return

ParserSpec == ParserInit /\ [][ParserNext]_parserVars

-----------------------------------------------------------------------------
(* Properties                                                              *)

Rules == {"OP-011", "OP-020", "OP-041", "OP-054", "OP-061", "OP-062", "EREP-050", "STO-010"}

ParserTypeOK ==
  /\ bailOnViolation \in BOOLEAN
  /\ method \in {"requireCompliance", "parseResults", Absent}
  /\ trace \in Trace
  /\ at \in 1..(Len(trace.frames) + 1)
  /\ ruleViolations \subseteq (DOMAIN trace.frames) \X Rules
  /\ outcome \in {"none", "running", "returned", "thrown"}
  /\ outcome = "running" <=> method # Absent

\* The entity a frame belongs to: that of the innermost call by the system's
\* contracts that it is part of.
OwnEntity(t) ==
  LET own[i \in 0..Len(t.frames)] ==
        IF i = 0 THEN None ELSE entityAfter(t, t.frames[i], own[t.frames[i].parent])
  IN  own

\* Code of the callee that runs in the storage of the caller.
Delegating == {"DELEGATECALL", "CALLCODE"}

\* The contract whose storage a frame reads and writes.
StorageOf(t) ==
  LET owner[i \in 0..Len(t.frames)] ==
        IF i = 0 THEN Absent
        ELSE IF t.frames[i].type \in Delegating THEN owner[t.frames[i].parent]
             ELSE t.frames[i].to
  IN  owner

Parsed(t) == {i \in DOMAIN t.frames : ~Skipped(t)[i]}

\* The system's contracts call one another and the operation's entities.
WellFormed(t) ==
  Len(t.frames) > 1 /\ \A i \in Parsed(t) :
    t.frames[i].from \in {Zero, EntryPoint, SenderCreator} =>
      \/ t.frames[i].to \in {t.sender, t.paymaster, EntryPoint, SenderCreator, NonceManager}
      \/ t.frames[i].to = t.factory /\ t.frames[i].from = SenderCreator

Broken(t) == UNION {{i} \X Violated(t, t.frames[i], OwnEntity(t)[i]) : i \in Parsed(t)}

\* The current entity is one variable that recursion does not restore
\* (ERC7562Parser.ts:164-199, 262).  Even so each frame is judged as part of its
\* own entity: a call that returns has found exactly the violations of the tree,
\* and one that bails does so only for one of them (63-99, 250-281).
VerdictIsRight ==
  /\ outcome = "returned" => ruleViolations = Broken(trace)
                               /\ (bailOnViolation => Broken(trace) = {})
  /\ outcome = "thrown" /\ WellFormed(trace) => Broken(trace) # {}

Accepted == outcome = "returned" /\ ruleViolations = {}

EntityFrames(t) == {i \in Parsed(t) : OwnEntity(t)[i].name \in {"account", "factory", "paymaster"}}

\* What makes operations of a bundle independent (STO-010 to STO-033,
\* ERC7562Parser.ts:616-685): nothing an accepted operation's unstaked entities
\* do, in whatever contract their calls end up, depends on storage other than that
\* of the account and what is associated with it.  Delegated code is left out: its
\* storage is not that of the contract it is judged by.
UnstakedTouchSenderOnly ==
  Accepted => \A i \in EntityFrames(trace) :
    LET f == trace.frames[i]
    IN  f.type \notin Delegating =>
          \/ isEntityStaked(trace, OwnEntity(trace)[i].name)
          \/ f.to \in {EntryPoint, NonceManager, trace.sender}
          \/ \A slot \in f.reads \union f.writes : associatedWith(trace, slot, trace.sender)

\* The same of the storage that is really touched, delegated code included: not
\* so, as slots are judged by the contract whose code runs (ERC7562Parser.ts:635)
\* and delegatecallStorageAddress is only reported (274-279).
DelegatedTouchSenderOnly ==
  Accepted => \A i \in EntityFrames(trace) :
    LET f == trace.frames[i]
    IN  \/ isEntityStaked(trace, OwnEntity(trace)[i].name)
        \/ StorageOf(trace)[i] \in {EntryPoint, NonceManager, trace.sender}
        \/ \A slot \in f.reads \union f.writes : associatedWith(trace, slot, trace.sender)

\* "CREATE2 is allowed exactly once in the deployment phase and must deploy code
\* for the "sender" address" (ERC7562Parser.ts:350): so it is unless a staked
\* factory is there; and without a factory nothing is created.
OnlySenderDeployed ==
  Accepted /\ ~isEntityStaked(trace, "factory") =>
    \A i \in EntityFrames(trace) :
      /\ trace.frames[i].type = "CREATE2" =>
           trace.frames[i].to = trace.sender /\ OwnEntity(trace)[i].name = "factory"
      /\ trace.frames[i].type = "CREATE" => trace.factory # Absent

\* A stake is a privilege in every rule (ERC7562Parser.ts:117-133 and its uses):
\* whoever stakes, no operation that was accepted becomes a violation.
StakeOnlyHelps ==
  \A e \in DOMAIN trace.staked :
    Broken([trace EXCEPT !.staked[e] = TRUE]) \subseteq Broken(trace)
=============================================================================
