------------------------------ MODULE Collector ------------------------------
(***************************************************************************)
(* The JavaScript tracer (BundlerCollectorTracer.ts) and the parser of     *)
(* what it collects (TracerResultParser.ts).                               *)
(*                                                                         *)
(* The node runs EntryPoint.handleOps and calls the tracer at every step.  *)
(* EntryPoint calls, in this order, the SenderCreator (when the operation  *)
(* has a factory), the sender and the paymaster (when there is one), and   *)
(* then logs BeforeExecution.  What the contracts under it do is free, up  *)
(* to MaxSteps steps besides the returns.  history is what really ran; the *)
(* collector sees one step at a time and keeps less.                       *)
(***************************************************************************)
EXTENDS Integers, FiniteSets, SequencesExt

CONSTANTS EntryPoint, SenderCreator, Sender, Factory, Paymaster,
          Token,            \* a deployed contract that is no entity
          Ghost,            \* an address without code
          Simple,           \* opcodes without an operand that may run
          Methods,          \* what a call may carry: "0x" or a selector in hex
          Slots,            \* slots that are accessed: [kind, of], a plain one,
                            \* the address itself, or one hashed from it
          Accesses,         \* the opcodes that access them
          MaxSteps          \* bound on the steps of the contracts

Entity == {Sender, Factory, Paymaster}

ExtOps     == {"EXTCODESIZE", "EXTCODEHASH", "EXTCODECOPY"}
CallOps    == {"CALL", "CALLCODE", "DELEGATECALL", "STATICCALL"}
StorageOps == {"SLOAD", "SSTORE", "TLOAD", "TSTORE"}

CollectorAssumption ==
  /\ Cardinality({EntryPoint, SenderCreator, Sender, Factory, Paymaster,
                  Token, Ghost}) = 7
  /\ Simple \cap (ExtOps \cup CallOps \cup StorageOps
                   \cup {"KECCAK256", "RETURN", "REVERT", "STOP"}) = {}
  /\ "depositTo" \notin Methods
  /\ \A s \in Slots : s.kind \in {"plain", "word", "hash"} /\ s.of \in Entity
  /\ Accesses \subseteq StorageOps
  /\ MaxSteps \in Nat

ASSUME CollectorAssumption

VARIABLES op,        \* which of factory and paymaster the operation names
          stack,     \* the EVM's frames: the code that runs, whose storage
          pending,   \* the entities EntryPoint has still to call
          left,      \* steps the contracts may still make
          phase,     \* "validation", "execution", or "over"
          history,   \* every step of the validation
          c          \* the tracer's state

vars == <<op, stack, pending, left, phase, history, c>>

\* The opcodes whose name contains "CALL".
NamedCall == CallOps \cup {"CALLER", "CALLVALUE", "CALLDATALOAD"}

\* The opcodes that are not counted (of those that run here).
Unimportant == {"ISZERO", "ADD", "POP"}

\* A step as the tracer sees it, and the entity it really runs for.
Step(depth, name, on, self, low, method, value, who) ==
  [depth |-> depth, op |-> name, on |-> on, self |-> self, low |-> low,
   method |-> method, value |-> value, who |-> who]

-----------------------------------------------------------------------------
(* The tracer.  A level is what is kept of one call of EntryPoint.          *)

Level(target) == [target |-> target, opcodes |-> {}, access |-> {},
                  ext |-> {}, sizes |-> {}, oog |-> FALSE]

Collected == [levels |-> <<>>, lastOp |-> "", lastThree |-> <<>>,
              stop |-> FALSE, keccak |-> {}, calls |-> {}]

OnLevel(col, lev) == [col EXCEPT !.levels[Len(col.levels)] = lev]

\* A RETURN or a REVERT empties the window of three opcodes.
Window(col, s) ==
  LET w == Append(col.lastThree, [op |-> s.op, on |-> s.on]) IN
  IF s.op \in {"RETURN", "REVERT"} THEN <<>>
  ELSE IF Len(w) > 3 THEN Tail(w) ELSE w

\* Variant: what the SenderCreator calls stays in the SenderCreator's level.
onlyTopCalls(col, s) == s.op \in {"CALL", "STATICCALL"} /\ s.depth = 1

\* A call of EntryPoint, or the SenderCreator's call of the factory.
StartsLevel(col, s) ==
  /\ s.op \in {"CALL", "STATICCALL"}
  /\ \/ s.depth = 1
     \/ /\ s.depth = 2
        /\ col.levels # <<>>
        /\ Last(col.levels).target = SenderCreator

\* The address an EXT* opcode was applied to, one opcode late, unless it is
\* the size compared with zero.
ExtTouched(w) ==
  LET n == Len(w) IN
  IF /\ n >= 2
     /\ w[n - 1].op \in ExtOps
     /\ ~(n = 3 /\ w[2].op = "EXTCODESIZE" /\ w[3].op = "ISZERO")
  THEN {w[n - 1].on} ELSE {}

\* The opcodes a step adds to its level: GAS only once the next opcode is
\* known not to be a call.
Counted(col, s) ==
  (IF col.lastOp = "GAS" /\ s.op \notin NamedCall THEN {"GAS"} ELSE {})
    \cup (IF s.op \in Unimportant \cup {"GAS"} THEN {} ELSE {s.op})

\* The slot a step accesses; a slot written before is not recorded as read.
Accessed(lev, s) ==
  IF s.op \notin StorageOps THEN {}
  ELSE IF s.op = "SLOAD" /\ <<s.self, s.on, "SSTORE">> \in lev.access THEN {}
  ELSE {<<s.self, s.on, s.op>>}

\* The address whose code size is kept.  (The precompiles 1 to 9 are not
\* among the addresses of the model.)
Sized(lev, s) == IF s.op \in ExtOps \cup CallOps THEN {s.on} ELSE {}

\* A step below EntryPoint.
Record(col, s) ==
  LET lev == Last(col.levels) IN
  [OnLevel(col, [lev EXCEPT
      !.ext     = @ \cup ExtTouched(col.lastThree),
      !.sizes   = @ \cup Sized(lev, s),
      !.opcodes = @ \cup Counted(col, s),
      !.access  = @ \cup Accessed(lev, s)])
    EXCEPT !.lastOp = s.op,
           !.keccak = IF s.op = "KECCAK256" THEN @ \cup {s.on} ELSE @]

\* enter(): the call of a step that makes one.
Enter(col, s) ==
  IF col.stop \/ s.op \notin CallOps THEN col
  ELSE [col EXCEPT !.calls = @ \cup {[from |-> s.self, to |-> s.on,
                                      method |-> s.method, value |-> s.value]}]

\* Variant: the collector does not stop at BeforeExecution.
neverStops(col, s) == FALSE

\* The event that ends the validation.
Stops(col, s) == s.depth = 1 /\ s.op = "LOG1"

\* The step ran out of gas.
Starved(col, s) ==
  IF s.low THEN OnLevel(col, [Last(col.levels) EXCEPT !.oog = TRUE]) ELSE col

\* step(), and enter() after it.
Collect(col, s) ==
  IF col.stop THEN col
  ELSE LET seen  == [Starved(col, s) EXCEPT !.lastThree = Window(col, s)]
           split == IF StartsLevel(col, s)
                    THEN [seen EXCEPT !.levels = Append(@, Level(s.on))]
                    ELSE seen
       IN Enter(IF s.depth = 1
                THEN [split EXCEPT !.lastOp = "", !.stop = Stops(col, s)]
                ELSE Record(split, s), s)

-----------------------------------------------------------------------------
(* The parser.  staked is the set of entities with a stake and a delay.     *)

Banned == {"GASPRICE", "GASLIMIT", "DIFFICULTY", "TIMESTAMP", "BASEFEE",
           "BLOCKHASH", "NUMBER", "ORIGIN", "GAS", "COINBASE", "SELFDESTRUCT",
           "RANDOM", "PREVRANDAO", "INVALID"}

StakedOnly == {"BALANCE", "SELFBALANCE"}

Entities == {Sender} \cup (IF op.factory THEN {Factory} ELSE {})
                     \cup (IF op.paymaster THEN {Paymaster} ELSE {})

\* Calls to EntryPoint with data, and calls of others with a value.
IllegalCalls(col) ==
  {k \in col.calls : /\ k.to = EntryPoint
                     /\ k.from # EntryPoint
                     /\ k.method \notin {"0x", "depositTo"}}
    \cup {k \in col.calls : k.to # EntryPoint /\ k.value}

\* A slot is associated with an address when it is the address, or lies in
\* the structure at a hash whose preimage starts with the address.
AssociatedWith(slot, a, col) ==
  \/ slot.kind = "word" /\ slot.of = a
  \/ slot.kind = "hash" /\ slot.of = a /\ a \in col.keccak

\* The slots associated with the sender are free, unless it is created now
\* and it is not the sender, of a staked factory, that touches them.
SenderSlotsFree(e, staked) ==
  op.factory => e = Sender /\ Factory \in staked

WritesTo(lev, addr, slot) ==
  \/ <<addr, slot, "SSTORE">> \in lev.access
  \/ <<addr, slot, "TSTORE">> \in lev.access

\* What the access of a slot needs: nothing, a stake, or it is forbidden.
SlotNeeds(e, lev, addr, slot, col, staked) ==
  IF AssociatedWith(slot, Sender, col)
  THEN IF SenderSlotsFree(e, staked) THEN "nothing" ELSE "stake"
  ELSE IF \/ AssociatedWith(slot, e, col)
          \/ addr = e
          \/ ~WritesTo(lev, addr, slot)
  THEN "stake" ELSE "forbidden"

StorageAllowed(e, lev, col, staked) ==
  \A x \in lev.access :
    \/ x[1] \in {Sender, EntryPoint}
    \/ LET needs == SlotNeeds(e, lev, x[1], x[2], col, staked) IN
         needs = "nothing" \/ (needs = "stake" /\ e \in staked)

\* The checks of one level of an entity.  (The rules for CREATE and CREATE2
\* ask for a type the collector never sets, and never refuse anything.)
LevelAllowed(e, lev, col, staked) ==
  /\ ~lev.oog
  /\ lev.opcodes \cap Banned = {}
  /\ lev.opcodes \cap StakedOnly # {} => e \in staked
  /\ StorageAllowed(e, lev, col, staked)
  /\ Ghost \notin lev.sizes
  /\ EntryPoint \notin lev.ext

\* tracerResultParser: does it return, rather than throw?
Accepts(col, staked) ==
  /\ col.levels # <<>>
  /\ IllegalCalls(col) = {}
  /\ \A e \in Entities : \A i \in DOMAIN col.levels :
       col.levels[i].target = e => LevelAllowed(e, col.levels[i], col, staked)

\* Variant: only the contracts of the sender are returned.
sendersOnly(col) == UNION {col.levels[i].sizes :
                             i \in {j \in DOMAIN col.levels :
                                      col.levels[j].target = Sender}}

\* The contracts it returns, whose code must not change later.
Referenced(col) == UNION {col.levels[i].sizes : i \in DOMAIN col.levels}

\* The slots it returns: of an address, those of the first level only.
StorageMapOf(col) ==
  {<<x[1], x[2]>> : x \in
     UNION {{y \in col.levels[i].access :
               /\ y[3] = "SLOAD"
               /\ \A j \in 1..(i - 1) :
                    \A z \in col.levels[j].access : z[1] # y[1]}
              : i \in DOMAIN col.levels}}

-----------------------------------------------------------------------------
(* The EVM.                                                                 *)

Init ==
  /\ op \in [factory : BOOLEAN, paymaster : BOOLEAN]
  /\ stack = <<[code |-> EntryPoint, self |-> EntryPoint]>>
  /\ pending = (IF op.factory THEN <<SenderCreator, Factory>> ELSE <<>>)
                 \o <<Sender>>
                 \o (IF op.paymaster THEN <<Paymaster>> ELSE <<>>)
  /\ left = MaxSteps
  /\ phase = "validation"
  /\ history = <<>>
  /\ c = Collected

Depth == Len(stack)

\* The entity on whose behalf a step runs: the contract that EntryPoint, or
\* its SenderCreator, called.
Who == IF Depth = 1 THEN EntryPoint
       ELSE IF stack[2].code # SenderCreator THEN stack[2].code
       ELSE IF Depth > 2 THEN stack[3].code ELSE SenderCreator

\* A step of the frame on top.
Runs(name, on, low, method, value) ==
  LET s == Step(Depth, name, on, Last(stack).self, low, method, value, Who) IN
  /\ history' = IF phase = "validation" THEN Append(history, s) ELSE history
  /\ c' = Collect(c, s)
  /\ UNCHANGED op

Push(code, self) == stack' = Append(stack, [code |-> code, self |-> self])

\* A contract below EntryPoint makes a step of its choice.
Free ==
  /\ phase = "validation"
  /\ Depth > 1
  /\ Last(stack).code # SenderCreator
  /\ left > 0
  /\ left' = left - 1
  /\ UNCHANGED <<pending, phase>>

Quiet(name, on, low) ==
  /\ Runs(name, on, low, "0x", FALSE)
  /\ UNCHANGED stack

\* EntryPoint calls the SenderCreator, the sender and the paymaster; the
\* SenderCreator calls the factory.
Invoke ==
  /\ pending # <<>>
  /\ IF Head(pending) = Factory THEN Last(stack).code = SenderCreator
                                ELSE Depth = 1
  /\ Runs("CALL", Head(pending), FALSE, "0xcalldata", FALSE)
  /\ Push(Head(pending), Head(pending))
  /\ pending' = Tail(pending)
  /\ UNCHANGED <<left, phase>>

Compute == Free /\ \E name \in Simple : Quiet(name, EntryPoint, FALSE)

Measure ==
  /\ Free
  /\ \E a \in {EntryPoint, Token, Ghost} : Quiet("EXTCODESIZE", a, FALSE)

Hash == Free /\ \E s \in Slots : Quiet("KECCAK256", s.of, FALSE)

Access ==
  /\ Free
  /\ \E name \in Accesses, s \in Slots, low \in BOOLEAN :
       /\ low => name = "SSTORE" /\ s.kind = "word"
       /\ Quiet(name, s, low)

\* A call runs the code of a deployed contract; one of EntryPoint or of an
\* address without code comes back at once.
Call ==
  /\ Free
  /\ \E a \in {EntryPoint, Token, Ghost}, m \in Methods, v \in BOOLEAN :
       /\ v => m = "0x"
       /\ Runs("CALL", a, FALSE, m, v)
       /\ IF a = Token THEN Push(a, a) ELSE UNCHANGED stack

\* The code of another contract on the storage of this one.
DelegateCall ==
  /\ Free
  /\ Runs("DELEGATECALL", Token, FALSE, "0xcalldata", FALSE)
  /\ Push(Token, Last(stack).self)

\* A frame ends.  (When an entity reverts, handleOps does, and its trace is
\* refused before it is parsed.)
Leave ==
  /\ Depth > 1
  /\ Last(stack).code = SenderCreator => Head(pending) # Factory
  /\ Runs("RETURN", EntryPoint, FALSE, "0x", FALSE)
  /\ stack' = Front(stack)
  /\ UNCHANGED <<pending, left, phase>>

\* The same by STOP, which returns nothing.
Halt ==
  /\ Free
  /\ Runs("STOP", EntryPoint, FALSE, "0x", FALSE)
  /\ stack' = Front(stack)

\* Everything is validated: EntryPoint logs BeforeExecution and goes on to
\* call the sender.
BeforeExecution ==
  /\ Depth = 1
  /\ pending = <<>>
  /\ phase = "validation"
  /\ Runs("LOG1", EntryPoint, FALSE, "0x", FALSE)
  /\ phase' = "execution"
  /\ pending' = <<Sender>>
  /\ UNCHANGED <<stack, left>>

\* The execution may do what the validation must not.
Execute ==
  /\ phase = "execution"
  /\ Depth > 1
  /\ left > 0
  /\ left' = 0
  /\ Quiet("NUMBER", EntryPoint, FALSE)
  /\ UNCHANGED <<pending, phase>>

Finish ==
  /\ Depth = 1
  /\ pending = <<>>
  /\ phase = "execution"
  /\ Runs("RETURN", EntryPoint, FALSE, "0x", FALSE)
  /\ phase' = "over"
  /\ UNCHANGED <<stack, pending, left>>

Next ==
  \/ Invoke \/ Compute \/ Measure \/ Hash \/ Access \/ Call \/ DelegateCall
  \/ Leave \/ Halt \/ BeforeExecution \/ Execute \/ Finish

CollectorSpec == Init /\ [][Next]_vars

-----------------------------------------------------------------------------
(* The rules, judged on what ran.                                           *)

Over == phase = "over"

\* A slot computed, somewhere in the validation, from the address.
BelongsTo(slot, a) ==
  /\ slot.of = a
  /\ \/ slot.kind = "word"
     \/ /\ slot.kind = "hash"
        /\ \E j \in DOMAIN history : history[j].op = "KECCAK256" /\ history[j].on = a

StorageObeys(s, staked) ==
  \/ s.self \in {Sender, EntryPoint}
  \/ /\ BelongsTo(s.on, Sender)
     /\ ~op.factory \/ (s.who = Sender /\ Factory \in staked)
  \/ /\ s.who \in staked
     /\ \/ BelongsTo(s.on, Sender) \/ BelongsTo(s.on, s.who) \/ s.self = s.who
        \/ s.op \in {"SLOAD", "TLOAD"}

\* Step i keeps the rules of ERC-7562 that the comments of the parser name.
Obeys(i, staked) ==
  LET s == history[i] IN
  s.who \in Entities =>
    /\ ~s.low
    /\ s.op \notin Banned \ {"GAS"}
    /\ s.op = "GAS" => history[i + 1].op \in CallOps
    /\ s.op \in StakedOnly => s.who \in staked
    /\ s.op \in ExtOps \cup CallOps => s.on # Ghost
    /\ s.op \in ExtOps /\ s.on = EntryPoint =>
         s.op = "EXTCODESIZE" /\ history[i + 1].op = "ISZERO"
    /\ s.op \in CallOps /\ s.on = EntryPoint => s.method \in {"0x", "0xb760faf9"}
    /\ s.op \in CallOps /\ s.value => s.on = EntryPoint
    /\ s.op \in StorageOps => StorageObeys(s, staked)

\* The window of three is empty after a RETURN: a look at EntryPoint's code
\* right before one is not seen, and one right after it is taken for more
\* than a test of emptiness.
Missed(i) == history[i].op \in ExtOps /\ history[i + 1].op = "RETURN"
Suspected(i) == history[i].op \in ExtOps /\ history[i].on = EntryPoint
                  /\ history[i - 1].op = "RETURN"

CollectorTypeOK ==
  /\ \A i \in DOMAIN stack : stack[i].code \in Entity \cup
       {EntryPoint, SenderCreator, Token}
  /\ Len(c.lastThree) <= 3
  /\ Len(c.levels) <= 4
  /\ \A i \in DOMAIN c.levels :
       /\ c.levels[i].target \in Entity \cup {SenderCreator}
       /\ c.levels[i].access \subseteq
            (Entity \cup {Token}) \X Slots \X StorageOps
       /\ c.levels[i].sizes \subseteq {EntryPoint, Factory, Token, Ghost}

\* No step of an entity that breaks a rule gets past the tracer's sampling
\* (levels, sets of opcodes, a window of three steps) and the parser:
\* BundlerCollectorTracer.ts:184-382, TracerResultParser.ts:107-341.
AcceptedStepsObeyRules ==
  Over => \A staked \in SUBSET Entities :
            Accepts(c, staked) =>
              \A i \in DOMAIN history : Obeys(i, staked) \/ Missed(i)

\* An operation whose every step keeps the rules is not refused, whatever
\* its execution does: nothing is held against the wrong entity
\* (TracerResultParser.ts:163-173) or after BeforeExecution
\* (BundlerCollectorTracer.ts:265-271).
LawfulIsAccepted ==
  Over => \A staked \in SUBSET Entities :
            (\A i \in DOMAIN history : Obeys(i, staked) /\ ~Suspected(i))
              => Accepts(c, staked)

\* Every contract whose code the entities ran or looked at is among those
\* whose code hashes are kept for the second validation: "return list of
\* contract addresses by this UserOp" (TracerResultParser.ts:176).
ReferencedIsComplete ==
  Over => \A i \in DOMAIN history :
            /\ history[i].who \in Entities
            /\ history[i].op \in ExtOps \cup CallOps
            => history[i].on \in Referenced(c)

\* Not so: the addresses of the calls EntryPoint makes itself are not kept.
EntitiesReferenced == Over => Entities \subseteq Referenced(c)

\* Not so: the slots read in a later level of the same address are lost.
StorageMapHolds ==
  Over => \A i \in DOMAIN history :
            history[i].op = "SLOAD" =>
              \/ <<history[i].self, history[i].on>> \in StorageMapOf(c)
              \/ \E j \in 1..i : history[j].op = "SSTORE"
=============================================================================
