------------------------------ MODULE Validation ------------------------------
(***************************************************************************)
(* ValidationManager.ts: one operation is checked when it is sent (round   *)
(* 1) and again when it is bundled (round 2).  Between any two answers of  *)
(* the node time passes, contracts are upgraded and entities unstake.      *)
(*                                                                         *)
(* What the node runs in a trace, and what Erc7562.tla and Collector.tla   *)
(* decide of it, is a choice: trace.breaks says whether the steps keep the *)
(* rules, need a stake, or break them.                                     *)
(***************************************************************************)
EXTENDS PreVerificationGas, Sequences

CONSTANTS Contracts,       \* contracts an operation may visit
          Ops,             \* the operations, see ValidationAssumption
          Modes,           \* "native" tracer, "js" tracer, or "unsafe"
          Windows,         \* time ranges: [after, until], until = 0 is for ever
          Verifications,   \* verification gas that a simulation may use
          MaxVerification, \* MAX_VERIFICATION_GAS_USED
          Future,          \* VALID_UNTIL_FUTURE_SECONDS
          Forever,         \* maxUint48
          MaxTime,         \* bound on the clock
          MaxVersion       \* bound on the upgrades of a contract

\* factory: "none", "contract" or "marker" (EIP-7702); data, paymaster: what
\* of the fields is given; auths: the signers and chains of its
\* authorizations; limits: its verification gas limits.
ValidationAssumption ==
  /\ \A o \in Ops :
       /\ [k \in {"zero", "nonzero", "callWords", "executes", "auth", "execGas",
                  "pvg"} |-> o[k]] \in GasOp
       /\ o.limits \in Nat
       /\ o.factory \in {"none", "contract", "marker"}
       /\ o.data \in {"none", "0x", "some"}
       /\ o.paymaster \in {"none", "whole", "gasless", "dataOnly"}
       /\ \A i \in DOMAIN o.auths : o.auths[i] \in [chain : {"own", "any", "other"},
                                                  signer : {"sender", "other"}]
  /\ Modes \subseteq {"native", "js", "unsafe"}
  /\ Verifications \subseteq Nat
  /\ Windows \subseteq [after : 0..Forever, until : 0..Forever]
  /\ {MaxVerification, Future, Forever, MaxTime, MaxVersion} \subseteq Nat
  /\ "none" \notin Contracts                  \* see Unknown

ASSUME ValidationAssumption

VARIABLES op, mode,   \* fixed at the start
          now,        \* the clock, in seconds
          code,       \* version of each contract
          staked,     \* the entities that break a rule for stakers are staked
          round,      \* 1: sent, 2: bundled
          stage,      \* where validateUserOp is
          trace,      \* what the last simulation ran
          range,      \* [after, until] of its result
          known,      \* referencedContracts of the mempool entry: a function
          judged,     \* history: what the last decision was based on
          unseen      \* history: contracts upgraded in a gap, see Gap

vars == <<op, mode, now, code, staked, round, stage, trace, range, known, judged, unseen>>

NoTrace == [ok |-> FALSE]

\* Where no contract hashes are known yet: previousCodeHashes == null.
Unknown == [none |-> TRUE]

-----------------------------------------------------------------------------
(* Pure checks.                                                             *)

\* requireAddressAndFields, for the paymaster and, without the EIP-7702
\* marker, the factory.
WellFormed(o) ==
  /\ o.paymaster \in {"none", "whole"}
  /\ o.factory # "marker" => (o.factory = "none") = (o.data = "none")

\* validateInputParameters.
InputValid(o) == WellFormed(o) /\ PvgValid(o, MaxVerification)

\* At most one authorization, for this chain or any, signed by the sender.
AuthValid(o) ==
  /\ Len(o.auths) <= 1
  /\ \A i \in DOMAIN o.auths : /\ o.auths[i].chain # "other"
                               /\ o.auths[i].signer = "sender"

\* The calls EntryPoint makes for a valid operation.
EntryPointCalls(o) ==
  (IF o.factory = "contract" \/ (o.factory = "marker" /\ o.data = "some")
   THEN <<"create">> ELSE <<>>)
    \o <<"account">>
    \o (IF o.paymaster # "none" THEN <<"paymaster">> ELSE <<>>)
    \o <<"inner">>

\* Variant: the call that creates the sender is not skipped.
neverCreates(o) == 0

\* getValidationCalls: the calls to skip before the account's.  factoryData
\* is a hex string, and "0x" is not empty.
Skipped(o) ==
  IF o.factory = "contract" \/ (o.factory = "marker" /\ o.data \in {"0x", "some"})
  THEN 1 ELSE 0

\* The calls that are decoded as the account's, the paymaster's and the
\* inner one; the records of the JavaScript tracer have no input to decode.
Decodes(o, m) ==
  LET calls == EntryPointCalls(o)
      n == Skipped(o)
      k == IF o.paymaster # "none" THEN n + 2 ELSE n + 1
      At(i, name) == i \in DOMAIN calls /\ calls[i] = name
  IN /\ m = "native"
     /\ At(n + 1, "account")
     /\ o.paymaster # "none" => At(n + 2, "paymaster")
     /\ k + 1 \in DOMAIN calls => At(k + 1, "inner")
     /\ k + 1 \in DOMAIN calls

\* Variant: a missing validUntil is kept as zero.
keepsZero(w) == w

\* parseValidationData: no validUntil is the largest one.
Parsed(w) == [w EXCEPT !.until = IF @ = 0 THEN Forever ELSE @]

\* The range of the account and of the paymaster together.
Merged(o, account, paymaster) ==
  LET a == Parsed(account)
      p == IF o.paymaster = "none" THEN [after |-> 0, until |-> Forever]
           ELSE Parsed(paymaster)
  IN [after |-> IF a.after >= p.after THEN a.after ELSE p.after,
      until |-> IF a.until <= p.until THEN a.until ELSE p.until]

\* The time checks of validateUserOp.
InRange(r) ==
  /\ r.after <= now
  /\ r.until = 0 \/ (r.until >= now /\ r.until > now + Future)

\* EntryPoint's own check of a range, at the time of the simulation.
Holds(w) == w.after <= now /\ (w.until = 0 \/ w.until >= now)

-----------------------------------------------------------------------------
Init ==
  /\ op \in Ops
  /\ mode \in Modes
  /\ now = 0
  /\ code = [k \in Contracts |-> 0]
  /\ staked \in BOOLEAN
  /\ round = 1
  /\ stage = "input"
  /\ trace = NoTrace
  /\ range = [after |-> 0, until |-> 0]
  /\ known = Unknown
  /\ judged = [staked |-> staked, now |-> 0, code |-> code, first |-> <<>>]
  /\ unseen = {}

Refuse == stage' = "refused"

\* eth_sendUserOperation's checks of the parameters.
CheckInput ==
  /\ stage = "input"
  /\ IF InputValid(op) THEN stage' = "code" ELSE Refuse
  /\ UNCHANGED <<op, mode, now, code, staked, round, trace, range, known, judged, unseen>>

\* Variant: the hashes of an earlier validation are not compared.
neverCompares == TRUE

\* The contracts known from the first validation still have their code.
SameCode ==
  \/ known = Unknown
  \/ \A k \in DOMAIN known : code[k] = known[k]

\* The first answer: the hashes of the contracts that are already known; then
\* the authorizations, which no answer can change.
CheckCode ==
  /\ stage = "code"
  /\ judged' = [judged EXCEPT !.code = code]
  /\ IF SameCode /\ AuthValid(op) THEN stage' = "trace" ELSE Refuse
  /\ UNCHANGED <<op, mode, now, code, staked, round, trace, range, known, unseen>>

\* What a simulation may run: it reverts, or ends with the two ranges.
Runs(account, paymaster, refs, breaks, used) ==
  [ok |-> Holds(account) /\ (op.paymaster # "none" => Holds(paymaster)),
   account |-> account, paymaster |-> paymaster,
   code |-> [k \in refs |-> code[k]], breaks |-> breaks, used |-> used]

\* The second: debug_traceCall of handleOps, decoded.
Trace ==
  /\ stage = "trace"
  /\ mode # "unsafe"
  /\ \E account, paymaster \in Windows, refs \in SUBSET Contracts,
        breaks \in {"none", "unstaked", "rule"}, used \in Verifications :
       /\ op.paymaster = "none" => paymaster = account
       /\ used <= op.limits
       /\ trace' = Runs(account, paymaster, refs, breaks, used)
       /\ range' = Merged(op, account, paymaster)
       /\ IF trace'.ok /\ Decodes(op, mode) THEN stage' = "stakes" ELSE Refuse
  /\ UNCHANGED <<op, mode, now, code, staked, round, known, judged, unseen>>

\* The checks that follow the last answer: the gas, now that the verification
\* gas is known, and the time.
Conclude(used) ==
  /\ judged' = [judged EXCEPT !.now = now, !.staked = staked,
                               !.first = IF round = 1 THEN trace'.code ELSE @]
  /\ IF PvgValid(op, used) /\ InRange(range') THEN stage' = "accepted" ELSE Refuse

\* In unsafe mode a call takes the place of the trace: only its success is
\* known.  The verification gas is taken to be the limits.
Simulate ==
  /\ stage = "trace"
  /\ mode = "unsafe"
  /\ \E account, paymaster \in Windows, breaks \in {"none", "rule"} :
       /\ op.paymaster = "none" => paymaster = account
       /\ trace' = Runs(account, paymaster, {}, breaks, op.limits)
  /\ range' = [after |-> 0, until |-> 0]
  /\ IF trace'.ok
     THEN /\ Conclude(op.limits)
          /\ known' = IF round = 1 THEN <<>> ELSE known
     ELSE Refuse /\ UNCHANGED <<known, judged>>
  /\ UNCHANGED <<op, mode, now, code, staked, round, unseen>>

\* The verdict of requireCompliance or tracerResultParser.
Complies(breaks) == breaks = "none" \/ (breaks = "unstaked" /\ staked)

\* The third: the stakes.  Then the rules, and in round 2 the rest.
Stakes ==
  /\ stage = "stakes"
  /\ UNCHANGED <<trace, range>>
  /\ IF Complies(trace.breaks) /\ round = 2
     THEN Conclude(trace.used)
     ELSE /\ judged' = [judged EXCEPT !.staked = staked]
          /\ IF Complies(trace.breaks) THEN stage' = "hashes" ELSE Refuse
  /\ UNCHANGED <<op, mode, now, code, staked, round, known, unseen>>

\* getCodeHashes: the hash stands for the code of the addresses now.
CodeHashes(refs) == [k \in refs |-> code[k]]

\* The fourth, of round 1: the hashes of the contracts that were visited.
Hashes ==
  /\ stage = "hashes"
  /\ known' = CodeHashes(DOMAIN trace.code)
  /\ UNCHANGED <<trace, range>>
  /\ Conclude(trace.used)
  /\ UNCHANGED <<op, mode, now, code, staked, round, unseen>>

\* The bundle manager validates the pooled operation again.
Again ==
  /\ stage = "accepted"
  /\ round = 1
  /\ round' = 2
  /\ stage' = "code"
  /\ UNCHANGED <<op, mode, now, code, staked, trace, range, known, judged, unseen>>

-----------------------------------------------------------------------------
(* The chain, meanwhile.                                                    *)

Busy == stage # "refused" /\ ~(stage = "accepted" /\ round = 2)

Tick ==
  /\ Busy
  /\ now < MaxTime
  /\ now' = now + 1
  /\ UNCHANGED <<op, mode, code, staked, round, stage, trace, range, known, judged, unseen>>

\* Between two answers about the same code: the first trace and the hashes that
\* are kept of it; the comparison with these and the second trace.
Gap ==
  \/ round = 1 /\ stage \in {"stakes", "hashes"}
  \/ round = 2 /\ stage = "trace"

Upgrade ==
  /\ Busy
  /\ \E k \in Contracts :
       /\ code[k] < MaxVersion
       /\ code' = [code EXCEPT ![k] = @ + 1]
       /\ unseen' = IF Gap THEN unseen \union {k} ELSE unseen
  /\ UNCHANGED <<op, mode, now, staked, round, stage, trace, range, known, judged>>

Unstake ==
  /\ Busy
  /\ staked
  /\ staked' = FALSE
  /\ UNCHANGED <<op, mode, now, code, round, stage, trace, range, known, judged, unseen>>

Next ==
  \/ CheckInput \/ CheckCode \/ Trace \/ Simulate \/ Stakes \/ Hashes \/ Again
  \/ Tick \/ Upgrade \/ Unstake

ValidationSpec == Init /\ [][Next]_vars

-----------------------------------------------------------------------------
ValidationTypeOK ==
  /\ op \in Ops /\ mode \in Modes /\ now \in 0..MaxTime
  /\ code \in [Contracts -> 0..MaxVersion]
  /\ staked \in BOOLEAN
  /\ round \in {1, 2}
  /\ stage \in {"input", "code", "trace", "stakes", "hashes", "accepted", "refused"}
  /\ range.after \in 0..Forever /\ range.until \in 0..Forever
  /\ known # Unknown => DOMAIN known \subseteq Contracts
  /\ round = 2 => known # Unknown

\* The ranges of the last simulation.
Ranges == {trace.account} \cup
          (IF op.paymaster = "none" THEN {} ELSE {trace.paymaster})

Lasting(w, t) == w.after <= t /\ (w.until = 0 \/ w.until > t + Future)

\* What is accepted is due, and stays valid for VALID_UNTIL_FUTURE_SECONDS, for
\* the account and for the paymaster, as they packed it (0 for ever) and
\* whichever calls they were read from: ValidationManager.ts:128-206, 423-434.
AcceptedInTime ==
  stage = "accepted" /\ mode # "unsafe" =>
    \A w \in Ranges : Lasting(w, judged.now)

\* What the second simulation runs is what the first one ran, wherever both
\* went, but for the upgrades that fall between two answers of the node:
\* "modified code after first validation" (ValidationManager.ts:342-348, 391-393).
ModifiedCodeNoticed ==
  stage = "accepted" /\ round = 2 =>
    \A k \in DOMAIN judged.first \cap DOMAIN trace.code :
      trace.code[k] = judged.first[k] \/ k \in unseen

\* What the operation, its simulation and the chain give as a reason.
Deserved ==
  \/ ~WellFormed(op)
  \/ ~AuthValid(op)
  \/ ~PvgValid(op, IF trace.ok THEN trace.used ELSE MaxVerification)
  \/ trace # NoTrace /\ ~trace.ok
  \/ /\ trace.ok
     /\ \/ trace.breaks = "rule"
        \/ trace.breaks = "unstaked" /\ ~judged.staked
        \/ \E w \in Ranges : ~Lasting(w, judged.now)
  \/ known # Unknown /\ \E k \in DOMAIN known : judged.code[k] # known[k]

\* Nothing is refused without a reason: the calls that are decoded as the
\* account's and the paymaster's are theirs, for every shape of operation
\* (ValidationManager.ts:128-150, 597-637).
RefusedWithReason == stage = "refused" => Deserved

\* EIP-7623's floor is the higher price even of the gas that is supposed early.
FloorCounts(o) ==
  /\ UseEip7623
  /\ Standard(o) + Unit * GasUsed(o, MaxVerification) < Unit * Config.floorGas * Tokens(o)

\* The early gas check refuses nothing that the check after the simulation,
\* with the gas that was used or in unsafe mode the limits, would let pass,
\* unless the floor counts and more is used than was supposed, which nothing
\* forbids: "we need to repeat the check, with actual validation gas used"
\* (ValidationManager.ts:405, 448-452, 522-532).
EarlyRefusalIsFinal ==
  stage = "refused" /\ trace = NoTrace /\ WellFormed(op) /\ AuthValid(op) =>
    \A u \in Verifications \union {op.limits} :
      PvgValid(op, u) => u > MaxVerification /\ FloorCounts(op)

\* Not so: MAX_VERIFICATION_GAS_USED is no limit.
EarlyRefusalIsRight ==
  stage = "refused" /\ trace = NoTrace /\ WellFormed(op) /\ AuthValid(op) =>
    \A u \in Verifications : u <= op.limits => ~PvgValid(op, u)

\* Not so: other answers give the hashes than the traces.
CodeUnmodified ==
  stage = "accepted" /\ round = 2 =>
    \A k \in DOMAIN judged.first \cap DOMAIN trace.code :
      judged.first[k] = trace.code[k]

\* Not so: preVerificationGas has bytes of its own, which the estimate counts
\* as zero: "estimate the 'preVerificationGas' necessary for it to be
\* accepted" (PreVerificationGasCalculator.ts:138).
EstimateIsAccepted ==
  PvgValid([op EXCEPT !.pvg = EstimatedPvg(op)], 0)
=============================================================================
