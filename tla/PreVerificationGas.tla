-------------------------- MODULE PreVerificationGas --------------------------
(***************************************************************************)
(* PreVerificationGasCalculator.ts: the gas an operation must pay for what *)
(* is not metered on chain.  The per-word overheads are fractions (9.5 and *)
(* 8.2 over words of 32 bytes), so costs are counted here in units of      *)
(* 1/Unit of gas, and Math.round is the rounding of units to gas.          *)
(*                                                                         *)
(* Of an operation the calculator sees the bytes of its encoding (zero and *)
(* nonzero, those of preVerificationGas apart), the words of its callData, *)
(* whether it calls executeUserOp or carries an authorization, the gas it  *)
(* asks for its execution, and its preVerificationGas.                     *)
(***************************************************************************)
EXTENDS Integers, FiniteSets

CONSTANTS Unit,          \* units of one gas: 320 = 32 * 10
          Config,        \* PreVerificationGasCalculatorConfig; see GasAssumption
          UseEip7623     \* config.useEip7623

GasAssumption ==
  /\ Unit \in Nat \ {0}
  /\ Config \in [stipend : Nat, fixed : Nat, perOp : Nat, wordUnits : Nat,
                 execute : Nat, executeByteUnits : Nat, tokenGas : Nat,
                 floorGas : Nat, tokensPerByte : Nat, authGas : Nat,
                 bundleSize : Nat \ {0}]
  /\ UseEip7623 \in BOOLEAN

ASSUME GasAssumption

\* What the calculator reads of an operation; words of 32 bytes.
GasOp == [zero : Nat, nonzero : Nat, callWords : Nat, executes : BOOLEAN,
          auth : BOOLEAN, execGas : Nat, pvg : Nat]

Larger(a, b) == IF a >= b THEN a ELSE b

\* Math.round of a number of units.
Rounded(u) == (2 * u + Unit) \div (2 * Unit)

\* Bytes of n that are not zero (n < 2^24).
NonzeroBytes(n) ==
  Cardinality({k \in {1, 256, 65536} : (n \div k) % 256 # 0})

\* _countTokens of the encoding.
Tokens(o) ==
  o.zero + 32 - NonzeroBytes(o.pvg)
    + (o.nonzero + NonzeroBytes(o.pvg)) * Config.tokensPerByte

Length(o) == o.zero + o.nonzero + 32

\* perUserOpOverhead + callDataOverhead, in units.
OpOverhead(o) ==
  Unit * (Config.perOp + (IF o.auth THEN Config.authGas ELSE 0))
    + (IF o.executes
       THEN Unit * Config.execute + Config.executeByteUnits * (Length(o) + 31)
       ELSE Config.wordUnits * o.callWords)

Share(gas) == (Unit * gas) \div Config.bundleSize

\* _getUserOpGasUsed: a tenth of the execution gas, and the verification.
GasUsed(o, verification) == o.execGas \div 10 + verification

\* What the operation costs apart from its execution, in units.
Standard(o) == Unit * Config.tokenGas * Tokens(o) + Share(Config.fixed)
                 + OpOverhead(o)

\* _eip7623transactionGasCost.
TransactionCost(o, used) ==
  Rounded(Share(Config.stipend)
            + Larger(Standard(o) + Unit * used, Unit * Config.floorGas * Tokens(o)))

\* Variant: the gas that is used counts for the floor but is not deducted.
notDeducted(o, verification) ==
  Unit * TransactionCost(o, GasUsed(o, verification))

\* _calculate, in units.
Calculate(o, verification) ==
  IF UseEip7623
  THEN Unit * (TransactionCost(o, GasUsed(o, verification))
                 - GasUsed(o, verification))
  ELSE Standard(o) + Share(Config.stipend)

\* validatePreVerificationGas.
PvgValid(o, verification) == Calculate(o, verification) <= Unit * o.pvg

\* estimatePreVerificationGas, in gas.  The server fills in 0 before it asks
\* (MethodHandlerERC4337.ts:139), so the default of 21000 is never used.
EstimatedPvg(o) == Calculate([o EXCEPT !.pvg = 0], 0) \div Unit
=============================================================================
