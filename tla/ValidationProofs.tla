-------------------------- MODULE ValidationProofs --------------------------
(* Theorems about Sdk, PreVerificationGas and Validation: what the account  *)
(* API believes of the chain and wait() reports, and what the two rounds of *)
(* validation accept and refuse, for any operations, time ranges, gas       *)
(* tables, blocks and polls.                                                *)
EXTENDS Sdk, Validation, FiniteSetTheorems, TLAPS

-----------------------------------------------------------------------------
(* The SDK                                                                  *)

Outcomes == {"none", "success", "reverted", "silent"}
TxPlaces == {"idle", "callData", "factory", "signed", "sent", "error"}
ListenerPlaces == {"none", "starting", "unheard", "listening", "heard", "failed", "done"}
Promises == {"none", "pending", "ok", "status0", "reason", "timeout"}

SdkTypes ==
  /\ height \in Nat \ {0}
  /\ deployed \in BOOLEAN /\ isPhantom \in BOOLEAN
  /\ pool \subseteq Tx
  /\ mined \in [Tx -> Nat]
  /\ result \in [Tx -> Outcomes]
  /\ tx \in [Tx -> TxPlaces]
  /\ factory \in [Tx -> BOOLEAN]
  /\ listener \in [Tx -> ListenerPlaces]
  /\ from \in [Tx -> Nat]
  /\ promise \in [Tx -> Promises]

\* An outcome is known of what is in a block, and of nothing in the pool: so it
\* never changes, and what a listener was told stays true.
OutcomeSettled ==
  \A t \in Tx : /\ mined[t] = 0 <=> result[t] = "none"
                /\ t \in pool => result[t] = "none"
                /\ tx[t] # "sent" => t \notin pool /\ result[t] = "none"

\* A listener goes on once it has heard of its operation in a block.
ListenerFollows ==
  \A t \in Tx : /\ listener[t] = "heard" => result[t] # "none"
                /\ listener[t] = "failed" => result[t] \in {"reverted", "silent"}

SdkInv == SdkTypes /\ OutcomeSettled /\ ListenerFollows /\ KnowsDeployed /\ OutcomeIsTrue

USE DEF Outcomes, TxPlaces, ListenerPlaces, Promises

LEMMA SdkInvInit == SdkInit => SdkInv
<1> SUFFICES ASSUME SdkInit PROVE SdkInv
  OBVIOUS
<1>1. SdkTypes
  <2>1. height \in Nat \ {0} /\ pool \subseteq Tx
    BY DEF SdkInit
  <2>2. deployed \in BOOLEAN /\ isPhantom \in BOOLEAN
    BY Zenon DEF SdkInit
  <2>3. mined \in [Tx -> Nat] /\ from \in [Tx -> Nat] /\ factory \in [Tx -> BOOLEAN]
    BY DEF SdkInit
  <2>4. result \in [Tx -> Outcomes] /\ tx \in [Tx -> TxPlaces]
    BY DEF SdkInit
  <2>5. listener \in [Tx -> ListenerPlaces] /\ promise \in [Tx -> Promises]
    BY DEF SdkInit
  <2> QED
    BY <2>1, <2>2, <2>3, <2>4, <2>5 DEF SdkTypes
<1>2. OutcomeSettled /\ ListenerFollows /\ KnowsDeployed /\ OutcomeIsTrue
  BY DEF SdkInit, OutcomeSettled, ListenerFollows, KnowsDeployed, OutcomeIsTrue
<1> QED
  BY <1>1, <1>2 DEF SdkInv

\* The chain is all that Mine changes: an operation of the pool gets its outcome,
\* and no listener was told of one before.
LEMMA MineKeeps ==
  ASSUME SdkInv, Mine
  PROVE  SdkInv'
<1> USE DEF SdkInv, SdkTypes, OutcomeSettled, Mine, account, waits, polling
<1>1. SdkTypes'
  <2>1. CASE UNCHANGED <<deployed, nonce, pool, mined, result>>
    BY <2>1
  <2>2. ASSUME NEW t \in pool, NEW r \in {"success", "reverted", "silent"},
               mined' = [mined EXCEPT ![t] = height'], result' = [result EXCEPT ![t] = r],
               pool' = pool \ {t}, deployed' = TRUE
        PROVE  SdkTypes'
    BY <2>2
  <2> QED
    BY <2>1, <2>2
<1>2. CASE UNCHANGED <<deployed, nonce, pool, mined, result>>
  BY <1>1, <1>2 DEF ListenerFollows, KnowsDeployed, OutcomeIsTrue
<1>3. ASSUME NEW t \in pool, NEW r \in {"success", "reverted", "silent"},
             mined' = [mined EXCEPT ![t] = height'], result' = [result EXCEPT ![t] = r],
             pool' = pool \ {t}, deployed' = TRUE
      PROVE  SdkInv'
  <2>1. OutcomeSettled'
    BY <1>3
  <2>2. \A u \in Tx : result[u] # "none" => result'[u] = result[u]
    BY <1>3
  <2>3. ListenerFollows' /\ OutcomeIsTrue'
    BY <2>2 DEF ListenerFollows, OutcomeIsTrue
  <2>4. KnowsDeployed'
    BY <1>3 DEF KnowsDeployed
  <2> QED
    BY <1>1, <2>1, <2>3, <2>4
<1> QED
  BY <1>2, <1>3

\* Making an operation and sending it: what the API believes is what it was told.
LEMMA SendingKeeps ==
  ASSUME SdkInv, NEW t \in Tx, Begin(t) \/ NameFactory(t) \/ ReadNonce(t) \/ Send(t)
  PROVE  SdkInv'
<1> USE DEF SdkInv, SdkTypes, chain, waits, polling, OutcomeSettled, ListenerFollows,
            KnowsDeployed, OutcomeIsTrue
<1>1. CASE Begin(t)
  BY <1>1 DEF Begin
<1>2. CASE NameFactory(t)
  BY <1>2 DEF NameFactory, StillPhantom
<1>3. CASE ReadNonce(t)
  BY <1>3 DEF ReadNonce, StillPhantom
<1>4. CASE Send(t)
  <2>1. SdkTypes' /\ tx' \in [Tx -> TxPlaces]
    BY <1>4 DEF Send
  <2>2. KnowsDeployed'
    BY <1>4 DEF Send
  <2>3. OutcomeSettled'
    BY <1>4 DEF Send
  <2>4. ListenerFollows' /\ OutcomeIsTrue'
    BY <1>4 DEF Send
  <2> QED
    BY <2>1, <2>2, <2>3, <2>4
<1> QED
  BY <1>1, <1>2, <1>3, <1>4

\* The listener, its timer among it.
LEMMA WaitingKeeps ==
  ASSUME SdkInv, NEW t \in Tx,
         \/ Wait(t) \/ Query(t) \/ Subscribe(t) \/ Hear(t) \/ GetReceipt(t)
         \/ GetReason(t) \/ Timeout(t)
  PROVE  SdkInv'
<1> USE DEF SdkInv, SdkTypes, chain, account, waits, polling, OutcomeSettled,
            ListenerFollows, KnowsDeployed, OutcomeIsTrue, Move, Settle
<1>1. CASE Wait(t)
  BY <1>1 DEF Wait
<1>2. CASE Query(t)
  BY <1>2 DEF Query
<1>3. CASE Subscribe(t)
  BY <1>3 DEF Subscribe
<1>4. CASE Hear(t)
  BY <1>4 DEF Hear
<1>5. CASE GetReceipt(t)
  <2>1. CASE result[t] = "success"
    <3>1. /\ promise' = [promise EXCEPT ![t] = IF @ = "pending" THEN "ok" ELSE @]
          /\ listener' = [listener EXCEPT ![t] = "done"]
          /\ UNCHANGED <<height, deployed, pool, mined, result, tx, factory, from>>
          /\ isPhantom' \in {StillPhantom, isPhantom}
      BY <1>5, <2>1 DEF GetReceipt, OnReceipt
    <3> HIDE DEF Settle, Move
    <3>2. SdkTypes' /\ KnowsDeployed'
      BY <3>1 DEF StillPhantom
    <3>3. OutcomeSettled' /\ ListenerFollows' /\ OutcomeIsTrue'
      BY <2>1, <3>1
    <3> QED
      BY <3>2, <3>3
  <2>2. CASE result[t] # "success"
    BY <1>5, <2>2 DEF GetReceipt, OnReceipt, StillPhantom
  <2> QED
    BY <2>1, <2>2
<1>6. CASE GetReason(t)
  <2> HIDE DEF OutcomeSettled, ListenerFollows, KnowsDeployed, OutcomeIsTrue
  <2>1. SdkTypes'
    BY <1>6 DEF GetReason, StillPhantom
  <2>2. OutcomeSettled' /\ ListenerFollows'
    BY <1>6 DEF GetReason, OutcomeSettled, ListenerFollows
  <2>3. KnowsDeployed'
    BY <1>6 DEF GetReason, StillPhantom, KnowsDeployed
  <2>4. OutcomeIsTrue'
    BY <1>6 DEF GetReason, ListenerFollows, OutcomeIsTrue
  <2> QED
    BY <2>1, <2>2, <2>3, <2>4
<1>7. CASE Timeout(t)
  BY <1>7 DEF Timeout
<1> QED
  BY <1>1, <1>2, <1>3, <1>4, <1>5, <1>6, <1>7

LEMMA SdkInvStep == SdkInv /\ [SdkNext]_sdkVars => SdkInv'
<1> SUFFICES ASSUME SdkInv, [SdkNext]_sdkVars
             PROVE  SdkInv'
  OBVIOUS
<1>1. CASE UNCHANGED sdkVars \/ \E t \in Tx : StartPolling(t) \/ Poll(t) \/ GiveUp(t)
  BY <1>1 DEF StartPolling, Poll, GiveUp, sdkVars, chain, account, waits, polling, SdkInv,
              SdkTypes, OutcomeSettled, ListenerFollows, KnowsDeployed, OutcomeIsTrue
<1> QED
  BY <1>1, MineKeeps, SendingKeeps, WaitingKeeps DEF SdkNext

LEMMA SdkInvAlways == SdkFairSpec => []SdkInv
BY SdkInvInit, SdkInvStep, PTL DEF SdkFairSpec

\* What the account API takes for deployed is deployed, and an operation without
\* a factory is made for an account that exists (BaseAccountAPI.ts:100-113,
\* 132-137), although the chain moves between its reads and several transactions
\* of the account are made at once.
THEOREM DeployedIsKnown == SdkFairSpec => []KnowsDeployed
BY SdkInvAlways, PTL DEF SdkInv

\* Whatever the timer, the subscription and the two calls that settle the promise
\* do in which order, what wait() says is what happened
\* (UserOperationEventListener.ts:56-96).
THEOREM WaitTellsTheTruth == SdkFairSpec => []OutcomeIsTrue
BY SdkInvAlways, PTL DEF SdkInv

-----------------------------------------------------------------------------
(* The gas: one more unit of verification gas never makes an operation      *)
(* cheaper by more than it pays for it.                                     *)

LEMMA Quotient ==
  ASSUME NEW a \in Int, NEW m \in Nat \ {0}
  PROVE  /\ a \div m \in Int
         /\ m * (a \div m) <= a
         /\ a < m * (a \div m) + m
OBVIOUS

LEMMA Between ==
  ASSUME NEW m \in Nat \ {0}, NEW k \in Int, m * k < m
  PROVE  k <= 0
<1>1. k >= 1 => m * k >= m
  OBVIOUS
<1> QED
  BY <1>1

LEMMA QuotientShifts ==
  ASSUME NEW a \in Int, NEW m \in Nat \ {0}, NEW d \in Int
  PROVE  (a + m * d) \div m = a \div m + d
<1> DEFINE q == a \div m
           r == (a + m * d) \div m
<1>1. q \in Int /\ m * q <= a /\ a < m * q + m
  BY Quotient
<1>2. m * d \in Int /\ a + m * d \in Int
  OBVIOUS
<1>3. r \in Int /\ m * r <= a + m * d /\ a + m * d < m * r + m
  BY <1>2, Quotient
<1> HIDE DEF q, r
<1>4. /\ m * (r - q - d) = m * r - m * q - m * d
      /\ m * (q + d - r) = m * q + m * d - m * r
      /\ m * r \in Int /\ m * q \in Int
  BY <1>1, <1>3
<1>5. m * (r - q - d) < m /\ m * (q + d - r) < m
  BY <1>1, <1>2, <1>3, <1>4
<1>6. r - q - d <= 0 /\ q + d - r <= 0
  BY <1>1, <1>3, <1>5, Between
<1>7. r = q + d
  BY <1>1, <1>3, <1>6
<1> QED
  BY <1>7 DEF q, r

LEMMA QuotientMonotone ==
  ASSUME NEW a \in Int, NEW b \in Int, a <= b, NEW m \in Nat \ {0}
  PROVE  a \div m <= b \div m
<1> DEFINE q == a \div m
           r == b \div m
<1>1. q \in Int /\ m * q <= a
  BY Quotient
<1>2. r \in Int /\ b < m * r + m
  BY Quotient
<1> HIDE DEF q, r
<1>3. m * (q - r) = m * q - m * r /\ m * r \in Int /\ m * q \in Int
  BY <1>1, <1>2
<1>4. q - r <= 0
  BY <1>1, <1>2, <1>3, Between
<1>5. q <= r
  BY <1>1, <1>2, <1>4
<1> QED
  BY <1>5 DEF q, r

\* Math.round: whole gas passes through it, and more units are no less gas.
LEMMA RoundedShifts ==
  ASSUME NEW u \in Int, NEW d \in Int
  PROVE  Rounded(u) \in Int /\ Rounded(u + Unit * d) = Rounded(u) + d
<1> DEFINE m == 2 * Unit
           a == 2 * u + Unit
<1>1. Unit \in Nat \ {0} /\ m \in Nat \ {0} /\ a \in Int /\ Unit * d \in Int
  BY GasAssumption DEF GasAssumption
<1>2. 2 * (u + Unit * d) + Unit = a + m * d
  BY <1>1
<1>3. Rounded(u) = a \div m /\ Rounded(u + Unit * d) = (a + m * d) \div m
  BY <1>2 DEF Rounded
<1> HIDE DEF a, m
<1>4. a \div m \in Int
  BY <1>1, Quotient
<1>5. (a + m * d) \div m = a \div m + d
  BY <1>1, QuotientShifts
<1> QED
  BY <1>3, <1>4, <1>5

LEMMA RoundedMonotone ==
  ASSUME NEW u \in Int, NEW v \in Int, u <= v
  PROVE  Rounded(u) <= Rounded(v)
<1>1. Unit \in Nat \ {0}
  BY GasAssumption DEF GasAssumption
<1>2. 2 * u + Unit <= 2 * v + Unit /\ 2 * Unit \in Nat \ {0}
  BY <1>1
<1> QED
  BY <1>1, <1>2, QuotientMonotone DEF Rounded

-----------------------------------------------------------------------------
LEMMA TokensType ==
  ASSUME NEW o, o.zero \in Nat, o.nonzero \in Nat
  PROVE  Tokens(o) \in Int
<1> DEFINE D == {k \in {1, 256, 65536} : (o.pvg \div k) % 256 # 0}
<1>1. IsFiniteSet({1, 256, 65536})
  <2>1. IsFiniteSet({} \cup {1})
    BY FS_EmptySet, FS_AddElement
  <2>2. IsFiniteSet(({} \cup {1}) \cup {256})
    BY <2>1, FS_AddElement
  <2>3. IsFiniteSet((({} \cup {1}) \cup {256}) \cup {65536})
    BY <2>2, FS_AddElement
  <2>4. (({} \cup {1}) \cup {256}) \cup {65536} = {1, 256, 65536}
    OBVIOUS
  <2> QED
    BY <2>3, <2>4
<1>2. IsFiniteSet(D)
  BY <1>1, FS_Subset
<1>3. NonzeroBytes(o.pvg) \in Nat
  BY <1>2, FS_CardinalityType DEF NonzeroBytes
<1>4. Config.tokensPerByte \in Nat
  BY GasAssumption DEF GasAssumption
<1> QED
  BY <1>3, <1>4 DEF Tokens

\* The fields that the calculator reads.
IsGasOp(o) ==
  /\ o.zero \in Nat /\ o.nonzero \in Nat /\ o.callWords \in Nat /\ o.execGas \in Nat
  /\ o.pvg \in Nat

LEMMA CalculateParts ==
  ASSUME NEW o, IsGasOp(o)
  PROVE  /\ Standard(o) \in Int /\ Share(Config.stipend) \in Int
         /\ Unit * Config.floorGas * Tokens(o) \in Int
<1>1. /\ Unit \in Nat \ {0} /\ Config.stipend \in Nat /\ Config.fixed \in Nat
      /\ Config.bundleSize \in Nat \ {0} /\ Config.floorGas \in Nat
      /\ Config.perOp \in Nat /\ Config.authGas \in Nat /\ Config.execute \in Nat
      /\ Config.executeByteUnits \in Nat /\ Config.wordUnits \in Nat
      /\ Config.tokenGas \in Nat
  BY GasAssumption DEF GasAssumption
<1>2. Tokens(o) \in Int
  BY TokensType DEF IsGasOp
<1>3. \A g \in Nat : Share(g) \in Int
  BY <1>1 DEF Share
<1>4. OpOverhead(o) \in Int
  BY <1>1 DEF OpOverhead, Length, IsGasOp
<1>5. Unit * Config.tokenGas * Tokens(o) \in Int /\ Unit * Config.floorGas * Tokens(o) \in Int
  BY <1>1, <1>2
<1> QED
  BY <1>1, <1>3, <1>4, <1>5 DEF Standard

\* More verification gas never raises what is left for preVerificationGas to pay.
LEMMA CalculateFalls ==
  ASSUME NEW o, IsGasOp(o), NEW low \in Nat, NEW high \in Nat, low <= high
  PROVE  Calculate(o, high) <= Calculate(o, low)
<1> DEFINE S == Share(Config.stipend)
           A == Standard(o)
           F == Unit * Config.floorGas * Tokens(o)
           x == GasUsed(o, low)
           y == GasUsed(o, high)
           d == high - low
<1>1. S \in Int /\ A \in Int /\ F \in Int
  BY CalculateParts
<1>2. x \in Int /\ y \in Int /\ d \in Nat /\ y = x + d
  BY DEF GasUsed, IsGasOp
<1>3. Unit \in Nat \ {0}
  BY GasAssumption DEF GasAssumption
<1> HIDE DEF S, A, F, x, y, d
<1> DEFINE u == S + Larger(A + Unit * x, F)
           v == S + Larger(A + Unit * y, F)
<1>4. Unit * x \in Int /\ Unit * y \in Int /\ Unit * d \in Nat /\ Unit * y = Unit * x + Unit * d
  BY <1>2, <1>3
<1>5. u \in Int /\ v \in Int /\ v <= u + Unit * d /\ u + Unit * d \in Int
  BY <1>1, <1>4 DEF Larger
<1> HIDE DEF u, v
<1>6. Rounded(v) <= Rounded(u) + d /\ Rounded(u) \in Int /\ Rounded(v) \in Int
  BY <1>2, <1>5, RoundedShifts, RoundedMonotone
<1>7. Rounded(v) - y <= Rounded(u) - x
  BY <1>2, <1>6
<1>8. Unit * (Rounded(v) - y) <= Unit * (Rounded(u) - x)
  <2> DEFINE i == Rounded(v) - y
             j == Rounded(u) - x
  <2>1. i \in Int /\ j \in Int /\ i <= j
    BY <1>2, <1>6, <1>7
  <2> HIDE DEF i, j
  <2>2. Unit * i <= Unit * j
    BY <1>3, <2>1
  <2> QED
    BY <2>2 DEF i, j
<1>9. CASE UseEip7623
  BY <1>8, <1>9 DEF Calculate, TransactionCost, S, A, F, x, y, u, v
<1>10. CASE ~UseEip7623
  BY <1>1, <1>10 DEF Calculate, S, A
<1> QED
  BY <1>9, <1>10

LEMMA OpIsGasOp ==
  ASSUME NEW o \in Ops
  PROVE  IsGasOp(o)
<1> DEFINE g == [k \in {"zero", "nonzero", "callWords", "executes", "auth", "execGas",
                        "pvg"} |-> o[k]]
<1>1. g \in GasOp
  BY ValidationAssumption DEF ValidationAssumption
<1>2. /\ g.zero = o.zero /\ g.nonzero = o.nonzero /\ g.callWords = o.callWords
      /\ g.execGas = o.execGas /\ g.pvg = o.pvg
  OBVIOUS
<1> HIDE DEF g
<1> QED
  BY <1>1, <1>2 DEF GasOp, IsGasOp

LEMMA CalculateType ==
  ASSUME NEW o, IsGasOp(o), NEW v \in Nat
  PROVE  Calculate(o, v) \in Int
<1>1. Unit \in Nat \ {0}
  BY GasAssumption DEF GasAssumption
<1>2. Standard(o) + Unit * GasUsed(o, v) \in Int /\ GasUsed(o, v) \in Int
  BY <1>1, CalculateParts DEF GasUsed, IsGasOp
<1>3. TransactionCost(o, GasUsed(o, v)) \in Int
  <2> DEFINE u0 == Share(Config.stipend)
                    + Larger(Standard(o) + Unit * GasUsed(o, v),
                             Unit * Config.floorGas * Tokens(o))
  <2>1. u0 \in Int
    BY <1>2, CalculateParts DEF Larger
  <2> HIDE DEF u0
  <2>2. Rounded(u0) \in Int
    <3>1. 0 \in Int
      OBVIOUS
    <3> QED
      BY <2>1, <3>1, RoundedShifts
  <2> QED
    BY <2>2 DEF TransactionCost, u0
<1> QED
  BY <1>1, <1>2, <1>3, CalculateParts DEF Calculate

\* Where the floor does not count, the gas that is used costs what it pays.
LEMMA CalculateLevels ==
  ASSUME NEW o, IsGasOp(o), MaxVerification \in Nat, ~FloorCounts(o),
         NEW u \in Nat, u >= MaxVerification
  PROVE  Calculate(o, u) = Calculate(o, MaxVerification)
<1> DEFINE S == Share(Config.stipend)
           A == Standard(o)
           F == Unit * Config.floorGas * Tokens(o)
           x == GasUsed(o, MaxVerification)
           y == GasUsed(o, u)
<1>1. CASE ~UseEip7623
  BY <1>1 DEF Calculate
<1>2. CASE UseEip7623
  <2>1. S \in Int /\ A \in Int /\ F \in Int
    BY CalculateParts
  <2>2. x \in Int /\ y \in Int /\ x <= y
    BY DEF GasUsed, IsGasOp
  <2>3. Unit \in Nat \ {0} /\ Unit * x \in Int /\ Unit * y \in Int
    BY <2>2, GasAssumption DEF GasAssumption
  <2>4. A + Unit * x >= F
    BY <1>2, <2>1, <2>3 DEF FloorCounts
  <2>5. /\ Calculate(o, MaxVerification) = Unit * (Rounded(S + Larger(A + Unit * x, F)) - x)
        /\ Calculate(o, u) = Unit * (Rounded(S + Larger(A + Unit * y, F)) - y)
    BY <1>2 DEF Calculate, TransactionCost
  <2> HIDE DEF S, A, F, x, y
  <2>6. Unit * x <= Unit * y
    <3>1. y - x \in Nat /\ Unit * (y - x) \in Nat /\ Unit * y = Unit * x + Unit * (y - x)
      BY <2>2, <2>3
    <3> QED
      BY <2>3, <3>1
  <2>7. Larger(A + Unit * x, F) = A + Unit * x /\ Larger(A + Unit * y, F) = A + Unit * y
    BY <2>1, <2>3, <2>4, <2>6 DEF Larger
  <2>8. Rounded(S + A) \in Int
    BY <2>1, <2>2, RoundedShifts
  <2>9. \A d \in Int : Rounded(S + (A + Unit * d)) - d = Rounded(S + A)
    <3> TAKE d \in Int
    <3>1. Unit * d \in Int /\ S + A \in Int
      BY <2>1, <2>3
    <3>2. S + (A + Unit * d) = (S + A) + Unit * d
      BY <2>1, <3>1
    <3>3. Rounded((S + A) + Unit * d) = Rounded(S + A) + d
      BY <3>1, RoundedShifts
    <3> QED
      BY <2>8, <3>2, <3>3
  <2> QED
    BY <2>2, <2>5, <2>7, <2>9
<1> QED
  BY <1>1, <1>2

LEMMA PvgValidRises ==
  ASSUME NEW o \in Ops, NEW u \in Nat, PvgValid(o, u), u <= MaxVerification \/ ~FloorCounts(o)
  PROVE  PvgValid(o, MaxVerification)
<1>1. IsGasOp(o) /\ MaxVerification \in Nat
  BY OpIsGasOp, ValidationAssumption DEF ValidationAssumption
<1>2. Calculate(o, MaxVerification) <= Calculate(o, u)
  <2>1. CASE u <= MaxVerification
    BY <1>1, <2>1, CalculateFalls
  <2>2. CASE u > MaxVerification
    <3>1. Calculate(o, u) = Calculate(o, MaxVerification)
      BY <1>1, <2>2, CalculateLevels
    <3> QED
      BY <1>1, <3>1, CalculateType
  <2> QED
    BY <1>1, <2>1, <2>2
<1>3. Calculate(o, u) \in Int /\ Calculate(o, MaxVerification) \in Int
  BY <1>1, CalculateType
<1>4. Unit * o.pvg \in Int
  BY <1>1, GasAssumption DEF IsGasOp, GasAssumption
<1> QED
  BY <1>2, <1>3, <1>4 DEF PvgValid

-----------------------------------------------------------------------------
(* The time.                                                                *)

LEMMA WindowType ==
  ASSUME NEW w \in Windows
  PROVE  /\ w.after \in Nat /\ w.until \in Nat /\ w.until <= Forever
         /\ w = [after |-> w.after, until |-> w.until]
         /\ Future \in Nat /\ Forever \in Nat
BY ValidationAssumption DEF ValidationAssumption

LEMMA ParsedRange ==
  ASSUME NEW w \in Windows
  PROVE  /\ Parsed(w).after = w.after
         /\ Parsed(w).until = IF w.until = 0 THEN Forever ELSE w.until
BY WindowType DEF Parsed

\* The common range is within both.
LEMMA MergedIsDue ==
  ASSUME NEW a \in Windows, NEW p \in Windows, now \in Nat, InRange(Merged(op, a, p))
  PROVE  Lasting(a, now) /\ (op.paymaster # "none" => Lasting(p, now))
BY WindowType, ParsedRange DEF Merged, InRange, Lasting

\* And is no smaller than both together, until the end of time.
LEMMA DueIsMerged ==
  ASSUME NEW a \in Windows, NEW p \in Windows, now \in Nat, now + Future < Forever,
         Lasting(a, now), op.paymaster # "none" => Lasting(p, now)
  PROVE  InRange(Merged(op, a, p))
BY WindowType, ParsedRange DEF Merged, InRange, Lasting

-----------------------------------------------------------------------------
(* The inductive invariant.                                                 *)

Stages == {"input", "code", "trace", "stakes", "hashes", "accepted", "refused"}

\* The result of a simulation.
IsRun(t) ==
  /\ t = [ok |-> t.ok, account |-> t.account, paymaster |-> t.paymaster,
          code |-> t.code, breaks |-> t.breaks, used |-> t.used]
  /\ t.account \in Windows /\ t.paymaster \in Windows
  /\ t.breaks \in {"none", "unstaked", "rule"}
  /\ DOMAIN t.code \subseteq Contracts

ValTypes ==
  /\ op \in Ops /\ mode \in Modes
  /\ now \in 0..MaxTime
  /\ code \in [Contracts -> Nat]
  /\ staked \in BOOLEAN
  /\ round \in {1, 2}
  /\ stage \in Stages
  /\ trace = NoTrace \/ IsRun(trace)
  /\ known = Unknown \/ DOMAIN known \subseteq Contracts
  /\ judged = [staked |-> judged.staked, now |-> judged.now, code |-> judged.code,
               first |-> judged.first]
  /\ unseen \subseteq Contracts

\* What the next stage finds: the ranges of this trace, and in round 2 the hashes
\* of round 1.
Staged ==
  /\ stage = "input" => round = 1
  /\ round = 1 /\ stage \in {"input", "code", "trace"} => trace = NoTrace /\ known = Unknown
  /\ round = 2 \/ stage \in {"stakes", "hashes", "accepted"} => IsRun(trace)
  /\ round = 2 \/ stage = "accepted" => known # Unknown
  /\ stage \in {"stakes", "hashes"} =>
       /\ mode # "unsafe" /\ trace.ok
       /\ range = Merged(op, trace.account, trace.paymaster)
  /\ stage = "hashes" => round = 1

\* The tables a and b of code agree, but for what was upgraded unseen.
Agree(a, b) == \A k \in DOMAIN a \cap DOMAIN b : a[k] = b[k] \/ k \in unseen

\* The first trace, the hashes, the chain at the comparison and the second trace
\* agree one with the next.
CodeFollowed ==
  /\ round = 1 /\ stage \in {"stakes", "hashes"} => Agree(trace.code, code)
  /\ round = 2 \/ stage = "accepted" =>
       DOMAIN known = DOMAIN judged.first /\ Agree(judged.first, known)
  /\ round = 2 /\ stage = "trace" => Agree(known, code)
  /\ round = 2 /\ stage \in {"stakes", "accepted"} => Agree(known, trace.code)

ValInv ==
  ValTypes /\ Staged /\ CodeFollowed /\ AcceptedInTime /\ EarlyRefusalIsFinal

LEMMA UnknownIsNoTable == Unknown # NoTrace /\ ~(DOMAIN Unknown \subseteq Contracts)
<1>1. DOMAIN Unknown = {"none"} /\ DOMAIN NoTrace = {"ok"}
  BY DEF Unknown, NoTrace
<1>2. "none" \notin Contracts
  BY ValidationAssumption DEF ValidationAssumption
<1> QED
  BY <1>1, <1>2

LEMMA RunIsNoTrace ==
  ASSUME NEW t, IsRun(t)
  PROVE  t # NoTrace
<1>1. DOMAIN t = {"ok", "account", "paymaster", "code", "breaks", "used"}
  BY DEF IsRun
<1>2. DOMAIN NoTrace = {"ok"}
  BY DEF NoTrace
<1> QED
  BY <1>1, <1>2

LEMMA RunsIsRun ==
  ASSUME NEW a \in Windows, NEW p \in Windows, NEW refs \in SUBSET Contracts,
         NEW breaks \in {"none", "unstaked", "rule"}, NEW used
  PROVE  IsRun(Runs(a, p, refs, breaks, used))
BY DEF Runs, IsRun

LEMMA ValInvInit == Init => ValInv
<1> SUFFICES ASSUME Init PROVE ValInv
  OBVIOUS
<1>1. staked \in BOOLEAN
  BY DEF Init
<1>2. ValTypes
  BY <1>1, ValidationAssumption DEF Init, ValTypes, Stages, ValidationAssumption
<1>3. Staged /\ CodeFollowed /\ AcceptedInTime /\ EarlyRefusalIsFinal
  BY DEF Init, Staged, CodeFollowed, AcceptedInTime, EarlyRefusalIsFinal
<1> QED
  BY <1>2, <1>3 DEF ValInv

\* The parameters, the code and the answer of the trace.
LEMMA BeginKeeps ==
  ASSUME ValInv, CheckInput \/ CheckCode
  PROVE  ValInv'
<1> USE DEF ValInv
<1>1. CASE CheckInput
  <2>1. stage = "input" /\ stage' \in {"code", "refused"} /\ round = 1 /\ trace = NoTrace
        /\ UNCHANGED <<op, mode, now, code, staked, round, trace, range, known, judged, unseen>>
    BY <1>1 DEF CheckInput, Refuse, Staged
  <2>2. ValTypes'
    BY <2>1 DEF ValTypes, Stages
  <2>3. Staged' /\ CodeFollowed' /\ AcceptedInTime'
    BY <2>1 DEF Staged, CodeFollowed, AcceptedInTime
  <2>4. EarlyRefusalIsFinal'
    <3>1. stage' = "refused" => ~WellFormed(op) \/ ~PvgValid(op, MaxVerification)
      BY <1>1 DEF CheckInput, Refuse, InputValid
    <3>2. op \in Ops
      BY DEF ValTypes
    <3> QED
      <4>1. \A u \in Verifications \union {op.limits} : u \in Nat
        BY <3>2, ValidationAssumption DEF ValidationAssumption
      <4>2. MaxVerification \in Nat
        BY ValidationAssumption DEF ValidationAssumption
      <4>3. ~PvgValid(op, MaxVerification) =>
              \A u \in Verifications \union {op.limits} :
                PvgValid(op, u) => u > MaxVerification /\ FloorCounts(op)
        BY <3>2, <4>1, <4>2, PvgValidRises
      <4> QED
        BY <2>1, <3>1, <4>3 DEF EarlyRefusalIsFinal
  <2> QED
    BY <2>2, <2>3, <2>4
<1>2. CASE CheckCode
  <2>1. stage = "code" /\ stage' \in {"trace", "refused"}
        /\ judged' = [judged EXCEPT !.code = code]
        /\ UNCHANGED <<op, mode, now, code, staked, round, trace, range, known, unseen>>
    BY <1>2 DEF CheckCode, Refuse
  <2>2. ValTypes'
    BY <2>1 DEF ValTypes, Stages
  <2>3. Staged' /\ AcceptedInTime'
    BY <2>1 DEF Staged, AcceptedInTime
  <2>4. CodeFollowed'
    <3>1. judged'.first = judged.first
      BY <2>1 DEF ValTypes
    <3>2. stage' # "refused" /\ round = 2 => \A k \in DOMAIN known : code[k] = known[k]
      BY <1>2, <2>1 DEF CheckCode, SameCode, Staged, Refuse
    <3> QED
      BY <2>1, <3>1, <3>2 DEF CodeFollowed, Agree
  <2>5. EarlyRefusalIsFinal'
    <3>1. trace = NoTrace => round = 1 /\ known = Unknown
      BY <2>1, RunIsNoTrace DEF Staged, ValTypes
    <3>2. stage' = "refused" /\ known = Unknown => ~AuthValid(op)
      BY <1>2, <2>1 DEF CheckCode, SameCode
    <3> QED
      BY <2>1, <3>1, <3>2 DEF EarlyRefusalIsFinal
  <2> QED
    BY <2>2, <2>3, <2>4, <2>5
<1> QED
  BY <1>1, <1>2

LEMMA TraceKeeps ==
  ASSUME ValInv, Trace
  PROVE  ValInv'
<1> USE DEF ValInv
<1>1. PICK a \in Windows, p \in Windows, refs \in SUBSET Contracts,
           breaks \in {"none", "unstaked", "rule"}, used \in Verifications :
        /\ trace' = Runs(a, p, refs, breaks, used)
        /\ range' = Merged(op, a, p)
        /\ IF trace'.ok /\ Decodes(op, mode) THEN stage' = "stakes" ELSE Refuse
  BY DEF Trace
<1>2. IsRun(trace') /\ trace'.account = a /\ trace'.paymaster = p /\ trace' # NoTrace
  BY <1>1, RunsIsRun, RunIsNoTrace DEF Runs
<1>3. /\ stage = "trace" /\ stage' \in {"stakes", "refused"} /\ mode # "unsafe"
      /\ UNCHANGED <<op, mode, now, code, staked, round, known, judged, unseen>>
      /\ stage' = "stakes" => trace'.ok
  BY <1>1 DEF Trace, Refuse
<1>4. ValTypes'
  BY <1>2, <1>3 DEF ValTypes, Stages
<1>5. Staged'
  BY <1>1, <1>2, <1>3 DEF Staged, Merged
<1>6. CodeFollowed'
  <2>1. trace'.code = [k \in refs |-> code[k]]
    BY <1>1 DEF Runs
  <2>2. DOMAIN code = Contracts
    BY DEF ValTypes
  <2>3. Agree(trace'.code, code) /\ (Agree(known, code) => Agree(known, trace'.code))
    BY <2>1, <2>2 DEF Agree
  <2>4. round = 2 => Agree(judged.first, known) /\ DOMAIN known = DOMAIN judged.first
                     /\ Agree(known, code)
    BY <1>3 DEF CodeFollowed
  <2> QED
    BY <1>3, <2>3, <2>4 DEF CodeFollowed, Agree
<1>7. AcceptedInTime' /\ EarlyRefusalIsFinal'
  BY <1>2, <1>3 DEF AcceptedInTime, EarlyRefusalIsFinal
<1> QED
  BY <1>4, <1>5, <1>6, <1>7

\* The decision that follows the last answer.
LEMMA ConcludeDecides ==
  ASSUME ValTypes, NEW used, Conclude(used), UNCHANGED now
  PROVE  /\ stage' \in {"accepted", "refused"}
         /\ stage' = "accepted" => InRange(range')
         /\ judged'.code = judged.code /\ judged'.now = now /\ judged'.staked = staked
         /\ judged' = [staked |-> judged'.staked, now |-> judged'.now,
                       code |-> judged'.code, first |-> judged'.first]
         /\ judged'.first = IF round = 1 THEN trace'.code ELSE judged.first
<1>1. judged' = [staked |-> staked, now |-> now, code |-> judged.code,
                 first |-> IF round = 1 THEN trace'.code ELSE judged.first]
  <2>1. judged' = [judged EXCEPT !.now = now, !.staked = staked,
                                 !.first = IF round = 1 THEN trace'.code ELSE @]
    BY DEF Conclude
  <2> QED
    BY <2>1 DEF ValTypes
<1>2. stage' \in {"accepted", "refused"} /\ (stage' = "accepted" => InRange(range'))
  BY DEF Conclude, Refuse
<1> QED
  BY <1>1, <1>2

LEMMA SimulateKeeps ==
  ASSUME ValInv, Simulate
  PROVE  ValInv'
<1> USE DEF ValInv
<1>1. PICK a \in Windows, p \in Windows, breaks \in {"none", "rule"} :
        trace' = Runs(a, p, {}, breaks, op.limits)
  BY DEF Simulate
<1>2. IsRun(trace') /\ trace' # NoTrace
  BY <1>1, RunsIsRun, RunIsNoTrace
<1>3. /\ stage = "trace" /\ mode = "unsafe"
      /\ UNCHANGED <<op, mode, now, code, staked, round, unseen>>
  BY DEF Simulate
<1>4. CASE ~trace'.ok
  <2>1. stage' = "refused" /\ UNCHANGED <<known, judged>>
    BY <1>4 DEF Simulate, Refuse
  <2>2. ValTypes'
    BY <1>2, <1>3, <2>1 DEF ValTypes, Stages
  <2>3. Staged' /\ AcceptedInTime' /\ EarlyRefusalIsFinal'
    BY <1>2, <1>3, <2>1 DEF Staged, AcceptedInTime, EarlyRefusalIsFinal
  <2>4. CodeFollowed'
    BY <1>3, <2>1 DEF CodeFollowed, Agree
  <2> QED
    BY <2>2, <2>3, <2>4
<1>5. CASE trace'.ok
  <2>1. Conclude(op.limits) /\ known' = IF round = 1 THEN <<>> ELSE known
    BY <1>5 DEF Simulate
  <2>2. /\ stage' \in {"accepted", "refused"} /\ judged'.code = judged.code
        /\ judged' = [staked |-> judged'.staked, now |-> judged'.now,
                      code |-> judged'.code, first |-> judged'.first]
        /\ judged'.first = IF round = 1 THEN trace'.code ELSE judged.first
    BY <1>3, <2>1, ConcludeDecides
  <2>3. DOMAIN <<>> \subseteq Contracts /\ <<>> # Unknown
    BY UnknownIsNoTable
  <2>4. ValTypes'
    BY <1>2, <1>3, <2>1, <2>2, <2>3 DEF ValTypes, Stages
  <2>5. Staged'
    BY <1>2, <1>3, <2>1, <2>2, <2>3 DEF Staged, ValTypes
  <2>6. CodeFollowed'
    <3>1. trace'.code = [k \in {} |-> code[k]]
      BY <1>1 DEF Runs
    <3>2. DOMAIN trace'.code = {} /\ DOMAIN <<>> = {}
      BY <3>1
    <3>3. CASE round = 1
      BY <1>3, <2>1, <2>2, <3>2, <3>3 DEF CodeFollowed, Agree
    <3>4. CASE round = 2
      BY <1>3, <2>1, <2>2, <3>2, <3>4 DEF CodeFollowed, Agree
    <3> QED
      BY <3>3, <3>4 DEF ValTypes
  <2>7. AcceptedInTime' /\ EarlyRefusalIsFinal'
    BY <1>2, <1>3, <2>2 DEF AcceptedInTime, EarlyRefusalIsFinal
  <2> QED
    BY <2>4, <2>5, <2>6, <2>7
<1> QED
  BY <1>4, <1>5

\* What is accepted after a trace was in the range of the trace.
LEMMA AcceptedInRange ==
  ASSUME ValTypes, IsRun(trace), mode # "unsafe", UNCHANGED <<op, mode, now, trace, range>>,
         range = Merged(op, trace.account, trace.paymaster),
         stage' = "accepted" => InRange(range'), judged'.now = now
  PROVE  AcceptedInTime'
<1> SUFFICES ASSUME stage' = "accepted"
             PROVE  \A w \in Ranges : Lasting(w, now)
  BY DEF AcceptedInTime, Ranges, Lasting
<1>1. InRange(Merged(op, trace.account, trace.paymaster))
  BY DEF InRange
<1>2. now \in Nat
  BY ValidationAssumption DEF ValTypes, ValidationAssumption
<1>3. /\ Lasting(trace.account, now)
      /\ op.paymaster # "none" => Lasting(trace.paymaster, now)
  BY <1>1, <1>2, MergedIsDue DEF IsRun
<1> QED
  BY <1>3 DEF Ranges

LEMMA StakesKeeps ==
  ASSUME ValInv, Stakes
  PROVE  ValInv'
<1> USE DEF ValInv
<1>1. /\ stage = "stakes" /\ mode # "unsafe" /\ IsRun(trace) /\ trace # NoTrace
      /\ range = Merged(op, trace.account, trace.paymaster)
      /\ UNCHANGED <<op, mode, now, code, staked, round, known, trace, range, unseen>>
  BY RunIsNoTrace DEF Stakes, Staged
<1>2. CASE Conclude(trace.used) /\ round = 2
  <2>1. /\ stage' \in {"accepted", "refused"} /\ judged'.code = judged.code
        /\ stage' = "accepted" => InRange(range')
        /\ judged'.now = now
        /\ judged' = [staked |-> judged'.staked, now |-> judged'.now,
                      code |-> judged'.code, first |-> judged'.first]
        /\ judged'.first = IF round = 1 THEN trace'.code ELSE judged.first
    BY <1>1, <1>2, ConcludeDecides
  <2>2. ValTypes'
    BY <1>1, <2>1 DEF ValTypes, Stages
  <2>3. Staged' /\ CodeFollowed'
    BY <1>1, <1>2, <2>1 DEF Staged, CodeFollowed, Agree
  <2>4. AcceptedInTime'
    BY <1>1, <2>1, AcceptedInRange
  <2>5. EarlyRefusalIsFinal'
    BY <1>1, <2>1 DEF EarlyRefusalIsFinal
  <2> QED
    BY <2>2, <2>3, <2>4, <2>5
<1>3. CASE /\ judged' = [judged EXCEPT !.staked = staked]
           /\ IF Complies(trace.breaks) THEN stage' = "hashes" ELSE Refuse
           /\ ~(Complies(trace.breaks) /\ round = 2)
  <2>1. /\ stage' \in {"hashes", "refused"}
        /\ stage' = "hashes" => round = 1
    BY <1>1, <1>3 DEF Refuse, ValTypes
  <2>2. ValTypes'
    BY <1>1, <1>3, <2>1 DEF ValTypes, Stages
  <2>3. Staged'
    BY <1>1, <2>1 DEF Staged
  <2>4. AcceptedInTime' /\ EarlyRefusalIsFinal'
    BY <1>1, <2>1 DEF AcceptedInTime, EarlyRefusalIsFinal
  <2>5. CodeFollowed'
    <3>1. judged'.first = judged.first
      BY <1>3 DEF ValTypes
    <3> QED
      BY <1>1, <2>1, <3>1 DEF CodeFollowed, Agree
  <2> QED
    BY <2>2, <2>3, <2>4, <2>5
<1> QED
  BY <1>2, <1>3 DEF Stakes

LEMMA HashesKeeps ==
  ASSUME ValInv, Hashes
  PROVE  ValInv'
<1> USE DEF ValInv
<1>1. /\ stage = "hashes" /\ mode # "unsafe" /\ IsRun(trace) /\ trace # NoTrace /\ round = 1
      /\ range = Merged(op, trace.account, trace.paymaster)
      /\ UNCHANGED <<op, mode, now, code, staked, round, trace, range, unseen>>
  BY RunIsNoTrace DEF Hashes, Staged
<1>2. /\ stage' \in {"accepted", "refused"} /\ judged'.code = judged.code
      /\ stage' = "accepted" => InRange(range')
      /\ judged'.now = now
      /\ judged' = [staked |-> judged'.staked, now |-> judged'.now,
                    code |-> judged'.code, first |-> judged'.first]
      /\ judged'.first = trace.code
  BY <1>1, ConcludeDecides DEF Hashes
<1>3. DOMAIN known' \subseteq Contracts /\ known' # Unknown
  <2>1. known' = [k \in DOMAIN trace.code |-> code[k]]
    BY DEF Hashes, CodeHashes
  <2> QED
    BY <1>1, <2>1, UnknownIsNoTable DEF IsRun
<1>4. ValTypes'
  BY <1>1, <1>2, <1>3 DEF ValTypes, Stages
<1>5. Staged'
  BY <1>1, <1>2, <1>3 DEF Staged
<1>8. CodeFollowed'
  <2>1. known' = [k \in DOMAIN trace.code |-> code[k]]
    BY DEF Hashes, CodeHashes
  <2>2. Agree(trace.code, code) /\ DOMAIN trace.code \subseteq DOMAIN code
    BY <1>1 DEF CodeFollowed, ValTypes, IsRun
  <2>3. DOMAIN known' = DOMAIN trace.code
        /\ \A k \in DOMAIN trace.code : trace.code[k] = known'[k] \/ k \in unseen
    BY <2>1, <2>2 DEF Agree
  <2> QED
    BY <1>1, <1>2, <2>3 DEF CodeFollowed, Agree
<1>6. AcceptedInTime'
  BY <1>1, <1>2, AcceptedInRange
<1>7. EarlyRefusalIsFinal'
  BY <1>1, <1>2 DEF EarlyRefusalIsFinal
<1> QED
  BY <1>4, <1>5, <1>6, <1>7, <1>8

LEMMA AgainKeeps ==
  ASSUME ValInv, Again
  PROVE  ValInv'
<1> USE DEF ValInv
<1>1. ValTypes'
  BY DEF Again, ValTypes, Stages
<1>2. Staged' /\ CodeFollowed'
  BY DEF Again, Staged, CodeFollowed, Agree
<1>3. AcceptedInTime' /\ EarlyRefusalIsFinal'
  BY DEF Again, AcceptedInTime, EarlyRefusalIsFinal
<1> QED
  BY <1>1, <1>2, <1>3

\* The chain moves on: nothing was judged by it.
LEMMA ChainKeeps ==
  ASSUME ValInv, Tick \/ Upgrade \/ Unstake
  PROVE  ValInv'
<1> USE DEF ValInv
<1>1. UNCHANGED <<op, mode, round, stage, trace, range, known, judged>>
  BY DEF Tick, Upgrade, Unstake
<1>2. MaxTime \in Nat
  BY ValidationAssumption DEF ValidationAssumption
<1>3. now' \in 0..MaxTime
  BY <1>2 DEF Tick, Upgrade, Unstake, ValTypes
<1>4. code' \in [Contracts -> Nat]
  BY DEF Tick, Upgrade, Unstake, ValTypes
<1>5. staked' \in BOOLEAN
  BY DEF Tick, Upgrade, Unstake, ValTypes
<1>6. unseen \subseteq unseen' /\ unseen' \subseteq Contracts
  BY DEF Tick, Upgrade, Unstake, ValTypes
<1>7. ValTypes'
  BY <1>1, <1>3, <1>4, <1>5, <1>6 DEF ValTypes
<1>8. Staged' /\ AcceptedInTime' /\ EarlyRefusalIsFinal'
  BY <1>1 DEF Staged, AcceptedInTime, EarlyRefusalIsFinal, Ranges, Merged
<1>9. CodeFollowed'
  <2>1. Gap => \A k \in Contracts : code'[k] = code[k] \/ k \in unseen'
    BY DEF Tick, Upgrade, Unstake, ValTypes
  <2>2. DOMAIN code = Contracts /\ DOMAIN code' = Contracts
    BY <1>4 DEF ValTypes
  <2>3. round = 1 /\ stage \in {"stakes", "hashes"} => Agree(trace.code, code)'
    BY <1>1, <1>6, <2>1, <2>2 DEF CodeFollowed, Agree, Gap
  <2>4. round = 2 /\ stage = "trace" => Agree(known, code)'
    BY <1>1, <1>6, <2>1, <2>2 DEF CodeFollowed, Agree, Gap
  <2>5. /\ Agree(judged.first, known) => Agree(judged.first, known)'
        /\ Agree(known, trace.code) => Agree(known, trace.code)'
    BY <1>1, <1>6 DEF Agree
  <2> QED
    BY <1>1, <2>3, <2>4, <2>5 DEF CodeFollowed
<1> QED
  BY <1>7, <1>8, <1>9

LEMMA ValInvStep == ValInv /\ [Next]_vars => ValInv'
<1> SUFFICES ASSUME ValInv, [Next]_vars
             PROVE  ValInv'
  OBVIOUS
<1>1. CASE UNCHANGED vars
  <2>1. UNCHANGED <<op, mode, now, code, staked, round, stage, trace, range, known,
                    judged, unseen>>
    BY <1>1 DEF vars
  <2>2. ValTypes' /\ Staged'
    BY <2>1 DEF ValInv, ValTypes, Staged
  <2>3. CodeFollowed' /\ AcceptedInTime' /\ EarlyRefusalIsFinal'
    BY <2>1 DEF ValInv, CodeFollowed, Agree, AcceptedInTime, EarlyRefusalIsFinal, Ranges
  <2> QED
    BY <2>2, <2>3 DEF ValInv
<1> QED
  BY <1>1, BeginKeeps, TraceKeeps, SimulateKeeps, StakesKeeps, HashesKeeps, AgainKeeps,
     ChainKeeps DEF Next

LEMMA ValInvAlways == ValidationSpec => []ValInv
BY ValInvInit, ValInvStep, PTL DEF ValidationSpec

\* What is accepted, in either round, is due when the last answer of the node is
\* judged, and stays valid for VALID_UNTIL_FUTURE_SECONDS, for the account and
\* for the paymaster (ValidationManager.ts:128-206, 423-434).
THEOREM AcceptedIsInTime == ValidationSpec => []AcceptedInTime
BY ValInvAlways, PTL DEF ValInv

\* What the second simulation of an accepted operation runs is what the first one
\* ran, wherever both went, but for the upgrades that fall between a trace and the
\* hashes taken for it (ValidationManager.ts:342-348, 391-393).
THEOREM ModifiedCodeIsNoticed == ValidationSpec => []ModifiedCodeNoticed
<1>1. ValInv => ModifiedCodeNoticed
  BY DEF ValInv, CodeFollowed, Agree, ModifiedCodeNoticed
<1> QED
  BY ValInvAlways, <1>1, PTL

\* For any table of gas costs, the early check of preVerificationGas refuses
\* nothing that the check with the gas that was used, however much, or with the
\* limits would let pass, unless EIP-7623's floor counts even at
\* MAX_VERIFICATION_GAS_USED and more than that is used
\* (ValidationManager.ts:405, 448-452, 522-532).
THEOREM EarlyRefusalStaysFinal == ValidationSpec => []EarlyRefusalIsFinal
BY ValInvAlways, PTL DEF ValInv

-----------------------------------------------------------------------------
(* Every refusal has its reason.                                            *)

\* Every simulation is traced by a native tracer, or not at all.
NoJsTracer == "js" \notin Modes

\* No operation has the EIP-7702 marker with factoryData of "0x".
NoEmptyFactoryData == \A o \in Ops : ~(o.factory = "marker" /\ o.data = "0x")

\* The clock is far from maxUint48.
ClockFits == MaxTime + Future < Forever

LEMMA OneMore ==
  ASSUME NEW S, NEW s \in Seq(S), NEW x \in S
  PROVE  /\ s \o <<x>> \in Seq(S) /\ Len(s \o <<x>>) = Len(s) + 1
         /\ (s \o <<x>>)[Len(s) + 1] = x
         /\ \A i \in 1..Len(s) : (s \o <<x>>)[i] = s[i]
OBVIOUS

\* The calls are found where they are, for every shape of operation.
LEMMA CallsAreFound ==
  ASSUME NoEmptyFactoryData, NEW o \in Ops, WellFormed(o)
  PROVE  Decodes(o, "native")
<1> DEFINE create == o.factory = "contract" \/ (o.factory = "marker" /\ o.data = "some")
<1>1. /\ o.factory \in {"none", "contract", "marker"} /\ o.data \in {"none", "0x", "some"}
      /\ o.paymaster \in {"none", "whole"}
  BY ValidationAssumption DEF ValidationAssumption, WellFormed
<1>2. Skipped(o) = IF create THEN 1 ELSE 0
  BY <1>1 DEF Skipped, NoEmptyFactoryData
<1> DEFINE c == IF create THEN <<"create">> ELSE <<>>
           d == c \o <<"account">>
           e == d \o (IF o.paymaster # "none" THEN <<"paymaster">> ELSE <<>>)
           f == e \o <<"inner">>
           k == IF o.paymaster # "none" THEN Len(c) + 2 ELSE Len(c) + 1
<1> DEFINE S == {"create", "account", "paymaster", "inner"}
<1>3. c \in Seq(S) /\ Len(c) = Skipped(o)
  <2>1. CASE create
    <3>1. c = <<"create">> /\ Skipped(o) = 1
      BY <1>2, <2>1
    <3>2. <<"create">> \in Seq(S) /\ Len(<<"create">>) = 1
      OBVIOUS
    <3> QED
      BY <3>1, <3>2
  <2>2. CASE ~create
    BY <1>2, <2>2
  <2> QED
    BY <2>1, <2>2
<1>4. "account" \in S /\ "paymaster" \in S /\ "inner" \in S
  OBVIOUS
<1> HIDE DEF c, S
<1>5. d \in Seq(S) /\ Len(d) = Len(c) + 1 /\ d[Len(c) + 1] = "account"
  BY <1>3, <1>4, OneMore
<1> HIDE DEF d
<1>6. /\ e \in Seq(S) /\ Len(e) = k /\ e[Len(c) + 1] = "account"
      /\ o.paymaster # "none" => e[Len(c) + 2] = "paymaster"
  <2>1. CASE o.paymaster = "none"
    BY <1>5, <2>1
  <2>2. CASE o.paymaster # "none"
    <3>1. e = d \o <<"paymaster">>
      BY <2>2
    <3> HIDE DEF e
    <3>2. /\ e \in Seq(S) /\ Len(e) = Len(d) + 1 /\ e[Len(d) + 1] = "paymaster"
          /\ \A i \in 1..Len(d) : e[i] = d[i]
      BY <1>5, <1>4, <3>1, OneMore
    <3> QED
      BY <1>3, <1>5, <2>2, <3>2
  <2> QED
    BY <2>1, <2>2
<1> HIDE DEF e
<1>7. /\ f \in Seq(S) /\ Len(f) = k + 1 /\ f[k + 1] = "inner"
      /\ \A i \in 1..k : f[i] = e[i]
  BY <1>6, <1>4, OneMore
<1> HIDE DEF f
<1>8. Len(c) \in Nat
  BY <1>3
<1>9. /\ DOMAIN f = 1..(k + 1) /\ f[Len(c) + 1] = "account"
      /\ o.paymaster # "none" => f[Len(c) + 2] = "paymaster"
  BY <1>6, <1>7, <1>8
<1>10. EntryPointCalls(o) = f
  BY DEF EntryPointCalls, c, d, e, f
<1> QED
  BY <1>3, <1>7, <1>9, <1>10, <1>8 DEF Decodes

\* Past the first stage the fields are complete; what is refused deserves it.
ReasonInv ==
  /\ ValInv
  /\ stage \notin {"input", "refused"} => WellFormed(op)
  /\ RefusedWithReason

\* The reasons that are seen last.
LEMMA ConcludeHasReason ==
  ASSUME ClockFits, ValTypes, IsRun(trace'), trace'.ok, UNCHANGED <<op, now>>,
         Conclude(trace'.used),
         \/ range'.after = 0 /\ range'.until = 0
         \/ range' = Merged(op, trace'.account, trace'.paymaster)
  PROVE  RefusedWithReason'
<1> SUFFICES ASSUME stage' = "refused" PROVE Deserved'
  BY DEF RefusedWithReason
<1>1. ~PvgValid(op, trace'.used) \/ ~InRange(range')
  BY DEF Conclude
<1>2. /\ now \in Nat /\ now + Future < Forever /\ Future \in Nat
  BY ValidationAssumption DEF ValTypes, ValidationAssumption, ClockFits
<1>3. judged'.now = now
  BY ConcludeDecides
<1>4. CASE ~PvgValid(op, trace'.used)
  BY <1>4 DEF Deserved
<1>5. CASE ~InRange(range')
  <2>1. range' = Merged(op, trace'.account, trace'.paymaster)
    BY <1>2, <1>5 DEF InRange
  <2>2. ~Lasting(trace'.account, now) \/ (op.paymaster # "none" /\ ~Lasting(trace'.paymaster, now))
    BY <1>2, <1>5, <2>1, DueIsMerged DEF IsRun
  <2>3. trace'.ok /\ \E w \in Ranges' : ~Lasting(w, judged'.now)
    BY <1>3, <2>2 DEF Ranges
  <2> QED
    BY <2>3 DEF Deserved, Lasting
<1> QED
  BY <1>1, <1>4, <1>5

LEMMA ReasonInvStep ==
  ASSUME NoJsTracer, NoEmptyFactoryData, ClockFits, ReasonInv, [Next]_vars
  PROVE  ReasonInv'
<1> USE DEF ReasonInv
<1>1. ValInv'
  BY ValInvStep
<1>2. op \in Ops /\ op' = op
  BY DEF ValInv, ValTypes, Next, vars, CheckInput, CheckCode, Trace, Simulate, Stakes,
         Hashes, Again, Tick, Upgrade, Unstake
<1>3. CASE UNCHANGED vars \/ Tick \/ Upgrade \/ Unstake \/ Again
  <2>1. stage' # stage => stage = "accepted" /\ stage' = "code"
    BY <1>3 DEF vars, Tick, Upgrade, Unstake, Again
  <2>2. stage' = "refused" => UNCHANGED <<op, trace, known, judged>>
    BY <1>3 DEF vars, Tick, Upgrade, Unstake, Again
  <2>3. RefusedWithReason'
    BY <2>1, <2>2 DEF RefusedWithReason, Deserved, Ranges, Lasting
  <2> QED
    BY <1>1, <1>2, <2>1, <2>3 DEF WellFormed
<1>4. CASE CheckInput
  <2>1. /\ stage' = "code" => InputValid(op)
        /\ stage' = "refused" => ~InputValid(op)
        /\ stage' \in {"code", "refused"} /\ trace' = trace
    BY <1>4 DEF CheckInput, Refuse
  <2>2. trace = NoTrace
    BY <1>4 DEF CheckInput, ValInv, Staged
  <2>3. ~trace.ok
    BY <2>2 DEF NoTrace
  <2>4. RefusedWithReason'
    BY <1>2, <2>1, <2>3 DEF RefusedWithReason, Deserved, InputValid
  <2> QED
    BY <1>1, <1>2, <2>1, <2>4 DEF InputValid
<1>5. CASE CheckCode
  <2>1. /\ stage = "code" /\ stage' \in {"trace", "refused"}
        /\ stage' = "refused" => ~SameCode \/ ~AuthValid(op)
        /\ judged' = [judged EXCEPT !.code = code] /\ UNCHANGED <<code, known>>
    BY <1>5 DEF CheckCode, Refuse
  <2>2. judged'.code = code
    BY <2>1 DEF ValInv, ValTypes
  <2>3. RefusedWithReason'
    BY <1>2, <2>1, <2>2 DEF RefusedWithReason, Deserved, SameCode
  <2> QED
    BY <1>1, <1>2, <2>1, <2>3
<1>6. CASE Trace
  <2>1. /\ stage = "trace" /\ mode # "unsafe" /\ stage' \in {"stakes", "refused"}
        /\ stage' = "refused" => ~(trace'.ok /\ Decodes(op, mode))
    BY <1>6 DEF Trace, Refuse
  <2>2. mode = "native"
    BY <2>1, ValidationAssumption DEF NoJsTracer, ValInv, ValTypes, ValidationAssumption
  <2>3. WellFormed(op) /\ Decodes(op, mode)
    BY <1>2, <2>1, <2>2, CallsAreFound
  <2>4. trace' # NoTrace
    <3>1. PICK a, p \in Windows, refs \in SUBSET Contracts,
               breaks \in {"none", "unstaked", "rule"}, used \in Verifications :
            trace' = Runs(a, p, refs, breaks, used)
      BY <1>6 DEF Trace
    <3> QED
      BY <3>1, RunsIsRun, RunIsNoTrace
  <2>5. RefusedWithReason'
    BY <2>1, <2>3, <2>4 DEF RefusedWithReason, Deserved, NoTrace
  <2> QED
    BY <1>1, <1>2, <2>3, <2>5
<1>7. CASE Simulate
  <2>1. PICK a \in Windows, p \in Windows, breaks \in {"none", "rule"} :
          trace' = Runs(a, p, {}, breaks, op.limits)
    BY <1>7 DEF Simulate
  <2>2. IsRun(trace') /\ trace' # NoTrace /\ trace'.used = op.limits
    BY <2>1, RunsIsRun, RunIsNoTrace DEF Runs
  <2>3. RefusedWithReason'
    <3>1. CASE trace'.ok
      <4>1. Conclude(trace'.used) /\ range'.after = 0 /\ range'.until = 0 /\ UNCHANGED <<op, now>>
        BY <1>7, <2>2, <3>1 DEF Simulate
      <4> QED
        BY <2>2, <3>1, <4>1, ConcludeHasReason DEF ValInv
    <3>2. CASE ~trace'.ok
      BY <2>2, <3>2 DEF RefusedWithReason, Deserved, NoTrace
    <3> QED
      BY <3>1, <3>2
  <2> QED
    BY <1>1, <1>2, <1>7, <2>3 DEF Simulate
<1>8. CASE Stakes \/ Hashes
  <2>1. /\ IsRun(trace) /\ trace.ok /\ range = Merged(op, trace.account, trace.paymaster)
        /\ UNCHANGED <<trace, range, op, now, staked>> /\ WellFormed(op)
    BY <1>8 DEF Stakes, Hashes, ValInv, Staged
  <2>2. RefusedWithReason'
    <3>1. CASE Conclude(trace.used)
      <4>1. IsRun(trace') /\ trace'.ok /\ Conclude(trace'.used)
            /\ range' = Merged(op, trace'.account, trace'.paymaster)
        BY <2>1, <3>1 DEF Conclude
      <4> QED
        BY <2>1, <4>1, ConcludeHasReason DEF ValInv
    <3>2. CASE ~Conclude(trace.used)
      <4>1. /\ judged' = [judged EXCEPT !.staked = staked]
            /\ IF Complies(trace.breaks) THEN stage' = "hashes" ELSE Refuse
        BY <1>8, <3>2 DEF Stakes, Hashes
      <4>2. judged'.staked = staked
        BY <4>1 DEF ValInv, ValTypes
      <4>3. stage' = "refused" => ~Complies(trace.breaks)
        BY <4>1
      <4> QED
        BY <2>1, <4>2, <4>3 DEF Complies, RefusedWithReason, Deserved, IsRun
    <3> QED
      BY <3>1, <3>2
  <2> QED
    BY <1>1, <1>2, <2>1, <2>2
<1> QED
  BY <1>3, <1>4, <1>5, <1>6, <1>7, <1>8 DEF Next

\* Nothing is refused without a reason that the operation, its simulation or the
\* chain gives: above all, the calls that are decoded as the account's and the
\* paymaster's are theirs (ValidationManager.ts:128-150, 597-637).  The two
\* hypotheses about Modes and Ops leave out what the code does refuse so.
THEOREM RefusalHasReason ==
  ASSUME NoJsTracer, NoEmptyFactoryData, ClockFits
  PROVE  ValidationSpec => []RefusedWithReason
<1>1. Init => ReasonInv
  BY ValInvInit DEF Init, ReasonInv, RefusedWithReason
<1>2. ReasonInv /\ [Next]_vars => ReasonInv'
  BY ReasonInvStep
<1>3. ReasonInv => RefusedWithReason
  BY DEF ReasonInv
<1> QED
  BY <1>1, <1>2, <1>3, PTL DEF ValidationSpec
=============================================================================
