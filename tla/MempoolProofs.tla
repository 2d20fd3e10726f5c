--------------------------- MODULE MempoolProofs ---------------------------
(* Theorems about Reputation, Mempool, which works on its entries, and       *)
(* Events, which feeds them, for every set of operations, every choice of   *)
(* the limits and every chain.                                              *)
EXTENDS Events, SumLemmas

-----------------------------------------------------------------------------
(* Reputation                                                              *)

\* Lower-casing an address gives an address.
LEMMA LowerAddress ==
  \A addr \in Spelling : Lower[addr] \in Address
BY SpellingAssumption DEF Address

\* What each operation of ReputationManager does to entries leaves a pair of
\* natural numbers at every address.
LEMMA UpdateSeenType ==
  ASSUME NEW reps \in [Address -> Entry],
         NEW addr \in Spelling \union {Absent}, NEW val \in Int
  PROVE  updateSeenStatus(reps, addr, val) \in [Address -> Entry]
<1>1. CASE addr = Absent
  BY <1>1 DEF updateSeenStatus
<1>2. CASE addr # Absent
  <2>1. Lower[addr] \in Address
    BY <1>2, LowerAddress
  <2>2. NonNegative(reps[Lower[addr]].opsSeen + val) \in Nat
    BY <2>1 DEF NonNegative, Entry
  <2> QED
    BY <1>2, <2>1, <2>2 DEF updateSeenStatus, Entry
<1> QED
  BY <1>1, <1>2

LEMMA UpdateIncludedType ==
  ASSUME NEW reps \in [Address -> Entry], NEW addr \in Spelling
  PROVE  updateIncludedStatus(reps, addr) \in [Address -> Entry]
BY LowerAddress DEF updateIncludedStatus, Entry

LEMMA CrashedType ==
  ASSUME NEW reps \in [Address -> Entry], NEW addr \in Spelling \union {Absent}
  PROVE  crashedHandleOps(reps, addr) \in [Address -> Entry]
BY LowerAddress, ParamsAssumption DEF crashedHandleOps, Entry

LEMMA CronType ==
  ASSUME NEW reps \in [Address -> Entry]
  PROVE  hourlyCron(reps) \in [Address -> Entry]
BY DEF hourlyCron, Entry

\* Any step of the reputation keeps entries well typed.
LEMMA RepStepType ==
  ASSUME RepTypeOK, RepNext
  PROVE  RepTypeOK'
<1> USE DEF RepTypeOK
<1>1. ASSUME NEW addr \in Spelling, NEW val \in {-1, 1}, UpdateSeenStatus(addr, val)
      PROVE  RepTypeOK'
  BY <1>1, UpdateSeenType DEF UpdateSeenStatus
<1>2. ASSUME NEW addr \in Spelling, UpdateIncludedStatus(addr)
      PROVE  RepTypeOK'
  BY <1>2, UpdateIncludedType DEF UpdateIncludedStatus
<1>3. ASSUME NEW addr \in Spelling, CrashedHandleOps(addr)
      PROVE  RepTypeOK'
  BY <1>3, CrashedType DEF CrashedHandleOps
<1>4. CASE HourlyCron
  BY <1>4, CronType DEF HourlyCron
<1> QED
  BY <1>1, <1>2, <1>3, <1>4 DEF RepNext

\* So does a debug method.
LEMMA DebugStepType ==
  ASSUME RepTypeOK, DebugNext
  PROVE  RepTypeOK'
<1> USE DEF RepTypeOK
<1>1. ASSUME NEW addr \in Spelling, NEW seen \in 0..MaxOps, NEW included \in 0..MaxOps,
             SetReputation(addr, seen, included)
      PROVE  RepTypeOK'
  BY <1>1, LowerAddress, ParamsAssumption DEF SetReputation, Entry
<1>2. CASE ClearReputation
  BY <1>2 DEF ClearReputation, NoEntries, Entry
<1> QED
  BY <1>1, <1>2 DEF DebugNext

\* Every address has two natural counters, whatever calls are made: no
\* sequence of undone "seen" takes one below zero (ReputationManager.ts:118).
THEOREM RepTypeCorrect == RepSpec => []RepTypeOK
<1>1. RepInit => RepTypeOK
  BY DEF RepInit, RepTypeOK, NoEntries, Entry
<1>2. RepTypeOK /\ [RepNext]_entries => RepTypeOK'
  BY RepStepType DEF RepTypeOK
<1> QED
  BY <1>1, <1>2, PTL DEF RepSpec

\* The penalty alone makes up for the ban slack.
LEMMA PenaltyExceedsSlack ==
  ASSUME NEW seen \in Nat
  PROVE  (seen + BanOpsSeenPenalty) \div MinInclusionDenominator > BanSlack
<1> DEFINE d == MinInclusionDenominator
           q == (seen + BanOpsSeenPenalty) \div d
           r == (seen + BanOpsSeenPenalty) % d
<1>1. /\ d \in Nat \ {0}
      /\ BanSlack \in Nat
      /\ BanOpsSeenPenalty \in Nat
      /\ BanOpsSeenPenalty >= d * (BanSlack + 1)
  BY ParamsAssumption, PenaltyAssumption
<1>2. /\ q \in Int
      /\ r \in 0..(d - 1)
      /\ seen + BanOpsSeenPenalty = d * q + r
  BY <1>1
<1>3. d * q + d > d * (BanSlack + 1)
  <2>1. d * q + r >= BanOpsSeenPenalty
    BY <1>1, <1>2
  <2>2. d * q \in Int /\ d * (BanSlack + 1) \in Int
    BY <1>1, <1>2
  <2> QED
    BY <1>1, <1>2, <2>1, <2>2
<1>4. ASSUME q <= BanSlack PROVE FALSE
  <2>1. q + 1 <= BanSlack + 1
    BY <1>4, <1>2, <1>1
  <2>2. d * (q + 1) <= d * (BanSlack + 1)
    BY <2>1, <1>1, <1>2
  <2>3. d * (q + 1) = d * q + d
    BY <1>1, <1>2
  <2> QED
    BY <2>2, <2>3, <1>3, <1>1, <1>2
<1> QED
  BY <1>4, <1>2, <1>1

\* The step that records a crashed bundle bans the entity, however many
\* inclusions it had earned (ReputationManager.ts:179-194).
THEOREM CrashBans == RepSpec => CrashBansEntity
<1>1. ASSUME RepTypeOK, NEW addr \in Spelling,
             CrashedHandleOps(addr), Lower[addr] \notin WhiteList
      PROVE  getStatus(entries', addr) = "BANNED"
  <2> DEFINE a == Lower[addr]
  <2>1. a \in Address /\ addr # Absent
    BY LowerAddress, SpellingAssumption
  <2>2. entries'[a] = [opsSeen |-> entries[a].opsSeen + BanOpsSeenPenalty,
                       opsIncluded |-> 0]
    BY <1>1, <2>1 DEF CrashedHandleOps, crashedHandleOps, RepTypeOK
  <2>3. entries[a].opsSeen \in Nat
    BY <1>1, <2>1 DEF RepTypeOK, Entry
  <2>4. CASE a \in BlackList
    BY <2>4, <1>1, <2>1 DEF getStatus
  <2>5. CASE a \notin BlackList
    <3>1. /\ (entries[a].opsSeen + BanOpsSeenPenalty) \div MinInclusionDenominator > BanSlack
          /\ (entries[a].opsSeen + BanOpsSeenPenalty) \div MinInclusionDenominator \in Int
      BY <2>3, PenaltyExceedsSlack, ParamsAssumption
    <3>2. statusOf(entries'[a]) \in {"THROTTLED", "OK"} => FALSE
      BY <3>1, <2>2, ParamsAssumption, PenaltyAssumption DEF statusOf
    <3>3. statusOf(entries'[a]) \in {"OK", "THROTTLED", "BANNED"}
      BY DEF statusOf
    <3> QED
      BY <3>2, <3>3, <2>5, <2>1, <1>1 DEF getStatus
  <2> QED
    BY <2>4, <2>5
<1>2. RepTypeOK /\ [RepNext]_entries
        => [\A addr \in Spelling :
              CrashedHandleOps(addr) /\ Lower[addr] \notin WhiteList
                => getStatus(entries', addr) = "BANNED"]_entries
  BY <1>1
<1> QED
  BY <1>2, RepTypeCorrect, PTL DEF RepSpec, CrashBansEntity

-----------------------------------------------------------------------------
(* Standing                                                                *)

LEMMA QuotientMonotone ==
  ASSUME NEW d \in Nat \ {0}, NEW m \in Nat, NEW n \in Nat, m <= n
  PROVE  m \div d <= n \div d
<1> DEFINE p == m \div d
           q == n \div d
<1>1. /\ p \in Int /\ m = d * p + (m % d) /\ m % d \in 0..(d - 1)
      /\ q \in Int /\ n = d * q + (n % d) /\ n % d \in 0..(d - 1)
  OBVIOUS
<1>2. d * p \in Int /\ d * q \in Int
  BY <1>1
<1>3. d * p < d * q + d
  BY <1>1, <1>2
<1>4. ASSUME q + 1 <= p PROVE FALSE
  <2>1. d * (q + 1) <= d * p
    BY <1>4, <1>1
  <2>2. d * (q + 1) = d * q + d
    BY <1>1
  <2> QED
    BY <2>1, <2>2, <1>2, <1>3
<1> QED
  BY <1>1, <1>4

\* What hourlyCron leaves is never worth a throttling: the inclusions are
\* computed from the operations seen.
LEMMA DecayForgives ==
  ASSUME NEW d \in Nat, d >= 2, NEW seen \in Nat
  PROVE  seen \div d <= (seen * 23) \div 24
<1> DEFINE q == seen \div d
           i == (seen * 23) \div 24
<1>1. q \in Int /\ seen = d * q + (seen % d) /\ seen % d \in 0..(d - 1)
  OBVIOUS
<1>2. d * q \in Int /\ d * q <= seen
  BY <1>1
<1>3. q >= 0
  <2>1. ASSUME q + 1 <= 0 PROVE FALSE
    <3>1. d * (q + 1) <= 0
      BY <2>1, <1>1
    <3>2. d * (q + 1) = d * q + d
      BY <1>1
    <3> QED
      BY <3>1, <3>2, <1>1, <1>2
  <2> QED
    BY <2>1, <1>1
<1>4. 2 * q <= d * q
  BY <1>3, <1>1
<1>5. i \in Int /\ seen * 23 <= 24 * i + 23
  OBVIOUS
<1> QED
  BY <1>1, <1>2, <1>3, <1>4, <1>5

\* More inclusions and no more expected ones: the status gets no worse.
LEMMA StatusMonotone ==
  ASSUME NEW e \in Entry, NEW f \in Entry, e.opsIncluded <= f.opsIncluded,
         f.opsSeen \div MinInclusionDenominator <= e.opsSeen \div MinInclusionDenominator
  PROVE  Rank(statusOf(f)) <= Rank(statusOf(e))
<1>1. /\ f.opsSeen \div MinInclusionDenominator \in Int
      /\ e.opsSeen \div MinInclusionDenominator \in Int
      /\ e.opsIncluded \in Int /\ f.opsIncluded \in Int
  BY ParamsAssumption DEF Entry
<1>2. ThrottlingSlack \in Nat /\ BanSlack \in Nat
  BY ParamsAssumption
<1> QED
  BY <1>1, <1>2 DEF statusOf, Rank

LEMMA RankType ==
  ASSUME NEW e \in Entry
  PROVE  Rank(statusOf(e)) \in {0, 1, 2} /\ Rank("OK") = 0 /\ Rank("BANNED") = 2
BY DEF statusOf, Rank

\* Two entries of one address: its standing differs as their statuses do.
LEMMA StandingMonotone ==
  ASSUME NEW reps \in [Address -> Entry], NEW new \in [Address -> Entry],
         NEW a \in Address, Rank(statusOf(new[a])) <= Rank(statusOf(reps[a]))
  PROVE  ~(Rank(getStatus(new, a)) > Rank(getStatus(reps, a)))
<1>1. a \in Spelling /\ a # Absent /\ Lower[a] = a
  BY SpellingAssumption DEF Address
<1>2. reps[a] \in Entry /\ new[a] \in Entry
  OBVIOUS
<1>3. CASE a \in WhiteList \/ a \in BlackList
  BY <1>1, <1>3, RankType, <1>2 DEF getStatus
<1>4. CASE a \notin WhiteList /\ a \notin BlackList
  BY <1>1, <1>4, RankType, <1>2 DEF getStatus
<1> QED
  BY <1>3, <1>4

\* If fewer than one of two operations seen is expected to be included, the
\* standing of an entity gets worse only when more of its operations are seen:
\* the roundings of the hourly decay never throttle it
\* (ReputationManager.ts:74-91, 117-127).
THEOREM StandingHolds ==
  ASSUME MinInclusionDenominator >= 2
  PROVE  RepSpec => StandingWorsensOnlyBySeen
<1> DEFINE d == MinInclusionDenominator
           Worse(a) == Rank(getStatus(entries', a)) > Rank(getStatus(entries, a))
<1>1. ASSUME RepTypeOK, RepNext, NEW a \in Address, Worse(a)
      PROVE  entries'[a].opsSeen > entries[a].opsSeen
  <2>1. /\ entries \in [Address -> Entry] /\ entries' \in [Address -> Entry]
        /\ entries[a] \in Entry /\ entries'[a] \in Entry
    BY <1>1, RepStepType DEF RepTypeOK
  <2>2. d \in Nat \ {0} /\ d >= 2
    BY ParamsAssumption
  <2>3. ASSUME entries'[a].opsSeen <= entries[a].opsSeen,
               entries[a].opsIncluded <= entries'[a].opsIncluded
        PROVE  FALSE
    <3>1. entries'[a].opsSeen \div d <= entries[a].opsSeen \div d
      BY <2>1, <2>2, <2>3, QuotientMonotone DEF Entry
    <3>2. Rank(statusOf(entries'[a])) <= Rank(statusOf(entries[a]))
      BY <3>1, <2>1, <2>3, StatusMonotone
    <3> QED
      BY <3>2, <2>1, StandingMonotone, <1>1
  <2>4. CASE \E addr \in Spelling, val \in {-1, 1} : UpdateSeenStatus(addr, val)
    <3>1. entries'[a].opsIncluded = entries[a].opsIncluded
      BY <2>4, <2>1, LowerAddress DEF UpdateSeenStatus, updateSeenStatus, Entry
    <3> QED
      BY <3>1, <2>1, <2>3 DEF Entry
  <2>5. CASE \E addr \in Spelling : UpdateIncludedStatus(addr)
    <3>1. /\ entries'[a].opsSeen = entries[a].opsSeen
          /\ entries[a].opsIncluded <= entries'[a].opsIncluded
      BY <2>5, <2>1, LowerAddress DEF UpdateIncludedStatus, updateIncludedStatus, Entry
    <3> QED
      BY <3>1, <2>1, <2>3 DEF Entry
  <2>6. CASE \E addr \in Spelling : CrashedHandleOps(addr)
    <3>1. BanOpsSeenPenalty \in Nat /\ BanOpsSeenPenalty > 0
      <4>1. d * (BanSlack + 1) >= 1
        BY <2>2, ParamsAssumption
      <4> QED
        BY <4>1, <2>2, ParamsAssumption, PenaltyAssumption
    <3>2. \/ entries'[a] = entries[a]
          \/ entries'[a].opsSeen = entries[a].opsSeen + BanOpsSeenPenalty
      BY <2>6, <2>1, LowerAddress DEF CrashedHandleOps, crashedHandleOps, Entry
    <3> QED
      BY <3>1, <3>2, <2>1, <2>3 DEF Entry
  <2>7. CASE HourlyCron
    <3> DEFINE seen == (entries[a].opsSeen * 23) \div 24
    <3>1. entries'[a] = [opsSeen |-> seen, opsIncluded |-> (seen * 23) \div 24]
      BY <2>7, <2>1 DEF HourlyCron, hourlyCron
    <3>2. seen \in Nat /\ seen \div d <= (seen * 23) \div 24
      BY <2>1, <2>2, DecayForgives DEF Entry
    <3>3. statusOf(entries'[a]) = "OK"
      <4>1. seen \div d \in Int /\ (seen * 23) \div 24 \in Int
        BY <3>2, <2>2
      <4> QED
        BY <3>1, <3>2, <4>1, ParamsAssumption DEF statusOf
    <3>4. Rank(statusOf(entries'[a])) <= Rank(statusOf(entries[a]))
      BY <3>3, <2>1, RankType
    <3> QED
      BY <3>4, <2>1, StandingMonotone, <1>1
  <2> QED
    BY <1>1, <2>4, <2>5, <2>6, <2>7 DEF RepNext
<1>2. RepTypeOK /\ [RepNext]_entries
        => [\A a \in Address : Worse(a) => entries'[a].opsSeen > entries[a].opsSeen]_entries
  BY <1>1
<1> QED
  BY <1>2, RepTypeCorrect, PTL DEF RepSpec, StandingWorsensOnlyBySeen

-----------------------------------------------------------------------------
(* Counting the uses of an address                                         *)

LEMMA RolesFinite ==
  ASSUME NEW ops, IsFiniteSet(ops), NEW a
  PROVE  /\ IsFiniteSet(SentBy(ops, a)) /\ Cardinality(SentBy(ops, a)) \in Nat
         /\ IsFiniteSet(PaidBy(ops, a)) /\ Cardinality(PaidBy(ops, a)) \in Nat
         /\ IsFiniteSet(DeployedBy(ops, a)) /\ Cardinality(DeployedBy(ops, a)) \in Nat
<1>1. /\ SentBy(ops, a) \in SUBSET ops
      /\ PaidBy(ops, a) \in SUBSET ops
      /\ DeployedBy(ops, a) \in SUBSET ops
  BY DEF SentBy, PaidBy, DeployedBy
<1>2. \A T \in SUBSET ops : IsFiniteSet(T) /\ Cardinality(T) \in Nat
  BY FS_Subset, FS_CardinalityType
<1> QED
  BY <1>1, <1>2

LEMMA UsesType ==
  ASSUME NEW ops, IsFiniteSet(ops), NEW a
  PROVE  Uses(ops, a) \in Nat /\ Cardinality(SentBy(ops, a)) <= Uses(ops, a)
BY RolesFinite DEF Uses

LEMMA DisjointCardinality ==
  ASSUME NEW S, IsFiniteSet(S), NEW T, IsFiniteSet(T), S \cap T = {}
  PROVE  /\ Cardinality(S \union T) = Cardinality(S) + Cardinality(T)
<1>1. Cardinality(S \union T) = Cardinality(S) + Cardinality(T) - Cardinality(S \cap T)
  BY FS_Union
<1>2. Cardinality(S \cap T) = 0
  BY FS_EmptySet
<1>3. Cardinality(S) \in Nat /\ Cardinality(T) \in Nat
  BY FS_CardinalityType
<1> QED
  BY <1>1, <1>2, <1>3

\* Operations of two disjoint sets are counted separately.
LEMMA UsesDisjoint ==
  ASSUME NEW S, IsFiniteSet(S), NEW T, IsFiniteSet(T), S \cap T = {}, NEW a
  PROVE  Uses(S \union T, a) = Uses(S, a) + Uses(T, a)
<1>1. /\ SentBy(S \union T, a) = SentBy(S, a) \union SentBy(T, a)
      /\ PaidBy(S \union T, a) = PaidBy(S, a) \union PaidBy(T, a)
      /\ DeployedBy(S \union T, a) = DeployedBy(S, a) \union DeployedBy(T, a)
  BY DEF SentBy, PaidBy, DeployedBy
<1>2. /\ SentBy(S, a) \cap SentBy(T, a) = {}
      /\ PaidBy(S, a) \cap PaidBy(T, a) = {}
      /\ DeployedBy(S, a) \cap DeployedBy(T, a) = {}
  BY DEF SentBy, PaidBy, DeployedBy
<1>3. /\ Cardinality(SentBy(S, a) \union SentBy(T, a))
           = Cardinality(SentBy(S, a)) + Cardinality(SentBy(T, a))
      /\ Cardinality(PaidBy(S, a) \union PaidBy(T, a))
           = Cardinality(PaidBy(S, a)) + Cardinality(PaidBy(T, a))
      /\ Cardinality(DeployedBy(S, a) \union DeployedBy(T, a))
           = Cardinality(DeployedBy(S, a)) + Cardinality(DeployedBy(T, a))
  BY <1>2, RolesFinite, DisjointCardinality
<1>4. Uses(S \union T, a)
        = (Cardinality(SentBy(S, a)) + Cardinality(SentBy(T, a)))
            + (Cardinality(PaidBy(S, a)) + Cardinality(PaidBy(T, a)))
            + (Cardinality(DeployedBy(S, a)) + Cardinality(DeployedBy(T, a)))
  BY <1>1, <1>3 DEF Uses
<1>5. /\ Cardinality(SentBy(S, a)) \in Nat /\ Cardinality(SentBy(T, a)) \in Nat
      /\ Cardinality(PaidBy(S, a)) \in Nat /\ Cardinality(PaidBy(T, a)) \in Nat
      /\ Cardinality(DeployedBy(S, a)) \in Nat /\ Cardinality(DeployedBy(T, a)) \in Nat
  BY RolesFinite
<1> QED
  BY <1>4, <1>5 DEF Uses

LEMMA UsesRemoved ==
  ASSUME NEW ops, IsFiniteSet(ops), NEW gone \in SUBSET ops, NEW a
  PROVE  /\ IsFiniteSet(ops \ gone)
         /\ Uses(ops \ gone, a) = Uses(ops, a) - Uses(gone, a)
         /\ Uses(ops \ gone, a) \in Nat
<1>1. IsFiniteSet(gone) /\ IsFiniteSet(ops \ gone)
  BY FS_Subset, FS_Difference
<1>2. /\ ops = (ops \ gone) \union gone
      /\ (ops \ gone) \cap gone = {}
  OBVIOUS
<1>3. Uses(ops, a) = Uses(ops \ gone, a) + Uses(gone, a)
  BY <1>1, <1>2, UsesDisjoint
<1> QED
  BY <1>1, <1>3, UsesType

\* Operations with the same entities count the same.
LEMMA SameEntitiesSameUses ==
  ASSUME NEW p, NEW q, NEW a,
         lower(p.sender) = lower(q.sender),
         lower(p.paymaster) = lower(q.paymaster),
         lower(p.factory) = lower(q.factory)
  PROVE  Uses({p}, a) = Uses({q}, a)
<1>1. Cardinality(SentBy({p}, a)) = Cardinality(SentBy({q}, a))
  <2>1. CASE lower(p.sender) = a
    BY <2>1, FS_Singleton, SentBy({p}, a) = {p}, SentBy({q}, a) = {q} DEF SentBy
  <2>2. CASE lower(p.sender) # a
    BY <2>2, SentBy({p}, a) = {}, SentBy({q}, a) = {} DEF SentBy
  <2> QED
    BY <2>1, <2>2
<1>2. Cardinality(PaidBy({p}, a)) = Cardinality(PaidBy({q}, a))
  <2>1. CASE lower(p.paymaster) = a
    BY <2>1, FS_Singleton, PaidBy({p}, a) = {p}, PaidBy({q}, a) = {q} DEF PaidBy
  <2>2. CASE lower(p.paymaster) # a
    BY <2>2, PaidBy({p}, a) = {}, PaidBy({q}, a) = {} DEF PaidBy
  <2> QED
    BY <2>1, <2>2
<1>3. Cardinality(DeployedBy({p}, a)) = Cardinality(DeployedBy({q}, a))
  <2>1. CASE lower(p.factory) = a
    BY <2>1, FS_Singleton, DeployedBy({p}, a) = {p}, DeployedBy({q}, a) = {q} DEF DeployedBy
  <2>2. CASE lower(p.factory) # a
    BY <2>2, DeployedBy({p}, a) = {}, DeployedBy({q}, a) = {} DEF DeployedBy
  <2> QED
    BY <2>1, <2>2
<1> QED
  BY <1>1, <1>2, <1>3 DEF Uses

-----------------------------------------------------------------------------
(* Type correctness and unique keys                                        *)

Inv == PoolTypeOK /\ IsFiniteSet(mempool) /\ UniqueKeys

LEMMA UserOpFields ==
  ASSUME NEW op \in UserOp
  PROVE  /\ op.sender \in Spelling /\ op.sender # Absent
         /\ op.paymaster \in Spelling \union {Absent}
         /\ op.factory \in Spelling \union {Absent}
         /\ lower(op.sender) = Lower[op.sender]
         /\ Lower[op.sender] \in Address
BY UserOpAssumption, SpellingAssumption, LowerAddress DEF lower

LEMMA UpdateOpSeenType ==
  ASSUME NEW reps \in [Address -> Entry], NEW skip \in BOOLEAN, NEW op \in UserOp,
         NEW val \in Int
  PROVE  updateOpSeen(reps, skip, op, val) \in [Address -> Entry]
<1> DEFINE sender == IF ~skip /\ checkStake(reps, op.sender)
                     THEN updateSeenStatus(reps, op.sender, 1) ELSE reps
           both == updateSeenStatus(sender, op.paymaster, val)
<1>1. sender \in [Address -> Entry]
  BY UpdateSeenType, UserOpFields
<1>2. both \in [Address -> Entry]
  BY <1>1, UpdateSeenType, UserOpFields
<1>3. updateSeenStatus(both, op.factory, val) \in [Address -> Entry]
  BY <1>2, UpdateSeenType, UserOpFields
<1> QED
  BY <1>3 DEF updateOpSeen

\* Whatever is removed, the counters stay natural numbers and keys unique.
LEMMA RemoveInv ==
  ASSUME Inv, NEW gone \in SUBSET mempool, Remove(gone), RepTypeOK'
  PROVE  Inv'
<1>1. IsFiniteSet(mempool')
  BY FS_Difference DEF Inv, Remove
<1>2. \A a \in Address : Uses(gone, a) \in Nat
  BY FS_Subset, UsesType DEF Inv
<1>3. entryCount' \in [Address -> Nat]
  BY <1>2 DEF Remove, decrementEntryCount, NonNegative, Inv, PoolTypeOK
<1> QED
  BY <1>1, <1>3 DEF Inv, PoolTypeOK, UniqueKeys, Remove

LEMMA AddNewInv ==
  ASSUME Inv, NEW skip \in BOOLEAN, NEW op \in UserOp, AddNewUserOp(skip, op)
  PROVE  Inv'
<1>1. IsFiniteSet(mempool') /\ mempool' \subseteq UserOp
  BY FS_AddElement DEF Inv, PoolTypeOK, AddNewUserOp
<1>2. entries' \in [Address -> Entry]
  BY UpdateOpSeenType DEF Inv, PoolTypeOK, RepTypeOK, AddNewUserOp
<1>3. entryCount' \in [Address -> Nat]
  <2>1. \A a \in Address : Uses({op}, a) \in Nat
    BY FS_Singleton, UsesType
  <2> QED
    BY <2>1 DEF AddNewUserOp, incrementEntryCount, Inv, PoolTypeOK
<1>4. UniqueKeys'
  BY DEF AddNewUserOp, UniqueKeys, SameKey, Inv
<1> QED
  BY <1>1, <1>2, <1>3, <1>4 DEF Inv, PoolTypeOK, RepTypeOK

LEMMA ReplaceInv ==
  ASSUME Inv, NEW skip \in BOOLEAN, NEW op \in UserOp, NEW old \in mempool,
         ReplaceUserOp(skip, old, op)
  PROVE  Inv'
<1>1. IsFiniteSet(mempool') /\ mempool' \subseteq UserOp
  BY FS_RemoveElement, FS_AddElement DEF Inv, PoolTypeOK, ReplaceUserOp
<1>2. entries' \in [Address -> Entry]
  <2>1. old \in UserOp
    BY DEF Inv, PoolTypeOK
  <2>2. updateOpSeen(entries, skip, old, -1) \in [Address -> Entry]
    BY <2>1, UpdateOpSeenType DEF Inv, PoolTypeOK, RepTypeOK
  <2> QED
    BY <2>2, UpdateOpSeenType DEF ReplaceUserOp
<1>3. UniqueKeys'
  BY DEF ReplaceUserOp, UniqueKeys, SameKey, Inv
<1> QED
  BY <1>1, <1>2, <1>3 DEF Inv, PoolTypeOK, RepTypeOK, ReplaceUserOp

\* What the steps other than additions remove.
LEMMA RemovalSteps ==
  ASSUME Inv,
         \/ \E op \in UserOp : RemoveByHash(op)
         \/ \E op \in UserOp : RemoveByKey(op)
         \/ \E addr \in Spelling : RemoveBannedAddr(addr)
  PROVE  \E gone \in SUBSET mempool : Remove(gone)
<1>1. CASE \E op \in UserOp : RemoveByHash(op)
  BY <1>1 DEF RemoveByHash, RemovalsByHash
<1>2. CASE \E op \in UserOp : RemoveByKey(op)
  BY <1>2 DEF RemoveByKey
<1>3. CASE \E addr \in Spelling : RemoveBannedAddr(addr)
  BY <1>3 DEF RemoveBannedAddr, BannedRemovals
<1> QED
  BY <1>1, <1>2, <1>3

LEMMA InitInv == MempoolInit => Inv
<1> SUFFICES ASSUME MempoolInit PROVE Inv
  OBVIOUS
<1>1. RepTypeOK
  BY DEF MempoolInit, RepInit, RepTypeOK, NoEntries, Entry
<1> QED
  BY <1>1, FS_EmptySet DEF MempoolInit, Inv, PoolTypeOK, UniqueKeys

LEMMA StepInv == Inv /\ [MempoolNext]_poolVars => Inv'
<1> SUFFICES ASSUME Inv, [MempoolNext]_poolVars PROVE Inv'
  OBVIOUS
<1>1. ASSUME NEW skip \in SkipValidation, NEW op \in UserOp, AddUserOp(skip, op)
      PROVE  Inv'
  <2>1. skip \in BOOLEAN
    BY UserOpAssumption
  <2> QED
    BY <1>1, <2>1, AddNewInv, ReplaceInv DEF AddUserOp
<1>2. CASE /\ \/ \E op \in UserOp : RemoveByHash(op)
              \/ \E op \in UserOp : RemoveByKey(op)
              \/ \E addr \in Spelling : RemoveBannedAddr(addr)
           /\ UNCHANGED entries
  <2>1. RepTypeOK'
    BY <1>2 DEF Inv, PoolTypeOK, RepTypeOK
  <2> QED
    BY <1>2, <2>1, RemovalSteps, RemoveInv
<1>3. CASE ClearMempool /\ UNCHANGED entries
  BY <1>3, FS_EmptySet DEF ClearMempool, Inv, PoolTypeOK, RepTypeOK, UniqueKeys
<1>4. CASE RepNext /\ UNCHANGED <<mempool, entryCount>>
  BY <1>4, RepStepType DEF Inv, PoolTypeOK, UniqueKeys
<1>5. CASE DebugNext /\ UNCHANGED <<mempool, entryCount>>
  BY <1>5, DebugStepType DEF Inv, PoolTypeOK, UniqueKeys
<1>6. CASE UNCHANGED poolVars
  BY <1>6 DEF poolVars, Inv, PoolTypeOK, RepTypeOK, UniqueKeys
<1> QED
  BY <1>1, <1>2, <1>3, <1>4, <1>5, <1>6 DEF MempoolNext

LEMMA InvHolds == MempoolSpec => []Inv
BY InitInv, StepInv, PTL DEF MempoolSpec

\* The mempool holds operations, and no sequence of increments and decrements
\* takes a counter below zero or leaves a fraction of an entry.
THEOREM PoolTypeCorrect == MempoolSpec => []PoolTypeOK
BY InvHolds, PTL DEF Inv

\* Whatever is added, replaced and removed, no two operations of the mempool
\* have the same sender and nonce.
THEOREM KeysStayUnique == MempoolSpec => []UniqueKeys
BY InvHolds, PTL DEF Inv

-----------------------------------------------------------------------------
(* The counters are exact when replacements keep their entities            *)

LEMMA RemoveCounts ==
  ASSUME Inv, CountsExact, NEW gone \in SUBSET mempool, Remove(gone)
  PROVE  CountsExact'
<1>1. ASSUME NEW a \in Address
      PROVE  entryCount'[a] = Uses(mempool', a)
  <2>1. /\ Uses(mempool \ gone, a) = Uses(mempool, a) - Uses(gone, a)
        /\ Uses(mempool \ gone, a) \in Nat
    BY UsesRemoved DEF Inv
  <2>2. entryCount[a] = Uses(mempool, a)
    BY DEF CountsExact
  <2>3. entryCount'[a] = NonNegative(entryCount[a] - Uses(gone, a))
    BY DEF Remove, decrementEntryCount
  <2>4. mempool' = mempool \ gone
    BY DEF Remove
  <2> QED
    BY <2>1, <2>2, <2>3, <2>4 DEF NonNegative
<1> QED
  BY <1>1 DEF CountsExact

LEMMA AddNewCounts ==
  ASSUME Inv, CountsExact, NEW skip, NEW op \in UserOp, AddNewUserOp(skip, op)
  PROVE  CountsExact'
<1>1. ASSUME NEW a \in Address
      PROVE  entryCount'[a] = Uses(mempool', a)
  <2>1. mempool \cap {op} = {}
    BY DEF AddNewUserOp, SameKey
  <2>2. Uses(mempool \union {op}, a) = Uses(mempool, a) + Uses({op}, a)
    <3>1. IsFiniteSet(mempool) /\ IsFiniteSet({op})
      BY FS_Singleton DEF Inv
    <3> QED
      BY <2>1, <3>1, UsesDisjoint
  <2>3. entryCount'[a] = entryCount[a] + Uses({op}, a)
    BY DEF AddNewUserOp, incrementEntryCount
  <2> QED
    BY <2>2, <2>3 DEF CountsExact, AddNewUserOp
<1> QED
  BY <1>1 DEF CountsExact

\* In a replacement that keeps its entities every address is used as often
\* as before.
LEMMA ReplaceUses ==
  ASSUME StableEntities, Inv, NEW skip, NEW op \in UserOp, NEW old \in mempool,
         ReplaceUserOp(skip, old, op), NEW a
  PROVE  Uses(mempool', a) = Uses(mempool, a)
<1>1. (mempool \ {old}) \cap {op} = {}
  BY DEF ReplaceUserOp, SameKey, Inv, UniqueKeys
<1>2. /\ IsFiniteSet(mempool \ {old})
      /\ Uses(mempool \ {old}, a) = Uses(mempool, a) - Uses({old}, a)
  BY UsesRemoved DEF Inv
<1>3. Uses((mempool \ {old}) \union {op}, a)
        = Uses(mempool \ {old}, a) + Uses({op}, a)
  BY <1>1, <1>2, UsesDisjoint, FS_Singleton
<1>4. Uses({op}, a) = Uses({old}, a)
  <2>1. old \in UserOp
    BY DEF Inv, PoolTypeOK
  <2>2. /\ lower(old.sender) = lower(op.sender)
        /\ lower(old.paymaster) = lower(op.paymaster)
        /\ lower(old.factory) = lower(op.factory)
    BY <2>1 DEF ReplaceUserOp, SameKey, StableEntities
  <2> QED
    BY <2>2, SameEntitiesSameUses
<1>5. Uses(mempool, a) \in Nat /\ Uses({old}, a) \in Nat
  BY UsesType, FS_Singleton DEF Inv
<1> QED
  BY <1>2, <1>3, <1>4, <1>5 DEF ReplaceUserOp

LEMMA StepCounts ==
  ASSUME StableEntities, Inv, CountsExact, [MempoolNext]_poolVars
  PROVE  CountsExact'
<1>1. ASSUME NEW skip \in SkipValidation, NEW op \in UserOp, AddUserOp(skip, op)
      PROVE  CountsExact'
  <2>1. CASE AddNewUserOp(skip, op)
    BY <2>1, AddNewCounts
  <2>2. ASSUME NEW old \in mempool, ReplaceUserOp(skip, old, op)
        PROVE  CountsExact'
    <3>1. \A a \in Address : Uses(mempool', a) = Uses(mempool, a)
      BY <2>2, ReplaceUses
    <3> QED
      BY <3>1, <2>2 DEF CountsExact, ReplaceUserOp
  <2> QED
    BY <1>1, <2>1, <2>2 DEF AddUserOp
<1>2. CASE /\ \/ \E op \in UserOp : RemoveByHash(op)
              \/ \E op \in UserOp : RemoveByKey(op)
              \/ \E addr \in Spelling : RemoveBannedAddr(addr)
           /\ UNCHANGED entries
  BY <1>2, RemovalSteps, RemoveCounts
<1>3. CASE ClearMempool
  <2>1. \A a \in Address : Uses({}, a) = 0
    BY FS_EmptySet DEF Uses, SentBy, PaidBy, DeployedBy
  <2> QED
    BY <1>3, <2>1 DEF ClearMempool, CountsExact
<1>4. CASE UNCHANGED <<mempool, entryCount>>
  BY <1>4 DEF CountsExact
<1> QED
  BY <1>1, <1>2, <1>3, <1>4 DEF MempoolNext, poolVars

LEMMA InitCounts == MempoolInit => CountsExact
<1>1. \A a \in Address : Uses({}, a) = 0
  BY FS_EmptySet DEF Uses, SentBy, PaidBy, DeployedBy
<1> QED
  BY <1>1 DEF MempoolInit, CountsExact

\* Every counter is the number of uses of its address by the operations held,
\* provided that replacements keep the paymaster and the factory.
THEOREM CountsStayExact ==
  ASSUME StableEntities
  PROVE  MempoolSpec => []CountsExact
<1>1. Inv /\ CountsExact /\ [MempoolNext]_poolVars => CountsExact'
  BY StepCounts
<1> QED
  BY <1>1, InitCounts, InvHolds, PTL DEF MempoolSpec

-----------------------------------------------------------------------------
(* Roles stay apart                                                        *)

LEMMA StepRoles ==
  ASSUME StableEntities, SkipValidation \subseteq {FALSE},
         Inv, RoleSeparation, [MempoolNext]_poolVars
  PROVE  RoleSeparation'
<1>1. ASSUME NEW skip \in SkipValidation, NEW op \in UserOp, AddUserOp(skip, op)
      PROVE  RoleSeparation'
  <2>1. CASE AddNewUserOp(skip, op)
    <3>1. /\ checkMultipleRolesViolation(op)
          /\ mempool' = mempool \union {op}
      BY <2>1 DEF AddNewUserOp
    <3> QED
      BY <3>1 DEF checkMultipleRolesViolation, getKnownEntities, getKnownSenders,
                  RoleSeparation
  <2>2. ASSUME NEW old \in mempool, ReplaceUserOp(skip, old, op)
        PROVE  RoleSeparation'
    <3>1. old \in UserOp
      BY DEF Inv, PoolTypeOK
    <3>2. /\ lower(old.sender) = lower(op.sender)
          /\ lower(old.paymaster) = lower(op.paymaster)
          /\ lower(old.factory) = lower(op.factory)
          /\ mempool' = (mempool \ {old}) \union {op}
      BY <3>1, <2>2 DEF ReplaceUserOp, SameKey, StableEntities
    <3> QED
      BY <3>2 DEF RoleSeparation
  <2> QED
    BY <1>1, <2>1, <2>2 DEF AddUserOp
<1>2. CASE /\ \/ \E op \in UserOp : RemoveByHash(op)
              \/ \E op \in UserOp : RemoveByKey(op)
              \/ \E addr \in Spelling : RemoveBannedAddr(addr)
           /\ UNCHANGED entries
  <2>1. PICK gone \in SUBSET mempool : Remove(gone)
    BY <1>2, RemovalSteps
  <2> QED
    BY <2>1 DEF Remove, RoleSeparation
<1>3. CASE ClearMempool
  BY <1>3 DEF ClearMempool, RoleSeparation
<1>4. CASE UNCHANGED mempool
  BY <1>4 DEF RoleSeparation
<1> QED
  BY <1>1, <1>2, <1>3, <1>4 DEF MempoolNext, poolVars

\* In whatever order operations come and go, none is sent by the paymaster or
\* the factory of another, provided that replacements keep their entities and
\* no operation skips validation.
THEOREM RolesStayApart ==
  ASSUME StableEntities, SkipValidation \subseteq {FALSE}
  PROVE  MempoolSpec => []RoleSeparation
<1>1. MempoolInit => RoleSeparation
  BY DEF MempoolInit, RoleSeparation
<1>2. Inv /\ RoleSeparation /\ [MempoolNext]_poolVars => RoleSeparation'
  BY StepRoles
<1> QED
  BY <1>1, <1>2, InvHolds, PTL DEF MempoolSpec

-----------------------------------------------------------------------------
(* An unstaked sender's share of the mempool                               *)

\* A new operation of an account that is neither staked nor white-listed finds
\* fewer than SameSenderMempoolCount uses of it.
LEMMA AdmittedBelowLimit ==
  ASSUME CountsExact, NEW op \in UserOp, AddNewUserOp(FALSE, op),
         NEW a \in Address \ Unlimited, lower(op.sender) = a
  PROVE  ~(Uses(mempool, a) >= SameSenderMempoolCount)
<1>1. Lower[op.sender] = a /\ op.sender # Absent
  BY UserOpFields
<1>2. ~checkStake(entries, op.sender)
  BY <1>1, UserOpFields DEF checkStake, Unlimited
<1>3. entryCount[a] >= SameSenderMempoolCount => FALSE
  BY <1>1, <1>2 DEF AddNewUserOp, checkReputation, checkReputationStatus,
                    calculateMaxAllowedMempoolOpsUnstaked
<1> QED
  BY <1>3 DEF CountsExact

LEMMA StepSenderLimit ==
  ASSUME StableEntities, SkipValidation \subseteq {FALSE},
         Inv, CountsExact, SenderLimit, [MempoolNext]_poolVars
  PROVE  SenderLimit'
<1> SUFFICES ASSUME NEW a \in Address \ Unlimited
             PROVE  Cardinality(SentBy(mempool', a)) <= SameSenderMempoolCount
  BY DEF SenderLimit
<1>0. /\ Cardinality(SentBy(mempool, a)) <= SameSenderMempoolCount
      /\ IsFiniteSet(SentBy(mempool, a))
      /\ Cardinality(SentBy(mempool, a)) \in Nat
      /\ Uses(mempool, a) \in Nat
      /\ Cardinality(SentBy(mempool, a)) <= Uses(mempool, a)
      /\ SameSenderMempoolCount \in Nat
  BY RolesFinite, UsesType, ParamsAssumption DEF SenderLimit, Inv
<1>1. ASSUME mempool' \subseteq mempool
      PROVE  Cardinality(SentBy(mempool', a)) <= SameSenderMempoolCount
  <2>1. SentBy(mempool', a) \in SUBSET SentBy(mempool, a)
    BY <1>1 DEF SentBy
  <2>2. Cardinality(SentBy(mempool', a)) <= Cardinality(SentBy(mempool, a))
    BY <2>1, <1>0, FS_Subset
  <2>3. Cardinality(SentBy(mempool', a)) \in Nat
    BY <2>1, <1>0, FS_Subset, FS_CardinalityType
  <2> QED
    BY <2>2, <2>3, <1>0
<1>2. ASSUME NEW op \in UserOp, AddNewUserOp(FALSE, op)
      PROVE  Cardinality(SentBy(mempool', a)) <= SameSenderMempoolCount
  <2>1. CASE lower(op.sender) = a
    <3>1. SentBy(mempool', a) = SentBy(mempool, a) \union {op}
      BY <1>2, <2>1 DEF AddNewUserOp, SentBy
    <3>2. Cardinality(SentBy(mempool', a)) <= Cardinality(SentBy(mempool, a)) + 1
      BY <3>1, <1>0, FS_AddElement
    <3>3. ~(Uses(mempool, a) >= SameSenderMempoolCount)
      BY <1>2, <2>1, AdmittedBelowLimit
    <3>4. Cardinality(SentBy(mempool', a)) \in Nat
      BY <3>1, <1>0, FS_AddElement, FS_CardinalityType
    <3> QED
      BY <3>2, <3>3, <3>4, <1>0
  <2>2. CASE lower(op.sender) # a
    <3>1. SentBy(mempool', a) = SentBy(mempool, a)
      BY <1>2, <2>2 DEF AddNewUserOp, SentBy
    <3> QED
      BY <3>1, <1>0
  <2> QED
    BY <2>1, <2>2
<1>3. ASSUME NEW skip, NEW op \in UserOp, NEW old \in mempool,
             ReplaceUserOp(skip, old, op)
      PROVE  Cardinality(SentBy(mempool', a)) <= SameSenderMempoolCount
  <2>1. CASE lower(op.sender) = a
    <3>1. SentBy(mempool', a) = (SentBy(mempool, a) \ {old}) \union {op}
      BY <1>3, <2>1 DEF ReplaceUserOp, SentBy
    <3>2. old \in SentBy(mempool, a)
      BY <1>3, <2>1 DEF ReplaceUserOp, SameKey, SentBy
    <3>3. /\ IsFiniteSet(SentBy(mempool, a) \ {old})
          /\ Cardinality(SentBy(mempool, a) \ {old})
               = Cardinality(SentBy(mempool, a)) - 1
      BY <3>2, <1>0, FS_RemoveElement
    <3>4. \A S : IsFiniteSet(S) =>
            \/ Cardinality(S \union {op}) = Cardinality(S) + 1
            \/ Cardinality(S \union {op}) = Cardinality(S)
      BY FS_AddElement
    <3>5. \/ Cardinality(SentBy(mempool', a))
               = Cardinality(SentBy(mempool, a) \ {old}) + 1
          \/ Cardinality(SentBy(mempool', a))
               = Cardinality(SentBy(mempool, a) \ {old})
      BY <3>1, <3>3, <3>4
    <3> QED
      BY <3>3, <3>5, <1>0
  <2>2. CASE lower(op.sender) # a
    <3>1. SentBy(mempool', a) = SentBy(mempool, a)
      BY <1>3, <2>2 DEF ReplaceUserOp, SameKey, SentBy
    <3> QED
      BY <3>1, <1>0
  <2> QED
    BY <2>1, <2>2
<1>4. CASE \E skip \in SkipValidation, op \in UserOp : AddUserOp(skip, op)
  BY <1>4, <1>2, <1>3 DEF AddUserOp
<1>5. CASE /\ \/ \E op \in UserOp : RemoveByHash(op)
              \/ \E op \in UserOp : RemoveByKey(op)
              \/ \E addr \in Spelling : RemoveBannedAddr(addr)
           /\ UNCHANGED entries
  BY <1>5, <1>1, RemovalSteps DEF Remove
<1>6. CASE ClearMempool \/ UNCHANGED mempool
  BY <1>6, <1>1 DEF ClearMempool
<1> QED
  BY <1>4, <1>5, <1>6 DEF MempoolNext, poolVars

\* UREP-010 (ReputationManager.ts:271): with replacements that keep their
\* entities, an account that is neither staked nor white-listed never has more
\* than SameSenderMempoolCount operations in the mempool.
THEOREM SenderStaysLimited ==
  ASSUME StableEntities, SkipValidation \subseteq {FALSE}
  PROVE  MempoolSpec => []SenderLimit
<1>1. MempoolInit => SenderLimit
  <2>1. \A a \in Address : Cardinality(SentBy({}, a)) = 0
    BY FS_EmptySet DEF SentBy
  <2> QED
    BY <2>1, ParamsAssumption DEF MempoolInit, SenderLimit
<1>2. Inv /\ CountsExact /\ SenderLimit /\ [MempoolNext]_poolVars => SenderLimit'
  BY StepSenderLimit
<1> QED
  BY <1>1, <1>2, InvHolds, CountsStayExact, PTL DEF MempoolSpec

-----------------------------------------------------------------------------
(* An unstaked paymaster's or factory's share of the mempool               *)

\* What an unstaked entity is entitled to is a number.
LEMMA ShareType ==
  ASSUME NEW reps \in [Address -> Entry], NEW addr \in Spelling, NEW title
  PROVE  calculateMaxAllowedMempoolOpsUnstaked(reps, title, addr) \in Int
<1> DEFINE seen == reps[Lower[addr]].opsSeen
           included == reps[Lower[addr]].opsIncluded
<1>1. seen \in Nat /\ included \in Nat
  BY LowerAddress DEF Entry
<1> DEFINE rate == IF seen = 0 THEN 0 ELSE (included * InclusionRateFactor) \div seen
<1>2. rate \in Int
  <2>1. included * InclusionRateFactor \in Int
    BY <1>1, ParamsAssumption
  <2> HIDE DEF seen, included
  <2>2. seen # 0 => (included * InclusionRateFactor) \div seen \in Int
    BY <1>1, <2>1
  <2> QED
    BY <2>2
<1>3. LesserOf(included, MaxInclusionBonus) \in Int
  BY <1>1, ParamsAssumption DEF LesserOf
<1>4. calculateMaxAllowedMempoolOpsUnstaked(reps, title, addr)
        = IF title = "account" THEN SameSenderMempoolCount
          ELSE SameUnstakedEntityMempoolCount + rate + LesserOf(included, MaxInclusionBonus)
  BY DEF calculateMaxAllowedMempoolOpsUnstaked
<1> HIDE DEF rate, included
<1> QED
  BY <1>2, <1>3, <1>4, ParamsAssumption

LEMMA AtMostTheSum ==
  ASSUME NEW S, NEW T, IsFiniteSet(S), IsFiniteSet(T)
  PROVE  /\ IsFiniteSet(S \union T)
         /\ Cardinality(S \union T) \in Nat
         /\ Cardinality(S \union T) <= Cardinality(S) + Cardinality(T)
<1>1. IsFiniteSet(S \union T)
  BY FS_Union
<1>2. Cardinality(S \union T)
        = Cardinality(S) + Cardinality(T) - Cardinality(S \cap T)
  BY FS_Union
<1>3. /\ Cardinality(S) \in Nat /\ Cardinality(T) \in Nat
      /\ Cardinality(S \cap T) \in Nat /\ Cardinality(S \union T) \in Nat
  BY <1>1, FS_CardinalityType, FS_Intersection
<1> QED
  BY <1>1, <1>2, <1>3

\* An operation that names an address in several roles is one operation, but
\* several uses.
LEMMA UsedAtMostUses ==
  ASSUME NEW ops, IsFiniteSet(ops), NEW a
  PROVE  /\ Cardinality(UsedBy(ops, a)) \in Nat
         /\ Uses(ops, a) \in Nat
         /\ Cardinality(UsedBy(ops, a)) <= Uses(ops, a)
<1> DEFINE S == SentBy(ops, a)
           P == PaidBy(ops, a)
           D == DeployedBy(ops, a)
<1>1. IsFiniteSet(S) /\ IsFiniteSet(P) /\ IsFiniteSet(D)
  BY FS_Subset DEF SentBy, PaidBy, DeployedBy
<1>2. /\ Cardinality(S) \in Nat /\ Cardinality(P) \in Nat /\ Cardinality(D) \in Nat
  BY <1>1, FS_CardinalityType
<1>3. UsedBy(ops, a) = (S \union P) \union D
  BY DEF UsedBy
<1>4. Uses(ops, a) = Cardinality(S) + Cardinality(P) + Cardinality(D)
  BY DEF Uses
<1> HIDE DEF S, P, D
<1>5. /\ IsFiniteSet(S \union P)
      /\ Cardinality(S \union P) \in Nat
      /\ Cardinality(S \union P) <= Cardinality(S) + Cardinality(P)
  BY <1>1, <1>2, AtMostTheSum
<1>6. /\ Cardinality((S \union P) \union D) \in Nat
      /\ Cardinality((S \union P) \union D) <= Cardinality(S \union P) + Cardinality(D)
  BY <1>1, <1>5, AtMostTheSum
<1> QED
  BY <1>2, <1>3, <1>4, <1>5, <1>6

\* A new operation finds fewer uses of an entity that is neither staked nor
\* white-listed than the entity is entitled to.
LEMMA AdmittedBelowShare ==
  ASSUME Inv, CountsExact, NEW op \in UserOp, AddNewUserOp(FALSE, op),
         NEW addr \in {op.paymaster, op.factory} \ {Absent},
         Lower[addr] \notin Unlimited
  PROVE  Uses(mempool, Lower[addr])
           < calculateMaxAllowedMempoolOpsUnstaked(entries, "paymaster", addr)
<1>1. addr \in Spelling /\ Lower[addr] \in Address
  BY UserOpFields, LowerAddress
<1>2. ~checkStake(entries, addr)
  BY <1>1 DEF checkStake, Unlimited
<1> DEFINE share == calculateMaxAllowedMempoolOpsUnstaked(entries, "paymaster", addr)
<1>3. share = calculateMaxAllowedMempoolOpsUnstaked(entries, "deployer", addr)
  BY DEF calculateMaxAllowedMempoolOpsUnstaked
<1>4. share \in Int
  BY <1>1, ShareType DEF Inv, PoolTypeOK, RepTypeOK
<1> HIDE DEF share
<1>5. entryCount[Lower[addr]] >= share => FALSE
  <2>1. CASE addr = op.paymaster
    <3>1. checkReputationStatus(entries, entryCount, "paymaster", addr)
      BY <2>1 DEF AddNewUserOp, checkReputation
    <3> QED
      BY <3>1, <1>2 DEF checkReputationStatus, share
  <2>2. CASE addr = op.factory
    <3>1. checkReputationStatus(entries, entryCount, "deployer", addr)
      BY <2>2 DEF AddNewUserOp, checkReputation
    <3> QED
      BY <3>1, <1>2, <1>3 DEF checkReputationStatus
  <2> QED
    BY <2>1, <2>2
<1>6. entryCount[Lower[addr]] = Uses(mempool, Lower[addr])
  BY <1>1 DEF CountsExact
<1>7. Uses(mempool, Lower[addr]) \in Nat
  BY UsesType DEF Inv
<1>8. Uses(mempool, Lower[addr]) < share
  BY <1>4, <1>5, <1>6, <1>7
<1> QED
  BY <1>8 DEF share

\* A replacement that keeps its entities takes the place of one use.
LEMMA ReplaceUsedBy ==
  ASSUME StableEntities, Inv, NEW skip, NEW op \in UserOp, NEW old \in mempool,
         ReplaceUserOp(skip, old, op), NEW a
  PROVE  Cardinality(UsedBy(mempool', a)) <= Cardinality(UsedBy(mempool, a))
<1>1. /\ lower(old.sender) = lower(op.sender)
      /\ lower(old.paymaster) = lower(op.paymaster)
      /\ lower(old.factory) = lower(op.factory)
      /\ mempool' = (mempool \ {old}) \union {op}
  <2>1. old \in UserOp
    BY DEF Inv, PoolTypeOK
  <2> QED
    BY <2>1 DEF ReplaceUserOp, SameKey, StableEntities
<1> DEFINE U == UsedBy(mempool, a)
<1>2. IsFiniteSet(U) /\ Cardinality(U) \in Nat
  <2>1. U \subseteq mempool
    BY DEF UsedBy, SentBy, PaidBy, DeployedBy
  <2> QED
    BY <2>1, FS_Subset, FS_CardinalityType DEF Inv
<1>3. CASE old \in U
  <2>1. UsedBy(mempool', a) = (U \ {old}) \union {op}
    BY <1>1, <1>3 DEF UsedBy, SentBy, PaidBy, DeployedBy
  <2> HIDE DEF U
  <2>2. IsFiniteSet(U \ {old}) /\ Cardinality(U \ {old}) = Cardinality(U) - 1
    BY <1>2, <1>3, FS_RemoveElement
  <2>3. \A S : IsFiniteSet(S) =>
          \/ Cardinality(S \union {op}) = Cardinality(S) + 1
          \/ Cardinality(S \union {op}) = Cardinality(S)
    BY FS_AddElement
  <2>4. Cardinality((U \ {old}) \union {op}) <= Cardinality(U)
    BY <1>2, <2>2, <2>3
  <2> QED
    BY <2>1, <2>4 DEF U
<1>4. CASE old \notin U
  <2>1. UsedBy(mempool', a) = U
    BY <1>1, <1>4 DEF UsedBy, SentBy, PaidBy, DeployedBy
  <2> QED
    BY <2>1, <1>2
<1> QED
  BY <1>3, <1>4

LEMMA StepEntityLimit ==
  ASSUME StableEntities, SkipValidation \subseteq {FALSE},
         Inv, CountsExact, [MempoolNext]_poolVars,
         NEW op \in mempool' \ mempool,
         NEW addr \in {op.paymaster, op.factory} \ {Absent},
         Lower[addr] \notin Unlimited
  PROVE  \/ Cardinality(UsedBy(mempool', Lower[addr]))
              <= Cardinality(UsedBy(mempool, Lower[addr]))
         \/ Cardinality(UsedBy(mempool, Lower[addr]))
              < calculateMaxAllowedMempoolOpsUnstaked(entries, "paymaster", addr)
<1>1. \E new \in UserOp : AddUserOp(FALSE, new)
  <2>1. CASE \/ \E new \in UserOp : RemoveByHash(new)
             \/ \E new \in UserOp : RemoveByKey(new)
             \/ \E a \in Spelling : RemoveBannedAddr(a)
    BY <2>1, RemovalSteps DEF Remove
  <2>2. CASE ClearMempool \/ UNCHANGED mempool
    BY <2>2 DEF ClearMempool
  <2> QED
    BY <2>1, <2>2 DEF MempoolNext, poolVars
<1>2. PICK new \in UserOp : AddUserOp(FALSE, new)
  BY <1>1
<1>3. CASE AddNewUserOp(FALSE, new)
  <2>1. new = op
    BY <1>3 DEF AddNewUserOp
  <2>2. Uses(mempool, Lower[addr])
          < calculateMaxAllowedMempoolOpsUnstaked(entries, "paymaster", addr)
    BY <1>3, <2>1, AdmittedBelowShare
  <2>3. /\ Cardinality(UsedBy(mempool, Lower[addr])) \in Nat
        /\ Uses(mempool, Lower[addr]) \in Nat
        /\ Cardinality(UsedBy(mempool, Lower[addr])) <= Uses(mempool, Lower[addr])
    BY UsedAtMostUses DEF Inv
  <2>4. calculateMaxAllowedMempoolOpsUnstaked(entries, "paymaster", addr) \in Int
    <3>1. addr \in Spelling
      BY <2>1, UserOpFields
    <3> QED
      BY <3>1, LowerAddress, ShareType DEF Inv, PoolTypeOK, RepTypeOK
  <2> QED
    BY <2>2, <2>3, <2>4
<1>4. ASSUME NEW old \in mempool, ReplaceUserOp(FALSE, old, new)
      PROVE  Cardinality(UsedBy(mempool', Lower[addr]))
               <= Cardinality(UsedBy(mempool, Lower[addr]))
  BY <1>4, ReplaceUsedBy
<1> QED
  BY <1>2, <1>3, <1>4 DEF AddUserOp

\* UREP-020 (ReputationManager.ts:265-287): with replacements that keep their
\* entities, a paymaster or factory that is neither staked nor white-listed
\* enters with one more operation only while it has fewer of them than its
\* inclusions so far entitle it to.
THEOREM UnstakedEntitiesStayLimited ==
  ASSUME StableEntities, SkipValidation \subseteq {FALSE}
  PROVE  MempoolSpec => UnstakedEntityLimit
<1>1. Inv /\ CountsExact /\ [MempoolNext]_poolVars =>
        [\A op \in mempool' \ mempool :
           \A addr \in {op.paymaster, op.factory} \ {Absent} :
             Lower[addr] \notin Unlimited =>
               \/ Cardinality(UsedBy(mempool', Lower[addr]))
                    <= Cardinality(UsedBy(mempool, Lower[addr]))
               \/ Cardinality(UsedBy(mempool, Lower[addr]))
                    < calculateMaxAllowedMempoolOpsUnstaked(entries, "paymaster", addr)
        ]_poolVars
  BY StepEntityLimit
<1> QED
  BY <1>1, InvHolds, CountsStayExact, PTL DEF MempoolSpec, UnstakedEntityLimit

-----------------------------------------------------------------------------
(* The mempool is a pool keyed by sender and nonce                         *)

LEMMA StepRefines ==
  ASSUME [MempoolNext]_poolVars
  PROVE  [Pool!PoolNext]_mempool
<1>1. ASSUME NEW skip, NEW op \in UserOp, AddUserOp(skip, op)
      PROVE  Pool!PoolNext
  <2>1. CASE AddNewUserOp(skip, op)
    <3>1. Pool!Put(op)
      BY <2>1 DEF AddNewUserOp, SameKey, Pool!Put, Pool!SameKey
    <3> QED
      BY <3>1 DEF Pool!PoolNext
  <2>2. ASSUME NEW old \in mempool, ReplaceUserOp(skip, old, op)
        PROVE  Pool!PoolNext
    <3>1. Pool!Replace(old, op)
      BY <2>2 DEF ReplaceUserOp, checkReplaceUserOp, SameKey,
                  Pool!Replace, Pool!SameKey, Pool!OutBids
    <3> QED
      BY <3>1 DEF Pool!PoolNext
  <2> QED
    BY <1>1, <2>1, <2>2 DEF AddUserOp
<1>2. ASSUME NEW gone \in SUBSET mempool, mempool' = mempool \ gone
      PROVE  Pool!PoolNext
  BY <1>2 DEF Pool!PoolNext, Pool!Drop
<1>3. CASE \/ \E op \in UserOp : RemoveByHash(op)
           \/ \E op \in UserOp : RemoveByKey(op)
           \/ \E addr \in Spelling : RemoveBannedAddr(addr)
  BY <1>3, <1>2 DEF RemoveByHash, RemovalsByHash, RemoveByKey,
                       RemoveBannedAddr, BannedRemovals, Remove
<1>4. CASE ClearMempool
  BY <1>4, <1>2 DEF ClearMempool
<1>5. CASE UNCHANGED mempool
  BY <1>5
<1> QED
  BY <1>1, <1>3, <1>4, <1>5 DEF MempoolNext, poolVars

\* Every behaviour of the mempool, with its reputations, counters and limits,
\* is a behaviour of the keyed pool: one operation per key, which only a higher
\* bid replaces.
THEOREM MempoolRefinesPool == MempoolSpec => MempoolImplementsPool
<1>1. MempoolInit => Pool!PoolInit
  BY DEF MempoolInit, Pool!PoolInit
<1>2. [MempoolNext]_poolVars => [Pool!PoolNext]_mempool
  BY StepRefines
<1> QED
  BY <1>1, <1>2, PTL DEF MempoolSpec, MempoolImplementsPool, Pool!PoolSpec

-----------------------------------------------------------------------------
(* Events: what the listener was given stays counted                       *)

ChainTypes ==
  /\ log \subseteq Event /\ IsFiniteSet(log)
  /\ undelivered \subseteq UserOperationEvents(log)
  /\ head \in Nat
  /\ DOMAIN scan = Scanner
  /\ \A s \in Scanner : scan[s].answer \subseteq log
  /\ admitting \in UserOp \union {Absent}

EventsInv ==
  /\ Inv
  /\ ChainTypes
  /\ DeliveredAreCounted

-----------------------------------------------------------------------------
(* The handlers                                                            *)

LEMMA InclusionsParts ==
  ASSUME NEW evs, IsFiniteSet(evs), NEW a
  PROVE  /\ IsFiniteSet({ev \in UserOperationEvents(evs) : lower(ev.op.sender) = a})
         /\ IsFiniteSet({ev \in UserOperationEvents(evs) : lower(ev.op.paymaster) = a})
         /\ IsFiniteSet({ev \in AccountDeployedEvents(evs) : lower(ev.op.factory) = a})
<1>1. /\ {ev \in UserOperationEvents(evs) : lower(ev.op.sender) = a} \in SUBSET evs
      /\ {ev \in UserOperationEvents(evs) : lower(ev.op.paymaster) = a} \in SUBSET evs
      /\ {ev \in AccountDeployedEvents(evs) : lower(ev.op.factory) = a} \in SUBSET evs
  BY DEF UserOperationEvents, AccountDeployedEvents
<1>2. \A T \in SUBSET evs : IsFiniteSet(T)
  BY FS_Subset
<1> QED
  BY <1>1, <1>2

LEMMA InclusionsType ==
  ASSUME NEW evs, IsFiniteSet(evs), NEW a
  PROVE  Inclusions(evs, a) \in Nat
<1> DEFINE Sent == {ev \in UserOperationEvents(evs) : lower(ev.op.sender) = a}
           Paid == {ev \in UserOperationEvents(evs) : lower(ev.op.paymaster) = a}
           Made == {ev \in AccountDeployedEvents(evs) : lower(ev.op.factory) = a}
<1>1. IsFiniteSet(Sent) /\ IsFiniteSet(Paid) /\ IsFiniteSet(Made)
  BY InclusionsParts
<1>2. Inclusions(evs, a) = Cardinality(Sent) + Cardinality(Paid) + Cardinality(Made)
  BY DEF Inclusions
<1> HIDE DEF Sent, Paid, Made
<1>3. Cardinality(Sent) \in Nat /\ Cardinality(Paid) \in Nat /\ Cardinality(Made) \in Nat
  BY <1>1, FS_CardinalityType
<1> QED
  BY <1>2, <1>3

LEMMA NoInclusions ==
  ASSUME NEW a
  PROVE  Inclusions({}, a) = 0
<1> DEFINE Sent == {ev \in UserOperationEvents({}) : lower(ev.op.sender) = a}
           Paid == {ev \in UserOperationEvents({}) : lower(ev.op.paymaster) = a}
           Made == {ev \in AccountDeployedEvents({}) : lower(ev.op.factory) = a}
<1>1. Sent = {} /\ Paid = {} /\ Made = {}
  BY DEF UserOperationEvents, AccountDeployedEvents
<1>2. Cardinality({}) = 0
  BY FS_EmptySet
<1>3. Inclusions({}, a) = Cardinality(Sent) + Cardinality(Paid) + Cardinality(Made)
  BY DEF Inclusions
<1> HIDE DEF Sent, Paid, Made
<1> QED
  BY <1>1, <1>2, <1>3

\* Events that are handled apart are counted apart.
LEMMA InclusionsAdd ==
  ASSUME NEW S, NEW T, IsFiniteSet(S), IsFiniteSet(T), S \cap T = {}, NEW a
  PROVE  Inclusions(S \union T, a) = Inclusions(S, a) + Inclusions(T, a)
<1> DEFINE Sent(evs) == {ev \in UserOperationEvents(evs) : lower(ev.op.sender) = a}
           Paid(evs) == {ev \in UserOperationEvents(evs) : lower(ev.op.paymaster) = a}
           Made(evs) == {ev \in AccountDeployedEvents(evs) : lower(ev.op.factory) = a}
<1>1. /\ Sent(S \union T) = Sent(S) \union Sent(T) /\ Sent(S) \cap Sent(T) = {}
      /\ Paid(S \union T) = Paid(S) \union Paid(T) /\ Paid(S) \cap Paid(T) = {}
      /\ Made(S \union T) = Made(S) \union Made(T) /\ Made(S) \cap Made(T) = {}
  BY DEF UserOperationEvents, AccountDeployedEvents
<1>2. /\ IsFiniteSet(Sent(S)) /\ IsFiniteSet(Sent(T))
      /\ IsFiniteSet(Paid(S)) /\ IsFiniteSet(Paid(T))
      /\ IsFiniteSet(Made(S)) /\ IsFiniteSet(Made(T))
  BY InclusionsParts
<1>3. \A evs : Inclusions(evs, a)
                 = Cardinality(Sent(evs)) + Cardinality(Paid(evs)) + Cardinality(Made(evs))
  BY DEF Inclusions
<1> HIDE DEF Sent, Paid, Made
<1>4. /\ Cardinality(Sent(S \union T)) = Cardinality(Sent(S)) + Cardinality(Sent(T))
      /\ Cardinality(Paid(S \union T)) = Cardinality(Paid(S)) + Cardinality(Paid(T))
      /\ Cardinality(Made(S \union T)) = Cardinality(Made(S)) + Cardinality(Made(T))
  BY <1>1, <1>2, DisjointCardinality
<1>5. /\ Cardinality(Sent(S)) \in Nat /\ Cardinality(Sent(T)) \in Nat
      /\ Cardinality(Paid(S)) \in Nat /\ Cardinality(Paid(T)) \in Nat
      /\ Cardinality(Made(S)) \in Nat /\ Cardinality(Made(T)) \in Nat
  BY <1>2, FS_CardinalityType
<1>6. /\ Inclusions(S \union T, a) = Cardinality(Sent(S \union T))
           + Cardinality(Paid(S \union T)) + Cardinality(Made(S \union T))
      /\ Inclusions(S, a) = Cardinality(Sent(S)) + Cardinality(Paid(S)) + Cardinality(Made(S))
      /\ Inclusions(T, a) = Cardinality(Sent(T)) + Cardinality(Paid(T)) + Cardinality(Made(T))
  BY <1>3
<1> QED
  BY <1>4, <1>5, <1>6

\* Counting the inclusions leaves the rest as it is.
LEMMA IncludeAllType ==
  ASSUME NEW reps \in [Address -> Entry], NEW evs, IsFiniteSet(evs)
  PROVE  /\ includeAll(reps, evs) \in [Address -> Entry]
         /\ \A a \in Address :
              includeAll(reps, evs)[a].opsIncluded
                = reps[a].opsIncluded + Inclusions(evs, a)
<1>1. ASSUME NEW a \in Address
      PROVE  /\ includeAll(reps, evs)[a] \in Entry
             /\ includeAll(reps, evs)[a].opsIncluded
                  = reps[a].opsIncluded + Inclusions(evs, a)
  <2>1. Inclusions(evs, a) \in Nat
    BY InclusionsType
  <2>2. reps[a] \in Entry
    OBVIOUS
  <2>3. includeAll(reps, evs)[a]
          = [reps[a] EXCEPT !.opsIncluded = @ + Inclusions(evs, a)]
    BY DEF includeAll
  <2> QED
    BY <2>1, <2>2, <2>3 DEF Entry
<1>2. includeAll(reps, evs) = [a \in Address |-> includeAll(reps, evs)[a]]
  BY DEF includeAll
<1> QED
  BY <1>1, <1>2

\* A new operation, or one that replaces another, includes nothing.
LEMMA SeenIncludesNothing ==
  ASSUME NEW reps \in [Address -> Entry], NEW addr \in Spelling \union {Absent},
         NEW val \in Int
  PROVE  /\ updateSeenStatus(reps, addr, val) \in [Address -> Entry]
         /\ \A a \in Address :
              updateSeenStatus(reps, addr, val)[a].opsIncluded = reps[a].opsIncluded
<1>1. CASE addr = Absent
  BY <1>1 DEF updateSeenStatus
<1>2. CASE addr # Absent
  <2>1. Lower[addr] \in Address
    BY <1>2, LowerAddress
  <2>2. updateSeenStatus(reps, addr, val)
          = [reps EXCEPT ![Lower[addr]].opsSeen = NonNegative(@ + val)]
    BY <1>2 DEF updateSeenStatus
  <2>3. updateSeenStatus(reps, addr, val) \in [Address -> Entry]
    BY UpdateSeenType
  <2> QED
    BY <2>1, <2>2, <2>3 DEF Entry
<1> QED
  BY <1>1, <1>2

LEMMA OpSeenIncludesNothing ==
  ASSUME NEW reps \in [Address -> Entry], NEW skip \in BOOLEAN, NEW op \in UserOp,
         NEW val \in Int
  PROVE  /\ updateOpSeen(reps, skip, op, val) \in [Address -> Entry]
         /\ \A a \in Address :
              updateOpSeen(reps, skip, op, val)[a].opsIncluded = reps[a].opsIncluded
<1> DEFINE sender == IF ~skip /\ checkStake(reps, op.sender)
                     THEN updateSeenStatus(reps, op.sender, 1) ELSE reps
           both == updateSeenStatus(sender, op.paymaster, val)
           all == updateSeenStatus(both, op.factory, val)
<1>1. /\ op.sender \in Spelling \union {Absent}
      /\ op.paymaster \in Spelling \union {Absent}
      /\ op.factory \in Spelling \union {Absent}
  BY UserOpFields
<1>2. /\ sender \in [Address -> Entry]
      /\ \A a \in Address : sender[a].opsIncluded = reps[a].opsIncluded
  <2>1. 1 \in Int
    OBVIOUS
  <2>2. /\ updateSeenStatus(reps, op.sender, 1) \in [Address -> Entry]
        /\ \A a \in Address :
             updateSeenStatus(reps, op.sender, 1)[a].opsIncluded = reps[a].opsIncluded
    BY <1>1, <2>1, SeenIncludesNothing
  <2>3. sender = updateSeenStatus(reps, op.sender, 1) \/ sender = reps
    OBVIOUS
  <2> HIDE DEF sender
  <2> QED
    BY <2>2, <2>3
<1> HIDE DEF sender
<1>3. /\ both \in [Address -> Entry]
      /\ \A a \in Address : both[a].opsIncluded = sender[a].opsIncluded
  BY <1>1, <1>2, SeenIncludesNothing
<1> HIDE DEF both
<1>4. /\ all \in [Address -> Entry]
      /\ \A a \in Address : all[a].opsIncluded = both[a].opsIncluded
  BY <1>1, <1>3, SeenIncludesNothing
<1>5. updateOpSeen(reps, skip, op, val) = all
  BY DEF updateOpSeen, all, both, sender
<1> QED
  BY <1>2, <1>3, <1>4, <1>5

LEMMA AddIncludesNothing ==
  ASSUME Inv, NEW op \in UserOp, AddUserOp(FALSE, op)
  PROVE  Inv' /\ \A a \in Address : entries'[a].opsIncluded = entries[a].opsIncluded
<1>0. /\ entries \in [Address -> Entry]
      /\ FALSE \in BOOLEAN /\ 1 \in Int /\ -1 \in Int
  BY DEF Inv, PoolTypeOK, RepTypeOK
<1>1. CASE AddNewUserOp(FALSE, op)
  <2>1. entries' = updateOpSeen(entries, FALSE, op, 1)
    BY <1>1 DEF AddNewUserOp
  <2>2. \A a \in Address : entries'[a].opsIncluded = entries[a].opsIncluded
    BY <1>0, <2>1, OpSeenIncludesNothing
  <2>3. Inv'
    BY <1>0, <1>1, AddNewInv
  <2> QED
    BY <2>2, <2>3
<1>2. ASSUME NEW old \in mempool, ReplaceUserOp(FALSE, old, op)
      PROVE  Inv' /\ \A a \in Address : entries'[a].opsIncluded = entries[a].opsIncluded
  <2>1. old \in UserOp
    BY DEF Inv, PoolTypeOK
  <2>2. /\ updateOpSeen(entries, FALSE, old, -1) \in [Address -> Entry]
        /\ \A a \in Address :
             updateOpSeen(entries, FALSE, old, -1)[a].opsIncluded = entries[a].opsIncluded
    BY <1>0, <2>1, OpSeenIncludesNothing
  <2>3. entries' = updateOpSeen(updateOpSeen(entries, FALSE, old, -1), FALSE, op, 1)
    BY <1>2 DEF ReplaceUserOp
  <2> DEFINE undone == updateOpSeen(entries, FALSE, old, -1)
  <2>4. \A a \in Address : entries'[a].opsIncluded = undone[a].opsIncluded
    <3>1. undone \in [Address -> Entry] /\ entries' = updateOpSeen(undone, FALSE, op, 1)
      BY <2>2, <2>3
    <3> HIDE DEF undone
    <3> QED
      BY <1>0, <3>1, OpSeenIncludesNothing
  <2>5. Inv'
    BY <1>0, <1>2, ReplaceInv
  <2> QED
    BY <2>2, <2>4, <2>5
<1> QED
  BY <1>1, <1>2 DEF AddUserOp

LEMMA HandleKeepsInv ==
  ASSUME Inv, NEW evs, IsFiniteSet(evs), HandleEvents(evs)
  PROVE  /\ Inv'
         /\ \A a \in Address :
              entries'[a].opsIncluded = entries[a].opsIncluded + Inclusions(evs, a)
<1>1. entries \in [Address -> Entry]
  BY DEF Inv, PoolTypeOK, RepTypeOK
<1>2. entries' = includeAll(entries, evs)
  BY DEF HandleEvents
<1>3. RepTypeOK'
  BY <1>1, <1>2, IncludeAllType DEF RepTypeOK
<1>4. PICK gone \in SUBSET mempool : Remove(gone)
  BY DEF HandleEvents, RemovalsByHash
<1> QED
  BY <1>1, <1>2, <1>3, <1>4, IncludeAllType, RemoveInv

\* More events, more inclusions.
LEMMA InclusionsGrow ==
  ASSUME NEW S, NEW T, S \subseteq T, IsFiniteSet(T), NEW a
  PROVE  Inclusions(S, a) <= Inclusions(T, a)
<1>1. IsFiniteSet(S) /\ IsFiniteSet(T \ S)
  BY FS_Subset
<1>2. T = S \union (T \ S) /\ S \cap (T \ S) = {}
  OBVIOUS
<1>3. Inclusions(T, a) = Inclusions(S, a) + Inclusions(T \ S, a)
  BY <1>1, <1>2, InclusionsAdd
<1>4. Inclusions(S, a) \in Nat /\ Inclusions(T \ S, a) \in Nat
  BY <1>1, InclusionsType
<1> QED
  BY <1>3, <1>4

LEMMA DeliveredFinite ==
  ASSUME ChainTypes
  PROVE  IsFiniteSet(UserOperationEvents(log) \ undelivered)
<1>1. UserOperationEvents(log) \ undelivered \in SUBSET log
  BY DEF UserOperationEvents
<1> QED
  BY <1>1, FS_Subset DEF ChainTypes

\* Where neither the chain nor the listener moves, inclusions may only grow, by
\* events of the chain.
LEMMA CountedStays ==
  ASSUME EventsInv, UNCHANGED <<log, undelivered>>, NEW evs \in SUBSET log,
         \A a \in Address :
           entries'[a].opsIncluded = entries[a].opsIncluded + Inclusions(evs, a)
  PROVE  DeliveredAreCounted'
<1>1. IsFiniteSet(log) /\ IsFiniteSet(evs) /\ IsFiniteSet(UserOperationEvents(log) \ undelivered)
  BY DeliveredFinite, FS_Subset DEF EventsInv, ChainTypes
<1>2. ASSUME NEW a \in Address
      PROVE  /\ entries'[a].opsIncluded
                  >= Inclusions(UserOperationEvents(log) \ undelivered, a)
             /\ entries'[a].opsIncluded > 0 => Inclusions(log, a) > 0
  <2>1. /\ entries[a].opsIncluded >= Inclusions(UserOperationEvents(log) \ undelivered, a)
        /\ entries[a].opsIncluded > 0 => Inclusions(log, a) > 0
    BY DEF EventsInv, DeliveredAreCounted
  <2>2. entries[a].opsIncluded \in Nat
    BY DEF EventsInv, Inv, PoolTypeOK, RepTypeOK, Entry
  <2>3. Inclusions(evs, a) \in Nat /\ Inclusions(evs, a) <= Inclusions(log, a)
    BY <1>1, InclusionsType, InclusionsGrow
  <2>4. Inclusions(UserOperationEvents(log) \ undelivered, a) \in Nat
        /\ Inclusions(log, a) \in Nat
    BY <1>1, InclusionsType
  <2>5. entries'[a].opsIncluded = entries[a].opsIncluded + Inclusions(evs, a)
    OBVIOUS
  <2> QED
    BY <2>1, <2>2, <2>3, <2>4, <2>5
<1> QED
  BY <1>2 DEF DeliveredAreCounted

\* A step that handles no event.
LEMMA QuietStep ==
  ASSUME EventsInv, Inv', UNCHANGED <<log, undelivered>>,
         \A a \in Address : entries'[a].opsIncluded = entries[a].opsIncluded
  PROVE  DeliveredAreCounted'
<1>1. \A a \in Address : entries[a].opsIncluded \in Nat
  BY DEF EventsInv, Inv, PoolTypeOK, RepTypeOK, Entry
<1>2. {} \in SUBSET log
  OBVIOUS
<1>3. \A a \in Address : entries'[a].opsIncluded = entries[a].opsIncluded + Inclusions({}, a)
  BY <1>1, NoInclusions
<1> QED
  BY <1>2, <1>3, CountedStays

-----------------------------------------------------------------------------
(* The steps                                                               *)

LEMMA ScanStepInv ==
  ASSUME EventsInv, NEW s \in Scanner, ScanStep(s)
  PROVE  EventsInv'
<1>1. CASE ScanHandle(s)
  <2>1. scan[s].answer \in SUBSET log /\ IsFiniteSet(scan[s].answer)
    BY FS_Subset DEF EventsInv, ChainTypes
  <2>2. /\ Inv'
        /\ \A a \in Address : entries'[a].opsIncluded
             = entries[a].opsIncluded + Inclusions(scan[s].answer, a)
    BY <1>1, <2>1, HandleKeepsInv DEF ScanHandle, EventsInv
  <2>3. UNCHANGED <<log, undelivered>>
    BY <1>1 DEF ScanHandle
  <2>4. DeliveredAreCounted'
    BY <2>1, <2>2, <2>3, CountedStays
  <2>5. ChainTypes'
    BY <1>1 DEF ScanHandle, EventsInv, ChainTypes, Idle, sendVars
  <2> QED
    BY <2>2, <2>4, <2>5 DEF EventsInv
<1>2. CASE ~ScanHandle(s)
  <2>1. UNCHANGED <<entries, mempool, entryCount, head, log, undelivered, admitting>>
    BY <1>2 DEF ScanStep, ScanStart, NodeAnswersHead, ScanInit, NodeAnswersQuery, ScanFails,
                poolVars, sendVars
  <2>2. Inv'
    BY <2>1 DEF EventsInv, Inv, PoolTypeOK, RepTypeOK, UniqueKeys
  <2>3. DeliveredAreCounted'
    BY <2>1, <2>2, QuietStep
  <2>4. \A r \in Scanner : scan'[r].answer \subseteq log
    <3>1. CASE ScanStart(s)
      BY <3>1 DEF ScanStart, Idle, EventsInv, ChainTypes
    <3>2. CASE NodeAnswersHead(s)
      BY <3>2 DEF NodeAnswersHead, Idle, EventsInv, ChainTypes
    <3>3. CASE ScanInit(s)
      BY <3>3 DEF ScanInit, Idle, EventsInv, ChainTypes
    <3>4. CASE NodeAnswersQuery(s)
      BY <3>4 DEF NodeAnswersQuery, EventsInv, ChainTypes
    <3>5. CASE ScanFails(s)
      BY <3>5 DEF ScanFails, Idle, EventsInv, ChainTypes
    <3> QED
      BY <1>2, <3>1, <3>2, <3>3, <3>4, <3>5 DEF ScanStep
  <2>5. DOMAIN scan' = Scanner
    BY <1>2 DEF ScanStep, ScanStart, NodeAnswersHead, ScanInit, NodeAnswersQuery, ScanFails,
                EventsInv, ChainTypes
  <2>6. ChainTypes'
    BY <2>1, <2>4, <2>5 DEF EventsInv, ChainTypes
  <2> QED
    BY <2>2, <2>3, <2>6 DEF EventsInv
<1> QED
  BY <1>1, <1>2

LEMMA DeliverInv ==
  ASSUME EventsInv, Deliver
  PROVE  EventsInv'
<1>1. PICK ev \in undelivered : HandleEvents({ev}) /\ undelivered' = undelivered \ {ev}
  BY DEF Deliver
<1>2. UNCHANGED <<head, log, scan, admitting>>
  BY DEF Deliver, sendVars
<1>3. ev \in UserOperationEvents(log) /\ ev \in log /\ IsFiniteSet({ev})
  BY <1>1, FS_Singleton DEF EventsInv, ChainTypes, UserOperationEvents
<1>4. /\ Inv'
      /\ \A a \in Address :
           entries'[a].opsIncluded = entries[a].opsIncluded + Inclusions({ev}, a)
  BY <1>1, <1>3, HandleKeepsInv DEF EventsInv
<1>5. ChainTypes'
  BY <1>1, <1>2 DEF EventsInv, ChainTypes
<1> DEFINE delivered == UserOperationEvents(log) \ undelivered
<1>6. /\ UserOperationEvents(log') \ undelivered' = delivered \union {ev}
      /\ delivered \cap {ev} = {}
  BY <1>1, <1>2, <1>3
<1>7. IsFiniteSet(delivered) /\ IsFiniteSet(log)
  BY DeliveredFinite DEF EventsInv, ChainTypes
<1>8. \A a \in Address : entries[a].opsIncluded \in Nat
  BY DEF EventsInv, Inv, PoolTypeOK, RepTypeOK, Entry
<1>9. \A a \in Address : /\ entries[a].opsIncluded >= Inclusions(delivered, a)
                         /\ entries[a].opsIncluded > 0 => Inclusions(log, a) > 0
  BY DEF EventsInv, DeliveredAreCounted
<1> HIDE DEF delivered
<1>10. ASSUME NEW a \in Address
       PROVE  /\ entries'[a].opsIncluded >= Inclusions(delivered \union {ev}, a)
              /\ entries'[a].opsIncluded > 0 => Inclusions(log, a) > 0
  <2>1. Inclusions(delivered \union {ev}, a) = Inclusions(delivered, a) + Inclusions({ev}, a)
    BY <1>3, <1>6, <1>7, InclusionsAdd
  <2>2. Inclusions({ev}, a) \in Nat /\ Inclusions(delivered, a) \in Nat
        /\ Inclusions(log, a) \in Nat
    BY <1>3, <1>7, InclusionsType
  <2>3. Inclusions({ev}, a) <= Inclusions(log, a)
    BY <1>3, <1>7, InclusionsGrow
  <2>4. entries'[a].opsIncluded = entries[a].opsIncluded + Inclusions({ev}, a)
    BY <1>4
  <2> QED
    BY <1>8, <1>9, <2>1, <2>2, <2>3, <2>4
<1>11. DeliveredAreCounted'
  BY <1>2, <1>6, <1>10 DEF DeliveredAreCounted
<1> QED
  BY <1>4, <1>5, <1>11 DEF EventsInv

\* The events of a block that is mined now.
LEMMA NewEvents ==
  ASSUME EventsInv, NewBlock
  PROVE  \E new \in SUBSET Event :
           /\ IsFiniteSet(new)
           /\ log' = log \union new
           /\ undelivered' = undelivered \union UserOperationEvents(new)
<1>1. PICK ops \in SUBSET {op \in UserOp : Valid(op)} :
           /\ IsFiniteSet(ops)
           /\ log' = log \union EventsOf(ops, head + 1)
           /\ undelivered' = undelivered \union UserOperationEvents(EventsOf(ops, head + 1))
  BY DEF NewBlock
<1>2. head + 1 \in Block
  BY EventsAssumption DEF NewBlock, EventsInv, ChainTypes, Block
<1> DEFINE Included == {[block |-> head + 1, event |-> "UserOperationEvent", op |-> op] :
                          op \in ops}
           Deployed == {[block |-> head + 1, event |-> "AccountDeployed", op |-> op] :
                          op \in {o \in ops : o.factory # Absent}}
<1>3. EventsOf(ops, head + 1) = Included \union Deployed
  BY DEF EventsOf
<1>4. Included \union Deployed \in SUBSET Event
  BY <1>2 DEF Event
<1>6. IsFiniteSet(Included) /\ IsFiniteSet(Deployed)
  <2>1. IsFiniteSet(Included)
    <3> DEFINE f == [op \in ops |-> [block |-> head + 1, event |-> "UserOperationEvent",
                                    op |-> op]]
    <3>1. f \in Surjection(ops, Included)
      BY DEF Surjection
    <3> HIDE DEF f, Included
    <3> QED
      BY <1>1, <3>1, FS_Surjection
  <2>2. IsFiniteSet({o \in ops : o.factory # Absent})
    BY <1>1, FS_Subset
  <2>3. IsFiniteSet(Deployed)
    <3> DEFINE made == {o \in ops : o.factory # Absent}
               f == [op \in made |-> [block |-> head + 1, event |-> "AccountDeployed",
                                     op |-> op]]
    <3>1. f \in Surjection(made, Deployed)
      BY DEF Surjection
    <3>2. IsFiniteSet(made)
      BY <2>2
    <3> HIDE DEF f, made, Deployed
    <3> QED
      BY <3>1, <3>2, FS_Surjection
  <2> QED
    BY <2>1, <2>3
<1> HIDE DEF Included, Deployed
<1>7. IsFiniteSet(Included \union Deployed)
  BY <1>6, FS_Union
<1> QED
  BY <1>1, <1>3, <1>4, <1>7
LEMMA NewBlockInv ==
  ASSUME EventsInv, NewBlock
  PROVE  EventsInv'
<1>1. PICK new \in SUBSET Event :
           /\ IsFiniteSet(new)
           /\ log' = log \union new
           /\ undelivered' = undelivered \union UserOperationEvents(new)
  BY NewEvents
<1>2. UNCHANGED <<entries, mempool, entryCount, scan, admitting>>
  BY DEF NewBlock, poolVars, sendVars
<1>3. Inv'
  BY <1>2 DEF EventsInv, Inv, PoolTypeOK, RepTypeOK, UniqueKeys
<1>4. IsFiniteSet(log') /\ log \subseteq log' /\ head' \in Nat
  <2>1. IsFiniteSet(log')
    BY <1>1, FS_Union DEF EventsInv, ChainTypes
  <2>2. head' \in Nat
    BY DEF NewBlock, EventsInv, ChainTypes
  <2> QED
    BY <1>1, <2>1, <2>2
<1>5. ChainTypes'
  BY <1>1, <1>2, <1>4 DEF EventsInv, ChainTypes, UserOperationEvents
<1>6. UserOperationEvents(log') \ undelivered' \subseteq UserOperationEvents(log) \ undelivered
  BY <1>1 DEF UserOperationEvents
<1>7. IsFiniteSet(UserOperationEvents(log) \ undelivered)
      /\ IsFiniteSet(UserOperationEvents(log') \ undelivered')
      /\ IsFiniteSet(log)
  BY <1>6, DeliveredFinite, FS_Subset DEF EventsInv, ChainTypes
<1>8. ASSUME NEW a \in Address
      PROVE  /\ entries[a].opsIncluded
                  >= Inclusions(UserOperationEvents(log') \ undelivered', a)
             /\ entries[a].opsIncluded > 0 => Inclusions(log', a) > 0
  <2>1. Inclusions(UserOperationEvents(log') \ undelivered', a)
          <= Inclusions(UserOperationEvents(log) \ undelivered, a)
        /\ Inclusions(log, a) <= Inclusions(log', a)
    BY <1>4, <1>6, <1>7, InclusionsGrow
  <2>2. /\ Inclusions(UserOperationEvents(log') \ undelivered', a) \in Nat
        /\ Inclusions(UserOperationEvents(log) \ undelivered, a) \in Nat
        /\ Inclusions(log, a) \in Nat /\ Inclusions(log', a) \in Nat
    BY <1>4, <1>7, InclusionsType
  <2>3. /\ entries[a].opsIncluded >= Inclusions(UserOperationEvents(log) \ undelivered, a)
        /\ entries[a].opsIncluded > 0 => Inclusions(log, a) > 0
    BY DEF EventsInv, DeliveredAreCounted
  <2>4. entries[a].opsIncluded \in Nat
    BY DEF EventsInv, Inv, PoolTypeOK, RepTypeOK, Entry
  <2> QED
    BY <2>1, <2>2, <2>3, <2>4
<1>9. DeliveredAreCounted'
  BY <1>2, <1>8 DEF DeliveredAreCounted
<1> QED
  BY <1>3, <1>5, <1>9 DEF EventsInv

LEMMA SendInv ==
  ASSUME EventsInv, SendUserOperation
  PROVE  EventsInv'
<1>1. admitting \in UserOp /\ AddUserOp(FALSE, admitting)
  BY DEF SendUserOperation, EventsInv, ChainTypes
<1>2. /\ Inv'
      /\ \A a \in Address : entries'[a].opsIncluded = entries[a].opsIncluded
  BY <1>1, AddIncludesNothing DEF EventsInv
<1>3. UNCHANGED <<head, log, undelivered, scan>> /\ admitting' = Absent
  BY DEF SendUserOperation
<1>4. ChainTypes'
  BY <1>3 DEF EventsInv, ChainTypes
<1>5. DeliveredAreCounted'
  BY <1>2, <1>3, QuietStep
<1> QED
  BY <1>2, <1>4, <1>5 DEF EventsInv

\* The steps of sendUserOperation that leave the mempool alone, and stuttering.
LEMMA IdleSendInv ==
  ASSUME EventsInv, ValidateUserOp \/ SendFails \/ UNCHANGED allVars
  PROVE  EventsInv'
<1>1. UNCHANGED <<entries, mempool, entryCount, head, log, undelivered, scan>>
  BY DEF ValidateUserOp, SendFails, allVars, poolVars, eventsVars
<1>2. admitting' \in UserOp \union {Absent}
  BY DEF ValidateUserOp, SendFails, allVars, eventsVars, EventsInv, ChainTypes
<1>3. Inv'
  BY <1>1 DEF EventsInv, Inv, PoolTypeOK, RepTypeOK, UniqueKeys
<1>4. DeliveredAreCounted'
  BY <1>1, <1>3, QuietStep
<1>5. ChainTypes'
  BY <1>1, <1>2 DEF EventsInv, ChainTypes
<1> QED
  BY <1>3, <1>4, <1>5 DEF EventsInv

LEMMA EventsStepInv ==
  ASSUME EventsInv, [EventsNext]_allVars
  PROVE  EventsInv'
BY ScanStepInv, DeliverInv, NewBlockInv, SendInv, IdleSendInv DEF EventsNext

LEMMA EventsInitInv ==
  ASSUME EventsInit
  PROVE  EventsInv
<1>1. Inv
  BY InitInv DEF EventsInit
<1>2. ChainTypes
  BY FS_EmptySet DEF EventsInit, ChainTypes, Idle
<1>3. DeliveredAreCounted
  <2>1. \A a \in Address : entries[a].opsIncluded = 0
    BY DEF EventsInit, MempoolInit, RepInit, NoEntries
  <2>2. UserOperationEvents(log) \ undelivered = {}
    BY DEF EventsInit, UserOperationEvents
  <2>3. \A a \in Address : Inclusions(UserOperationEvents(log) \ undelivered, a) = 0
    BY <2>2, NoInclusions
  <2>4. \A a \in Address :
          /\ entries[a].opsIncluded >= Inclusions(UserOperationEvents(log) \ undelivered, a)
          /\ ~(entries[a].opsIncluded > 0)
    BY <2>1, <2>3
  <2> QED
    BY <2>4 DEF DeliveredAreCounted
<1> QED
  BY <1>1, <1>2, <1>3 DEF EventsInv

LEMMA EventsInvHolds == EventsSpec => []EventsInv
<1>1. EventsInit => EventsInv
  BY EventsInitInv
<1>2. EventsInv /\ [EventsNext]_allVars => EventsInv'
  BY EventsStepInv
<1> QED
  BY <1>1, <1>2, PTL DEF EventsSpec

\* However scans overlap and fail, and wherever they and the listener move the
\* cursor (EventsManager.ts:38-67), each event that the listener has been given
\* stays in the inclusions of its sender and paymaster, and no address that the
\* chain does not name has any.
THEOREM DeliveredStayCounted == EventsSpec => []DeliveredAreCounted
<1>1. EventsInv => DeliveredAreCounted
  BY DEF EventsInv
<1> QED
  BY <1>1, EventsInvHolds, PTL

-----------------------------------------------------------------------------
(* Which included operations may be left in the mempool                    *)

\* Clients spell an address in one way, so that a hash is that of one operation.
OneHashEach == \A p, q \in UserOp : SameHash(p, q) => p = q

LEMMA HandledLeave ==
  ASSUME OneHashEach, Inv, NEW evs \in SUBSET Event, HandleEvents(evs)
  PROVE  /\ mempool' \subseteq mempool
         /\ \A ev \in UserOperationEvents(evs) : ev.op \notin mempool'
<1>1. PICK gone \in RemovalsByHash({ev.op : ev \in UserOperationEvents(evs)}) : Remove(gone)
  BY DEF HandleEvents
<1>2. mempool' = mempool \ gone
  BY <1>1 DEF Remove
<1>3. gone \subseteq mempool /\ mempool \subseteq UserOp
  BY DEF RemovalsByHash, Inv, PoolTypeOK
<1>4. ASSUME NEW ev \in UserOperationEvents(evs), ev.op \in mempool
      PROVE  ev.op \in gone
  <2>1. SameHash(ev.op, ev.op)
    BY DEF SameHash
  <2>2. Cardinality({op \in gone : SameHash(op, ev.op)}) = 1
    BY <1>4, <2>1 DEF RemovalsByHash
  <2>3. {op \in gone : SameHash(op, ev.op)} # {}
    BY <2>2, FS_EmptySet
  <2>4. PICK op \in gone : SameHash(op, ev.op)
    BY <2>3
  <2>5. op = ev.op
    BY <1>3, <1>4, <2>4 DEF OneHashEach
  <2> QED
    BY <2>5
<1> QED
  BY <1>2, <1>4

LEMMA StaleStep ==
  ASSUME OneHashEach, EventsInv, StaleIsOvertaken, [EventsNext]_allVars
  PROVE  StaleIsOvertaken'
<1>1. ASSUME NEW s \in Scanner, ScanStep(s)
      PROVE  StaleIsOvertaken'
  <2>1. UNCHANGED <<log, undelivered, overtaken>>
    BY <1>1 DEF ScanStep, ScanStart, NodeAnswersHead, ScanInit, NodeAnswersQuery, ScanFails,
                ScanHandle, sendVars
  <2>2. mempool' \subseteq mempool
    BY <1>1 DEF ScanStep, ScanStart, NodeAnswersHead, ScanInit, NodeAnswersQuery, ScanFails,
                ScanHandle, HandleEvents, Remove, poolVars
  <2> QED
    BY <2>1, <2>2 DEF StaleIsOvertaken, OnChain
<1>2. CASE Deliver
  <2>1. PICK ev \in undelivered : HandleEvents({ev}) /\ undelivered' = undelivered \ {ev}
    BY <1>2 DEF Deliver
  <2>2. UNCHANGED <<log, overtaken>>
    BY <1>2 DEF Deliver, sendVars
  <2>3. ev \in UserOperationEvents({ev}) /\ {ev} \in SUBSET Event
    BY <2>1 DEF EventsInv, ChainTypes, UserOperationEvents
  <2>4. mempool' \subseteq mempool /\ ev.op \notin mempool'
    BY <2>1, <2>3, HandledLeave DEF EventsInv
  <2> QED
    BY <2>1, <2>2, <2>4 DEF StaleIsOvertaken, OnChain
<1>3. CASE NewBlock
  <2>1. PICK new \in SUBSET Event :
             /\ log' = log \union new
             /\ undelivered' = undelivered \union UserOperationEvents(new)
    BY <1>3, NewEvents
  <2>2. UNCHANGED <<mempool, overtaken>>
    BY <1>3 DEF NewBlock, poolVars, sendVars
  <2>3. \A op \in OnChain' : op \in OnChain \/ \E ev \in UserOperationEvents(new) : ev.op = op
    BY <2>1 DEF OnChain, UserOperationEvents
  <2> QED
    BY <2>1, <2>2, <2>3 DEF StaleIsOvertaken
<1>4. CASE SendUserOperation
  <2>1. mempool' \subseteq mempool \union {admitting}
    BY <1>4 DEF SendUserOperation, AddUserOp, AddNewUserOp, ReplaceUserOp
  <2>2. UNCHANGED <<log, undelivered>> /\ overtaken \subseteq overtaken'
    BY <1>4 DEF SendUserOperation
  <2>3. admitting \in OnChain =>
          admitting \in overtaken' \/ \E ev \in undelivered : ev.op = admitting
    BY <1>4 DEF SendUserOperation
  <2> QED
    BY <2>1, <2>2, <2>3 DEF StaleIsOvertaken, OnChain
<1>5. CASE ValidateUserOp \/ SendFails \/ UNCHANGED allVars
  BY <1>5 DEF ValidateUserOp, SendFails, allVars, poolVars, eventsVars, StaleIsOvertaken, OnChain
<1> QED
  BY <1>1, <1>2, <1>3, <1>4, <1>5 DEF EventsNext

\* What IncludedLeaves rests on, for clients that spell addresses in one way: an
\* operation held though it is on chain was added after its event was handled,
\* in the gap of ExecutionManager.ts:59-65, or has that event still to come.
THEOREM StaleAreOvertaken == OneHashEach => (EventsSpec => []StaleIsOvertaken)
<1> SUFFICES ASSUME OneHashEach
             PROVE  EventsSpec => []StaleIsOvertaken
  OBVIOUS
<1>1. EventsInit => StaleIsOvertaken
  BY DEF EventsInit, MempoolInit, StaleIsOvertaken
<1>2. EventsInv /\ StaleIsOvertaken /\ [EventsNext]_allVars => StaleIsOvertaken'
  BY StaleStep
<1> QED
  BY <1>1, <1>2, EventsInvHolds, PTL DEF EventsSpec
=============================================================================
