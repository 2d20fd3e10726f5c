----------------------------- MODULE Reputation -----------------------------
(***************************************************************************)
(* The reputation of the entities (accounts, paymasters, factories) that   *)
(* appear in UserOperations: ReputationManager.ts.                         *)
(*                                                                         *)
(* An address reaches the bundler in the spelling its client chose (plain  *)
(* or checksummed hexadecimal).  Some of the code compares spellings, some *)
(* of it lower-cases first, so the model keeps both: Spelling is the set   *)
(* of strings and Lower maps each one to its lower-case form.              *)
(*                                                                         *)
(* The code creates an entry when an address is first counted and deletes  *)
(* it when hourlyCron brings it back to zero.  Every reader but the debug  *)
(* dump treats a missing entry as one whose counters are zero, so entries  *)
(* is a total function here.                                               *)
(***************************************************************************)
EXTENDS Integers

CONSTANTS
  Spelling,        \* the address strings clients, chain and config use
  Lower,           \* String.toLowerCase on them
  Absent,          \* "no paymaster" / "no factory": undefined in the code
  WhiteList,       \* ReputationManager.whitelist, as spelled in the config
  BlackList,       \* ReputationManager.blackList, as spelled in the config
  Staked,          \* addresses with at least minStake and minUnstakeDelay
  MinInclusionDenominator,             \* 10 in BundlerReputationParams
  ThrottlingSlack,                     \* 10
  BanSlack,                            \* 50
  BanOpsSeenPenalty,                   \* BAN_OPS_SEEN_PENALTY = 10000
  SameSenderMempoolCount,              \* 4
  SameUnstakedEntityMempoolCount,      \* 10
  InclusionRateFactor,                 \* INCLUSION_RATE_FACTOR = 10
  MaxInclusionBonus,                   \* 10000
  DebugRpc,        \* config.debugRpc: the debug_bundler_* methods answer
  MaxOps           \* bound of the model on every counter

Address == {Lower[a] : a \in Spelling}

ASSUME SpellingAssumption ==
  /\ Lower \in [Spelling -> Spelling]
  /\ \A a \in Spelling : Lower[Lower[a]] = Lower[a]
  /\ Absent \notin Spelling
  /\ WhiteList \subseteq Spelling
  /\ BlackList \subseteq Spelling
  /\ Staked \subseteq Address

ASSUME ParamsAssumption ==
  /\ MinInclusionDenominator \in Nat \ {0}
  /\ ThrottlingSlack \in Nat
  /\ BanSlack \in Nat
  /\ BanOpsSeenPenalty \in Nat
  /\ SameSenderMempoolCount \in Nat \ {0}
  /\ SameUnstakedEntityMempoolCount \in Nat \ {0}
  /\ InclusionRateFactor \in Nat
  /\ MaxInclusionBonus \in Nat
  /\ DebugRpc \in BOOLEAN
  /\ MaxOps \in Nat

\* Both sets of parameters in the code throttle before they ban, and
\* BAN_OPS_SEEN_PENALTY is worth more expected inclusions than banSlack
\* forgives: 10000 >= 10 * (50 + 1).
ASSUME PenaltyAssumption ==
  /\ ThrottlingSlack <= BanSlack
  /\ BanOpsSeenPenalty >= MinInclusionDenominator * (BanSlack + 1)

VARIABLE entries   \* per address, how often seen in the mempool and on chain

Entry == [opsSeen : Nat, opsIncluded : Nat]

NoEntries == [a \in Address |-> [opsSeen |-> 0, opsIncluded |-> 0]]

-----------------------------------------------------------------------------
(* What the methods compute.  Those that change entries are functions from *)
(* the old entries to the new, because other modules call several of them  *)
(* in one step.                                                            *)

NonNegative(n) == IF n < 0 THEN 0 ELSE n

LesserOf(m, n) == IF m < n THEN m ELSE n

seenBelowZero(reps, addr, val) ==           \* variant: no Math.max(0, ...)
  IF addr = Absent THEN reps
  ELSE [reps EXCEPT ![Lower[addr]].opsSeen = @ + val]

updateSeenStatus(reps, addr, val) ==
  IF addr = Absent THEN reps
  ELSE [reps EXCEPT ![Lower[addr]].opsSeen = NonNegative(@ + val)]

updateIncludedStatus(reps, addr) ==
  [reps EXCEPT ![Lower[addr]].opsIncluded = @ + 1]

crashedKeepingIncluded(reps, addr) ==       \* variant: opsIncluded survives
  IF addr = Absent THEN reps
  ELSE [reps EXCEPT ![Lower[addr]].opsSeen = @ + BanOpsSeenPenalty]

crashedHandleOps(reps, addr) ==
  IF addr = Absent THEN reps
  ELSE [reps EXCEPT ![Lower[addr]] =
          [opsSeen |-> @.opsSeen + BanOpsSeenPenalty, opsIncluded |-> 0]]

\* The second line reads the opsSeen that the first one has just stored.
hourlyCron(reps) ==
  [a \in Address |->
     LET seen == (reps[a].opsSeen * 23) \div 24
     IN  [opsSeen |-> seen, opsIncluded |-> (seen * 23) \div 24]]

\* Expected inclusions against actual ones, with two slacks.
statusOf(entry) ==
  LET minExpectedIncluded == entry.opsSeen \div MinInclusionDenominator
  IN  IF minExpectedIncluded <= entry.opsIncluded + ThrottlingSlack THEN "OK"
      ELSE IF minExpectedIncluded <= entry.opsIncluded + BanSlack
           THEN "THROTTLED" ELSE "BANNED"

\* The address is lower-cased; the two lists are not.
getStatus(reps, addr) ==
  IF addr = Absent THEN "OK"
  ELSE IF Lower[addr] \in WhiteList THEN "OK"
  ELSE IF Lower[addr] \in BlackList THEN "BANNED"
  ELSE statusOf(reps[Lower[addr]])

\* Does checkStake return (TRUE) or throw (FALSE)?  isWhitelisted looks the
\* spelling up as it is.
checkStake(reps, addr) ==
  \/ addr = Absent
  \/ addr \in WhiteList
  \/ getStatus(reps, addr) # "BANNED" /\ Lower[addr] \in Staked

\* UREP-010 for the account, UREP-020 for the other entities.
calculateMaxAllowedMempoolOpsUnstaked(reps, title, addr) ==
  LET entry == reps[Lower[addr]]
      rate  == IF entry.opsSeen = 0 THEN 0
               ELSE (entry.opsIncluded * InclusionRateFactor) \div entry.opsSeen
  IN  IF title = "account" THEN SameSenderMempoolCount
      ELSE SameUnstakedEntityMempoolCount + rate
             + LesserOf(entry.opsIncluded, MaxInclusionBonus)

-----------------------------------------------------------------------------
(* The state machine: any caller may call any method at any time.  Its     *)
(* specification leaves the debug methods to Mempool.                      *)

UpdateSeenStatus(addr, val) ==
  /\ entries[Lower[addr]].opsSeen + val <= MaxOps
  /\ entries' = updateSeenStatus(entries, addr, val)

UpdateIncludedStatus(addr) ==
  /\ entries[Lower[addr]].opsIncluded < MaxOps
  /\ entries' = updateIncludedStatus(entries, addr)

CrashedHandleOps(addr) ==
  /\ entries[Lower[addr]].opsSeen + BanOpsSeenPenalty <= MaxOps
  /\ entries' = crashedHandleOps(entries, addr)

HourlyCron == entries' = hourlyCron(entries)

SetReputation(addr, seen, included) ==
  /\ DebugRpc
  /\ entries' = [entries EXCEPT ![Lower[addr]] =
                   [opsSeen |-> seen, opsIncluded |-> included]]

ClearReputation ==
  /\ DebugRpc
  /\ entries' = NoEntries

RepInit == entries = NoEntries

RepNext ==
  \/ \E addr \in Spelling, val \in {-1, 1} : UpdateSeenStatus(addr, val)
  \/ \E addr \in Spelling : UpdateIncludedStatus(addr)
  \/ \E addr \in Spelling : CrashedHandleOps(addr)
  \/ HourlyCron

\* What debug_bundler_setReputation and _clearReputation do besides.
DebugNext ==
  \/ \E addr \in Spelling, seen, included \in 0..MaxOps :
       SetReputation(addr, seen, included)
  \/ ClearReputation

RepSpec == RepInit /\ [][RepNext]_entries

-----------------------------------------------------------------------------
(* Properties                                                              *)

\* Every address has counters, and no undo takes one below zero.
RepTypeOK == entries \in [Address -> Entry]

\* An entity that crashed a bundle is banned by that very step, however many
\* inclusions it had earned before (ReputationManager.ts:179-194); only the
\* white list protects it.
CrashBansEntity ==
  [][\A addr \in Spelling :
       CrashedHandleOps(addr) /\ Lower[addr] \notin WhiteList
         => getStatus(entries', addr) = "BANNED"]_entries

Rank(status) == CASE status = "OK" -> 0
                  [] status = "THROTTLED" -> 1
                  [] status = "BANNED" -> 2

\* An entity's standing gets worse only in a step
\* that counts more of its operations as seen.  In particular an inclusion,
\* an undone "seen" and the hourly decay, which rounds both counters, never
\* push an entity over one of the two slacks.
StandingWorsensOnlyBySeen ==
  [][\A a \in Address :
       Rank(getStatus(entries', a)) > Rank(getStatus(entries, a))
         => entries'[a].opsSeen > entries[a].opsSeen]_entries

\* The comment on hourlyCron (ReputationManager.ts:72-74): both counters back
\* off, so a tick raises neither of them.
BackoffRaisesNothing ==
  [][HourlyCron =>
       \A a \in Address :
         /\ entries'[a].opsSeen <= entries[a].opsSeen
         /\ entries'[a].opsIncluded <= entries[a].opsIncluded]_entries

\* "white-listed entities - always OK." (ReputationManager.ts:61)
WhiteListedAlwaysOK == \A addr \in WhiteList : getStatus(entries, addr) = "OK"

\* "black-listed entities - always banned" (ReputationManager.ts:58)
BlackListedAlwaysBanned ==
  \A addr \in BlackList \ WhiteList : getStatus(entries, addr) = "BANNED"
=============================================================================
