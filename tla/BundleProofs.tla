---------------------------- MODULE BundleProofs ----------------------------
(* Theorems about BundleManager, for every set of operations, every limit  *)
(* and every answer of the node.                                           *)
EXTENDS BundleManager, MempoolProofs, SumLemmas

-----------------------------------------------------------------------------
(* The mempool and the reputations as the bundle manager changes them      *)

LEMMA PoolShrinks ==
  ASSUME Inv, RepTypeOK',
         \/ UNCHANGED <<mempool, entryCount>>
         \/ \E gone \in SUBSET mempool : Remove(gone)
  PROVE  Inv'
<1>1. CASE UNCHANGED <<mempool, entryCount>>
  BY <1>1 DEF Inv, PoolTypeOK, UniqueKeys
<1>2. CASE \E gone \in SUBSET mempool : Remove(gone)
  BY <1>2, RemoveInv
<1> QED
  BY <1>1, <1>2

LEMMA RemoveIfThereShrinks ==
  ASSUME NEW op, RemoveIfThere(op)
  PROVE  \/ UNCHANGED <<mempool, entryCount>>
         \/ \E gone \in SUBSET mempool : Remove(gone)
<1>1. ASSUME NEW gone \in mempool, Remove({gone})
      PROVE  \E ops \in SUBSET mempool : Remove(ops)
  <2>1. {gone} \in SUBSET mempool
    OBVIOUS
  <2> QED
    BY <1>1, <2>1
<1> QED
  BY <1>1 DEF RemoveIfThere, RemoveByKey

LEMMA RemoveBlamedShrinks ==
  ASSUME NEW addr, NEW op, RemoveBlamed(addr, op)
  PROVE  \E gone \in SUBSET mempool : Remove(gone)
<1>1. PICK gone \in BannedRemovals(addr) :
        \/ Remove(gone)
        \/ \E other \in mempool \ gone : Remove(gone \union {other})
  BY DEF RemoveBlamed
<1>2. gone \in SUBSET mempool
  BY DEF BannedRemovals
<1>3. \A other \in mempool \ gone : gone \union {other} \in SUBSET mempool
  BY <1>2
<1> QED
  BY <1>1, <1>2, <1>3

\* Whoever is blamed has an address, or nobody is blamed.
LEMMA BlameType ==
  ASSUME NEW op \in UserOp, NEW r
  PROVE  Blame(r, op) \in Spelling \union {Absent}
BY UserOpFields DEF Blame

LEMMA UndoSeenType ==
  ASSUME NEW reps \in [Address -> Entry], NEW op \in UserOp
  PROVE  undoSeen(reps, op) \in [Address -> Entry]
<1>1. \A old \in [Address -> Entry], addr \in Spelling \union {Absent} :
        updateSeenStatus(old, addr, -1) \in [Address -> Entry]
  BY UpdateSeenType, -1 \in Int
<1>2. updateSeenStatus(reps, op.sender, -1) \in [Address -> Entry]
  BY <1>1, UserOpFields
<1> QED
  BY <1>1, <1>2, UserOpFields DEF undoSeen

LEMMA FlushInv ==
  ASSUME Inv, NEW ops, IsFiniteSet(ops), Flush(ops)
  PROVE  Inv'
<1>1. \E gone \in SUBSET mempool : Remove(gone)
  BY DEF Flush, RemovalsByHash
<1>2. \A a \in Address : Uses(ops, a) \in Nat
  BY UsesType
<1>3. RepTypeOK'
  BY <1>2 DEF Flush, Inv, PoolTypeOK, RepTypeOK, Entry
<1> QED
  BY <1>1, <1>3, PoolShrinks

LEMMA AdmitInv ==
  ASSUME Inv, pending \in UserOp \union {Absent}, Admit
  PROVE  Inv'
<1>1. pending \in UserOp /\ AddUserOp(FALSE, pending) /\ FALSE \in BOOLEAN
  BY DEF Admit
<1> QED
  BY <1>1, AddNewInv, ReplaceInv DEF AddUserOp

-----------------------------------------------------------------------------
(* Type correctness                                                        *)

\* At these awaits an operation of the snapshot is at hand.
AtHand == pc \in {"validateUserOp", "getPaymasterBalance", "blameValidation", "blameSend"}
            => cur \in snapshot

\* Nothing is left of a bundle when the next one may begin.
CleanStart == pc = "idle" => bundle = {} /\ cur = Absent

TypeInv == /\ Inv /\ BundleTypeOK
           /\ IsFiniteSet(mined)
           /\ IsFiniteSet(snapshot)
           /\ AtHand
           /\ CleanStart

LEMMA ResetType ==
  ASSUME TypeInv, ResetLoop, Inv', IsFiniteSet(mined'),
         flushed' \subseteq mined', mined' \subseteq UserOp, sent' \subseteq UserOp,
         pending' = pending, crashed' \subseteq Address
  PROVE  TypeInv'
<1>1. IsFiniteSet(snapshot')
  BY FS_EmptySet DEF ResetLoop
<1>2. /\ storageOf' \in [UserOp -> SUBSET Address]
      /\ paymasterDeposit' \in [Spelling -> Nat \union {Unread}]
      /\ balanceRead' \in [Spelling -> Nat \union {Unread}]
      /\ stakedEntityCount' \in [Spelling -> Nat]
  BY DEF ResetLoop
<1> QED
  BY <1>1, <1>2 DEF TypeInv, ResetLoop, BundleTypeOK, AtHand, CleanStart, Inv

LEMMA PairFinite ==
  ASSUME NEW x, NEW y
  PROVE  IsFiniteSet({x, y})
<1>1. IsFiniteSet({x})
  BY FS_Singleton
<1>2. IsFiniteSet({x} \union {y})
  BY <1>1, FS_AddElement
<1>3. {x, y} = {x} \union {y}
  OBVIOUS
<1> QED
  BY <1>2, <1>3

\* What the checks of the loop's body leave in the variables that Choose sets.
LEMMA ChooseType ==
  ASSUME BundleTypeOK, cur \in snapshot,
         NEW deposits \in [Spelling -> Nat \union {Unread}], Choose(cur, deposits)
  PROVE  /\ paymasterDeposit' \in [Spelling -> Nat \union {Unread}]
         /\ stakedEntityCount' \in [Spelling -> Nat]
         /\ bundle' \subseteq snapshot
         /\ authList' \subseteq Authorization
         /\ totalGas' \in Nat
         /\ pc' = "loop" /\ cur' = Absent
<1>1. cur \in UserOp
  BY DEF BundleTypeOK
<1>2. stakedEntityCount' \in [Spelling -> Nat]
  <2>1. ASSUME NEW a \in Spelling
        PROVE  Cardinality({p \in {<<"pm", cur.paymaster>>, <<"factory", cur.factory>>} :
                              p[2] = a}) \in Nat
    <3> DEFINE named == {<<"pm", cur.paymaster>>, <<"factory", cur.factory>>}
    <3>1. IsFiniteSet(named)
      BY PairFinite
    <3>2. {p \in named : p[2] = a} \subseteq named
      OBVIOUS
    <3>3. IsFiniteSet({p \in named : p[2] = a})
      BY <3>1, <3>2, FS_Subset
    <3> QED
      BY <3>3, FS_CardinalityType
  <2> QED
    BY <2>1 DEF Choose, BundleTypeOK
<1>3. /\ bundle' \subseteq snapshot
      /\ authList' \subseteq Authorization
      /\ totalGas' \in Nat
  <2>1. CASE AuthConflict(cur)
    BY <2>1 DEF Choose, BundleTypeOK
  <2>2. CASE ~AuthConflict(cur)
    BY <2>2, <1>1, BundleAssumption DEF Choose, MergedAuth, BundleTypeOK
  <2> QED
    BY <2>1, <2>2
<1> QED
  BY <1>2, <1>3 DEF Choose, BackToLoop

LEMMA SpendType ==
  ASSUME BundleTypeOK, cur \in snapshot, NEW deposit \in Nat, SpendDeposit(cur, deposit)
  PROVE  /\ paymasterDeposit' \in [Spelling -> Nat \union {Unread}]
         /\ stakedEntityCount' \in [Spelling -> Nat]
         /\ bundle' \subseteq snapshot
         /\ authList' \subseteq Authorization
         /\ totalGas' \in Nat
         /\ pc' = "loop" /\ cur' = Absent
<1>1. CASE Affordable(cur, deposit)
  <2>1. deposit - cur.prefund \in Nat
    BY <1>1, BundleAssumption DEF Affordable, BundleTypeOK
  <2>2. [paymasterDeposit EXCEPT ![cur.paymaster] = deposit - cur.prefund]
          \in [Spelling -> Nat \union {Unread}]
    BY <2>1 DEF BundleTypeOK
  <2> QED
    BY <1>1, <2>2, ChooseType DEF SpendDeposit
<1>2. CASE ~Affordable(cur, deposit)
  BY <1>2 DEF SpendDeposit, BackToLoop, BundleTypeOK
<1> QED
  BY <1>1, <1>2

LEMMA TouchedType ==
  ASSUME BundleTypeOK
  PROVE  \A touched \in SUBSET knownSenders : touched \subseteq Address
BY UserOpFields DEF knownSenders, BundleTypeOK

LEMMA SamePool ==
  ASSUME Inv, UNCHANGED poolVars
  PROVE  Inv'
BY DEF Inv, PoolTypeOK, RepTypeOK, UniqueKeys, poolVars

\* A step of the walk that changes nothing of what was chosen.
LEMMA PassType ==
  ASSUME TypeInv, Inv', pc' \in {"loop", "validateUserOp", "blameValidation", "created"},
         UNCHANGED <<snapshot, bundle, storageOf, paymasterDeposit, balanceRead,
                     stakedEntityCount, authList, totalGas, chainVars>>,
         todo' \subseteq todo, cur' \in snapshot \union {Absent},
         pc' \in {"validateUserOp", "blameValidation"} => cur' \in snapshot,
         reason' \in Reasons \union {Absent}
  PROVE  TypeInv'
BY DEF TypeInv, Inv, BundleTypeOK, AtHand, CleanStart, chainVars

LEMMA WalkType ==
  ASSUME TypeInv, WalkStep
  PROVE  TypeInv'
<1>1. CASE StopAtSize \/ EndOfWalk
  BY <1>1, SamePool, PassType
  DEF StopAtSize, EndOfWalk, loopVars, chainVars, TypeInv, BundleTypeOK
<1>2. ASSUME NEW op \in todo,
             SkipLowFee(op) \/ SkipThrottled(op) \/ SkipRepeated(op) \/ Revalidate(op)
      PROVE  TypeInv'
  BY <1>2, SamePool, PassType
  DEF SkipLowFee, SkipThrottled, SkipRepeated, Revalidate, Offered, PassOver, TypeInv,
      BundleTypeOK, chainVars
<1>3. ASSUME NEW op \in todo, RemoveBanned(op)
      PROVE  TypeInv'
  <2>1. Inv'
    BY <1>3, PoolShrinks, RemoveIfThereShrinks
    DEF RemoveBanned, TypeInv, Inv, PoolTypeOK, RepTypeOK
  <2> QED
    BY <1>3, <2>1, PassType
    DEF RemoveBanned, Offered, PassOver, TypeInv, BundleTypeOK, chainVars
<1>4. ASSUME NEW touched \in SUBSET knownSenders,
             SkipForeignStorage(touched) \/ StopAtGas(touched)
      PROVE  TypeInv'
  BY <1>4, SamePool, PassType
  DEF SkipForeignStorage, StopAtGas, Validated, BackToLoop, TypeInv, BundleTypeOK, chainVars
<1>5. ASSUME NEW touched \in SUBSET knownSenders, ConsiderAtOnce(touched)
      PROVE  TypeInv'
  <2>1. Inv'
    BY <1>5, SamePool DEF ConsiderAtOnce, Validated, TypeInv
  <2>2. cur \in snapshot /\ cur \in UserOp
    BY <1>5 DEF ConsiderAtOnce, Validated, TypeInv, AtHand, BundleTypeOK
  <2>3. storageOf' \in [UserOp -> SUBSET Address]
    BY <1>5, <2>2, TouchedType DEF ConsiderAtOnce, TypeInv, BundleTypeOK
  <2>4. /\ paymasterDeposit' \in [Spelling -> Nat \union {Unread}]
        /\ stakedEntityCount' \in [Spelling -> Nat]
        /\ bundle' \subseteq snapshot
        /\ authList' \subseteq Authorization
        /\ totalGas' \in Nat
        /\ pc' = "loop" /\ cur' = Absent
    <3>1. CASE Choose(cur, paymasterDeposit)
      BY <3>1, <2>2, ChooseType DEF TypeInv, BundleTypeOK
    <3>2. CASE /\ cur.paymaster # Absent
               /\ paymasterDeposit[cur.paymaster] # Unread
               /\ SpendDeposit(cur, paymasterDeposit[cur.paymaster])
      <4>1. paymasterDeposit[cur.paymaster] \in Nat
        BY <3>2, <2>2, UserOpFields DEF TypeInv, BundleTypeOK
      <4> QED
        BY <3>2, <4>1, <2>2, SpendType DEF TypeInv
    <3> QED
      BY <1>5, <3>1, <3>2 DEF ConsiderAtOnce
  <2> QED
    BY <1>5, <2>1, <2>3, <2>4
    DEF ConsiderAtOnce, Validated, TypeInv, Inv, BundleTypeOK, AtHand, CleanStart, chainVars
<1>6. ASSUME NEW touched \in SUBSET knownSenders, AwaitBalance(touched)
      PROVE  TypeInv'
  <2>1. Inv'
    BY <1>6, SamePool DEF AwaitBalance, Validated, TypeInv
  <2>2. storageOf' \in [UserOp -> SUBSET Address]
    BY <1>6, TouchedType DEF AwaitBalance, TypeInv, BundleTypeOK
  <2> QED
    BY <1>6, <2>1, <2>2
    DEF AwaitBalance, Validated, TypeInv, Inv, BundleTypeOK, AtHand, CleanStart, chainVars
<1>7. ASSUME NEW balance \in Balances, BalanceArrives(balance)
      PROVE  TypeInv'
  <2>1. Inv'
    BY <1>7, SamePool DEF BalanceArrives, TypeInv
  <2>2. cur \in snapshot /\ balance \in Nat
    BY <1>7, BundleAssumption DEF BalanceArrives, TypeInv, AtHand
  <2>3. /\ paymasterDeposit' \in [Spelling -> Nat \union {Unread}]
        /\ stakedEntityCount' \in [Spelling -> Nat]
        /\ bundle' \subseteq snapshot
        /\ authList' \subseteq Authorization
        /\ totalGas' \in Nat
        /\ pc' = "loop" /\ cur' = Absent
    BY <1>7, <2>2, SpendType DEF BalanceArrives, TypeInv
  <2>4. balanceRead' \in [Spelling -> Nat \union {Unread}]
    BY <1>7, <2>2 DEF BalanceArrives, TypeInv, BundleTypeOK
  <2> QED
    BY <1>7, <2>1, <2>3, <2>4
    DEF BalanceArrives, TypeInv, Inv, BundleTypeOK, AtHand, CleanStart, chainVars
<1>8. CASE ValidationThrows
  <2>1. Inv'
    BY <1>8, PoolShrinks, RemoveIfThereShrinks
    DEF ValidationThrows, TypeInv, Inv, PoolTypeOK, RepTypeOK
  <2> QED
    BY <1>8, <2>1, PassType
    DEF ValidationThrows, BackToLoop, TypeInv, BundleTypeOK, chainVars
<1>9. ASSUME NEW r \in Reasons, ValidationReverts(r)
      PROVE  TypeInv'
  BY <1>9, SamePool, PassType
  DEF ValidationReverts, TypeInv, AtHand, BundleTypeOK, chainVars
<1>10. CASE BlameValidation
  <2>1. cur \in UserOp
    BY <1>10 DEF BlameValidation, TypeInv, AtHand, BundleTypeOK
  <2>2. RepTypeOK'
    <3>1. undoSeen(entries, cur) \in [Address -> Entry]
      BY <2>1, UndoSeenType DEF TypeInv, Inv, PoolTypeOK, RepTypeOK
    <3>2. \A old \in [Address -> Entry], addr \in Spelling \union {Absent} :
            updateSeenStatus(old, addr, 1) \in [Address -> Entry]
      BY UpdateSeenType, 1 \in Int
    <3> QED
      BY <1>10, <2>1, <3>1, <3>2, BlameType DEF BlameValidation, RepTypeOK
  <2>3. Inv'
    BY <1>10, <2>2, PoolShrinks, RemoveIfThereShrinks DEF BlameValidation, TypeInv
  <2> QED
    BY <1>10, <2>3, PassType
    DEF BlameValidation, BackToLoop, TypeInv, BundleTypeOK, chainVars
<1> QED
  BY <1>1, <1>2, <1>3, <1>4, <1>5, <1>6, <1>7, <1>8, <1>9, <1>10 DEF WalkStep

LEMMA SendType ==
  ASSUME TypeInv, SendStep
  PROVE  TypeInv'
<1>1. CASE GiveUp \/ NothingToSend \/ WaitFails
  <2>1. Inv'
    BY <1>1, SamePool DEF GiveUp, NothingToSend, WaitFails, TypeInv
  <2> QED
    BY <1>1, <2>1, ResetType
    DEF GiveUp, NothingToSend, WaitFails, TypeInv, BundleTypeOK, chainVars
<1>2. CASE SendAccepted
  <2>1. Inv'
    BY <1>2, SamePool DEF SendAccepted, TypeInv
  <2>2. sent' \subseteq UserOp
    BY <1>2 DEF SendAccepted, TypeInv, BundleTypeOK
  <2>3. CASE ResetLoop
    BY <1>2, <2>1, <2>2, <2>3, ResetType DEF SendAccepted, TypeInv, BundleTypeOK
  <2>4. CASE pc' = "wait" /\ UNCHANGED loopVars
    BY <1>2, <2>1, <2>2, <2>4
    DEF SendAccepted, TypeInv, Inv, BundleTypeOK, AtHand, CleanStart, loopVars
  <2> QED
    BY <1>2, <2>3, <2>4 DEF SendAccepted
<1>3. CASE BundleMined
  <2>1. Inv'
    BY <1>3, SamePool DEF BundleMined, TypeInv
  <2>2. bundle \subseteq snapshot /\ bundle \subseteq UserOp
    BY DEF TypeInv, BundleTypeOK
  <2>3. IsFiniteSet(mined \union bundle)
    BY <2>2, FS_Subset, FS_Union DEF TypeInv
  <2> QED
    BY <1>3, <2>1, <2>2, <2>3, ResetType DEF BundleMined, TypeInv, BundleTypeOK
<1>4. ASSUME NEW op \in bundle, NEW r \in Reasons, SendReverts(op, r)
      PROVE  TypeInv'
  <2>1. Inv'
    BY <1>4, SamePool DEF SendReverts, TypeInv
  <2> QED
    BY <1>4, <2>1
    DEF SendReverts, TypeInv, Inv, BundleTypeOK, AtHand, CleanStart, chainVars
<1>5. CASE BlameSend
  <2>1. cur \in UserOp
    BY <1>5 DEF BlameSend, TypeInv, AtHand, BundleTypeOK
  <2> DEFINE addr == Blame(reason, cur)
  <2>2. addr \in Spelling \union {Absent}
    BY <2>1, BlameType
  <2>3. CASE addr = Absent
    <3>1. Inv'
      BY <1>5, <2>3, PoolShrinks, RemoveIfThereShrinks
      DEF BlameSend, TypeInv, Inv, PoolTypeOK, RepTypeOK
    <3> QED
      BY <1>5, <2>3, <3>1, ResetType DEF BlameSend, TypeInv, BundleTypeOK
  <2>4. CASE addr # Absent
    <3>1. undoSeen(entries, cur) \in [Address -> Entry]
      BY <2>1, UndoSeenType DEF TypeInv, Inv, PoolTypeOK, RepTypeOK
    <3>2. RepTypeOK'
      BY <1>5, <2>2, <2>4, <3>1, CrashedType DEF BlameSend, RepTypeOK
    <3>3. Inv'
      BY <1>5, <2>4, <3>2, PoolShrinks, RemoveBlamedShrinks DEF BlameSend, TypeInv
    <3>4. crashed' \subseteq Address
      BY <1>5, <2>2, <2>4, LowerAddress DEF BlameSend, TypeInv, BundleTypeOK
    <3> QED
      BY <1>5, <3>3, <3>4, ResetType DEF BlameSend, TypeInv, BundleTypeOK
  <2> QED
    BY <2>3, <2>4
<1> QED
  BY <1>1, <1>2, <1>3, <1>4, <1>5 DEF SendStep

LEMMA AroundType ==
  ASSUME TypeInv, StartBundle \/ Around
  PROVE  TypeInv'
<1>1. CASE StartBundle
  <2>1. IsFiniteSet(mined \ flushed)
    BY FS_Difference DEF TypeInv
  <2>2. Inv'
    BY <1>1, <2>1, FlushInv DEF StartBundle, TypeInv
  <2>3. /\ snapshot' \subseteq UserOp /\ IsFiniteSet(snapshot')
        /\ todo' = snapshot' /\ cur' = cur /\ pc' = "loop"
    BY <1>1, <2>2 DEF StartBundle, Inv, PoolTypeOK
  <2>4. bundle' = {} /\ cur' = Absent
    BY <1>1 DEF StartBundle, TypeInv, CleanStart
  <2>5. flushed' \subseteq mined'
    BY <1>1 DEF StartBundle, Flush, TypeInv, BundleTypeOK
  <2>6. BundleTypeOK'
    BY <1>1, <2>2, <2>3, <2>4, <2>5 DEF StartBundle, TypeInv, Inv, BundleTypeOK
  <2> QED
    BY <1>1, <2>2, <2>3, <2>6 DEF StartBundle, TypeInv, AtHand, CleanStart
<1>2. CASE Admit
  <2>1. Inv'
    BY <1>2, AdmitInv DEF TypeInv, BundleTypeOK
  <2> QED
    BY <1>2, <2>1 DEF Admit, TypeInv, Inv, BundleTypeOK, AtHand, CleanStart, loopVars
<1>5. CASE Submit \/ Refuse
  <2>1. Inv'
    BY <1>5, SamePool DEF Submit, Refuse, TypeInv
  <2> QED
    BY <1>5, <2>1
    DEF Submit, Refuse, TypeInv, Inv, BundleTypeOK, AtHand, CleanStart, loopVars
<1>3. ASSUME NEW op \in UserOp, Include(op)
      PROVE  TypeInv'
  <2>1. IsFiniteSet(mined')
    BY <1>3, FS_AddElement DEF Include, TypeInv
  <2>2. Inv'
    BY <1>3, SamePool DEF Include, TypeInv
  <2> QED
    BY <1>3, <2>1, <2>2
    DEF Include, TypeInv, Inv, BundleTypeOK, AtHand, CleanStart, loopVars
<1>4. ASSUME NEW op \in UserOp, EventArrives(op)
      PROVE  TypeInv'
  <2>1. Inv'
    BY <1>4, FlushInv, FS_Singleton DEF EventArrives, TypeInv
  <2> QED
    BY <1>4, <2>1
    DEF EventArrives, Flush, TypeInv, Inv, BundleTypeOK, AtHand, CleanStart, loopVars
<1> QED
  BY <1>1, <1>2, <1>3, <1>4, <1>5 DEF Around

LEMMA BundleInitType == BundleInit => TypeInv
<1> SUFFICES ASSUME BundleInit PROVE TypeInv
  OBVIOUS
<1>1. Inv
  BY InitInv DEF BundleInit
<1> QED
  BY <1>1, FS_EmptySet DEF BundleInit, TypeInv, Inv, BundleTypeOK, AtHand, CleanStart

LEMMA BundleStepType == TypeInv /\ [BundleNext]_bundleVars => TypeInv'
<1> SUFFICES ASSUME TypeInv, [BundleNext]_bundleVars PROVE TypeInv'
  OBVIOUS
<1>1. CASE UNCHANGED bundleVars
  <2>1. Inv'
    BY <1>1, SamePool DEF bundleVars, TypeInv
  <2> QED
    BY <1>1, <2>1
    DEF bundleVars, loopVars, chainVars, TypeInv, Inv, BundleTypeOK, AtHand, CleanStart
<1> QED
  BY <1>1, AroundType, WalkType, SendType DEF BundleNext

LEMMA TypeInvHolds == BundleSpec => []TypeInv
BY BundleInitType, BundleStepType, PTL DEF BundleSpec

\* Whatever the answers of the node and however a bundle ends, the walk stays
\* within its snapshot of the mempool, no deposit goes below zero and no counter
\* of the mempool or the reputations does.
THEOREM BundleTypeCorrect == BundleSpec => []BundleTypeOK
BY TypeInvHolds, PTL DEF TypeInv

-----------------------------------------------------------------------------
(* What a bundle is made of                                                *)

\* An operation under consideration has a sender the bundle does not have yet.
SendersApart ==
  /\ \A p, q \in bundle : p.sender = q.sender => p = q
  /\ pc \in {"validateUserOp", "getPaymasterBalance"}
       => \A p \in bundle : p.sender # cur.sender

\* Of the accounts of the snapshot, an operation touches its own sender only.
TouchesOwn(op) == storageOf[op] \intersect knownSenders \subseteq {lower(op.sender)}

OwnStorage ==
  /\ \A p \in bundle : TouchesOwn(p)
  /\ pc = "getPaymasterBalance" => TouchesOwn(cur)

\* What was sent is on chain, or waited for.
SentIsKnown ==
  /\ pc = "wait" => sent \subseteq mined \union bundle
  /\ pc # "wait" => sent \subseteq mined /\ bundle \intersect sent = {}
  /\ pc = "getPaymasterBalance" => cur \notin sent

ChoiceInv == SendersApart /\ OwnStorage /\ AuthConsistent /\ SentIsKnown

\* A step that chooses nothing.
LEMMA QuietChoice ==
  ASSUME ChoiceInv, UNCHANGED <<snapshot, bundle, storageOf, authList, sent>>,
         mined \subseteq mined',
         \/ pc' = pc /\ cur' = cur
         \/ pc # "wait" /\ pc' \in {"loop", "blameValidation", "blameSend", "created"}
  PROVE  ChoiceInv'
BY DEF ChoiceInv, SendersApart, OwnStorage, TouchesOwn, knownSenders, AuthConsistent,
       SentIsKnown

LEMMA ResetChoice ==
  ASSUME ResetLoop, sent' \subseteq mined'
  PROVE  ChoiceInv'
BY DEF ResetLoop, ChoiceInv, SendersApart, OwnStorage, AuthConsistent, SentIsKnown

LEMMA MergeConsistent ==
  ASSUME AuthConsistent, ~AuthConflict(cur), bundle' = bundle \union {cur},
         authList' = MergedAuth(cur)
  PROVE  AuthConsistent'
<1>1. CASE cur.auth = Absent
  BY <1>1 DEF AuthConsistent, MergedAuth
<1>2. CASE cur.auth # Absent /\ \E auth \in authList : auth.signer = cur.auth.signer
  BY <1>2 DEF AuthConsistent, MergedAuth, AuthConflict
<1>3. CASE cur.auth # Absent /\ ~\E auth \in authList : auth.signer = cur.auth.signer
  <2>1. authList' = authList \union {cur.auth}
    BY <1>3 DEF MergedAuth
  <2> QED
    BY <1>3, <2>1 DEF AuthConsistent
<1> QED
  BY <1>1, <1>2, <1>3

\* An operation joins the bundle.
LEMMA ChooseChoice ==
  ASSUME TypeInv, ChoiceInv, pc \in {"validateUserOp", "getPaymasterBalance"},
         cur \notin sent, UNCHANGED <<snapshot, sent, mined>>,
         \A p \in bundle : storageOf'[p] = storageOf[p],
         storageOf'[cur] \intersect knownSenders \subseteq {lower(cur.sender)},
         NEW deposits, Choose(cur, deposits)
  PROVE  ChoiceInv'
<1>1. pc' = "loop"
  BY DEF Choose, BackToLoop
<1>2. CASE AuthConflict(cur)
  BY <1>1, <1>2
  DEF Choose, ChoiceInv, SendersApart, OwnStorage, TouchesOwn, knownSenders,
      AuthConsistent, SentIsKnown
<1>3. CASE ~AuthConflict(cur)
  <2>1. bundle' = bundle \union {cur} /\ authList' = MergedAuth(cur)
    BY <1>3 DEF Choose
  <2>2. SendersApart'
    BY <1>1, <2>1 DEF ChoiceInv, SendersApart
  <2>3. OwnStorage'
    BY <1>1, <2>1 DEF ChoiceInv, OwnStorage, TouchesOwn, knownSenders
  <2>4. AuthConsistent'
    BY <1>3, <2>1, MergeConsistent DEF ChoiceInv
  <2>5. SentIsKnown'
    BY <1>1, <2>1 DEF ChoiceInv, SentIsKnown
  <2> QED
    BY <2>2, <2>3, <2>4, <2>5 DEF ChoiceInv
<1> QED
  BY <1>2, <1>3

\* An operation joins the bundle, or cannot be afforded.
LEMMA SpendChoice ==
  ASSUME TypeInv, ChoiceInv, pc \in {"validateUserOp", "getPaymasterBalance"},
         cur \notin sent, UNCHANGED <<snapshot, sent, mined>>,
         \A p \in bundle : storageOf'[p] = storageOf[p],
         storageOf'[cur] \intersect knownSenders \subseteq {lower(cur.sender)},
         NEW deposit, SpendDeposit(cur, deposit)
  PROVE  ChoiceInv'
<1>1. CASE Affordable(cur, deposit)
  BY <1>1, ChooseChoice DEF SpendDeposit
<1>2. CASE ~Affordable(cur, deposit)
  BY <1>2
  DEF SpendDeposit, BackToLoop, ChoiceInv, SendersApart, OwnStorage, TouchesOwn,
      knownSenders, AuthConsistent, SentIsKnown
<1> QED
  BY <1>1, <1>2

\* What holds of an operation that has just been validated again.
LEMMA ValidatedCur ==
  ASSUME TypeInv, ChoiceInv, NEW touched, Validated(touched)
  PROVE  cur \in UserOp /\ cur \notin bundle /\ cur \notin sent
<1>1. cur \in UserOp
  BY DEF Validated, TypeInv, AtHand, BundleTypeOK
<1>2. cur \notin bundle
  BY DEF Validated, ChoiceInv, SendersApart
<1>3. cur \notin mined
  BY DEF Validated, Fresh
<1> QED
  BY <1>1, <1>2, <1>3 DEF Validated, ChoiceInv, SentIsKnown

LEMMA WalkChoice ==
  ASSUME TypeInv, ChoiceInv, WalkStep
  PROVE  ChoiceInv'
<1>1. CASE StopAtSize \/ EndOfWalk
  BY <1>1, QuietChoice DEF StopAtSize, EndOfWalk, loopVars, chainVars
<1>2. ASSUME NEW op \in todo,
             SkipLowFee(op) \/ RemoveBanned(op) \/ SkipThrottled(op) \/ SkipRepeated(op)
      PROVE  ChoiceInv'
  BY <1>2, QuietChoice
  DEF SkipLowFee, RemoveBanned, SkipThrottled, SkipRepeated, PassOver, chainVars
<1>3. ASSUME NEW op \in todo, Revalidate(op)
      PROVE  ChoiceInv'
  <2>1. pc = "loop" /\ pc' = "validateUserOp" /\ cur' = op
    BY <1>3 DEF Revalidate, Offered
  <2>2. SendersApart'
    BY <1>3, <2>1 DEF Revalidate, Repeated, ChoiceInv, SendersApart
  <2> QED
    BY <1>3, <2>1, <2>2
    DEF Revalidate, ChoiceInv, OwnStorage, TouchesOwn, knownSenders, AuthConsistent,
        SentIsKnown, chainVars
<1>4. ASSUME NEW touched \in SUBSET knownSenders,
             SkipForeignStorage(touched) \/ StopAtGas(touched)
      PROVE  ChoiceInv'
  BY <1>4, QuietChoice
  DEF SkipForeignStorage, StopAtGas, Validated, BackToLoop, chainVars
<1>5. ASSUME NEW touched \in SUBSET knownSenders, ConsiderAtOnce(touched)
      PROVE  ChoiceInv'
  <2>1. /\ cur \in UserOp /\ cur \notin bundle /\ cur \notin sent
        /\ pc = "validateUserOp"
        /\ UNCHANGED <<snapshot, sent, mined>>
    BY <1>5, ValidatedCur DEF ConsiderAtOnce, Validated, chainVars
  <2>2. storageOf' = [storageOf EXCEPT ![cur] = touched]
    BY <1>5 DEF ConsiderAtOnce
  <2>3. \A p \in bundle : storageOf'[p] = storageOf[p]
    BY <2>1, <2>2 DEF TypeInv, BundleTypeOK
  <2>4. storageOf'[cur] \intersect knownSenders \subseteq {lower(cur.sender)}
    BY <1>5, <2>1, <2>2 DEF ConsiderAtOnce, TouchesOther, TypeInv, BundleTypeOK
  <2> QED
    BY <1>5, <2>1, <2>3, <2>4, ChooseChoice, SpendChoice DEF ConsiderAtOnce
<1>6. ASSUME NEW touched \in SUBSET knownSenders, AwaitBalance(touched)
      PROVE  ChoiceInv'
  <2>1. /\ cur \in UserOp /\ cur \notin bundle /\ cur \notin sent
        /\ pc = "validateUserOp" /\ pc' = "getPaymasterBalance"
        /\ UNCHANGED <<snapshot, sent, mined, bundle, authList, cur>>
    BY <1>6, ValidatedCur DEF AwaitBalance, Validated, chainVars
  <2>2. storageOf' = [storageOf EXCEPT ![cur] = touched]
    BY <1>6 DEF AwaitBalance
  <2>3. \A p \in bundle : storageOf'[p] = storageOf[p]
    BY <2>1, <2>2 DEF TypeInv, BundleTypeOK
  <2>4. storageOf'[cur] \intersect knownSenders \subseteq {lower(cur.sender)}
    BY <1>6, <2>1, <2>2 DEF AwaitBalance, TouchesOther, TypeInv, BundleTypeOK
  <2> QED
    BY <2>1, <2>3, <2>4
    DEF ChoiceInv, SendersApart, OwnStorage, TouchesOwn, knownSenders, AuthConsistent,
        SentIsKnown
<1>7. ASSUME NEW balance \in Balances, BalanceArrives(balance)
      PROVE  ChoiceInv'
  <2>1. /\ pc = "getPaymasterBalance"
        /\ UNCHANGED <<snapshot, sent, mined, storageOf>>
        /\ SpendDeposit(cur, balance)
    BY <1>7 DEF BalanceArrives, chainVars
  <2>2. /\ cur \notin sent
        /\ storageOf'[cur] \intersect knownSenders \subseteq {lower(cur.sender)}
    BY <2>1 DEF ChoiceInv, SentIsKnown, OwnStorage, TouchesOwn
  <2> QED
    BY <2>1, <2>2, SpendChoice
<1>8. CASE ValidationThrows \/ BlameValidation
  BY <1>8, QuietChoice DEF ValidationThrows, BlameValidation, BackToLoop, chainVars
<1>9. ASSUME NEW r \in Reasons, ValidationReverts(r)
      PROVE  ChoiceInv'
  BY <1>9, QuietChoice DEF ValidationReverts, chainVars
<1> QED
  BY <1>1, <1>2, <1>3, <1>4, <1>5, <1>6, <1>7, <1>8, <1>9 DEF WalkStep

LEMMA SendChoice ==
  ASSUME TypeInv, ChoiceInv, SendStep
  PROVE  ChoiceInv'
<1>1. CASE GiveUp \/ NothingToSend
  BY <1>1, ResetChoice DEF GiveUp, NothingToSend, chainVars, ChoiceInv, SentIsKnown
<1>2. CASE SendAccepted
  <2>1. CASE AwaitsReceipt
    BY <1>2, <2>1
    DEF SendAccepted, AwaitsReceipt, loopVars, ChoiceInv, SendersApart, OwnStorage,
        TouchesOwn, knownSenders, AuthConsistent, SentIsKnown
  <2>2. CASE ~AwaitsReceipt
    BY <1>2, <2>2, ResetChoice
    DEF SendAccepted, AwaitsReceipt, ChoiceInv, SentIsKnown
  <2> QED
    BY <2>1, <2>2
<1>3. CASE BundleMined \/ WaitFails
  BY <1>3, ResetChoice DEF BundleMined, WaitFails, ChoiceInv, SentIsKnown
<1>4. ASSUME NEW op \in bundle, NEW r \in Reasons, SendReverts(op, r)
      PROVE  ChoiceInv'
  BY <1>4, QuietChoice DEF SendReverts, chainVars
<1>5. CASE BlameSend
  BY <1>5, ResetChoice DEF BlameSend, ChoiceInv, SentIsKnown
<1> QED
  BY <1>1, <1>2, <1>3, <1>4, <1>5 DEF SendStep

LEMMA AroundChoice ==
  ASSUME TypeInv, ChoiceInv, StartBundle \/ Around
  PROVE  ChoiceInv'
<1>1. CASE StartBundle
  <2>1. bundle = {} /\ bundle' = {} /\ pc' = "loop"
    BY <1>1 DEF StartBundle, TypeInv, CleanStart
  <2>2. sent' \subseteq mined'
    BY <1>1 DEF StartBundle, ChoiceInv, SentIsKnown
  <2> QED
    BY <2>1, <2>2 DEF ChoiceInv, SendersApart, OwnStorage, AuthConsistent, SentIsKnown
<1>2. CASE Submit \/ Admit \/ Refuse
  BY <1>2, QuietChoice DEF Submit, Admit, Refuse, loopVars
<1>3. ASSUME NEW op \in UserOp, Include(op) \/ EventArrives(op)
      PROVE  ChoiceInv'
  BY <1>3, QuietChoice DEF Include, EventArrives, loopVars
<1> QED
  BY <1>1, <1>2, <1>3 DEF Around

LEMMA BundleStepChoice ==
  TypeInv /\ ChoiceInv /\ [BundleNext]_bundleVars => ChoiceInv'
<1> SUFFICES ASSUME TypeInv, ChoiceInv, [BundleNext]_bundleVars PROVE ChoiceInv'
  OBVIOUS
<1>1. CASE UNCHANGED bundleVars
  BY <1>1, QuietChoice DEF bundleVars, loopVars, chainVars
<1> QED
  BY <1>1, AroundChoice, WalkChoice, SendChoice DEF BundleNext

LEMMA ChoiceInvHolds == BundleSpec => []ChoiceInv
<1>1. BundleInit => ChoiceInv
  BY DEF BundleInit, ChoiceInv, SendersApart, OwnStorage, AuthConsistent, SentIsKnown
<1> QED
  BY <1>1, BundleStepChoice, TypeInvHolds, PTL DEF BundleSpec

\* Each account is spelled in one way only: what clients that send the
\* canonical form of an address do, and the code does not enforce.
OneSpelling == \A p, q \in UserOp : lower(p.sender) = lower(q.sender) => p.sender = q.sender

\* "each sender is allowed only once per bundle" (BundleManager.ts:324), in any
\* order of skips, awaits and failures.
THEOREM SendersStayApart ==
  ASSUME OneSpelling
  PROVE  BundleSpec => []OnePerSender
<1>1. TypeInv /\ ChoiceInv => OnePerSender
  BY DEF OneSpelling, TypeInv, BundleTypeOK, ChoiceInv, SendersApart, OnePerSender
<1> QED
  BY <1>1, TypeInvHolds, ChoiceInvHolds, PTL

\* No operation of a bundle touches the account of another one
\* (BundleManager.ts:388-397), although each is only compared with the senders of
\* the snapshot, at another time than the others.
THEOREM StorageStaysIsolated ==
  ASSUME OneSpelling
  PROVE  BundleSpec => []StorageIsolation
<1>1. TypeInv /\ ChoiceInv => StorageIsolation
  <2> SUFFICES ASSUME TypeInv, ChoiceInv, NEW p \in bundle, NEW q \in bundle, p # q
               PROVE  lower(q.sender) \notin storageOf[p]
    BY DEF StorageIsolation
  <2>1. p \in UserOp /\ q \in UserOp /\ lower(q.sender) \in knownSenders
    BY DEF TypeInv, BundleTypeOK, knownSenders
  <2>2. lower(q.sender) # lower(p.sender)
    BY <2>1 DEF OneSpelling, ChoiceInv, SendersApart
  <2> QED
    BY <2>1, <2>2 DEF ChoiceInv, OwnStorage, TouchesOwn
<1> QED
  BY <1>1, TypeInvHolds, ChoiceInvHolds, PTL

\* The operations of a bundle agree on the delegate of each signer, and the
\* list that is sent has the tuple of each (BundleManager.ts:435-446).
THEOREM AuthStaysConsistent == BundleSpec => []AuthConsistent
BY ChoiceInvHolds, PTL DEF ChoiceInv

\* What a plain transaction carries is not bundled again
\* (BundleManager.ts:80-82 and :171-173): when the wait is over it is on chain,
\* and the second validation finds that, however late its events arrive.
THEOREM SentStaysSent == BundleSpec => []NotBundledAgain
<1>1. ChoiceInv => NotBundledAgain
  BY DEF ChoiceInv, SentIsKnown, NotBundledAgain
<1> QED
  BY <1>1, ChoiceInvHolds, PTL

-----------------------------------------------------------------------------
(* What a bundle uses: gas, and the deposits of paymasters                 *)

Gas == [op \in UserOp |-> op.gas]
Prefund == [op \in UserOp |-> op.prefund]

LEMMA GasTotal ==
  ASSUME NEW S \in SUBSET UserOp, IsFiniteSet(S)
  PROVE  MapThenSumSet(LAMBDA op : op.gas, S) = Total(Gas, S)
<1> DEFINE Sums(h) ==
             h = [s \in SUBSET S |->
                    IF s = {} THEN 0
                    ELSE (CHOOSE x \in s : TRUE).gas + h[s \ {CHOOSE x \in s : TRUE}]]
           table == CHOOSE h : Sums(h)
<1>1. MapThenSumSet(LAMBDA op : op.gas, S) = table[S]
  BY DEF MapThenSumSet, MapThenFoldSet
<1>2. ASSUME NEW h PROVE Sums(h) <=> SumsUp(Gas, S, h)
  <2>1. \A s \in SUBSET S : s # {} => Gas[Taken(s)] = (CHOOSE x \in s : TRUE).gas
    BY TakenIn DEF Taken, Gas
  <2>2. \A s \in SUBSET S :
          (IF s = {} THEN 0
           ELSE (CHOOSE x \in s : TRUE).gas + h[s \ {CHOOSE x \in s : TRUE}])
          = (IF s = {} THEN 0 ELSE Gas[Taken(s)] + h[s \ {Taken(s)}])
    BY <2>1 DEF Taken
  <2> QED
    BY <2>2, Zenon DEF SumsUp
<1> HIDE DEF Sums
<1>3. PICK g : SumsUp(Gas, S, g)
  BY SumsUpExists
<1>4. SumsUp(Gas, S, table)
  BY <1>2, <1>3
<1>5. SumsUp(Gas, S, CHOOSE h : SumsUp(Gas, S, h))
  BY <1>3
<1>6. Total(Gas, S) = table[S]
  BY <1>4, <1>5, SumsUpAgree DEF Total
<1> QED
  BY <1>1, <1>6

LEMMA PrefundTotal ==
  ASSUME NEW S \in SUBSET UserOp, IsFiniteSet(S)
  PROVE  PrefundOf(S) = Total(Prefund, S)
<1> DEFINE Sums(h) ==
             h = [s \in SUBSET S |->
                    IF s = {} THEN 0
                    ELSE (CHOOSE x \in s : TRUE).prefund
                           + h[s \ {CHOOSE x \in s : TRUE}]]
           table == CHOOSE h : Sums(h)
<1>1. PrefundOf(S) = table[S]
  BY DEF PrefundOf, MapThenSumSet, MapThenFoldSet
<1>2. ASSUME NEW h PROVE Sums(h) <=> SumsUp(Prefund, S, h)
  <2>1. \A s \in SUBSET S : s # {} => Prefund[Taken(s)] = (CHOOSE x \in s : TRUE).prefund
    BY TakenIn DEF Taken, Prefund
  <2>2. \A s \in SUBSET S :
          (IF s = {} THEN 0
           ELSE (CHOOSE x \in s : TRUE).prefund + h[s \ {CHOOSE x \in s : TRUE}])
          = (IF s = {} THEN 0 ELSE Prefund[Taken(s)] + h[s \ {Taken(s)}])
    BY <2>1 DEF Taken
  <2> QED
    BY <2>2, Zenon DEF SumsUp
<1> HIDE DEF Sums
<1>3. PICK g : SumsUp(Prefund, S, g)
  BY SumsUpExists
<1>4. SumsUp(Prefund, S, table)
  BY <1>2, <1>3
<1>5. SumsUp(Prefund, S, CHOOSE h : SumsUp(Prefund, S, h))
  BY <1>3
<1>6. Total(Prefund, S) = table[S]
  BY <1>4, <1>5, SumsUpAgree DEF Total
<1> QED
  BY <1>1, <1>6

LEMMA BundleFinite ==
  ASSUME TypeInv
  PROVE  bundle \in SUBSET UserOp /\ IsFiniteSet(bundle)
BY FS_Subset DEF TypeInv, BundleTypeOK

WithinGas(gas) == /\ gas <= MaxBundleGas
                  /\ RequestMaxBundleGas # 0 => gas < RequestMaxBundleGas

\* totalGas is the sum.
GasInv == totalGas = Total(Gas, bundle) /\ WithinGas(totalGas)

\* Whose deposit is awaited, it fits, and no other await reads that deposit.
AwaitsDeposit ==
  pc = "getPaymasterBalance" => /\ ~GasReached(cur)
                                /\ cur.paymaster \in Spelling
                                /\ paymasterDeposit[cur.paymaster] = Unread

\* Operations of the bundle that one paymaster, in one spelling, pays for.
Sponsored(ops, a) == {op \in ops : op.paymaster = a}

\* What is left of a deposit and what the bundle needs of it are no more than the
\* balance that was read.
DepositInv ==
  \A a \in Spelling :
    /\ paymasterDeposit[a] = Unread
         => balanceRead[a] = Unread /\ Sponsored(bundle, a) = {}
    /\ paymasterDeposit[a] # Unread
         => /\ balanceRead[a] # Unread
            /\ paymasterDeposit[a] + Total(Prefund, Sponsored(bundle, a)) <= balanceRead[a]
            /\ \E op \in UserOp : op.paymaster = a

UseInv == GasInv /\ DepositInv /\ AwaitsDeposit

LEMMA QuietUse ==
  ASSUME UseInv, UNCHANGED <<bundle, totalGas, paymasterDeposit, balanceRead>>,
         pc' # "getPaymasterBalance" \/ (pc' = pc /\ cur' = cur)
  PROVE  UseInv'
BY DEF UseInv, GasInv, WithinGas, GasReached, DepositInv, Sponsored, AwaitsDeposit

LEMMA ResetUse ==
  ASSUME ResetLoop
  PROVE  UseInv'
<1>1. GasInv'
  BY TotalEmpty, BundleAssumption DEF ResetLoop, GasInv, WithinGas
<1>2. DepositInv'
  BY DEF ResetLoop, DepositInv, Sponsored
<1> QED
  BY <1>1, <1>2 DEF ResetLoop, UseInv, AwaitsDeposit

LEMMA ChooseGas ==
  ASSUME TypeInv, GasInv, cur \in UserOp, cur \notin bundle, ~GasReached(cur),
         NEW deposits, Choose(cur, deposits)
  PROVE  GasInv'
<1>1. pc' = "loop"
  BY DEF Choose, BackToLoop
<1>2. CASE AuthConflict(cur)
  BY <1>1, <1>2 DEF Choose, GasInv, WithinGas
<1>3. CASE ~AuthConflict(cur)
  <2>1. bundle' = bundle \union {cur} /\ totalGas' = totalGas + cur.gas
    BY <1>3 DEF Choose
  <2>2. \A op \in bundle \union {cur} : Gas[op] \in Nat
    BY BundleFinite, BundleAssumption DEF Gas
  <2>3. Total(Gas, bundle') = Gas[cur] + Total(Gas, bundle)
    BY <2>1, <2>2, BundleFinite, TotalAdd
  <2>4. totalGas' = Total(Gas, bundle')
    BY <2>1, <2>3, BundleAssumption DEF Gas, GasInv, TypeInv, BundleTypeOK
  <2>5. WithinGas(totalGas')
    BY <2>1, BundleAssumption DEF GasReached, WithinGas, TypeInv, BundleTypeOK
  <2> QED
    BY <1>1, <2>4, <2>5 DEF GasInv, WithinGas
<1> QED
  BY <1>2, <1>3

LEMMA SpendGas ==
  ASSUME TypeInv, GasInv, cur \in UserOp, cur \notin bundle, ~GasReached(cur),
         NEW deposit, SpendDeposit(cur, deposit)
  PROVE  GasInv'
<1>1. CASE Affordable(cur, deposit)
  BY <1>1, ChooseGas DEF SpendDeposit
<1>2. CASE ~Affordable(cur, deposit)
  BY <1>2 DEF SpendDeposit, BackToLoop, GasInv, WithinGas
<1> QED
  BY <1>1, <1>2

\* The prefund of an operation is taken from the deposit of its paymaster, and
\* added to the needs of the bundle; in a conflict of delegates only the former.
LEMMA SpendDeposits ==
  ASSUME TypeInv, DepositInv, cur \in UserOp, cur \notin bundle, cur.paymaster \in Spelling,
         NEW deposit \in Nat, SpendDeposit(cur, deposit),
         balanceRead' \in [Spelling -> Nat \union {Unread}],
         \A a \in Spelling \ {cur.paymaster} : balanceRead'[a] = balanceRead[a],
         balanceRead'[cur.paymaster] # Unread,
         deposit + Total(Prefund, Sponsored(bundle, cur.paymaster))
           <= balanceRead'[cur.paymaster]
  PROVE  DepositInv'
<1> DEFINE pm == cur.paymaster
           before == Sponsored(bundle, pm)
<1>1. paymasterDeposit \in [Spelling -> Nat \union {Unread}]
  BY DEF TypeInv, BundleTypeOK
<1>2. /\ \A op \in bundle \union {cur} : Prefund[op] \in Nat
      /\ Prefund[cur] = cur.prefund /\ cur.prefund \in Nat
  BY BundleFinite, BundleAssumption DEF Prefund
<1>3. before \in SUBSET bundle /\ IsFiniteSet(before) /\ cur \notin before
  BY BundleFinite, FS_Subset DEF Sponsored
<1>4. Total(Prefund, before) \in Nat
  BY <1>2, <1>3, TotalType
<1>5. Total(Prefund, before \union {cur}) = cur.prefund + Total(Prefund, before)
  BY <1>2, <1>3, TotalAdd
<1>6. /\ bundle' \in {bundle, bundle \union {cur}}
      /\ \E left \in Nat :
           /\ paymasterDeposit' = [paymasterDeposit EXCEPT ![pm] = left]
           /\ left <= deposit
           /\ bundle' # bundle => left = deposit - cur.prefund
  <2>1. CASE Affordable(cur, deposit)
    <3>1. deposit - cur.prefund \in Nat /\ deposit - cur.prefund <= deposit
      BY <2>1, <1>2 DEF Affordable
    <3> QED
      BY <2>1, <3>1 DEF SpendDeposit, Choose
  <2>2. CASE ~Affordable(cur, deposit)
    BY <2>2 DEF SpendDeposit
  <2> QED
    BY <2>1, <2>2
<1>7. PICK left \in Nat :
         /\ paymasterDeposit' = [paymasterDeposit EXCEPT ![pm] = left]
         /\ left <= deposit
         /\ bundle' # bundle => left = deposit - cur.prefund
  BY <1>6
<1>8. Sponsored(bundle', pm) = IF bundle' = bundle THEN before ELSE before \union {cur}
  BY <1>6 DEF Sponsored
<1>9. \A a \in Spelling \ {pm} : Sponsored(bundle', a) = Sponsored(bundle, a)
  BY <1>6 DEF Sponsored
<1>10. balanceRead'[pm] \in Nat
  BY DEF Unread
<1>11. left + Total(Prefund, Sponsored(bundle', pm)) <= balanceRead'[pm]
  <2>1. CASE bundle' = bundle
    BY <2>1, <1>4, <1>7, <1>8, <1>10
  <2>2. CASE bundle' # bundle
    BY <2>2, <1>2, <1>4, <1>5, <1>7, <1>8, <1>10
  <2> QED
    BY <2>1, <2>2
<1> SUFFICES ASSUME NEW a \in Spelling
             PROVE  /\ paymasterDeposit'[a] = Unread
                         => balanceRead'[a] = Unread /\ Sponsored(bundle', a) = {}
                    /\ paymasterDeposit'[a] # Unread
                         => /\ balanceRead'[a] # Unread
                            /\ paymasterDeposit'[a] + Total(Prefund, Sponsored(bundle', a))
                                 <= balanceRead'[a]
                            /\ \E op \in UserOp : op.paymaster = a
  BY DEF DepositInv, Sponsored
<1>12. CASE a = pm
  <2>1. paymasterDeposit'[a] = left /\ left # Unread
    BY <1>12, <1>1, <1>7 DEF Unread
  <2> QED
    BY <1>12, <1>11, <2>1
<1>13. CASE a # pm
  <2>1. paymasterDeposit'[a] = paymasterDeposit[a]
    BY <1>13, <1>1, <1>7
  <2> QED
    BY <1>13, <1>9, <2>1 DEF DepositInv
<1> QED
  BY <1>12, <1>13

LEMMA WalkUse ==
  ASSUME TypeInv, ChoiceInv, UseInv, WalkStep
  PROVE  UseInv'
<1>1. CASE StopAtSize \/ EndOfWalk
  BY <1>1, QuietUse DEF StopAtSize, EndOfWalk, loopVars
<1>2. ASSUME NEW op \in todo,
             SkipLowFee(op) \/ RemoveBanned(op) \/ SkipThrottled(op)
               \/ SkipRepeated(op) \/ Revalidate(op)
      PROVE  UseInv'
  BY <1>2, QuietUse
  DEF SkipLowFee, RemoveBanned, SkipThrottled, SkipRepeated, Revalidate, Offered, PassOver
<1>3. ASSUME NEW touched \in SUBSET knownSenders,
             SkipForeignStorage(touched) \/ StopAtGas(touched)
      PROVE  UseInv'
  BY <1>3, QuietUse DEF SkipForeignStorage, StopAtGas, Validated, BackToLoop
<1>4. ASSUME NEW touched \in SUBSET knownSenders, ConsiderAtOnce(touched)
      PROVE  UseInv'
  <2> AwaitsDeposit'
    BY <1>4
    DEF ConsiderAtOnce, Choose, SpendDeposit, BackToLoop, AwaitsDeposit
  <2>1. /\ cur \in UserOp /\ cur \notin bundle /\ ~GasReached(cur)
        /\ UNCHANGED balanceRead
    BY <1>4, ValidatedCur DEF ConsiderAtOnce, Validated
  <2>2. CASE cur.paymaster = Absent /\ Choose(cur, paymasterDeposit)
    <3>1. GasInv'
      BY <2>1, <2>2, ChooseGas DEF UseInv
    <3>2. paymasterDeposit' = paymasterDeposit /\ bundle' \in {bundle, bundle \union {cur}}
      BY <2>2 DEF Choose
    <3>3. \A a \in Spelling : Sponsored(bundle', a) = Sponsored(bundle, a)
      BY <2>2, <3>2, SpellingAssumption DEF Sponsored
    <3>4. DepositInv'
      BY <2>1, <3>2, <3>3 DEF UseInv, DepositInv, Sponsored
    <3> QED
      BY <3>1, <3>4 DEF UseInv
  <2>3. CASE /\ cur.paymaster # Absent
             /\ paymasterDeposit[cur.paymaster] # Unread
             /\ SpendDeposit(cur, paymasterDeposit[cur.paymaster])
    <3>1. cur.paymaster \in Spelling
      BY <2>1, <2>3, UserOpAssumption
    <3>2. paymasterDeposit[cur.paymaster] \in Nat
      BY <2>3, <3>1 DEF TypeInv, BundleTypeOK
    <3>3. /\ balanceRead[cur.paymaster] # Unread
          /\ paymasterDeposit[cur.paymaster]
               + Total(Prefund, Sponsored(bundle, cur.paymaster))
               <= balanceRead[cur.paymaster]
      BY <2>3, <3>1 DEF UseInv, DepositInv
    <3>4. balanceRead' \in [Spelling -> Nat \union {Unread}]
      BY <2>1 DEF TypeInv, BundleTypeOK
    <3>5. DepositInv'
      BY <2>1, <2>3, <3>1, <3>2, <3>3, <3>4, SpendDeposits DEF UseInv
    <3>6. GasInv'
      BY <2>1, <2>3, SpendGas DEF UseInv
    <3> QED
      BY <3>5, <3>6 DEF UseInv
  <2> QED
    BY <1>4, <2>2, <2>3 DEF ConsiderAtOnce
<1>5. ASSUME NEW touched \in SUBSET knownSenders, AwaitBalance(touched)
      PROVE  UseInv'
  <2>1. cur.paymaster \in Spelling
    BY <1>5, ValidatedCur, UserOpAssumption DEF AwaitBalance
  <2> QED
    BY <1>5, <2>1
    DEF AwaitBalance, Validated, GasReached, UseInv, GasInv, WithinGas, DepositInv,
        Sponsored, AwaitsDeposit
<1>6. ASSUME NEW balance \in Balances, BalanceArrives(balance)
      PROVE  UseInv'
  <2>1. /\ cur \in UserOp /\ cur \notin bundle /\ ~GasReached(cur)
        /\ balance \in Nat /\ SpendDeposit(cur, balance)
        /\ balanceRead' = [balanceRead EXCEPT ![cur.paymaster] = balance]
    BY <1>6, BundleAssumption
    DEF BalanceArrives, TypeInv, AtHand, BundleTypeOK, ChoiceInv, SendersApart, UseInv,
        AwaitsDeposit
  <2>2. GasInv'
    BY <2>1, SpendGas DEF UseInv
  <2>3. /\ cur.paymaster \in Spelling
        /\ paymasterDeposit[cur.paymaster] = Unread
    BY <1>6 DEF BalanceArrives, UseInv, AwaitsDeposit
  <2>4. /\ balanceRead' \in [Spelling -> Nat \union {Unread}]
        /\ balanceRead'[cur.paymaster] = balance /\ balance # Unread
        /\ \A a \in Spelling \ {cur.paymaster} : balanceRead'[a] = balanceRead[a]
    BY <2>1, <2>3 DEF TypeInv, BundleTypeOK, Unread
  <2>5. Total(Prefund, Sponsored(bundle, cur.paymaster)) = 0
    BY <2>3, TotalEmpty DEF UseInv, DepositInv
  <2>6. DepositInv'
    BY <2>1, <2>3, <2>4, <2>5, SpendDeposits DEF UseInv
  <2> QED
    BY <2>1, <2>2, <2>6
    DEF SpendDeposit, Choose, BackToLoop, UseInv, AwaitsDeposit
<1>7. CASE ValidationThrows \/ BlameValidation
  BY <1>7, QuietUse DEF ValidationThrows, BlameValidation, BackToLoop
<1>8. ASSUME NEW r \in Reasons, ValidationReverts(r)
      PROVE  UseInv'
  BY <1>8, QuietUse DEF ValidationReverts
<1> QED
  BY <1>1, <1>2, <1>3, <1>4, <1>5, <1>6, <1>7, <1>8 DEF WalkStep

LEMMA BundleStepUse ==
  TypeInv /\ ChoiceInv /\ UseInv /\ [BundleNext]_bundleVars => UseInv'
<1> SUFFICES ASSUME TypeInv, ChoiceInv, UseInv, [BundleNext]_bundleVars PROVE UseInv'
  OBVIOUS
<1>1. CASE UNCHANGED bundleVars
  BY <1>1, QuietUse DEF bundleVars, loopVars
<1>2. CASE StartBundle
  BY <1>2, QuietUse DEF StartBundle
<1>3. CASE GiveUp \/ NothingToSend \/ BundleMined \/ WaitFails \/ BlameSend
  BY <1>3, ResetUse DEF GiveUp, NothingToSend, BundleMined, WaitFails, BlameSend
<1>4. CASE SendAccepted
  BY <1>4, ResetUse, QuietUse DEF SendAccepted, loopVars
<1>5. ASSUME NEW op \in bundle, NEW r \in Reasons, SendReverts(op, r)
      PROVE  UseInv'
  BY <1>5, QuietUse DEF SendReverts
<1>6. CASE Around
  BY <1>6, QuietUse DEF Around, Submit, Admit, Refuse, Include, EventArrives, loopVars
<1> QED
  BY <1>1, <1>2, <1>3, <1>4, <1>5, <1>6, WalkUse DEF BundleNext, SendStep

LEMMA UseInvHolds == BundleSpec => []UseInv
<1>1. BundleInit => UseInv
  BY TotalEmpty, BundleAssumption
  DEF BundleInit, UseInv, GasInv, WithinGas, DepositInv, Sponsored, AwaitsDeposit
<1> QED
  BY <1>1, BundleStepUse, TypeInvHolds, ChoiceInvHolds, PTL DEF BundleSpec

\* The gas of the chosen operations, added up, keeps to the limits of the
\* configuration and of the request (BundleManager.ts:399-415), although the
\* running sum is compared before the await for a deposit and raised after it.
THEOREM GasStaysBounded == BundleSpec => []GasBounded
<1>1. TypeInv /\ UseInv => GasBounded
  BY BundleFinite, GasTotal DEF UseInv, GasInv, WithinGas, GasBounded
<1> QED
  BY <1>1, TypeInvHolds, UseInvHolds, PTL

\* Each paymaster is spelled in one way only.
OnePaymasterSpelling ==
  \A p, q \in UserOp : lower(p.paymaster) = lower(q.paymaster) => p.paymaster = q.paymaster

\* "paymaster deposit should be enough for all UserOps in the bundle"
\* (BundleManager.ts:320): together they need no more than the balance that was
\* read, for any number of operations and however the awaits for deposits and for
\* validations fall.
THEOREM PaymasterStaysSolvent ==
  ASSUME OnePaymasterSpelling
  PROVE  BundleSpec => []PaymasterSolvent
<1>1. TypeInv /\ UseInv => PaymasterSolvent
  <2> SUFFICES ASSUME TypeInv, UseInv, NEW a \in Spelling, balanceRead[a] # Unread
               PROVE  PrefundOf(PaidBy(bundle, Lower[a])) <= balanceRead[a]
    BY DEF PaymasterSolvent
  <2>1. /\ paymasterDeposit[a] # Unread
        /\ paymasterDeposit[a] + Total(Prefund, Sponsored(bundle, a)) <= balanceRead[a]
    BY DEF UseInv, DepositInv
  <2>2. PICK one \in UserOp : one.paymaster = a
    BY <2>1 DEF UseInv, DepositInv
  <2>3. lower(a) = Lower[a]
    BY SpellingAssumption DEF lower
  <2>4. PaidBy(bundle, Lower[a]) = Sponsored(bundle, a)
    BY <2>2, <2>3, BundleFinite DEF OnePaymasterSpelling, PaidBy, Sponsored
  <2>5. Sponsored(bundle, a) \in SUBSET UserOp /\ IsFiniteSet(Sponsored(bundle, a))
    BY BundleFinite, FS_Subset DEF Sponsored
  <2>6. Total(Prefund, Sponsored(bundle, a)) \in Nat
    BY <2>5, BundleAssumption, TotalType DEF Prefund
  <2>7. /\ paymasterDeposit[a] \in Nat
        /\ balanceRead[a] \in Nat
    BY <2>1 DEF TypeInv, BundleTypeOK
  <2> QED
    BY <2>1, <2>4, <2>5, <2>6, <2>7, PrefundTotal
<1> QED
  BY <1>1, TypeInvHolds, UseInvHolds, PTL

-----------------------------------------------------------------------------
(* What the bundle manager's steps do to one address's reputation          *)

LEMMA SeenAt ==
  ASSUME NEW reps \in [Address -> Entry], NEW addr \in Spelling \union {Absent},
         NEW val \in Int, NEW a \in Address
  PROVE  /\ updateSeenStatus(reps, addr, val)[a].opsIncluded = reps[a].opsIncluded
         /\ updateSeenStatus(reps, addr, val)[a].opsSeen
              = IF lower(addr) = a THEN NonNegative(reps[a].opsSeen + val)
                                   ELSE reps[a].opsSeen
<1>1. a # Absent
  BY SpellingAssumption DEF Address
<1>2. CASE addr = Absent
  BY <1>1, <1>2 DEF updateSeenStatus, lower
<1>3. CASE addr # Absent
  <2>1. lower(addr) = Lower[addr] /\ Lower[addr] \in Address
    BY <1>3, LowerAddress DEF lower
  <2> QED
    BY <1>3, <2>1 DEF updateSeenStatus, Entry
<1> QED
  BY <1>2, <1>3

\* Inclusions are never undone, and an address that is none of the operation's
\* keeps what it has been seen.
LEMMA UndoAt ==
  ASSUME NEW reps \in [Address -> Entry], NEW op \in UserOp, NEW a \in Address
  PROVE  /\ undoSeen(reps, op)[a].opsIncluded = reps[a].opsIncluded
         /\ a \notin {lower(op.sender), lower(op.paymaster), lower(op.factory)}
              => undoSeen(reps, op)[a].opsSeen = reps[a].opsSeen
<1> DEFINE one == updateSeenStatus(reps, op.sender, -1)
           two == updateSeenStatus(one, op.paymaster, -1)
<1>1. -1 \in Int /\ op.sender \in Spelling \union {Absent}
  BY UserOpFields
<1>2. one \in [Address -> Entry]
  BY <1>1, UpdateSeenType
<1>3. two \in [Address -> Entry]
  BY <1>1, <1>2, UpdateSeenType, UserOpFields
<1>4. /\ one[a].opsIncluded = reps[a].opsIncluded
      /\ a # lower(op.sender) => one[a].opsSeen = reps[a].opsSeen
  BY <1>1, SeenAt
<1>5. /\ two[a].opsIncluded = one[a].opsIncluded
      /\ a # lower(op.paymaster) => two[a].opsSeen = one[a].opsSeen
  BY <1>1, <1>2, SeenAt, UserOpFields
<1>6. /\ undoSeen(reps, op)[a].opsIncluded = two[a].opsIncluded
      /\ a # lower(op.factory) => undoSeen(reps, op)[a].opsSeen = two[a].opsSeen
  <2>1. undoSeen(reps, op) = updateSeenStatus(two, op.factory, -1)
    BY DEF undoSeen
  <2>2. op.factory \in Spelling \union {Absent}
    BY UserOpFields
  <2> DEFINE three == updateSeenStatus(two, op.factory, -1)
  <2> HIDE DEF one, two
  <2>3. /\ three[a].opsIncluded = two[a].opsIncluded
        /\ three[a].opsSeen = IF lower(op.factory) = a THEN NonNegative(two[a].opsSeen - 1)
                                                       ELSE two[a].opsSeen
    BY <1>1, <1>3, <2>2, SeenAt
  <2> QED
    BY <2>1, <2>3
<1> QED
  BY <1>4, <1>5, <1>6

\* What updateOpSeen adds to an address or takes from it.
LEMMA OpSeenAt ==
  ASSUME NEW reps \in [Address -> Entry], NEW skip \in BOOLEAN, NEW op \in UserOp,
         NEW val \in Int, NEW a \in Address
  PROVE  /\ updateOpSeen(reps, skip, op, val)[a].opsIncluded = reps[a].opsIncluded
         /\ a \notin {lower(op.paymaster), lower(op.factory)}
              => updateOpSeen(reps, skip, op, val)[a].opsSeen >= reps[a].opsSeen
<1> DEFINE one == IF ~skip /\ checkStake(reps, op.sender)
                  THEN updateSeenStatus(reps, op.sender, 1) ELSE reps
           two == updateSeenStatus(one, op.paymaster, val)
<1>1. 1 \in Int /\ op.sender \in Spelling \union {Absent} /\ reps[a].opsSeen \in Nat
  BY UserOpFields DEF Entry
<1>2. one \in [Address -> Entry]
  BY <1>1, UpdateSeenType
<1>3. two \in [Address -> Entry]
  BY <1>2, UpdateSeenType, UserOpFields
<1>4. one[a].opsIncluded = reps[a].opsIncluded /\ one[a].opsSeen >= reps[a].opsSeen
  <2>1. CASE one = reps
    BY <2>1, <1>1
  <2>2. CASE one = updateSeenStatus(reps, op.sender, 1)
    BY <2>2, <1>1, SeenAt DEF NonNegative
  <2> QED
    BY <2>1, <2>2
<1>5. /\ two[a].opsIncluded = one[a].opsIncluded
      /\ a # lower(op.paymaster) => two[a].opsSeen = one[a].opsSeen
  BY <1>2, SeenAt, UserOpFields
<1>6. updateOpSeen(reps, skip, op, val) = updateSeenStatus(two, op.factory, val)
  BY DEF updateOpSeen
<1>7. /\ updateOpSeen(reps, skip, op, val)[a].opsIncluded = two[a].opsIncluded
      /\ a # lower(op.factory)
           => updateOpSeen(reps, skip, op, val)[a].opsSeen = two[a].opsSeen
  BY <1>3, <1>6, SeenAt, UserOpFields
<1> QED
  BY <1>4, <1>5, <1>7

-----------------------------------------------------------------------------
(* An entity that crashed a bundle stays out                               *)

\* Each entity is spelled in one way only, in whatever role it is named.
OneEntitySpelling ==
  \A p, q \in UserOp : \A a \in EntitiesOf(p), b \in EntitiesOf(q) :
    lower(a) = lower(b) => a = b

\* The white list would keep a crashed entity from being banned.
NoneWhiteListed == \A op \in UserOp : \A addr \in EntitiesOf(op) : lower(addr) \notin WhiteList

\* The penalty is worth more expected inclusions than the operations that name
\* an entity can ever earn it: with the numbers of the code, up to 949 of them.
PenaltyLasts ==
  /\ IsFiniteSet(UserOp)
  /\ \A a \in Address :
       BanOpsSeenPenalty >= MinInclusionDenominator * (BanSlack + Uses(UserOp, a) + 1)

Untainted(op) == crashed \intersect {lower(addr) : addr \in EntitiesOf(op)} = {}

\* The ban of a crashed entity outlasts every inclusion that is still to come:
\* none of its operations is left whose "seen" could be undone.
CrashInv ==
  /\ \A a \in Address : entries[a].opsIncluded <= Uses(flushed, a)
  /\ \A a \in crashed : entries[a].opsSeen >= BanOpsSeenPenalty
  /\ \A op \in mempool \union snapshot : Untainted(op)

LEMMA QuotientExceeds ==
  ASSUME NEW d \in Nat \ {0}, NEW m \in Nat, NEW seen \in Nat, seen >= d * (m + 1)
  PROVE  seen \div d \in Int /\ seen \div d > m
<1> DEFINE q == seen \div d
<1>1. q \in Int /\ seen = d * q + (seen % d) /\ seen % d \in 0..(d - 1)
  OBVIOUS
<1>2. d * q \in Int /\ d * (m + 1) \in Int
  BY <1>1
<1>3. d * q + d > d * (m + 1)
  BY <1>1, <1>2
<1>4. ASSUME q <= m PROVE FALSE
  <2>1. d * (q + 1) <= d * (m + 1)
    BY <1>4, <1>1
  <2>2. d * (q + 1) = d * q + d
    BY <1>1
  <2> QED
    BY <2>1, <2>2, <1>2, <1>3
<1> QED
  BY <1>1, <1>4

LEMMA StillBanned ==
  ASSUME NEW e \in Entry, NEW n \in Nat, e.opsIncluded <= n,
         e.opsSeen >= BanOpsSeenPenalty,
         BanOpsSeenPenalty >= MinInclusionDenominator * (BanSlack + n + 1)
  PROVE  statusOf(e) = "BANNED"
<1> DEFINE d == MinInclusionDenominator
           m == BanSlack + n
<1>1. /\ d \in Nat \ {0} /\ BanSlack \in Nat /\ ThrottlingSlack \in Nat
      /\ BanOpsSeenPenalty \in Nat /\ ThrottlingSlack <= BanSlack
      /\ e.opsSeen \in Nat /\ e.opsIncluded \in Nat
  BY ParamsAssumption, PenaltyAssumption DEF Entry
<1>2. m \in Nat /\ d * (m + 1) \in Nat
  BY <1>1
<1>3. e.opsSeen >= d * (m + 1)
  BY <1>1, <1>2
<1> HIDE DEF m
<1>4. e.opsSeen \div d \in Int /\ e.opsSeen \div d > m
  BY <1>1, <1>2, <1>3, QuotientExceeds
<1>5. /\ ~(e.opsSeen \div d <= e.opsIncluded + BanSlack)
      /\ ~(e.opsSeen \div d <= e.opsIncluded + ThrottlingSlack)
  BY <1>1, <1>4 DEF m
<1> QED
  BY <1>5 DEF statusOf

LEMMA UsesBelowAll ==
  ASSUME IsFiniteSet(UserOp), NEW ops \in SUBSET UserOp, NEW a
  PROVE  /\ IsFiniteSet(ops)
         /\ Uses(ops, a) \in Nat /\ Uses(UserOp, a) \in Nat
         /\ Uses(ops, a) <= Uses(UserOp, a)
<1>1. IsFiniteSet(ops)
  BY FS_Subset
<1>2. Uses(UserOp \ ops, a) = Uses(UserOp, a) - Uses(ops, a) /\ Uses(UserOp \ ops, a) \in Nat
  BY UsesRemoved
<1> QED
  BY <1>1, <1>2, UsesType

\* None of the entities of an operation that may be added has crashed a bundle.
LEMMA AddedUntainted ==
  ASSUME PenaltyLasts, NoneWhiteListed, TypeInv, CrashInv,
         NEW op \in UserOp, checkReputation(op)
  PROVE  Untainted(op)
<1> SUFFICES ASSUME NEW addr \in EntitiesOf(op), lower(addr) \in crashed PROVE FALSE
  BY DEF Untainted
<1>1. addr \in Spelling /\ addr # Absent /\ lower(addr) = Lower[addr] /\ Lower[addr] \in Address
  BY UserOpFields, SpellingAssumption, LowerAddress DEF EntitiesOf, lower
<1> DEFINE a == Lower[addr]
<1>2. getStatus(entries, addr) # "BANNED"
  BY <1>1 DEF checkReputation, checkReputationStatus, EntitiesOf
<1>3. a \notin WhiteList
  BY <1>1 DEF NoneWhiteListed
<1>4. statusOf(entries[a]) # "BANNED"
  BY <1>1, <1>2, <1>3 DEF getStatus
<1>5. /\ entries[a] \in Entry
      /\ entries[a].opsIncluded <= Uses(flushed, a)
      /\ entries[a].opsSeen >= BanOpsSeenPenalty
  BY <1>1 DEF CrashInv, TypeInv, Inv, PoolTypeOK, RepTypeOK
<1>6. /\ Uses(flushed, a) <= Uses(UserOp, a)
      /\ Uses(flushed, a) \in Nat /\ Uses(UserOp, a) \in Nat
  BY UsesBelowAll DEF PenaltyLasts, TypeInv, BundleTypeOK
<1>7. entries[a].opsIncluded <= Uses(UserOp, a)
  BY <1>5, <1>6 DEF Entry
<1> QED
  BY <1>1, <1>4, <1>5, <1>6, <1>7, StillBanned DEF PenaltyLasts

LEMMA QuietCrash ==
  ASSUME CrashInv, UNCHANGED <<entries, flushed, crashed>>,
         mempool' \subseteq mempool, snapshot' \subseteq mempool \union snapshot
  PROVE  CrashInv'
BY DEF CrashInv, Untainted

LEMMA FlushCrash ==
  ASSUME TypeInv, CrashInv, NEW ops, IsFiniteSet(ops), ops \intersect flushed = {},
         Flush(ops), crashed' = crashed, snapshot' \subseteq mempool' \union snapshot
  PROVE  CrashInv'
<1>1. mempool' \subseteq mempool
  BY DEF Flush, Remove
<1>2. \A op \in mempool' \union snapshot' : Untainted(op)'
  BY <1>1 DEF CrashInv, Untainted
<1>3. \A a \in Address : entries'[a].opsSeen = entries[a].opsSeen
                         /\ entries'[a].opsIncluded = entries[a].opsIncluded + Uses(ops, a)
  BY DEF Flush, TypeInv, Inv, PoolTypeOK, RepTypeOK, Entry
<1>4. IsFiniteSet(flushed)
  BY FS_Subset DEF TypeInv, BundleTypeOK
<1>5. \A a : Uses(flushed \union ops, a) = Uses(flushed, a) + Uses(ops, a)
  BY <1>4, UsesDisjoint
<1>6. \A a : Uses(flushed, a) \in Nat /\ Uses(ops, a) \in Nat
  BY <1>4, UsesType
<1>7. ASSUME NEW a \in Address PROVE entries'[a].opsIncluded <= Uses(flushed', a)
  <2>1. entries[a].opsIncluded \in Nat /\ entries[a].opsIncluded <= Uses(flushed, a)
    BY DEF CrashInv, TypeInv, Inv, PoolTypeOK, RepTypeOK, Entry
  <2>2. entries'[a].opsIncluded = entries[a].opsIncluded + Uses(ops, a)
    BY <1>3
  <2>3. Uses(flushed', a) = Uses(flushed, a) + Uses(ops, a)
    BY <1>5 DEF Flush
  <2>4. Uses(flushed, a) \in Nat /\ Uses(ops, a) \in Nat
    BY <1>6
  <2> QED
    BY <2>1, <2>2, <2>3, <2>4
<1>8. \A a \in crashed' : entries'[a].opsSeen >= BanOpsSeenPenalty
  <2>1. \A a \in crashed' : a \in Address /\ entries[a].opsSeen >= BanOpsSeenPenalty
    BY DEF CrashInv, TypeInv, BundleTypeOK
  <2> QED
    BY <1>3, <2>1
<1> QED
  BY <1>2, <1>7, <1>8 DEF CrashInv

\* The lower-cased entities of an operation.
Named(op) == {lower(op.sender), lower(op.paymaster), lower(op.factory)}

LEMMA UntaintedMeans ==
  ASSUME NEW op \in UserOp, crashed \subseteq Address
  PROVE  Untainted(op) <=> crashed \intersect Named(op) = {}
<1>1. Absent \notin crashed
  BY SpellingAssumption DEF Address
<1>2. \A addr \in {op.sender, op.paymaster, op.factory} :
        lower(addr) = Absent <=> addr = Absent
  BY UserOpFields, SpellingAssumption DEF lower
<1> QED
  BY <1>1, <1>2 DEF Untainted, Named, EntitiesOf

LEMMA AdmitCrash ==
  ASSUME StableEntities, NoneWhiteListed, PenaltyLasts, TypeInv, CrashInv, Admit
  PROVE  CrashInv'
<1> USE DEF Inv, PoolTypeOK, RepTypeOK
<1>1. /\ crashed' = crashed /\ flushed' = flushed /\ snapshot' = snapshot
      /\ crashed \subseteq Address /\ entries \in [Address -> Entry]
      /\ mempool \subseteq UserOp
  BY DEF Admit, loopVars, TypeInv, BundleTypeOK
<1>2. PICK op \in UserOp : AddUserOp(FALSE, op)
  BY DEF Admit, TypeInv, BundleTypeOK
<1>3. FALSE \in BOOLEAN /\ 1 \in Int /\ -1 \in Int
  OBVIOUS
<1>4. CASE AddNewUserOp(FALSE, op)
  <2>1. Untainted(op)
    BY <1>4, AddedUntainted DEF AddNewUserOp
  <2>2. \A p \in mempool' \union snapshot' : Untainted(p)'
    BY <1>1, <1>4, <2>1 DEF AddNewUserOp, CrashInv, Untainted
  <2>3. ASSUME NEW a \in Address
        PROVE  /\ entries'[a].opsIncluded = entries[a].opsIncluded
               /\ a \in crashed => entries'[a].opsSeen >= entries[a].opsSeen
    <3>1. entries' = updateOpSeen(entries, FALSE, op, 1)
      BY <1>4 DEF AddNewUserOp
    <3>2. a \in crashed => a \notin Named(op)
      BY <1>1, <2>1, UntaintedMeans
    <3> QED
      BY <1>1, <1>3, <3>1, <3>2, OpSeenAt DEF Named
  <2>4. ASSUME NEW a \in crashed PROVE entries'[a].opsSeen >= BanOpsSeenPenalty
    <3>1. /\ a \in Address /\ entries[a].opsSeen \in Nat
          /\ entries[a].opsSeen >= BanOpsSeenPenalty
      BY <1>1 DEF CrashInv, Entry
    <3>2. entries'[a].opsSeen \in Nat
      BY <1>4, <3>1, AddNewInv DEF TypeInv, Entry
    <3> QED
      BY <2>3, <3>1, <3>2, ParamsAssumption
  <2> QED
    BY <1>1, <2>2, <2>3, <2>4 DEF CrashInv
<1>5. ASSUME NEW old \in mempool, ReplaceUserOp(FALSE, old, op)
      PROVE  CrashInv'
  <2>1. old \in UserOp /\ Named(old) = Named(op)
    BY <1>1, <1>5 DEF ReplaceUserOp, SameKey, StableEntities, Named
  <2>2. Untainted(old) /\ Untainted(op)
    BY <1>1, <2>1, UntaintedMeans DEF CrashInv
  <2>3. \A p \in mempool' \union snapshot' : Untainted(p)'
    BY <1>1, <1>5, <2>2 DEF ReplaceUserOp, CrashInv, Untainted
  <2> DEFINE undone == updateOpSeen(entries, FALSE, old, -1)
  <2>4. undone \in [Address -> Entry]
    BY <1>1, <1>3, <2>1, UpdateOpSeenType
  <2>5. entries' = updateOpSeen(undone, FALSE, op, 1)
    BY <1>5 DEF ReplaceUserOp
  <2>6. entries' \in [Address -> Entry]
    BY <1>3, <2>4, <2>5, UpdateOpSeenType
  <2> HIDE DEF undone
  <2>7. ASSUME NEW a \in Address
        PROVE  /\ entries'[a].opsIncluded = entries[a].opsIncluded
               /\ a \in crashed => entries'[a].opsSeen >= entries[a].opsSeen
    <3>1. a \in crashed => a \notin Named(op) /\ a \notin Named(old)
      BY <1>1, <2>1, <2>2, UntaintedMeans
    <3>2. /\ undone[a].opsIncluded = entries[a].opsIncluded
          /\ a \in crashed => undone[a].opsSeen >= entries[a].opsSeen
      <4>1. entries \in [Address -> Entry] /\ -1 \in Int
        BY <1>1, <1>3
      <4>2. a \in crashed => a \notin {lower(old.sender), lower(old.paymaster), lower(old.factory)}
        BY <3>1 DEF Named
      <4> QED
        BY <2>1, <4>1, <4>2, OpSeenAt DEF undone
    <3>3. /\ entries'[a].opsIncluded = undone[a].opsIncluded
          /\ a \in crashed => entries'[a].opsSeen >= undone[a].opsSeen
      BY <1>3, <2>4, <2>5, <3>1, OpSeenAt DEF Named
    <3>4. /\ entries[a].opsSeen \in Nat /\ undone[a].opsSeen \in Nat
          /\ entries'[a].opsSeen \in Nat
      BY <1>1, <2>4, <2>6 DEF Entry
    <3> QED
      BY <3>2, <3>3, <3>4
  <2>8. ASSUME NEW a \in crashed PROVE entries'[a].opsSeen >= BanOpsSeenPenalty
    <3>1. /\ a \in Address /\ entries[a].opsSeen \in Nat /\ entries'[a].opsSeen \in Nat
          /\ entries[a].opsSeen >= BanOpsSeenPenalty
      BY <1>1, <2>6 DEF CrashInv, Entry
    <3> QED
      BY <2>7, <3>1, ParamsAssumption
  <2> QED
    BY <1>1, <2>3, <2>7, <2>8 DEF CrashInv
<1> QED
  BY <1>2, <1>4, <1>5 DEF AddUserOp

\* An operation that fails its second validation is still untainted: the undo
\* touches no crashed entity.
LEMMA BlameValidationCrash ==
  ASSUME TypeInv, CrashInv, BlameValidation
  PROVE  CrashInv'
<1>1. /\ crashed' = crashed /\ flushed' = flushed /\ snapshot' = snapshot
      /\ crashed \subseteq Address /\ entries \in [Address -> Entry]
      /\ cur \in UserOp /\ cur \in snapshot
      /\ mempool' \subseteq mempool
  BY RemoveIfThereShrinks
  DEF BlameValidation, chainVars, TypeInv, AtHand, BundleTypeOK, Inv, PoolTypeOK,
      RepTypeOK, Remove
<1> DEFINE undone == undoSeen(entries, cur)
           addr == Blame(reason, cur)
<1>2. undone \in [Address -> Entry] /\ addr \in Spelling \union {Absent} /\ 1 \in Int
  BY <1>1, UndoSeenType, BlameType
<1>3. entries' = updateSeenStatus(undone, addr, 1)
  BY DEF BlameValidation
<1>4. ASSUME NEW a \in Address
      PROVE  /\ entries'[a].opsIncluded = entries[a].opsIncluded
             /\ a \in crashed => entries'[a].opsSeen >= entries[a].opsSeen
  <2>1. a \in crashed => a \notin Named(cur)
    BY <1>1, UntaintedMeans DEF CrashInv
  <2>2. /\ undone[a].opsIncluded = entries[a].opsIncluded
        /\ a \in crashed => undone[a].opsSeen = entries[a].opsSeen
    BY <1>1, <2>1, UndoAt DEF Named
  <2> HIDE DEF undone, addr
  <2>3. entries[a].opsSeen \in Nat /\ undone[a].opsSeen \in Nat
    BY <1>1, <1>2 DEF Entry
  <2>4. /\ entries'[a].opsIncluded = undone[a].opsIncluded
        /\ entries'[a].opsSeen >= undone[a].opsSeen
    <3>1. /\ updateSeenStatus(undone, addr, 1)[a].opsIncluded = undone[a].opsIncluded
          /\ updateSeenStatus(undone, addr, 1)[a].opsSeen
               = IF lower(addr) = a THEN NonNegative(undone[a].opsSeen + 1)
                                    ELSE undone[a].opsSeen
      BY <1>2, SeenAt
    <3> QED
      BY <1>3, <2>3, <3>1 DEF NonNegative
  <2> QED
    BY <2>2, <2>4
<1>5. \A p \in mempool' \union snapshot' : Untainted(p)'
  BY <1>1 DEF CrashInv, Untainted
<1>6. ASSUME NEW a \in crashed PROVE entries'[a].opsSeen >= BanOpsSeenPenalty
  <2> HIDE DEF undone, addr
  <2>1. entries' \in [Address -> Entry]
    BY <1>2, <1>3, UpdateSeenType
  <2>2. /\ a \in Address /\ entries[a].opsSeen \in Nat /\ entries'[a].opsSeen \in Nat
        /\ entries[a].opsSeen >= BanOpsSeenPenalty
    BY <1>1, <2>1 DEF CrashInv, Entry
  <2> QED
    BY <1>4, <2>2, ParamsAssumption
<1> QED
  BY <1>1, <1>4, <1>5, <1>6 DEF CrashInv

\* Whoever is blamed loses all its operations, and starts from the penalty.
LEMMA BlameSendCrash ==
  ASSUME OneEntitySpelling, TypeInv, CrashInv, BlameSend
  PROVE  CrashInv'
<1> DEFINE addr == Blame(reason, cur)
<1>1. /\ flushed' = flushed /\ snapshot' = {}
      /\ crashed \subseteq Address /\ entries \in [Address -> Entry]
      /\ cur \in UserOp /\ mempool \subseteq UserOp
  BY DEF BlameSend, ResetLoop, TypeInv, AtHand, BundleTypeOK, Inv, PoolTypeOK, RepTypeOK
<1>2. CASE addr = Absent
  <2>1. mempool' \subseteq mempool /\ UNCHANGED <<entries, crashed>>
    BY <1>2, RemoveIfThereShrinks DEF BlameSend, Remove
  <2> QED
    BY <1>1, <2>1, QuietCrash
<1>3. CASE addr # Absent
  <2>1. addr \in EntitiesOf(cur) /\ lower(addr) = Lower[addr] /\ Lower[addr] \in Address
    <3>1. addr \in {cur.sender, cur.paymaster, cur.factory}
      BY <1>3 DEF Blame
    <3> QED
      BY <1>1, <1>3, <3>1, UserOpFields, LowerAddress DEF EntitiesOf, lower
  <2> DEFINE a == Lower[addr]
             undone == undoSeen(entries, cur)
  <2>2. /\ RemoveBlamed(addr, cur)
        /\ entries' = crashedHandleOps(undone, addr)
        /\ crashed' = crashed \union {a}
    BY <1>3 DEF BlameSend
  <2>3. undone \in [Address -> Entry]
    BY <1>1, UndoSeenType
  <2> HIDE DEF addr
  <2>4. /\ mempool' \subseteq mempool
        /\ \A op \in mempool' : addr \notin EntitiesOf(op)
    BY <2>2 DEF RemoveBlamed, Remove, BannedRemovals, EntitiesOf
  <2>5. ASSUME NEW op \in mempool' PROVE Untainted(op)'
    <3>1. op \in mempool /\ op \in UserOp /\ Untainted(op) /\ addr \notin EntitiesOf(op)
      BY <1>1, <2>4 DEF CrashInv
    <3>2. a \notin {lower(b) : b \in EntitiesOf(op)}
      BY <1>1, <2>1, <3>1 DEF OneEntitySpelling
    <3> QED
      BY <2>2, <3>1, <3>2 DEF Untainted
  <2>6. /\ entries'[a].opsSeen = undone[a].opsSeen + BanOpsSeenPenalty
        /\ entries'[a].opsIncluded = 0
        /\ \A b \in Address \ {a} : entries'[b] = undone[b]
    BY <1>3, <2>1, <2>2, <2>3 DEF crashedHandleOps
  <2> HIDE DEF undone, a
  <2>7. ASSUME NEW b \in Address PROVE entries'[b].opsIncluded <= Uses(flushed', b)
    <3>1. IsFiniteSet(flushed) /\ Uses(flushed, b) \in Nat
      BY FS_Subset, UsesType DEF TypeInv, BundleTypeOK
    <3>2. undone[b].opsIncluded = entries[b].opsIncluded
      BY <1>1, UndoAt DEF undone
    <3> QED
      BY <1>1, <2>6, <3>1, <3>2 DEF CrashInv
  <2>8. ASSUME NEW b \in crashed' PROVE entries'[b].opsSeen >= BanOpsSeenPenalty
    <3>1. CASE b = a
      BY <2>1, <2>3, <2>6, <3>1, ParamsAssumption DEF Entry, a
    <3>2. CASE b # a
      <4>1. b \in crashed /\ b \in Address /\ entries[b].opsSeen >= BanOpsSeenPenalty
        BY <1>1, <2>2, <3>2 DEF CrashInv, a
      <4>2. Untainted(cur)
        BY DEF BlameSend, TypeInv, AtHand, CrashInv
      <4>3. undone[b].opsSeen = entries[b].opsSeen
        BY <1>1, <4>1, <4>2, UntaintedMeans, UndoAt DEF Named, undone
      <4> QED
        BY <2>6, <3>2, <4>1, <4>3
    <3> QED
      BY <3>1, <3>2
  <2> QED
    BY <1>1, <2>5, <2>7, <2>8 DEF CrashInv
<1> QED
  BY <1>2, <1>3

LEMMA BundleStepCrash ==
  ASSUME StableEntities, OneEntitySpelling, NoneWhiteListed, PenaltyLasts
  PROVE  TypeInv /\ CrashInv /\ [BundleNext]_bundleVars => CrashInv'
<1> SUFFICES ASSUME TypeInv, CrashInv, [BundleNext]_bundleVars PROVE CrashInv'
  OBVIOUS
<1>1. CASE UNCHANGED bundleVars
  BY <1>1, QuietCrash DEF bundleVars, poolVars, loopVars, chainVars
<1>2. CASE StartBundle
  <2>1. IsFiniteSet(mined \ flushed) /\ (mined \ flushed) \intersect flushed = {}
    BY FS_Difference DEF TypeInv
  <2> QED
    BY <1>2, <2>1, FlushCrash DEF StartBundle
<1>3. ASSUME NEW op \in UserOp, EventArrives(op)
      PROVE  CrashInv'
  <2>1. IsFiniteSet({op}) /\ {op} \intersect flushed = {}
    BY <1>3, FS_Singleton DEF EventArrives
  <2> QED
    BY <1>3, <2>1, FlushCrash DEF EventArrives, loopVars
<1>4. CASE Admit
  BY <1>4, AdmitCrash
<1>8. CASE Submit \/ Refuse
  BY <1>8, QuietCrash DEF Submit, Refuse, poolVars, loopVars
<1>5. ASSUME NEW op \in UserOp, Include(op)
      PROVE  CrashInv'
  BY <1>5, QuietCrash DEF Include, poolVars, loopVars
<1>6. CASE WalkStep
  <2>1. CASE BlameValidation
    BY <2>1, BlameValidationCrash
  <2>2. CASE ~BlameValidation
    <3>1. UNCHANGED <<entries, flushed, crashed, snapshot>>
      BY <1>6, <2>2
      DEF WalkStep, StopAtSize, SkipLowFee, RemoveBanned, SkipThrottled, SkipRepeated,
          Revalidate, EndOfWalk, SkipForeignStorage, StopAtGas, ConsiderAtOnce, AwaitBalance,
          BalanceArrives, ValidationThrows, ValidationReverts, Validated, PassOver,
          poolVars, loopVars, chainVars
    <3>2. mempool' \subseteq mempool
      BY <1>6, <2>2, RemoveIfThereShrinks
      DEF WalkStep, StopAtSize, SkipLowFee, RemoveBanned, SkipThrottled, SkipRepeated,
          Revalidate, EndOfWalk, SkipForeignStorage, StopAtGas, ConsiderAtOnce, AwaitBalance,
          BalanceArrives, ValidationThrows, ValidationReverts, Validated,
          poolVars, Remove
    <3> QED
      BY <3>1, <3>2, QuietCrash
  <2> QED
    BY <2>1, <2>2
<1>7. CASE SendStep
  <2>1. CASE BlameSend
    BY <2>1, BlameSendCrash
  <2>2. CASE ~BlameSend
    <3>1. UNCHANGED <<entries, mempool, flushed, crashed>> /\ snapshot' \subseteq snapshot
      BY <1>7, <2>2
      DEF SendStep, GiveUp, NothingToSend, SendAccepted, BundleMined, WaitFails,
          SendReverts, ResetLoop, poolVars, loopVars, chainVars
    <3> QED
      BY <3>1, QuietCrash
  <2> QED
    BY <2>1, <2>2
<1> QED
  BY <1>1, <1>2, <1>3, <1>4, <1>5, <1>6, <1>7, <1>8 DEF BundleNext, Around

\* No operation of an entity that crashed a bundle is in the mempool, and none
\* comes back (BundleManager.ts:199-206), however many of its operations are
\* included, replaced or fail later: as long as the penalty lasts, clients spell
\* an entity in one way and only bump fees, and the white list does not protect it.
THEOREM CrashedStayOutForGood ==
  ASSUME StableEntities, OneEntitySpelling, NoneWhiteListed, PenaltyLasts
  PROVE  BundleSpec => []CrashedStayOut
<1>1. BundleInit => CrashInv
  <2>1. \A a \in Address : Uses({}, a) = 0
    BY FS_EmptySet DEF Uses, SentBy, PaidBy, DeployedBy
  <2> QED
    BY <2>1
    DEF BundleInit, MempoolInit, RepInit, NoEntries, CrashInv, Untainted
<1>2. TypeInv /\ CrashInv /\ [BundleNext]_bundleVars => CrashInv'
  BY BundleStepCrash
<1>3. CrashInv => CrashedStayOut
  BY DEF CrashInv, Untainted, CrashedStayOut
<1> QED
  BY <1>1, <1>2, <1>3, TypeInvHolds, PTL DEF BundleSpec

-----------------------------------------------------------------------------
(* An undo takes back what the operation itself had added                  *)

Key(op) == <<op.sender, op.nonce>>
KeysOf(ops) == {Key(op) : op \in ops}

LEMMA KeysFinite ==
  ASSUME NEW ops, IsFiniteSet(ops)
  PROVE  IsFiniteSet(KeysOf(ops)) /\ Cardinality(KeysOf(ops)) \in Nat
<1> DEFINE f == [op \in ops |-> Key(op)]
<1>1. f \in Surjection(ops, KeysOf(ops))
  BY DEF Surjection, KeysOf
<1> QED
  BY <1>1, FS_Surjection, FS_CardinalityType

\* Where no two operations have one key, the keys are as many as they.
LEMMA KeysCount ==
  ASSUME NEW ops, IsFiniteSet(ops), \A p, q \in ops : SameKey(p, q) => p = q
  PROVE  Cardinality(ops) <= Cardinality(KeysOf(ops))
<1> DEFINE f == [op \in ops |-> Key(op)]
<1>1. f \in Injection(ops, KeysOf(ops))
  BY DEF Injection, IsInjective, KeysOf, Key, SameKey
<1> QED
  BY <1>1, KeysFinite, FS_Injection

\* How often the paymasters and factories of the operations should have been
\* seen; a replacement counts as what it replaces.
Needed(ops, a) == Cardinality(KeysOf(PaidBy(ops, a))) + Cardinality(KeysOf(DeployedBy(ops, a)))

LEMMA NeededType ==
  ASSUME NEW ops, IsFiniteSet(ops), NEW a
  PROVE  /\ IsFiniteSet(KeysOf(PaidBy(ops, a))) /\ IsFiniteSet(KeysOf(DeployedBy(ops, a)))
         /\ Cardinality(KeysOf(PaidBy(ops, a))) \in Nat
         /\ Cardinality(KeysOf(DeployedBy(ops, a))) \in Nat
         /\ Needed(ops, a) \in Nat
BY RolesFinite, KeysFinite DEF Needed

LEMMA NeededShrinks ==
  ASSUME NEW ops, IsFiniteSet(ops), NEW rest, NEW a,
         KeysOf(PaidBy(rest, a)) \subseteq KeysOf(PaidBy(ops, a)),
         KeysOf(DeployedBy(rest, a)) \subseteq KeysOf(DeployedBy(ops, a))
  PROVE  Needed(rest, a) <= Needed(ops, a) /\ Needed(rest, a) \in Nat
<1>1. /\ Cardinality(KeysOf(PaidBy(rest, a))) <= Cardinality(KeysOf(PaidBy(ops, a)))
      /\ Cardinality(KeysOf(DeployedBy(rest, a))) <= Cardinality(KeysOf(DeployedBy(ops, a)))
      /\ Cardinality(KeysOf(PaidBy(rest, a))) \in Nat
      /\ Cardinality(KeysOf(DeployedBy(rest, a))) \in Nat
  BY NeededType, FS_Subset, FS_CardinalityType
<1> QED
  BY <1>1, NeededType DEF Needed

Bit(b) == IF b THEN 1 ELSE 0

\* One more operation needs at most one more "seen" of its paymaster, and one of
\* its factory.
LEMMA NeededGrows ==
  ASSUME NEW ops, IsFiniteSet(ops), NEW op, NEW a
  PROVE  /\ Needed(ops \union {op}, a) <= Needed(ops, a) + Bit(lower(op.paymaster) = a)
                                                        + Bit(lower(op.factory) = a)
         /\ Needed(ops \union {op}, a) \in Nat
<1> DEFINE paid == KeysOf(PaidBy(ops, a))
           deployed == KeysOf(DeployedBy(ops, a))
<1>1. /\ KeysOf(PaidBy(ops \union {op}, a))
           = IF lower(op.paymaster) = a THEN paid \union {Key(op)} ELSE paid
      /\ KeysOf(DeployedBy(ops \union {op}, a))
           = IF lower(op.factory) = a THEN deployed \union {Key(op)} ELSE deployed
  BY DEF KeysOf, PaidBy, DeployedBy
<1>2. /\ IsFiniteSet(paid) /\ Cardinality(paid) \in Nat
      /\ IsFiniteSet(deployed) /\ Cardinality(deployed) \in Nat
  BY NeededType
<1> HIDE DEF paid, deployed
<1>3. /\ Cardinality(paid \union {Key(op)}) \in {Cardinality(paid), Cardinality(paid) + 1}
      /\ Cardinality(deployed \union {Key(op)})
           \in {Cardinality(deployed), Cardinality(deployed) + 1}
  BY <1>2, FS_AddElement
<1>4. Needed(ops, a) = Cardinality(paid) + Cardinality(deployed)
  BY DEF Needed, paid, deployed
<1> QED
  BY <1>1, <1>2, <1>3, <1>4 DEF Needed, Bit

\* Without the operations that have its key there is one less of each.
LEMMA NeededWithout ==
  ASSUME NEW ops, IsFiniteSet(ops), NEW op \in ops, NEW rest \in SUBSET ops, NEW a,
         \A p \in rest : ~SameKey(p, op)
  PROVE  /\ Needed(rest, a) <= Needed(ops, a) - Bit(lower(op.paymaster) = a)
                                             - Bit(lower(op.factory) = a)
         /\ Needed(rest, a) \in Nat
<1> DEFINE paid == KeysOf(PaidBy(ops, a))
           deployed == KeysOf(DeployedBy(ops, a))
           k == Key(op)
<1>1. /\ lower(op.paymaster) = a => k \in paid
      /\ lower(op.factory) = a => k \in deployed
      /\ KeysOf(PaidBy(rest, a)) \subseteq paid \ {k}
      /\ KeysOf(DeployedBy(rest, a)) \subseteq deployed \ {k}
  BY DEF KeysOf, Key, SameKey, PaidBy, DeployedBy
<1>2. /\ IsFiniteSet(paid) /\ Cardinality(paid) \in Nat
      /\ IsFiniteSet(deployed) /\ Cardinality(deployed) \in Nat
  BY NeededType
<1> HIDE DEF paid, deployed, k
<1>3. /\ IsFiniteSet(paid \ {k}) /\ IsFiniteSet(deployed \ {k})
      /\ Cardinality(paid \ {k}) = Cardinality(paid) - Bit(k \in paid)
      /\ Cardinality(deployed \ {k}) = Cardinality(deployed) - Bit(k \in deployed)
  BY <1>2, FS_RemoveElement DEF Bit
<1>4. /\ Cardinality(KeysOf(PaidBy(rest, a))) <= Cardinality(paid \ {k})
      /\ Cardinality(KeysOf(DeployedBy(rest, a))) <= Cardinality(deployed \ {k})
      /\ Cardinality(KeysOf(PaidBy(rest, a))) \in Nat
      /\ Cardinality(KeysOf(DeployedBy(rest, a))) \in Nat
  BY <1>1, <1>3, FS_Subset, FS_CardinalityType
<1>5. Needed(ops, a) = Cardinality(paid) + Cardinality(deployed)
  BY DEF Needed, paid, deployed
<1> QED
  BY <1>1, <1>2, <1>3, <1>4, <1>5 DEF Needed, Bit

\* No account is the paymaster or the factory of an operation, at any time.  The
\* undo takes back a "seen" of the sender even if that was not counted
\* (BundleManager.ts:493-496), which must not be one of a paymaster.
RolesFixed ==
  \A p, q \in UserOp : lower(p.sender) \notin {lower(q.paymaster), lower(q.factory)}

AtAwait == pc \in {"validateUserOp", "getPaymasterBalance", "blameValidation"}

\* The operations whose "seen" may still be undone.
Held == mempool \union todo \union bundle \union (IF AtAwait THEN {cur} ELSE {})

SeenInv ==
  /\ AtAwait => cur \notin todo \union bundle
  /\ \A p, q \in snapshot : SameKey(p, q) => p = q
  /\ \A a \in Address : entries[a].opsSeen >= Needed(Held, a)

LEMMA HeldFinite ==
  ASSUME TypeInv
  PROVE  IsFiniteSet(Held) /\ Held \subseteq UserOp
<1>1. /\ IsFiniteSet(mempool) /\ mempool \subseteq UserOp
      /\ IsFiniteSet(todo) /\ todo \subseteq UserOp
      /\ IsFiniteSet(bundle) /\ bundle \subseteq UserOp
      /\ AtAwait => cur \in UserOp
  BY FS_Subset DEF TypeInv, BundleTypeOK, Inv, PoolTypeOK, AtAwait, AtHand
<1> DEFINE at == IF AtAwait THEN {cur} ELSE {}
<1>2. IsFiniteSet(at) /\ at \subseteq UserOp
  BY <1>1, FS_Singleton, FS_EmptySet
<1>3. IsFiniteSet(mempool \union todo)
  BY <1>1, FS_Union
<1>4. IsFiniteSet(mempool \union todo \union bundle)
  BY <1>1, <1>3, FS_Union
<1> HIDE DEF at
<1>5. IsFiniteSet(mempool \union todo \union bundle \union at)
  BY <1>2, <1>4, FS_Union
<1> QED
  BY <1>1, <1>2, <1>5 DEF Held, at

LEMMA SeenType ==
  ASSUME TypeInv, NEW a \in Address
  PROVE  entries[a].opsSeen \in Nat
BY DEF TypeInv, Inv, PoolTypeOK, RepTypeOK, Entry

LEMMA QuietSeen ==
  ASSUME TypeInv, TypeInv', SeenInv, Held' \subseteq Held,
         AtAwait' => cur' \notin todo' \union bundle',
         \A p, q \in snapshot' : SameKey(p, q) => p = q,
         \A a \in Address : entries'[a].opsSeen = entries[a].opsSeen
  PROVE  SeenInv'
<1>1. ASSUME NEW a \in Address PROVE entries'[a].opsSeen >= Needed(Held', a)
  <2>1. /\ KeysOf(PaidBy(Held', a)) \subseteq KeysOf(PaidBy(Held, a))
        /\ KeysOf(DeployedBy(Held', a)) \subseteq KeysOf(DeployedBy(Held, a))
    BY DEF KeysOf, PaidBy, DeployedBy
  <2>2. Needed(Held', a) <= Needed(Held, a) /\ Needed(Held', a) \in Nat
    BY <2>1, HeldFinite, NeededShrinks
  <2>3. Needed(Held, a) \in Nat /\ entries[a].opsSeen \in Nat
    BY HeldFinite, NeededType, SeenType
  <2> QED
    BY <2>2, <2>3 DEF SeenInv
<1> QED
  BY <1>1 DEF SeenInv

\* An undo takes one from each of the three entities, not below zero.
LEMMA UndoTakes ==
  ASSUME NEW reps \in [Address -> Entry], NEW op \in UserOp, NEW a \in Address
  PROVE  /\ undoSeen(reps, op)[a].opsSeen \in Nat
         /\ undoSeen(reps, op)[a].opsSeen
              >= reps[a].opsSeen - Bit(lower(op.sender) = a)
                   - Bit(lower(op.paymaster) = a) - Bit(lower(op.factory) = a)
<1> DEFINE one == updateSeenStatus(reps, op.sender, -1)
           two == updateSeenStatus(one, op.paymaster, -1)
           three == updateSeenStatus(two, op.factory, -1)
<1>1. -1 \in Int /\ op.sender \in Spelling \union {Absent}
  BY UserOpFields
<1>2. one \in [Address -> Entry] /\ two \in [Address -> Entry] /\ three \in [Address -> Entry]
  <2>1. one \in [Address -> Entry]
    BY <1>1, UpdateSeenType
  <2>2. two \in [Address -> Entry]
    BY <1>1, <2>1, UpdateSeenType, UserOpFields
  <2>3. three \in [Address -> Entry]
    BY <1>1, <2>2, UpdateSeenType, UserOpFields
  <2> QED
    BY <2>1, <2>2, <2>3
<1>3. /\ reps[a].opsSeen \in Nat /\ one[a].opsSeen \in Nat
      /\ two[a].opsSeen \in Nat /\ three[a].opsSeen \in Nat
  BY <1>2 DEF Entry
<1>4. one[a].opsSeen >= reps[a].opsSeen - Bit(lower(op.sender) = a)
  BY <1>1, <1>3, SeenAt DEF NonNegative, Bit
<1>5. two[a].opsSeen >= one[a].opsSeen - Bit(lower(op.paymaster) = a)
  <2>1. op.paymaster \in Spelling \union {Absent}
    BY UserOpFields
  <2> HIDE DEF one
  <2>2. two[a].opsSeen = IF lower(op.paymaster) = a THEN NonNegative(one[a].opsSeen - 1)
                                                  ELSE one[a].opsSeen
    BY <1>1, <1>2, <2>1, SeenAt
  <2> HIDE DEF two
  <2> QED
    BY <1>3, <2>2 DEF NonNegative, Bit
<1>6. three[a].opsSeen >= two[a].opsSeen - Bit(lower(op.factory) = a)
  <2>1. op.factory \in Spelling \union {Absent}
    BY UserOpFields
  <2> HIDE DEF two
  <2>2. three[a].opsSeen = IF lower(op.factory) = a THEN NonNegative(two[a].opsSeen - 1)
                                                  ELSE two[a].opsSeen
    BY <1>1, <1>2, <2>1, SeenAt
  <2> HIDE DEF three
  <2> QED
    BY <1>3, <2>2 DEF NonNegative, Bit
<1>7. undoSeen(reps, op) = three
  BY DEF undoSeen
<1> HIDE DEF one, two, three
<1>8. /\ Bit(lower(op.sender) = a) \in Nat /\ Bit(lower(op.paymaster) = a) \in Nat
      /\ Bit(lower(op.factory) = a) \in Nat
  BY DEF Bit
<1> QED
  BY <1>3, <1>4, <1>5, <1>6, <1>7, <1>8

\* Once an operation and all that have its key are gone, its undo is covered.
LEMMA UndoCovered ==
  ASSUME RolesFixed, TypeInv, SeenInv, NEW op \in Held, NEW rest \in SUBSET Held,
         \A p \in rest : ~SameKey(p, op), NEW a \in Address
  PROVE  undoSeen(entries, op)[a].opsSeen >= Needed(rest, a)
<1> DEFINE seen == undoSeen(entries, op)[a].opsSeen
           pm == Bit(lower(op.paymaster) = a)
           fac == Bit(lower(op.factory) = a)
<1>1. op \in UserOp /\ rest \in SUBSET UserOp /\ IsFiniteSet(Held)
  BY HeldFinite
<1>2. /\ seen \in Nat
      /\ seen >= entries[a].opsSeen - Bit(lower(op.sender) = a) - pm - fac
  BY <1>1, UndoTakes DEF TypeInv, Inv, PoolTypeOK, RepTypeOK
<1>3. /\ entries[a].opsSeen \in Nat /\ Needed(Held, a) \in Nat
      /\ entries[a].opsSeen >= Needed(Held, a)
      /\ pm \in Nat /\ fac \in Nat
  BY <1>1, SeenType, NeededType DEF SeenInv, Bit
<1>4. Needed(rest, a) <= Needed(Held, a) - pm - fac /\ Needed(rest, a) \in Nat
  BY <1>1, NeededWithout
<1> HIDE DEF seen, pm, fac
<1>5. CASE lower(op.sender) = a
  <2>1. PaidBy(rest, a) = {} /\ DeployedBy(rest, a) = {}
    BY <1>1, <1>5 DEF RolesFixed, PaidBy, DeployedBy
  <2>2. Needed(rest, a) = 0
    BY <2>1, FS_EmptySet DEF Needed, KeysOf
  <2> QED
    BY <1>2, <2>2 DEF seen
<1>6. CASE lower(op.sender) # a
  <2>1. Bit(lower(op.sender) = a) = 0
    BY <1>6 DEF Bit
  <2> QED
    BY <1>2, <1>3, <1>4, <2>1 DEF seen
<1> QED
  BY <1>5, <1>6

\* updateOpSeen adds one for each role, or takes it back.
LEMMA OpSeenMoves ==
  ASSUME NEW reps \in [Address -> Entry], NEW skip \in BOOLEAN, NEW op \in UserOp,
         NEW a \in Address
  PROVE  /\ updateOpSeen(reps, skip, op, 1)[a].opsSeen
              >= reps[a].opsSeen + Bit(lower(op.paymaster) = a) + Bit(lower(op.factory) = a)
         /\ updateOpSeen(reps, skip, op, -1)[a].opsSeen
              >= reps[a].opsSeen - Bit(lower(op.paymaster) = a) - Bit(lower(op.factory) = a)
<1> DEFINE one == IF ~skip /\ checkStake(reps, op.sender)
                  THEN updateSeenStatus(reps, op.sender, 1) ELSE reps
           two(val) == updateSeenStatus(one, op.paymaster, val)
           three(val) == updateSeenStatus(two(val), op.factory, val)
<1>1. 1 \in Int /\ -1 \in Int /\ op.sender \in Spelling \union {Absent}
  BY UserOpFields
<1>2. one \in [Address -> Entry]
  BY <1>1, UpdateSeenType
<1>3. reps[a].opsSeen \in Nat /\ one[a].opsSeen \in Nat
  BY <1>2 DEF Entry
<1>4. one[a].opsSeen >= reps[a].opsSeen
  <2>1. CASE one = reps
    BY <2>1, <1>3
  <2>2. CASE one = updateSeenStatus(reps, op.sender, 1)
    BY <2>2, <1>1, <1>3, SeenAt DEF NonNegative
  <2> QED
    BY <2>1, <2>2
<1>5. \A val \in {1, -1} :
        updateOpSeen(reps, skip, op, val) = three(val)
  BY DEF updateOpSeen
<1> HIDE DEF one
<1>6. ASSUME NEW val \in {1, -1}
      PROVE  three(val)[a].opsSeen
               >= one[a].opsSeen + (IF lower(op.paymaster) = a THEN val ELSE 0)
                    + (IF lower(op.factory) = a THEN val ELSE 0)
  <2>1. val \in Int
    BY <1>1
  <2>2. two(val) \in [Address -> Entry]
    BY <2>1, <1>2, UpdateSeenType, UserOpFields
  <2>3. two(val)[a].opsSeen = IF lower(op.paymaster) = a
                              THEN NonNegative(one[a].opsSeen + val) ELSE one[a].opsSeen
    BY <2>1, <1>2, SeenAt, UserOpFields
  <2> HIDE DEF two
  <2>4. three(val)[a].opsSeen = IF lower(op.factory) = a
                                THEN NonNegative(two(val)[a].opsSeen + val)
                                ELSE two(val)[a].opsSeen
    BY <2>1, <2>2, SeenAt, UserOpFields
  <2>5. two(val)[a].opsSeen \in Nat
    BY <2>2 DEF Entry
  <2> HIDE DEF three
  <2> QED
    BY <2>1, <2>3, <2>4, <2>5, <1>3 DEF NonNegative
<1>7. updateOpSeen(reps, skip, op, 1) \in [Address -> Entry]
      /\ updateOpSeen(reps, skip, op, -1) \in [Address -> Entry]
  BY <1>1, UpdateOpSeenType
<1>8. /\ updateOpSeen(reps, skip, op, 1)[a].opsSeen \in Nat
      /\ updateOpSeen(reps, skip, op, -1)[a].opsSeen \in Nat
  BY <1>7 DEF Entry
<1> HIDE DEF three
<1>9. three(1)[a].opsSeen \in Nat /\ three(-1)[a].opsSeen \in Nat
  BY <1>5, <1>8
<1>10. /\ three(1)[a].opsSeen
            >= one[a].opsSeen + (IF lower(op.paymaster) = a THEN 1 ELSE 0)
                 + (IF lower(op.factory) = a THEN 1 ELSE 0)
       /\ three(-1)[a].opsSeen
            >= one[a].opsSeen + (IF lower(op.paymaster) = a THEN -1 ELSE 0)
                 + (IF lower(op.factory) = a THEN -1 ELSE 0)
  BY <1>6
<1> QED
  BY <1>3, <1>4, <1>5, <1>9, <1>10 DEF Bit

LEMMA AdmitSeen ==
  ASSUME StableEntities, TypeInv, TypeInv', SeenInv, Admit
  PROVE  SeenInv'
<1>1. /\ UNCHANGED <<pc, cur, todo, bundle, snapshot>>
      /\ entries \in [Address -> Entry]
      /\ mempool \subseteq UserOp
  BY DEF Admit, loopVars, TypeInv, Inv, PoolTypeOK, RepTypeOK
<1>2. PICK op \in UserOp : AddUserOp(FALSE, op)
  BY DEF Admit, TypeInv, BundleTypeOK
<1>3. FALSE \in BOOLEAN /\ -1 \in Int
  OBVIOUS
<1> SUFFICES ASSUME NEW a \in Address PROVE entries'[a].opsSeen >= Needed(Held', a)
  BY <1>1 DEF SeenInv, AtAwait
<1> DEFINE pm == Bit(lower(op.paymaster) = a)
           fac == Bit(lower(op.factory) = a)
<1>4. /\ IsFiniteSet(Held) /\ Held \subseteq UserOp
      /\ entries[a].opsSeen \in Nat /\ entries'[a].opsSeen \in Nat
      /\ Needed(Held, a) \in Nat
      /\ entries[a].opsSeen >= Needed(Held, a)
      /\ pm \in Nat /\ fac \in Nat
  <2>1. entries'[a].opsSeen \in Nat
    BY DEF TypeInv, Inv, PoolTypeOK, RepTypeOK, Entry
  <2> QED
    BY <2>1, HeldFinite, SeenType, NeededType DEF SeenInv, Bit
<1>5. CASE AddNewUserOp(FALSE, op)
  <2>1. Held' = Held \union {op}
    BY <1>1, <1>5 DEF AddNewUserOp, Held, AtAwait
  <2>2. Needed(Held', a) <= Needed(Held, a) + pm + fac /\ Needed(Held', a) \in Nat
    BY <1>4, <2>1, NeededGrows
  <2>3. entries'[a].opsSeen >= entries[a].opsSeen + pm + fac
    BY <1>1, <1>3, <1>5, OpSeenMoves DEF AddNewUserOp
  <2> HIDE DEF pm, fac
  <2> QED
    BY <1>4, <2>2, <2>3
<1>6. ASSUME NEW old \in mempool, ReplaceUserOp(FALSE, old, op)
      PROVE  entries'[a].opsSeen >= Needed(Held', a)
  <2>1. /\ old \in UserOp /\ old \in Held /\ Key(old) = Key(op)
        /\ lower(old.paymaster) = lower(op.paymaster)
        /\ lower(old.factory) = lower(op.factory)
    BY <1>1, <1>6 DEF ReplaceUserOp, SameKey, StableEntities, Held, Key
  <2>2. Held' \subseteq Held \union {op}
    BY <1>1, <1>6 DEF ReplaceUserOp, Held, AtAwait
  <2>3. /\ KeysOf(PaidBy(Held', a)) \subseteq KeysOf(PaidBy(Held, a))
        /\ KeysOf(DeployedBy(Held', a)) \subseteq KeysOf(DeployedBy(Held, a))
    BY <2>1, <2>2 DEF KeysOf, PaidBy, DeployedBy
  <2>4. Needed(Held', a) <= Needed(Held, a) /\ Needed(Held', a) \in Nat
    BY <1>4, <2>3, NeededShrinks
  <2> DEFINE undone == updateOpSeen(entries, FALSE, old, -1)
  <2>5. undone \in [Address -> Entry]
    BY <1>1, <1>3, <2>1, UpdateOpSeenType
  <2>6. undone[a].opsSeen \in Nat
    BY <2>5 DEF Entry
  <2>7. undone[a].opsSeen >= entries[a].opsSeen - pm - fac
    BY <1>1, <1>3, <2>1, OpSeenMoves
  <2>8. entries' = updateOpSeen(undone, FALSE, op, 1)
    BY <1>6 DEF ReplaceUserOp
  <2> HIDE DEF undone
  <2>9. entries'[a].opsSeen >= undone[a].opsSeen + pm + fac
    BY <1>3, <2>5, <2>8, OpSeenMoves
  <2> HIDE DEF pm, fac
  <2> QED
    BY <1>4, <2>4, <2>6, <2>7, <2>9
<1> QED
  BY <1>2, <1>5, <1>6 DEF AddUserOp

LEMMA RemovedKey ==
  ASSUME UniqueKeys, NEW op, RemoveIfThere(op)
  PROVE  mempool' \subseteq mempool /\ \A p \in mempool' : ~SameKey(p, op)
<1>1. CASE \E gone \in mempool : SameKey(gone, op)
  BY <1>1 DEF RemoveIfThere, RemoveByKey, Remove, UniqueKeys, SameKey
<1>2. CASE ~\E gone \in mempool : SameKey(gone, op)
  BY <1>2 DEF RemoveIfThere
<1> QED
  BY <1>1, <1>2

LEMMA RemovedBlamedKey ==
  ASSUME UniqueKeys, NEW addr, NEW op, RemoveBlamed(addr, op)
  PROVE  mempool' \subseteq mempool /\ \A p \in mempool' : ~SameKey(p, op)
<1>1. PICK gone \in BannedRemovals(addr) :
         LET rest == {other \in mempool \ gone : SameKey(other, op)}
         IN  IF rest = {} THEN Remove(gone)
             ELSE \E other \in rest : Remove(gone \union {other})
  BY DEF RemoveBlamed
<1>2. CASE {other \in mempool \ gone : SameKey(other, op)} = {}
  BY <1>1, <1>2 DEF Remove
<1>3. CASE {other \in mempool \ gone : SameKey(other, op)} # {}
  <2>1. PICK other \in mempool \ gone : SameKey(other, op) /\ Remove(gone \union {other})
    BY <1>1, <1>3
  <2> QED
    BY <2>1 DEF Remove, UniqueKeys, SameKey
<1> QED
  BY <1>2, <1>3

LEMMA BlameValidationSeen ==
  ASSUME RolesFixed, TypeInv, TypeInv', SeenInv, BlameValidation
  PROVE  SeenInv'
<1>1. /\ pc = "blameValidation" /\ pc' = "loop"
      /\ UNCHANGED <<snapshot, todo, bundle>>
      /\ entries' = updateSeenStatus(undoSeen(entries, cur), Blame(reason, cur), 1)
      /\ RemoveIfThere(cur)
  BY DEF BlameValidation, BackToLoop
<1>2. /\ cur \in Held /\ cur \in UserOp /\ cur \in snapshot
      /\ cur \notin todo \union bundle
      /\ todo \union bundle \subseteq snapshot
      /\ Held' = mempool' \union todo \union bundle
  BY <1>1 DEF Held, AtAwait, TypeInv, AtHand, BundleTypeOK, SeenInv
<1>3. mempool' \subseteq mempool /\ \A p \in mempool' : ~SameKey(p, cur)
  BY <1>1, RemovedKey DEF TypeInv, Inv
<1>4. Held' \in SUBSET Held /\ \A p \in Held' : ~SameKey(p, cur)
  BY <1>2, <1>3 DEF Held, SeenInv
<1>5. ASSUME NEW a \in Address PROVE entries'[a].opsSeen >= Needed(Held', a)
  <2> DEFINE undone == undoSeen(entries, cur)
             addr == Blame(reason, cur)
  <2>1. undone \in [Address -> Entry] /\ addr \in Spelling \union {Absent} /\ 1 \in Int
    BY <1>2, UndoSeenType, BlameType DEF TypeInv, Inv, PoolTypeOK, RepTypeOK
  <2>2. undone[a].opsSeen >= Needed(Held', a)
    BY <1>2, <1>4, UndoCovered
  <2>3. undone[a].opsSeen \in Nat /\ Needed(Held', a) \in Nat
    BY <1>4, <2>1, HeldFinite, FS_Subset, NeededType DEF Entry
  <2> HIDE DEF undone, addr
  <2>4. entries' = updateSeenStatus(undone, addr, 1)
    BY <1>1 DEF undone, addr
  <2>5. entries'[a].opsSeen >= undone[a].opsSeen /\ entries'[a].opsSeen \in Nat
    BY <2>1, <2>3, <2>4, SeenAt DEF NonNegative
  <2> QED
    BY <2>2, <2>3, <2>5
<1> QED
  BY <1>1, <1>5 DEF SeenInv, AtAwait

LEMMA BlameSendSeen ==
  ASSUME RolesFixed, TypeInv, TypeInv', SeenInv, BlameSend, cur \in bundle
  PROVE  SeenInv'
<1> DEFINE addr == Blame(reason, cur)
<1>1. /\ pc' = "idle" /\ snapshot' = {} /\ todo' = {} /\ bundle' = {}
      /\ Held' = mempool'
  BY DEF BlameSend, ResetLoop, Held, AtAwait
<1>2. cur \in Held /\ cur \in UserOp
  BY HeldFinite DEF Held
<1>3. mempool' \subseteq mempool /\ \A p \in mempool' : ~SameKey(p, cur)
  BY RemovedKey, RemovedBlamedKey DEF BlameSend, TypeInv, Inv
<1>4. Held' \in SUBSET Held
  BY <1>1, <1>3 DEF Held
<1>5. CASE addr = Absent
  <2>1. entries' = entries
    BY <1>5 DEF BlameSend
  <2> QED
    BY <1>1, <1>4, <2>1, QuietSeen DEF AtAwait
<1>6. CASE addr # Absent
  <2>1. ASSUME NEW a \in Address PROVE entries'[a].opsSeen >= Needed(Held', a)
    <3> DEFINE undone == undoSeen(entries, cur)
    <3>1. undone \in [Address -> Entry] /\ addr \in Spelling \union {Absent}
      BY <1>2, UndoSeenType, BlameType DEF TypeInv, Inv, PoolTypeOK, RepTypeOK
    <3>2. undone[a].opsSeen >= Needed(Held', a)
      BY <1>1, <1>2, <1>3, <1>4, UndoCovered
    <3>3. undone[a].opsSeen \in Nat /\ Needed(Held', a) \in Nat
      BY <1>4, <3>1, HeldFinite, FS_Subset, NeededType DEF Entry
    <3>4. entries' = crashedHandleOps(undone, addr)
      BY <1>6 DEF BlameSend
    <3> HIDE DEF undone, addr
    <3>5. \/ entries'[a] = undone[a]
          \/ entries'[a].opsSeen = undone[a].opsSeen + BanOpsSeenPenalty
      BY <3>1, <3>4, LowerAddress DEF crashedHandleOps
    <3> QED
      BY <3>2, <3>3, <3>5, ParamsAssumption
  <2> QED
    BY <1>1, <2>1 DEF SeenInv, AtAwait
<1> QED
  BY <1>5, <1>6

\* Who is blamed for a refused transaction is an operation of the bundle.
BlamedInBundle == pc = "blameSend" => cur \in bundle

LEMMA BlamedStep ==
  TypeInv /\ BlamedInBundle /\ [BundleNext]_bundleVars => BlamedInBundle'
<1> SUFFICES ASSUME TypeInv, BlamedInBundle, [BundleNext]_bundleVars, pc' = "blameSend"
             PROVE  cur' \in bundle'
  BY DEF BlamedInBundle
<1> USE DEF BlamedInBundle
<1>1. CASE WalkStep
  BY <1>1
  DEF WalkStep, StopAtSize, SkipLowFee, RemoveBanned, SkipThrottled, SkipRepeated,
      Revalidate, EndOfWalk, SkipForeignStorage, StopAtGas, ConsiderAtOnce, AwaitBalance,
      BalanceArrives, ValidationThrows, ValidationReverts, BlameValidation, Validated,
      PassOver, Offered, BackToLoop, Choose, SpendDeposit
<1>2. CASE SendStep
  BY <1>2
  DEF SendStep, GiveUp, NothingToSend, SendAccepted, BundleMined, WaitFails,
      SendReverts, BlameSend, ResetLoop
<1>3. CASE StartBundle
  BY <1>3 DEF StartBundle
<1>4. CASE Around \/ UNCHANGED bundleVars
  <2>1. UNCHANGED <<pc, cur, bundle>>
    BY <1>4 DEF Around, Submit, Admit, Refuse, Include, EventArrives, bundleVars, loopVars
  <2> QED
    BY <2>1
<1> QED
  BY <1>1, <1>2, <1>3, <1>4 DEF BundleNext

LEMMA BundleStepSeen ==
  ASSUME StableEntities, RolesFixed
  PROVE  TypeInv /\ TypeInv' /\ BlamedInBundle /\ SeenInv /\ [BundleNext]_bundleVars
           => SeenInv'
<1> SUFFICES ASSUME TypeInv, TypeInv', BlamedInBundle, SeenInv, [BundleNext]_bundleVars
             PROVE  SeenInv'
  OBVIOUS
<1>1. CASE UNCHANGED bundleVars
  BY <1>1, QuietSeen DEF bundleVars, poolVars, loopVars, Held, AtAwait, SeenInv
<1>2. CASE StartBundle
  <2>1. /\ pc' = "loop" /\ bundle' = {} /\ snapshot' = mempool' /\ todo' = mempool'
        /\ mempool' \subseteq mempool
        /\ \A a \in Address : entries'[a].opsSeen = entries[a].opsSeen
    BY <1>2
    DEF StartBundle, Flush, Remove, TypeInv, CleanStart, Inv, PoolTypeOK, RepTypeOK, Entry
  <2>2. Held' \subseteq Held /\ \A p, q \in snapshot' : SameKey(p, q) => p = q
    BY <2>1 DEF Held, AtAwait, TypeInv, Inv, UniqueKeys
  <2> QED
    BY <2>1, <2>2, QuietSeen DEF AtAwait
<1>3. ASSUME NEW op \in UserOp, EventArrives(op)
      PROVE  SeenInv'
  <2>1. /\ UNCHANGED <<pc, cur, todo, bundle, snapshot>> /\ mempool' \subseteq mempool
        /\ \A a \in Address : entries'[a].opsSeen = entries[a].opsSeen
    BY <1>3 DEF EventArrives, Flush, Remove, loopVars, TypeInv, Inv, PoolTypeOK, RepTypeOK, Entry
  <2> QED
    BY <2>1, QuietSeen DEF Held, AtAwait, SeenInv
<1>4. CASE Admit
  BY <1>4, AdmitSeen
<1>17. CASE Submit \/ Refuse
  BY <1>17, QuietSeen DEF Submit, Refuse, poolVars, loopVars, Held, AtAwait, SeenInv
<1>5. ASSUME NEW op \in UserOp, Include(op)
      PROVE  SeenInv'
  BY <1>5, QuietSeen DEF Include, poolVars, loopVars, Held, AtAwait, SeenInv
<1>6. ASSUME NEW op \in todo,
             SkipLowFee(op) \/ RemoveBanned(op) \/ SkipThrottled(op) \/ SkipRepeated(op)
      PROVE  SeenInv'
  <2>1. /\ pc = "loop" /\ UNCHANGED <<pc, cur, bundle, snapshot, entries>>
        /\ todo' \subseteq todo /\ mempool' \subseteq mempool
    BY <1>6, RemoveIfThereShrinks
    DEF SkipLowFee, RemoveBanned, SkipThrottled, SkipRepeated, Offered, PassOver, poolVars,
        Remove
  <2> QED
    BY <2>1, QuietSeen DEF Held, AtAwait, SeenInv
<1>7. ASSUME NEW op \in todo, Revalidate(op)
      PROVE  SeenInv'
  <2>1. /\ pc = "loop" /\ pc' = "validateUserOp" /\ cur' = op /\ todo' = todo \ {op}
        /\ UNCHANGED <<bundle, snapshot, entries, mempool>> /\ op \notin bundle
    BY <1>7 DEF Revalidate, Offered, poolVars, Repeated
  <2>2. Held' \subseteq Held /\ cur' \notin todo' \union bundle'
    BY <2>1 DEF Held, AtAwait
  <2> QED
    BY <2>1, <2>2, QuietSeen DEF SeenInv
<1>8. CASE \/ \E touched \in SUBSET knownSenders : \/ SkipForeignStorage(touched)
                                                  \/ StopAtGas(touched)
                                                  \/ ConsiderAtOnce(touched)
           \/ \E balance \in Balances : BalanceArrives(balance)
  <2>1. /\ AtAwait /\ pc' \in {"loop", "created"}
        /\ UNCHANGED <<snapshot, todo, entries, mempool>>
        /\ bundle' \subseteq bundle \union {cur}
    BY <1>8
    DEF SkipForeignStorage, StopAtGas, ConsiderAtOnce, BalanceArrives, Validated,
        BackToLoop, Choose, SpendDeposit, AtAwait, poolVars
  <2>2. Held' \subseteq Held
    BY <2>1 DEF Held, AtAwait
  <2> QED
    BY <2>1, <2>2, QuietSeen DEF AtAwait, SeenInv
<1>9. ASSUME NEW touched, AwaitBalance(touched)
      PROVE  SeenInv'
  <2>1. /\ AtAwait /\ AtAwait' /\ UNCHANGED <<cur, snapshot, todo, bundle, entries, mempool>>
    BY <1>9 DEF AwaitBalance, Validated, AtAwait, poolVars
  <2> QED
    BY <2>1, QuietSeen DEF Held, SeenInv
<1>10. CASE ValidationThrows \/ StopAtSize \/ EndOfWalk
  <2>1. /\ pc' \in {"loop", "created"} /\ UNCHANGED <<snapshot, todo, bundle, entries>>
        /\ mempool' \subseteq mempool
    BY <1>10, RemoveIfThereShrinks
    DEF ValidationThrows, StopAtSize, EndOfWalk, BackToLoop, poolVars, loopVars, Remove
  <2> QED
    BY <2>1, QuietSeen DEF Held, AtAwait, SeenInv
<1>11. ASSUME NEW r \in Reasons, ValidationReverts(r)
       PROVE  SeenInv'
  <2>1. /\ AtAwait /\ AtAwait' /\ UNCHANGED <<cur, snapshot, todo, bundle, entries, mempool>>
    BY <1>11 DEF ValidationReverts, AtAwait, poolVars
  <2> QED
    BY <2>1, QuietSeen DEF Held, SeenInv
<1>12. CASE BlameValidation
  BY <1>12, BlameValidationSeen
<1>13. CASE GiveUp \/ NothingToSend \/ SendAccepted \/ BundleMined \/ WaitFails
  <2>1. /\ UNCHANGED <<entries, mempool>>
        /\ \/ ResetLoop
           \/ pc' = "wait" /\ UNCHANGED <<snapshot, todo, bundle>>
    BY <1>13
    DEF GiveUp, NothingToSend, SendAccepted, BundleMined, WaitFails, poolVars, loopVars
  <2>2. /\ ~AtAwait' /\ mempool' = mempool /\ todo' \subseteq todo
        /\ bundle' \subseteq bundle /\ snapshot' \subseteq snapshot
    BY <2>1 DEF ResetLoop, AtAwait
  <2> QED
    BY <2>1, <2>2, QuietSeen DEF Held, SeenInv
<1>14. ASSUME NEW op \in bundle, NEW r \in Reasons, SendReverts(op, r)
       PROVE  SeenInv'
  <2>1. /\ ~AtAwait' /\ UNCHANGED <<snapshot, todo, bundle, entries, mempool>>
    BY <1>14 DEF SendReverts, AtAwait, poolVars
  <2> QED
    BY <2>1, QuietSeen DEF Held, SeenInv
<1>15. CASE BlameSend
  BY <1>15, BlameSendSeen DEF BlameSend, BlamedInBundle
<1>16. CASE WalkStep
  BY <1>16, <1>6, <1>7, <1>8, <1>9, <1>10, <1>11, <1>12 DEF WalkStep
<1> QED
  BY <1>1, <1>2, <1>3, <1>4, <1>5, <1>13, <1>14, <1>15, <1>16, <1>17
  DEF BundleNext, SendStep, Around

\* "undo all "updateSeen" of all entities" (BundleManager.ts:493): however
\* operations are added, replaced, bundled, failed, blamed and included, an undo
\* takes back no more than the operation had added, so that every paymaster and
\* factory has been seen once for each operation of it in the mempool.
THEOREM SeenStaysCovered ==
  ASSUME StableEntities, RolesFixed
  PROVE  BundleSpec => []SeenCoversPool
<1>1. BundleInit => BlamedInBundle /\ SeenInv
  <2>1. \A a : Needed({}, a) = 0
    BY FS_EmptySet DEF Needed, KeysOf, PaidBy, DeployedBy
  <2> QED
    BY <2>1
    DEF BundleInit, MempoolInit, RepInit, NoEntries, BlamedInBundle, SeenInv, Held, AtAwait
<1>2. TypeInv /\ TypeInv' /\ BlamedInBundle /\ SeenInv /\ [BundleNext]_bundleVars
        => BlamedInBundle' /\ SeenInv'
  BY BlamedStep, BundleStepSeen
<1>3. TypeInv /\ SeenInv => SeenCoversPool
  <2> SUFFICES ASSUME TypeInv, SeenInv, NEW a \in Address
               PROVE  entries[a].opsSeen >= Cardinality(PaidBy(mempool, a))
                                              + Cardinality(DeployedBy(mempool, a))
    BY DEF SeenCoversPool
  <2>1. /\ IsFiniteSet(mempool) /\ IsFiniteSet(Held) /\ mempool \subseteq Held
        /\ \A p, q \in mempool : SameKey(p, q) => p = q
    BY HeldFinite DEF TypeInv, Inv, UniqueKeys, Held
  <2>2. /\ Cardinality(PaidBy(mempool, a)) <= Cardinality(KeysOf(PaidBy(mempool, a)))
        /\ Cardinality(DeployedBy(mempool, a)) <= Cardinality(KeysOf(DeployedBy(mempool, a)))
    <3>1. /\ \A p, q \in PaidBy(mempool, a) : SameKey(p, q) => p = q
          /\ \A p, q \in DeployedBy(mempool, a) : SameKey(p, q) => p = q
      BY <2>1 DEF PaidBy, DeployedBy
    <3> QED
      BY <2>1, <3>1, RolesFinite, KeysCount
  <2>3. Needed(mempool, a) <= Needed(Held, a) /\ Needed(mempool, a) \in Nat
    <3>1. /\ KeysOf(PaidBy(mempool, a)) \subseteq KeysOf(PaidBy(Held, a))
          /\ KeysOf(DeployedBy(mempool, a)) \subseteq KeysOf(DeployedBy(Held, a))
      BY <2>1 DEF KeysOf, PaidBy, DeployedBy
    <3> QED
      BY <2>1, <3>1, NeededShrinks
  <2>4. /\ entries[a].opsSeen \in Nat /\ Needed(Held, a) \in Nat
        /\ entries[a].opsSeen >= Needed(Held, a)
    BY <2>1, SeenType, NeededType DEF SeenInv
  <2>5. /\ Cardinality(PaidBy(mempool, a)) \in Nat
        /\ Cardinality(DeployedBy(mempool, a)) \in Nat
        /\ Cardinality(KeysOf(PaidBy(mempool, a))) \in Nat
        /\ Cardinality(KeysOf(DeployedBy(mempool, a))) \in Nat
    BY <2>1, RolesFinite, NeededType
  <2> QED
    BY <2>2, <2>3, <2>4, <2>5 DEF Needed
<1> QED
  BY <1>1, <1>2, <1>3, TypeInvHolds, PTL DEF BundleSpec
=============================================================================
