------------------------------ MODULE RipProofs ------------------------------
(* Theorem about Rip7560: what is handed out stays remembered, for any      *)
(* number of callers, operations and configurations.                        *)
EXTENDS Rip7560, SumLemmas

Bundle == [by : {"here", "node"}, ops : SUBSET UserOp]

-----------------------------------------------------------------------------
(* Remaining is a list of bundles again.                                    *)

Filters(kept, s, noted) ==
  kept = [i \in 0..Len(s) |-> IF i = 0 THEN <<>>
                              ELSE IF Hash(s[i]) \in noted THEN kept[i - 1]
                                   ELSE Append(kept[i - 1], s[i])]

\* As Filters, up to n.
FiltersTo(kept, s, noted, n) ==
  /\ kept[0] = <<>>
  /\ \A i \in 1..n : kept[i] = IF Hash(s[i]) \in noted THEN kept[i - 1]
                               ELSE Append(kept[i - 1], s[i])

LEMMA FilterExists ==
  ASSUME NEW s, NEW noted, Len(s) \in Nat
  PROVE  \E kept : Filters(kept, s, noted)
<1> DEFINE B == {n \in Nat : ~ \E kept : /\ kept = [i \in 0..n |-> kept[i]]
                                     /\ FiltersTo(kept, s, noted, n)}
<1>1. B = {}
  <2>1. SUFFICES ASSUME B # {} PROVE FALSE
    OBVIOUS
  <2>2. PICK n \in B : \A m \in B : ~(m < n)
    <3>1. B \in SUBSET Nat
      OBVIOUS
    <3> HIDE DEF B
    <3> QED
      BY <2>1, <3>1, SmallestNumber
  <2>3. n # 0
    <3> SUFFICES ASSUME n = 0 PROVE FALSE
      OBVIOUS
    <3> DEFINE g == [i \in 0..n |-> <<>>]
    <3>1. FiltersTo(g, s, noted, n)
      BY DEF FiltersTo
    <3> QED
      BY <2>2, <3>1
  <2>4. PICK kept : FiltersTo(kept, s, noted, n - 1)
    BY <2>2, <2>3
  <2> DEFINE last == IF Hash(s[n]) \in noted THEN kept[n - 1] ELSE Append(kept[n - 1], s[n])
             g == [i \in 0..n |-> IF i = n THEN last ELSE kept[i]]
  <2>5. FiltersTo(g, s, noted, n)
    <3>1. g[0] = kept[0] /\ kept[0] = <<>>
      BY <2>2, <2>3, <2>4 DEF FiltersTo
    <3>2. \A i \in 1..n : g[i - 1] = kept[i - 1]
      BY <2>2
    <3>3. g[n] = last
      BY <2>2
    <3>4. \A i \in 1..n : i # n => /\ g[i] = kept[i]
                                   /\ i \in 1..(n - 1)
      BY <2>2
    <3> HIDE DEF g
    <3> QED
      BY <2>4, <3>1, <3>2, <3>3, <3>4 DEF FiltersTo
  <2> QED
    BY <2>2, <2>5
<1>2. PICK kept : /\ kept = [i \in 0..Len(s) |-> kept[i]]
                  /\ FiltersTo(kept, s, noted, Len(s))
  BY <1>1
<1> DEFINE body(i) == IF i = 0 THEN <<>>
                      ELSE IF Hash(s[i]) \in noted THEN kept[i - 1]
                           ELSE Append(kept[i - 1], s[i])
<1>3. \A i \in 0..Len(s) : kept[i] = body(i)
  BY <1>2 DEF FiltersTo
<1>4. kept = [i \in 0..Len(s) |-> body(i)]
  <2> HIDE DEF body
  <2> QED
    BY <1>2, <1>3
<1> QED
  BY <1>4 DEF Filters

LEMMA FilterType ==
  ASSUME NEW S, NEW s \in Seq(S), NEW noted, NEW kept, Filters(kept, s, noted)
  PROVE  \A n \in 0..Len(s) : kept[n] \in Seq(S)
<1> DEFINE B == {n \in 0..Len(s) : kept[n] \notin Seq(S)}
<1>1. SUFFICES ASSUME B # {} PROVE FALSE
  OBVIOUS
<1>2. PICK n \in B : \A m \in B : ~(m < n)
  <2>1. B \in SUBSET Nat
    OBVIOUS
  <2> HIDE DEF B
  <2> QED
    BY <1>1, <2>1, SmallestNumber
<1> DEFINE body(i) == IF i = 0 THEN <<>>
                      ELSE IF Hash(s[i]) \in noted THEN kept[i - 1]
                           ELSE Append(kept[i - 1], s[i])
<1>3. \A i \in 0..Len(s) : kept[i] = body(i)
  <2>1. kept = [i \in 0..Len(s) |-> body(i)]
    BY DEF Filters
  <2> HIDE DEF body
  <2> QED
    BY <2>1
<1>4. n \in 0..Len(s) /\ kept[n] \notin Seq(S)
  OBVIOUS
<1>5. kept[n] = body(n)
  BY <1>3, <1>4
<1>6. n # 0
  BY <1>4, <1>5
<1>7. kept[n - 1] \in Seq(S)
  <2>1. n - 1 \in 0..Len(s) /\ n - 1 < n
    BY <1>4, <1>6
  <2> QED
    BY <1>2, <2>1
<1>8. s[n] \in S
  BY <1>4, <1>6
<1>9. kept[n] \in Seq(S)
  <2>1. Append(kept[n - 1], s[n]) \in Seq(S)
    BY <1>7, <1>8
  <2> QED
    BY <1>6, <1>7, <1>5, <2>1
<1> QED
  BY <1>4, <1>9

LEMMA RemainingType ==
  ASSUME NEW S, sentBundles \in Seq(S), NEW noted
  PROVE  Remaining(noted) \in Seq(S)
<1> DEFINE kept == CHOOSE k : Filters(k, sentBundles, noted)
<1>1. Filters(kept, sentBundles, noted)
  BY FilterExists
<1>2. kept[Len(sentBundles)] \in Seq(S)
  BY <1>1, FilterType
<1>3. Remaining(noted) = kept[Len(sentBundles)]
  BY DEF Remaining, Filters
<1> QED
  BY <1>2, <1>3

-----------------------------------------------------------------------------
(* The inductive invariant.                                                 *)

RipTypes ==
  /\ pool \subseteq UserOp
  /\ handedOut \subseteq UserOp
  /\ sentBundles \in Seq(Bundle)
  /\ pc \in [Caller -> Places]
  /\ index \in [Caller -> Nat]
  /\ list = [c \in Caller |-> list[c]]
  /\ snapshot \in [Caller -> SUBSET UserOp]
  /\ overlapped \in BOOLEAN

\* A single scan goes over sentBundles itself.
OneScan ==
  /\ \A c, d \in Caller : Scanning(c) /\ Scanning(d) => c = d
  /\ \A c \in Caller : /\ list[c] = <<>>
                       /\ Scanning(c) => index[c] \in 1..Len(sentBundles)
                       /\ ~Scanning(c) => index[c] = 1

\* What it has not removed yet it still comes to.
StillToCome ==
  \A c \in Caller, op \in pool \intersect handedOut :
    Scanning(c) => \E i \in DOMAIN sentBundles : i >= index[c] /\ op \in sentBundles[i].ops

RipInv ==
  /\ RipTypes
  /\ HandedOutRemembered
  /\ overlapped \/ (OneScan /\ StillToCome)

LEMMA RipInvInit == RipInit => RipInv
<1> SUFFICES ASSUME RipInit PROVE RipInv
  OBVIOUS
<1>1. overlapped \in BOOLEAN
  BY Zenon DEF RipInit
<1>2. /\ pool \subseteq UserOp /\ handedOut \subseteq UserOp /\ sentBundles \in Seq(Bundle)
      /\ pc \in [Caller -> Places] /\ snapshot \in [Caller -> SUBSET UserOp]
  BY DEF RipInit, PoolInit, Places
<1>3. index \in [Caller -> Nat] /\ list = [c \in Caller |-> list[c]]
  BY DEF RipInit
<1>4. HandedOutRemembered /\ OneScan /\ StillToCome
  BY DEF RipInit, PoolInit, HandedOutRemembered, OneScan, StillToCome, Scanning
<1> QED
  BY <1>1, <1>2, <1>3, <1>4 DEF RipInv, RipTypes

\* A step that neither scans nor starts a scan: what is in the mempool and handed
\* out was so before, or is in a bundle that is appended now.
LEMMA QuietStep ==
  ASSUME RipInv, RipTypes', overlapped' = overlapped, list' = list, index' = index,
         \A c \in Caller : pc'[c] \in {"status", "statusOnly"} <=> Scanning(c),
         NEW b \in Bundle, sentBundles' \in {sentBundles, Append(sentBundles, b)},
         \A op \in pool' \intersect handedOut' :
           \/ op \in pool \intersect handedOut
           \/ sentBundles' = Append(sentBundles, b) /\ op \in b.ops
  PROVE  RipInv'
<1> USE DEF RipInv, RipTypes
<1>1. /\ sentBundles' \in Seq(Bundle)
      /\ Len(sentBundles') \in Nat
      /\ DOMAIN sentBundles \subseteq DOMAIN sentBundles'
      /\ \A i \in DOMAIN sentBundles : sentBundles'[i] = sentBundles[i]
      /\ Len(sentBundles) <= Len(sentBundles')
  <2>1. CASE sentBundles' = sentBundles
    BY <2>1
  <2>2. CASE sentBundles' = Append(sentBundles, b)
    BY <2>2
  <2> QED
    BY <2>1, <2>2
<1>2. sentBundles' = Append(sentBundles, b) =>
        /\ Len(sentBundles) + 1 \in DOMAIN sentBundles'
        /\ sentBundles'[Len(sentBundles) + 1] = b
  OBVIOUS
<1>3. HandedOutRemembered'
  BY <1>1, <1>2 DEF HandedOutRemembered
<1>4. ASSUME ~overlapped PROVE OneScan' /\ StillToCome'
  <2>1. OneScan /\ StillToCome
    BY <1>4
  <2>2. OneScan'
    BY <1>1, <2>1 DEF OneScan, Scanning
  <2>3. StillToCome'
    <3> SUFFICES ASSUME NEW c \in Caller, NEW op \in pool' \intersect handedOut', Scanning(c)'
                 PROVE  \E i \in DOMAIN sentBundles' : i >= index[c] /\ op \in sentBundles'[i].ops
      BY DEF StillToCome
    <3>1. Scanning(c) /\ index[c] \in 1..Len(sentBundles)
      BY <2>1 DEF Scanning, OneScan
    <3>2. CASE op \in pool \intersect handedOut
      BY <1>1, <2>1, <3>1, <3>2 DEF StillToCome
    <3>3. CASE sentBundles' = Append(sentBundles, b) /\ op \in b.ops
      <4>1. Len(sentBundles) + 1 >= index[c]
        BY <3>1
      <4>2. index'[c] = index[c]
        OBVIOUS
      <4> QED
        BY <1>2, <3>3, <4>1, <4>2
    <3> QED
      BY <3>2, <3>3
  <2> QED
    BY <2>2, <2>3
<1> QED
  BY <1>3, <1>4

\* A scan begins at the first bundle.
LEMMA ScanBegins ==
  ASSUME RipInv, NEW c \in Caller, ~Scanning(c), NEW place \in {"status", "statusOnly"},
         BeginScan(c, place), pool' \subseteq UserOp, handedOut' \subseteq UserOp,
         pool' \intersect handedOut' \subseteq pool \intersect handedOut
  PROVE  RipInv'
<1> USE DEF RipInv, RipTypes
<1>1. RipTypes'
  BY DEF BeginScan, Goto, Places
<1>2. HandedOutRemembered'
  BY DEF HandedOutRemembered, BeginScan
<1>3. ASSUME ~overlapped' PROVE OneScan' /\ StillToCome'
  <2>1. OneScan /\ StillToCome /\ ~overlapped /\ \A d \in Caller : ~Scanning(d)
    BY <1>3 DEF BeginScan
  <2>2. UNCHANGED <<sentBundles, index, list>>
    BY DEF BeginScan
  <2>3. \A d \in Caller : Scanning(d)' => d = c /\ sentBundles # <<>> /\ index[d] = 1
    BY <2>1 DEF BeginScan, Goto, Scanning, OneScan
  <2>4. sentBundles # <<>> => 1 \in 1..Len(sentBundles)
    OBVIOUS
  <2>5. OneScan'
    <3>1. \A d \in Caller : list[d] = <<>> /\ index[d] = 1
      BY <2>1 DEF OneScan
    <3> QED
      BY <2>2, <2>3, <2>4, <3>1 DEF OneScan
  <2>6. StillToCome'
    BY <1>2, <1>3, <2>2, <2>3 DEF StillToCome, HandedOutRemembered
  <2> QED
    BY <2>5, <2>6
<1> QED
  BY <1>1, <1>2, <1>3

\* The status of a bundle: its operations leave the mempool, the last bundle's the
\* last of what was handed out.
LEMMA StatusKeeps ==
  ASSUME RipInv, NEW c \in Caller, BundleStatus(c)
  PROVE  RipInv'
<1> USE DEF RipInv, RipTypes
<1> DEFINE b == Array(c)[index[c]]
<1>1. PICK known \in BOOLEAN :
        LET noted == IF known THEN bundlesToClear[c] \union {Hash(b)} ELSE bundlesToClear[c]
        IN  IF index[c] < Len(Array(c))
            THEN /\ index' = [index EXCEPT ![c] = @ + 1]
                 /\ UNCHANGED <<pc, sentBundles, list>>
            ELSE EndOfLoop(c, noted)
  BY DEF BundleStatus
<1> DEFINE noted == IF known THEN bundlesToClear[c] \union {Hash(b)} ELSE bundlesToClear[c]
<1>2. /\ Scanning(c)
      /\ pool' = pool \ b.ops
      /\ UNCHANGED <<overlapped, snapshot, handedOut>>
  BY DEF BundleStatus, Leaves, Cleared
<1>3. RipTypes'
  <2>1. CASE index[c] < Len(Array(c))
    <3>1. index' = [index EXCEPT ![c] = @ + 1] /\ UNCHANGED <<pc, sentBundles, list>>
      BY <1>1, <2>1
    <3> HIDE DEF b
    <3> QED
      BY <1>2, <3>1
  <2>2. CASE ~(index[c] < Len(Array(c)))
    <3>1. EndOfLoop(c, noted)
      BY <1>1, <2>2
    <3>2. sentBundles' \in Seq(Bundle)
      BY <3>1, RemainingType DEF EndOfLoop
    <3> QED
      BY <1>2, <3>1, <3>2 DEF EndOfLoop, Goto, AfterScan, Places
  <2> QED
    BY <2>1, <2>2
<1>4. CASE overlapped
  BY <1>2, <1>3, <1>4 DEF HandedOutRemembered
<1>5. CASE ~overlapped
  <2>1. OneScan /\ StillToCome /\ HandedOutRemembered
    BY <1>5
  <2>2. /\ Array(c) = sentBundles
        /\ index[c] \in 1..Len(sentBundles)
        /\ \A d \in Caller : Scanning(d) => d = c
    BY <1>2, <2>1 DEF OneScan, Array
  <2>3. \A op \in pool' \intersect handedOut' :
          \E i \in DOMAIN sentBundles : i > index[c] /\ op \in sentBundles[i].ops
    <3> TAKE op \in pool' \intersect handedOut'
    <3>1. PICK i \in DOMAIN sentBundles : i >= index[c] /\ op \in sentBundles[i].ops
      BY <1>2, <2>1 DEF StillToCome
    <3>2. i # index[c]
      BY <1>2, <2>2, <3>1
    <3> QED
      BY <2>2, <3>1, <3>2
  <2>4. CASE index[c] < Len(sentBundles)
    <3>1. /\ index' = [index EXCEPT ![c] = @ + 1]
          /\ UNCHANGED <<pc, sentBundles, list>>
      BY <1>1, <2>2, <2>4
    <3>2. OneScan'
      BY <1>2, <2>1, <2>2, <2>4, <3>1 DEF OneScan, Scanning
    <3>3. StillToCome'
      BY <2>2, <2>3, <3>1 DEF StillToCome, Scanning
    <3>4. HandedOutRemembered'
      BY <2>3, <3>1 DEF HandedOutRemembered
    <3> QED
      BY <1>3, <3>2, <3>3, <3>4
  <2>5. CASE ~(index[c] < Len(sentBundles))
    <3>1. EndOfLoop(c, noted)
      BY <1>1, <2>2, <2>5
    <3>2. pool' \intersect handedOut' = {}
      BY <2>2, <2>3, <2>5
    <3>3. /\ \A d \in Caller : ~Scanning(d)' /\ list'[d] = <<>>
          /\ index' = [index EXCEPT ![c] = 1]
      BY <1>2, <2>1, <2>2, <3>1 DEF EndOfLoop, Goto, AfterScan, Scanning, OneScan
    <3>4. OneScan'
      BY <2>1, <2>2, <3>3 DEF OneScan
    <3> QED
      BY <1>3, <3>2, <3>3, <3>4 DEF HandedOutRemembered, StillToCome
  <2> QED
    BY <2>4, <2>5
<1> QED
  BY <1>4, <1>5

\* A caller that fails no longer scans.
LEMMA FailKeeps ==
  ASSUME RipInv, NEW c \in Caller, Fails(c)
  PROVE  RipInv'
<1> USE DEF RipInv, RipTypes, Fails, Goto
<1>1. RipTypes'
  BY DEF Places
<1>2. HandedOutRemembered'
  BY DEF HandedOutRemembered
<1>3. ASSUME ~overlapped PROVE OneScan' /\ StillToCome'
  <2>1. OneScan /\ StillToCome
    BY <1>3
  <2>2. \A d \in Caller : Scanning(d)' => d # c /\ Scanning(d) /\ index'[d] = index[d]
    BY DEF Scanning
  <2>3. \A d \in Caller : d # c /\ Scanning(d) => Scanning(d)'
    BY DEF Scanning
  <2>4. OneScan'
    BY <2>1, <2>2, <2>3 DEF OneScan
  <2>5. StillToCome'
    BY <2>1, <2>2 DEF StillToCome
  <2> QED
    BY <2>4, <2>5
<1> QED
  BY <1>1, <1>2, <1>3

\* createBundle and sendBundle: the walk begins, and what it hands out is
\* remembered in the step that hands it out.
LEMMA CreateKeeps ==
  ASSUME RipInv, NEW c \in Caller,
         \/ CreateBundle(c) \/ GetRip7560Bundle(c) \/ WalkEnds(c) \/ SendBundle(c)
  PROVE  RipInv'
<1> USE DEF RipInv, RipTypes, Goto
<1>1. [by |-> "here", ops |-> {}] \in Bundle
  BY DEF Bundle
<1>2. CASE CreateBundle(c) \/ GetRip7560Bundle(c)
  <2>1. BeginWalk(c) /\ ~Scanning(c)
    BY <1>2 DEF CreateBundle, GetRip7560Bundle, Scanning
  <2>2. RipTypes'
    BY <2>1 DEF BeginWalk, Places
  <2>3. /\ UNCHANGED <<overlapped, list, index, sentBundles, pool, handedOut>>
        /\ \A d \in Caller : pc'[d] \in {"status", "statusOnly"} <=> Scanning(d)
    BY <2>1 DEF BeginWalk, Scanning
  <2> QED
    BY <1>1, <2>2, <2>3, QuietStep
<1>3. CASE WalkEnds(c)
  <2>1. PICK bundle \in SUBSET snapshot[c] :
          /\ \E refused \in SUBSET (snapshot[c] \ bundle) : Leaves(refused)
          /\ handedOut' = handedOut \union bundle
          /\ sentBundles' = IF bundle = {} THEN sentBundles
                            ELSE Append(sentBundles, [by |-> "here", ops |-> bundle])
          /\ snapshot' = [snapshot EXCEPT ![c] = IF c \in Puller THEN {} ELSE bundle]
          /\ Goto(c, IF c \in Puller \/ bundle = {} THEN "idle" ELSE "sendBundle")
    BY <1>3 DEF WalkEnds, Remember
  <2> DEFINE b == [by |-> "here", ops |-> bundle]
  <2>2. b \in Bundle
    BY DEF Bundle
  <2>3. UNCHANGED <<overlapped, list, index>> /\ pc[c] = "walk"
    BY <1>3 DEF WalkEnds
  <2>4. pool' \subseteq pool
    BY <2>1 DEF Leaves
  <2>5. sentBundles' \in Seq(Bundle)
    BY <2>1, <2>2
  <2>6. RipTypes'
    BY <2>1, <2>3, <2>4, <2>5 DEF Places
  <2>7. \A d \in Caller : pc'[d] \in {"status", "statusOnly"} <=> Scanning(d)
    BY <2>1, <2>3 DEF Scanning
  <2>8. \A op \in pool' \intersect handedOut' :
          \/ op \in pool \intersect handedOut
          \/ sentBundles' = Append(sentBundles, b) /\ op \in b.ops
    BY <2>1, <2>4
  <2>9. sentBundles' \in {sentBundles, Append(sentBundles, b)}
    BY <2>1
  <2> QED
    BY <2>2, <2>3, <2>6, <2>7, <2>8, <2>9, QuietStep
<1>4. CASE SendBundle(c)
  <2> DEFINE b == [by |-> "node", ops |-> snapshot[c]]
  <2>1. b \in Bundle
    BY DEF Bundle
  <2>2. /\ UNCHANGED <<overlapped, list, index, pool, handedOut>> /\ pc[c] = "sendBundle"
        /\ sentBundles' = Append(sentBundles, b)
    BY <1>4 DEF SendBundle
  <2>3. RipTypes'
    BY <1>4, <2>1, <2>2 DEF SendBundle, Places
  <2>4. \A d \in Caller : pc'[d] \in {"status", "statusOnly"} <=> Scanning(d)
    BY <1>4 DEF SendBundle, Scanning
  <2> QED
    BY <2>1, <2>2, <2>3, <2>4, QuietStep
<1> QED
  BY <1>2, <1>3, <1>4

\* An operation that is sent again is no longer handed out.
LEMMA SendTransactionKeeps ==
  ASSUME RipInv, NEW r \in Requests, NEW op \in UserOp, SendTransaction(r, op)
  PROVE  RipInv'
<1> USE DEF RipInv, RipTypes
<1>1. /\ pool' \subseteq UserOp /\ handedOut' \subseteq UserOp
      /\ pool' \intersect handedOut' \subseteq pool \intersect handedOut
      /\ r \in Caller /\ ~Scanning(r)
  BY DEF SendTransaction, Put, Replace, Caller, Scanning
<1>2. CASE BeginScan(r, "status")
  BY <1>1, <1>2, ScanBegins
<1>3. CASE UNCHANGED <<overlapped, sentBundles, pc, index, list, bundlesToClear, snapshot>>
  <2>1. RipTypes'
    BY <1>1, <1>3
  <2>2. [by |-> "here", ops |-> {}] \in Bundle
    BY DEF Bundle
  <2>3. \A d \in Caller : pc'[d] \in {"status", "statusOnly"} <=> Scanning(d)
    BY <1>3 DEF Scanning
  <2> QED
    BY <1>1, <1>3, <2>1, <2>2, <2>3, QuietStep
<1> QED
  BY <1>2, <1>3 DEF SendTransaction

\* attemptBundle(true), and its way through a transaction of 1 wei.
LEMMA AttemptKeeps ==
  ASSUME RipInv, NEW c \in Caller, (c \in Timer /\ Attempt(c)) \/ OneWeiMined(c)
  PROVE  RipInv'
<1> USE DEF RipInv, RipTypes
<1>1. UNCHANGED <<pool, handedOut>> /\ ~Scanning(c)
  BY DEF Attempt, OneWeiMined, Scanning
<1>2. CASE BeginScan(c, "status") \/ BeginScan(c, "statusOnly")
  BY <1>1, <1>2, ScanBegins
<1>3. CASE /\ Goto(c, "receipt") /\ pc[c] = "idle"
           /\ UNCHANGED <<overlapped, sentBundles, index, list, bundlesToClear, snapshot>>
  <2>1. RipTypes'
    BY <1>1, <1>3 DEF Goto, Places
  <2>2. [by |-> "here", ops |-> {}] \in Bundle
    BY DEF Bundle
  <2>3. \A d \in Caller : pc'[d] \in {"status", "statusOnly"} <=> Scanning(d)
    BY <1>3 DEF Goto, Scanning
  <2> QED
    BY <1>1, <1>3, <2>1, <2>2, <2>3, QuietStep
<1> QED
  BY <1>2, <1>3 DEF Attempt, OneWeiMined

LEMMA RipInvStep == RipInv /\ [RipNext]_ripVars => RipInv'
<1> SUFFICES ASSUME RipInv, [RipNext]_ripVars
             PROVE  RipInv'
  OBVIOUS
<1>1. CASE UNCHANGED ripVars
  BY <1>1 DEF ripVars, RipInv, RipTypes, HandedOutRemembered, OneScan, StillToCome, Scanning
<1>2. ASSUME NEW c \in Caller, Step(c) \/ Fails(c)
      PROVE  RipInv'
  BY <1>2, StatusKeeps, CreateKeeps, AttemptKeeps, FailKeeps DEF Step, AtBound
<1> QED
  BY <1>1, <1>2, SendTransactionKeeps, AttemptKeeps, CreateKeeps DEF RipNext, Caller

\* While one scan at a time runs, what is handed out and still in the mempool is
\* remembered (BundleManagerRIP7560.ts:59-75): a bundle is remembered before any
\* other caller sees it as handed out, and forgotten after its operations have
\* left, with clients that send them again between.
THEOREM HandedOutStaysRemembered == RipSpec => []HandedOutRemembered
<1>1. RipInv => HandedOutRemembered
  BY DEF RipInv
<1> QED
  BY RipInvInit, RipInvStep, <1>1, PTL DEF RipSpec
=============================================================================
