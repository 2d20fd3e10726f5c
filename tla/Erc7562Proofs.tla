---------------------------- MODULE Erc7562Proofs ----------------------------
(* Theorems about Erc7562: the verdict over a call tree, for any traces.    *)
EXTENDS Erc7562, SumLemmas

-----------------------------------------------------------------------------
(* Functions over a tree: the value at a frame follows from that at its     *)
(* caller, f gives which.                                                   *)

Follows(h, N, p, z, f) ==
  /\ h[0] = z
  /\ \A i \in 1..N : h[i] = f[<<i, h[p[i]]>>]

LEMMA TreeFunctionExists ==
  ASSUME NEW N \in Nat, NEW p \in [1..N -> Nat], \A i \in 1..N : p[i] < i,
         NEW V, NEW z \in V, NEW f \in [(1..N) \X V -> V]
  PROVE  \E h \in [0..N -> V] : Follows(h, N, p, z, f)
<1> DEFINE B == {n \in 0..N : ~ \E h \in [0..n -> V] : Follows(h, n, p, z, f)}
<1>1. SUFFICES B = {}
  OBVIOUS
<1>2. SUFFICES ASSUME B # {} PROVE FALSE
  OBVIOUS
<1>3. PICK n \in B : \A m \in B : ~(m < n)
  <2>1. B \in SUBSET Nat
    OBVIOUS
  <2> HIDE DEF B
  <2> QED
    BY <1>2, <2>1, SmallestNumber
<1>4. n # 0
  <2> SUFFICES ASSUME n = 0 PROVE FALSE
    OBVIOUS
  <2> DEFINE g == [i \in 0..n |-> z]
  <2>1. g \in [0..n -> V] /\ Follows(g, n, p, z, f)
    BY DEF Follows
  <2> QED
    BY <1>3, <2>1
<1>5. PICK h \in [0..(n - 1) -> V] : Follows(h, n - 1, p, z, f)
  <2>1. n \in Nat /\ n - 1 \in 0..N /\ n - 1 < n
    BY <1>3, <1>4
  <2>2. n - 1 \notin B
    <3> HIDE DEF B
    <3> QED
      BY <1>3, <2>1
  <2> QED
    BY <2>1, <2>2
<1> DEFINE g == [i \in 0..n |-> IF i = n THEN f[<<n, h[p[n]]>>] ELSE h[i]]
<1>6. n \in 1..N /\ p[n] \in 0..(n - 1) /\ f[<<n, h[p[n]]>>] \in V
  <2>1. n \in 1..N /\ p[n] \in 0..(n - 1)
    BY <1>3, <1>4
  <2>2. h[p[n]] \in V
    BY <1>5, <2>1
  <2> QED
    BY <2>1, <2>2
<1>7. g \in [0..n -> V]
  BY <1>5, <1>6
<1>8. Follows(g, n, p, z, f)
  <2>1. g[0] = z
    BY <1>5, <1>6 DEF Follows
  <2>2. \A i \in 1..n : g[i] = f[<<i, g[p[i]]>>]
    <3> TAKE i \in 1..n
    <3>1. i \in 1..N /\ p[i] \in 0..(i - 1)
      BY <1>6
    <3>2. p[i] \in 0..n /\ p[i] # n /\ g[p[i]] = h[p[i]]
      BY <1>6, <3>1
    <3>3. CASE i = n
      BY <3>2, <3>3
    <3>4. CASE i # n
      <4>1. i \in 1..(n - 1) /\ g[i] = h[i]
        BY <1>6, <3>4
      <4>2. h[i] = f[<<i, h[p[i]]>>]
        BY <1>5, <4>1 DEF Follows
      <4> QED
        BY <3>2, <4>1, <4>2
    <3> QED
      BY <3>3, <3>4
  <2> QED
    BY <2>1, <2>2 DEF Follows
<1> QED
  BY <1>3, <1>7, <1>8

-----------------------------------------------------------------------------
(* What is skipped, and to whom a frame belongs.                            *)

ParentOf(fs) == [i \in 1..Len(fs) |-> fs[i].parent]

LEMMA ParentBefore ==
  ASSUME NEW fs, CallTree(fs)
  PROVE  /\ Len(fs) \in Nat
         /\ ParentOf(fs) \in [1..Len(fs) -> Nat]
         /\ \A i \in 1..Len(fs) : ParentOf(fs)[i] < i /\ ParentOf(fs)[i] = fs[i].parent
BY DEF CallTree, ParentOf

LEMMA SkippedStep ==
  ASSUME NEW t, CallTree(t.frames)
  PROVE  Skipped(t) = [i \in 0..Len(t.frames) |->
           i # 0 /\ (selfCall(t.frames[i]) \/ Skipped(t)[t.frames[i].parent])]
<1> DEFINE N == Len(t.frames)
           f == [x \in (1..N) \X BOOLEAN |-> selfCall(t.frames[x[1]]) \/ x[2]]
           Is(s) == s = [i \in 0..N |->
                          i # 0 /\ (selfCall(t.frames[i]) \/ s[t.frames[i].parent])]
<1>1. f \in [(1..N) \X BOOLEAN -> BOOLEAN] /\ FALSE \in BOOLEAN
  OBVIOUS
<1>2. PICK h \in [0..N -> BOOLEAN] : Follows(h, N, ParentOf(t.frames), FALSE, f)
  <2> HIDE DEF f, N
  <2> QED
    BY <1>1, ParentBefore, TreeFunctionExists DEF N
<1>3. Is(h)
  <2>1. h[0] = FALSE
    BY <1>2 DEF Follows
  <2>2. \A i \in 1..N : h[i] = (selfCall(t.frames[i]) \/ h[t.frames[i].parent])
    <3> TAKE i \in 1..N
    <3>1. ParentOf(t.frames)[i] = t.frames[i].parent /\ t.frames[i].parent \in 0..N
      BY ParentBefore
    <3>2. h[i] = f[<<i, h[t.frames[i].parent]>>]
      BY <1>2, <3>1 DEF Follows
    <3>3. h[t.frames[i].parent] \in BOOLEAN
      BY <3>1
    <3> QED
      BY <3>2, <3>3
  <2>3. \A i \in 0..N : h[i] = (i # 0 /\ (selfCall(t.frames[i]) \/ h[t.frames[i].parent]))
    BY <2>1, <2>2
  <2> QED
    BY <2>3
<1>4. Skipped(t) = CHOOSE s : Is(s)
  BY DEF Skipped
<1> HIDE DEF Is
<1>5. Is(Skipped(t))
  BY <1>3, <1>4
<1> QED
  BY <1>5 DEF Is

LEMMA OwnEntityStep ==
  ASSUME NEW t, CallTree(t.frames)
  PROVE  OwnEntity(t) = [i \in 0..Len(t.frames) |->
           IF i = 0 THEN None
           ELSE entityAfter(t, t.frames[i], OwnEntity(t)[t.frames[i].parent])]
<1> DEFINE N == Len(t.frames)
           after(i, e) == entityAfter(t, t.frames[i], e)
           V == {None} \union {Entities(t, t.frames[i])[entityNumber(t, t.frames[i])] : i \in 1..N}
           f == [x \in (1..N) \X V |-> after(x[1], x[2])]
           Is(s) == s = [i \in 0..N |-> IF i = 0 THEN None ELSE after(i, s[t.frames[i].parent])]
<1>1. f \in [(1..N) \X V -> V] /\ None \in V
  BY DEF entityAfter
<1>2. PICK h \in [0..N -> V] : Follows(h, N, ParentOf(t.frames), None, f)
  <2> HIDE DEF f, N, V
  <2> QED
    BY <1>1, ParentBefore, TreeFunctionExists DEF N
<1> HIDE DEF V, after
<1>3. Is(h)
  <2>1. h[0] = None
    BY <1>2 DEF Follows
  <2>2. \A i \in 1..N : h[i] = after(i, h[t.frames[i].parent])
    <3> TAKE i \in 1..N
    <3>1. ParentOf(t.frames)[i] = t.frames[i].parent /\ t.frames[i].parent \in 0..N
      BY ParentBefore
    <3>2. h[i] = f[<<i, h[t.frames[i].parent]>>]
      BY <1>2, <3>1 DEF Follows
    <3>3. h[t.frames[i].parent] \in V
      BY <3>1
    <3> QED
      BY <3>2, <3>3
  <2>3. \A i \in 0..N : h[i] = IF i = 0 THEN None ELSE after(i, h[t.frames[i].parent])
    BY <2>1, <2>2
  <2> QED
    BY <2>3
<1>4. OwnEntity(t) = CHOOSE s : Is(s)
  BY DEF OwnEntity, after
<1> HIDE DEF Is
<1>5. Is(OwnEntity(t))
  BY <1>3, <1>4
<1> QED
  BY <1>5 DEF Is, after

\* The two traces that StakeOnlyHelps compares: they differ in a stake.
SameTree(t, u) ==
  /\ u.frames = t.frames /\ u.sender = t.sender /\ u.factory = t.factory
  /\ u.paymaster = t.paymaster /\ u.keccak = t.keccak /\ u.context = t.context

LEMMA SameEntity ==
  ASSUME NEW t, NEW u, SameTree(t, u), NEW f, NEW e
  PROVE  entityAfter(u, f, e) = entityAfter(t, f, e)
<1>1. Entities(u, f) = Entities(t, f)
  BY DEF Entities, SameTree
<1>2. entityNumber(u, f) = entityNumber(t, f)
  BY <1>1 DEF entityNumber, SelectInSeq
<1> QED
  BY <1>1, <1>2 DEF entityAfter

LEMMA SameSkipped ==
  ASSUME NEW t, NEW u, SameTree(t, u), CallTree(t.frames)
  PROVE  Parsed(u) = Parsed(t)
<1> DEFINE N == Len(t.frames)
           B == {n \in 0..N : Skipped(u)[n] # Skipped(t)[n]}
<1>1. u.frames = t.frames /\ DOMAIN t.frames \subseteq 0..N
  BY DEF SameTree, CallTree
<1>2. SUFFICES ASSUME B # {} PROVE FALSE
  BY <1>1 DEF Parsed
<1>3. PICK n \in B : \A m \in B : ~(m < n)
  <2>1. B \in SUBSET Nat
    OBVIOUS
  <2> HIDE DEF B
  <2> QED
    BY <1>2, <2>1, SmallestNumber
<1>4. \A i \in 0..N :
        /\ Skipped(t)[i] = (i # 0 /\ (selfCall(t.frames[i]) \/ Skipped(t)[t.frames[i].parent]))
        /\ Skipped(u)[i] = (i # 0 /\ (selfCall(t.frames[i]) \/ Skipped(u)[t.frames[i].parent]))
  BY <1>1, SkippedStep
<1>5. n \in 1..N
  BY <1>4
<1>6. t.frames[n].parent \in 0..N /\ t.frames[n].parent < n
  BY <1>5, ParentBefore
<1>7. Skipped(u)[t.frames[n].parent] = Skipped(t)[t.frames[n].parent]
  BY <1>3, <1>6
<1> QED
  BY <1>4, <1>5, <1>7

LEMMA SameOwn ==
  ASSUME NEW t, NEW u, SameTree(t, u), CallTree(t.frames)
  PROVE  \A i \in DOMAIN t.frames : OwnEntity(u)[i] = OwnEntity(t)[i]
<1> DEFINE N == Len(t.frames)
           B == {n \in 0..N : OwnEntity(u)[n] # OwnEntity(t)[n]}
<1>1. SUFFICES ASSUME B # {} PROVE FALSE
  BY DEF CallTree
<1>2. PICK n \in B : \A m \in B : ~(m < n)
  <2>1. B \in SUBSET Nat
    OBVIOUS
  <2> HIDE DEF B
  <2> QED
    BY <1>1, <2>1, SmallestNumber
<1>3. u.frames = t.frames
  BY DEF SameTree
<1>4. \A i \in 0..N :
        /\ OwnEntity(t)[i] = IF i = 0 THEN None
             ELSE entityAfter(t, t.frames[i], OwnEntity(t)[t.frames[i].parent])
        /\ OwnEntity(u)[i] = IF i = 0 THEN None
             ELSE entityAfter(t, t.frames[i], OwnEntity(u)[t.frames[i].parent])
  <2>1. \A f, e : entityAfter(u, f, e) = entityAfter(t, f, e)
    BY SameEntity
  <2> QED
    BY <1>3, <2>1, OwnEntityStep
<1>5. n \in 1..N
  BY <1>4
<1>6. t.frames[n].parent \in 0..N /\ t.frames[n].parent < n
  BY <1>5, ParentBefore
<1>7. OwnEntity(u)[t.frames[n].parent] = OwnEntity(t)[t.frames[n].parent]
  BY <1>2, <1>6
<1> QED
  BY <1>4, <1>5, <1>7

-----------------------------------------------------------------------------
(* The rules of a frame.                                                    *)

LEMMA FrameViolates ==
  ASSUME NEW t, NEW f, NEW e
  PROVE  Violated(t, f, e) =
           (IF \/ checkOp011(t, f, e) \/ checkOp031(t, f, e) \/ checkOp080(t, f, e)
            THEN {"OP-011"} ELSE {})
           \union (IF checkOp020(t, f, e) THEN {"OP-020"} ELSE {})
           \union (IF checkOp041(t, f, e) THEN {"OP-041"} ELSE {})
           \union (IF checkOp054(t, f, e) \/ checkOp054ExtCode(t, f, e) THEN {"OP-054"} ELSE {})
           \union (IF checkOp061(t, f, e) THEN {"OP-061"} ELSE {})
           \union (IF checkOp062(t, f, e) THEN {"OP-062"} ELSE {})
           \union (IF checkErep050(t, f, e) THEN {"EREP-050"} ELSE {})
           \union (IF checkStorage(t, f, e) THEN {"STO-010"} ELSE {})
<1> DEFINE c == Checks(t, f, e)
<1>1. /\ c[1] = <<"OP-011", checkOp011(t, f, e)>> /\ c[2] = <<"OP-020", checkOp020(t, f, e)>>
      /\ c[3] = <<"OP-011", checkOp031(t, f, e)>> /\ c[4] = <<"OP-041", checkOp041(t, f, e)>>
      /\ c[5] = <<"OP-054", checkOp054(t, f, e)>>
      /\ c[6] = <<"OP-054", checkOp054ExtCode(t, f, e)>>
      /\ c[7] = <<"OP-061", checkOp061(t, f, e)>> /\ c[8] = <<"OP-062", checkOp062(t, f, e)>>
      /\ c[9] = <<"OP-011", checkOp080(t, f, e)>>
      /\ c[10] = <<"EREP-050", checkErep050(t, f, e)>>
      /\ c[11] = <<"STO-010", checkStorage(t, f, e)>>
  BY DEF Checks
<1> HIDE DEF c
<1>2. Violated(t, f, e) = {c[k][1] : k \in {n \in 1..11 : c[n][2]}}
  BY DEF Violated, c
<1>3. \A k \in 1..11 : k \in {1, 2, 3, 4, 5, 6, 7, 8, 9, 10, 11}
  OBVIOUS
<1> QED
  BY <1>1, <1>2, <1>3

\* A stake is asked for, never held against anybody.
LEMMA StakeKeepsRules ==
  ASSUME NEW t, NEW u, SameTree(t, u), NEW f, NEW e,
         \A n : isEntityStaked(t, n) => isEntityStaked(u, n)
  PROVE  Violated(u, f, e) \subseteq Violated(t, f, e)
<1>1. \A slot, addr : associatedWith(u, slot, addr) <=> associatedWith(t, slot, addr)
  BY DEF associatedWith, SameTree
<1>2. /\ checkOp011(u, f, e) => checkOp011(t, f, e)
      /\ checkOp020(u, f, e) => checkOp020(t, f, e)
      /\ checkOp041(u, f, e) => checkOp041(t, f, e)
      /\ checkOp054(u, f, e) => checkOp054(t, f, e)
      /\ checkOp054ExtCode(u, f, e) => checkOp054ExtCode(t, f, e)
      /\ checkOp061(u, f, e) => checkOp061(t, f, e)
      /\ checkOp062(u, f, e) => checkOp062(t, f, e)
  BY DEF SameTree, checkOp011, checkOp020, checkOp041, checkOp054, checkOp054ExtCode,
         checkOp061, checkOp062
<1>3. checkOp031(u, f, e) => checkOp031(t, f, e)
  BY DEF SameTree, checkOp031
<1>4. checkOp080(u, f, e) => checkOp080(t, f, e)
  BY DEF SameTree, checkOp080
<1>5. checkErep050(u, f, e) => checkErep050(t, f, e)
  BY DEF SameTree, checkErep050
<1>6. checkStorage(u, f, e) => checkStorage(t, f, e)
  <2>1. \A slot : allowedSlot(t, f, e, slot) => allowedSlot(u, f, e, slot)
    BY <1>1 DEF SameTree, allowedSlot
  <2> QED
    BY <2>1 DEF checkStorage
<1> QED
  BY <1>2, <1>3, <1>4, <1>5, <1>6, FrameViolates

\* For every trace: staking adds no violation to it.
LEMMA StakingAddsNothing ==
  ASSUME NEW t \in Trace, NEW e \in DOMAIN t.staked
  PROVE  Broken([t EXCEPT !.staked[e] = TRUE]) \subseteq Broken(t)
<1> DEFINE u == [t EXCEPT !.staked[e] = TRUE]
<1>1. /\ DOMAIN t = {"sender", "factory", "paymaster", "staked", "context", "keccak", "frames"}
      /\ t.staked \in [DOMAIN t.staked -> BOOLEAN]
      /\ CallTree(t.frames)
  BY Erc7562Assumption DEF Erc7562Assumption
<1>2. SameTree(t, u) /\ u.staked = [t.staked EXCEPT ![e] = TRUE]
  BY <1>1 DEF SameTree
<1> HIDE DEF u
<1>3. \A n : isEntityStaked(t, n) => isEntityStaked(u, n)
  BY <1>1, <1>2 DEF isEntityStaked
<1>4. Parsed(u) = Parsed(t) /\ u.frames = t.frames
  BY <1>1, <1>2, SameSkipped DEF SameTree
<1>5. \A i \in Parsed(t) : OwnEntity(u)[i] = OwnEntity(t)[i]
  BY <1>1, <1>2, SameOwn DEF Parsed
<1>6. \A f, d : Violated(u, f, d) \subseteq Violated(t, f, d)
  BY <1>2, <1>3, StakeKeepsRules
<1>7. Broken(u) \subseteq Broken(t)
  BY <1>4, <1>5, <1>6 DEF Broken
<1> QED
  BY <1>7 DEF u

LEMMA TraceIsOne == ParserSpec => [](trace \in Trace)
<1>1. ParserInit => trace \in Trace
  BY DEF ParserInit
<1>2. trace \in Trace /\ [ParserNext]_parserVars => (trace \in Trace)'
  BY DEF ParserNext, parserVars, RequireCompliance, ParseResults, Init7562, InnerStep, Ends,
         SkipFrame, Return
<1> QED
  BY <1>1, <1>2, PTL DEF ParserSpec

\* Whoever stakes, no operation that was accepted becomes a violation: a stake is
\* a privilege in every rule (ERC7562Parser.ts:117-133 and its uses).
THEOREM StakeNeverHurts == ParserSpec => []StakeOnlyHelps
<1>1. trace \in Trace => StakeOnlyHelps
  BY StakingAddsNothing DEF StakeOnlyHelps
<1> QED
  BY <1>1, TraceIsOne, PTL

-----------------------------------------------------------------------------
(* The current entity.                                                      *)

\* What the system's contracts call is not called, in turn, from within another
\* entity's call that goes on afterwards.
NoReentry ==
  \A t \in Trace : \A i \in Parsed(t) : ~changesEntity(t.frames[i]) =>
    \A j \in (t.frames[i].parent + 1)..(i - 1) : j \in Parsed(t) => ~changesEntity(t.frames[j])

LEMMA TraceType ==
  ASSUME NEW t \in Trace
  PROVE  /\ CallTree(t.frames) /\ Len(t.frames) \in Nat /\ DOMAIN t.frames = 1..Len(t.frames)
         /\ \A i \in DOMAIN t.frames : t.frames[i].parent \in 0..(i - 1)
BY Erc7562Assumption DEF Erc7562Assumption, CallTree

LEMMA ParentIsParsed ==
  ASSUME NEW t \in Trace, NEW i \in Parsed(t)
  PROVE  t.frames[i].parent = 0 \/ t.frames[i].parent \in Parsed(t)
<1>1. i \in 1..Len(t.frames) /\ ~Skipped(t)[i]
  BY TraceType DEF Parsed
<1>2. Skipped(t)[i] = (i # 0 /\ (selfCall(t.frames[i]) \/ Skipped(t)[t.frames[i].parent]))
  <2> DEFINE S(n) == n # 0 /\ (selfCall(t.frames[n]) \/ Skipped(t)[t.frames[n].parent])
  <2>1. Skipped(t) = [n \in 0..Len(t.frames) |-> S(n)]
    BY TraceType, SkippedStep
  <2>2. i \in 0..Len(t.frames)
    BY <1>1, TraceType
  <2> HIDE DEF S
  <2>3. Skipped(t)[i] = S(i)
    BY <2>1, <2>2
  <2> QED
    BY <2>3 DEF S
<1>3. ~Skipped(t)[t.frames[i].parent]
  <2>1. i # 0
    BY <1>1, TraceType
  <2> QED
    BY <1>1, <1>2, <2>1, Zenon
<1>4. t.frames[i].parent \in 0..(i - 1)
  BY <1>1, TraceType
<1> QED
  BY <1>1, <1>3, <1>4, TraceType DEF Parsed

\* Recursion does not restore the entity, yet the frame that was looked at last
\* left the one that belongs to the next.
LEMMA EntityIsOwn ==
  ASSUME NoReentry, NEW t \in Trace, NEW i \in Parsed(t), ~unknownEntity(t, t.frames[i]),
         NEW j \in 0..(i - 1), j = 0 \/ j \in Parsed(t),
         \A k \in (j + 1)..(i - 1) : k \notin Parsed(t)
  PROVE  entityAfter(t, t.frames[i], OwnEntity(t)[j]) = OwnEntity(t)[i]
<1> DEFINE p == t.frames[i].parent
           own == OwnEntity(t)
<1>1. i \in 1..Len(t.frames) /\ p \in 0..(i - 1) /\ Len(t.frames) \in Nat
  BY TraceType DEF Parsed
<1>2. \A m \in 1..Len(t.frames) :
        own[m] = entityAfter(t, t.frames[m], own[t.frames[m].parent])
  BY TraceType, OwnEntityStep
<1>3. CASE changesEntity(t.frames[i])
  BY <1>1, <1>2, <1>3 DEF entityAfter, unknownEntity
<1>4. CASE ~changesEntity(t.frames[i])
  <2>1. p <= j
    BY <1>1, ParentIsParsed
  <2> DEFINE B == {m \in p..(i - 1) : (m = p \/ m \in Parsed(t)) /\ own[m] # own[p]}
  <2>2. B = {}
    <3>1. SUFFICES ASSUME B # {} PROVE FALSE
      OBVIOUS
    <3>2. PICK m \in B : \A n \in B : ~(n < m)
      <4>1. B \in SUBSET Nat
        BY <1>1
      <4> HIDE DEF B
      <4> QED
        BY <3>1, <4>1, SmallestNumber
    <3>3. m \in (p + 1)..(i - 1) /\ m \in Parsed(t) /\ m \in 1..Len(t.frames)
      BY <1>1, <3>2
    <3>4. ~changesEntity(t.frames[m])
      BY <1>4, <3>3 DEF NoReentry
    <3>5. own[m] = own[t.frames[m].parent]
      BY <1>2, <3>3, <3>4 DEF entityAfter
    <3>6. t.frames[m].parent \in p..(m - 1)
      BY <1>1, <3>3, TraceType DEF CallTree
    <3>7. t.frames[m].parent = p \/ t.frames[m].parent \in Parsed(t)
      BY <1>1, <3>3, <3>6, ParentIsParsed
    <3>8. own[t.frames[m].parent] = own[p]
      BY <1>1, <3>2, <3>3, <3>6, <3>7
    <3> QED
      BY <3>2, <3>5, <3>8
  <2>3. own[j] = own[p]
    BY <1>1, <2>1, <2>2, ParentIsParsed
  <2>4. own[i] = own[p]
    BY <1>1, <1>2, <1>4 DEF entityAfter
  <2> QED
    BY <1>4, <2>3, <2>4 DEF entityAfter
<1> QED
  BY <1>3, <1>4

\* What WellFormed says of the calls by the system's contracts.
LEMMA EntityIsFound ==
  ASSUME NEW t, WellFormed(t), NEW i \in Parsed(t)
  PROVE  ~unknownEntity(t, t.frames[i])
<1> DEFINE f == t.frames[i]
           es == Entities(t, f)
           I == {k \in 1..Len(es) : es[k].address = f.to}
<1>1. SUFFICES ASSUME changesEntity(f) PROVE entityNumber(t, f) # 0
  BY DEF unknownEntity
<1>2. /\ es[1].address = t.sender /\ es[3].address = t.paymaster /\ es[4].address = EntryPoint
      /\ es[5].address = SenderCreator /\ es[6].address = NonceManager
      /\ f.from = SenderCreator => es[2].address = t.factory
      /\ Len(es) = 6
  BY DEF Entities
<1>3. I # {}
  BY <1>1, <1>2 DEF WellFormed, changesEntity
<1>4. I \subseteq Nat \ {0}
  BY <1>2
<1> HIDE DEF I
<1>5. \E n \in I : \A m \in I : n <= m
  <2>1. PICK n \in I : \A m \in I : ~(m < n)
    BY <1>3, <1>4, SmallestNumber
  <2> QED
    BY <1>4, <2>1
<1>6. Min(I) \in I
  BY <1>5 DEF Min
<1>7. entityNumber(t, f) = Min(I)
  BY <1>3 DEF entityNumber, SelectInSeq, I
<1> QED
  BY <1>4, <1>6, <1>7

-----------------------------------------------------------------------------
(* The verdict.                                                             *)

\* What the tree's first frames violate, each as part of its own entity.
FoundBefore(t, n) ==
  UNION {{i} \X Violated(t, t.frames[i], OwnEntity(t)[i]) : i \in {k \in Parsed(t) : k < n}}

\* While it runs, the parser has found what there is so far, and its entity is
\* that of the last frame it looked at.
Underway ==
  /\ outcome = "running"
  /\ at \in 1..(Len(trace.frames) + 1)
  /\ ruleViolations = FoundBefore(trace, at)
  /\ bailOnViolation => ruleViolations = {}
  /\ \E j \in 0..(at - 1) :
       /\ j = 0 \/ j \in Parsed(trace)
       /\ \A k \in (j + 1)..(at - 1) : k \notin Parsed(trace)
       /\ currentEntity = OwnEntity(trace)[j]

ParseInv ==
  /\ trace \in Trace
  /\ bailOnViolation \in BOOLEAN
  /\ method # Absent => Underway
  /\ VerdictIsRight

LEMMA NothingFirst ==
  ASSUME NEW t \in Trace
  PROVE  FoundBefore(t, 1) = {} /\ OwnEntity(t)[0] = None
<1>1. {k \in Parsed(t) : k < 1} = {}
  BY TraceType DEF Parsed
<1>2. FoundBefore(t, 1) = {}
  BY <1>1 DEF FoundBefore
<1>3. OwnEntity(t)[0] = None
  BY TraceType, OwnEntityStep
<1> QED
  BY <1>2, <1>3

LEMMA NextLooked ==
  ASSUME NEW t \in Trace, NEW n \in Parsed(t)
  PROVE  FoundBefore(t, n + 1) =
           FoundBefore(t, n) \union ({n} \X Violated(t, t.frames[n], OwnEntity(t)[n]))
<1>1. {k \in Parsed(t) : k < n + 1} = {k \in Parsed(t) : k < n} \union {n}
  BY TraceType DEF Parsed
<1> QED
  BY <1>1 DEF FoundBefore

LEMMA NextSkipped ==
  ASSUME NEW t \in Trace, NEW n \in 1..Len(t.frames), n \notin Parsed(t)
  PROVE  FoundBefore(t, n + 1) = FoundBefore(t, n)
<1>1. {k \in Parsed(t) : k < n + 1} = {k \in Parsed(t) : k < n}
  BY TraceType DEF Parsed
<1> QED
  BY <1>1 DEF FoundBefore

LEMMA AllFound ==
  ASSUME NEW t \in Trace
  PROVE  FoundBefore(t, Len(t.frames) + 1) = Broken(t)
<1>1. {k \in Parsed(t) : k < Len(t.frames) + 1} = Parsed(t)
  BY TraceType DEF Parsed
<1> QED
  BY <1>1 DEF FoundBefore, Broken

\* Each call starts at the top of the tree.
LEMMA CallStarts ==
  ASSUME NEW m, NEW t \in Trace, Init7562(m, t), bailOnViolation' \in BOOLEAN
  PROVE  ParseInv'
<1>1. trace' = t /\ outcome' \in {"running", "thrown"} /\ ruleViolations' = {}
  BY DEF Init7562
<1>2. method' # Absent => Underway'
  <2> SUFFICES ASSUME method' # Absent PROVE Underway'
    OBVIOUS
  <2>1. outcome' = "running" /\ at' = 1 /\ currentEntity' = OwnEntity(t)[0]
    BY NothingFirst DEF Init7562
  <2>2. 0 \in 0..(at' - 1) /\ \A k \in (0 + 1)..(at' - 1) : k \notin Parsed(t)
    BY <2>1
  <2>3. at' \in 1..(Len(t.frames) + 1) /\ ruleViolations' = FoundBefore(t, at')
    BY <1>1, <2>1, TraceType, NothingFirst
  <2> QED
    BY <1>1, <2>1, <2>2, <2>3 DEF Underway
<1>3. VerdictIsRight'
  <2>1. outcome' = "thrown" => ~WellFormed(t)
    BY TraceType DEF Init7562, WellFormed
  <2> QED
    BY <1>1, <2>1 DEF VerdictIsRight
<1> QED
  BY <1>1, <1>2, <1>3 DEF ParseInv

LEMMA InnerStepKeeps ==
  ASSUME NoReentry, ParseInv, InnerStep
  PROVE  ParseInv'
<1> DEFINE f == trace.frames[at]
           e == entityAfter(trace, f, currentEntity)
<1>1. /\ trace \in Trace /\ trace' = trace /\ bailOnViolation \in BOOLEAN
      /\ bailOnViolation' = bailOnViolation /\ Underway
  BY DEF ParseInv, InnerStep, Ends
<1>2. at \in Parsed(trace) /\ at \in 1..Len(trace.frames) /\ Len(trace.frames) \in Nat
  BY <1>1, TraceType DEF InnerStep, Underway, Parsed
<1>3. CASE unknownEntity(trace, f)
  <2>1. ~WellFormed(trace)
    BY <1>2, <1>3, EntityIsFound
  <2>2. outcome' = "thrown" /\ method' = Absent
    BY <1>3 DEF InnerStep, Ends
  <2> QED
    BY <1>1, <2>1, <2>2 DEF ParseInv, VerdictIsRight
<1>4. CASE ~unknownEntity(trace, f)
  <2>1. PICK j \in 0..(at - 1) : /\ j = 0 \/ j \in Parsed(trace)
                                 /\ \A k \in (j + 1)..(at - 1) : k \notin Parsed(trace)
                                 /\ currentEntity = OwnEntity(trace)[j]
    BY <1>1 DEF Underway
  <2>2. e = OwnEntity(trace)[at]
    BY <1>1, <1>2, <1>4, <2>1, EntityIsOwn
  <2>3. ruleViolations' = ruleViolations \union ({at} \X Violated(trace, f, e))
    BY <1>4 DEF InnerStep
  <2>4. ruleViolations' = FoundBefore(trace, at + 1)
    BY <1>1, <1>2, <2>2, <2>3, NextLooked DEF Underway
  <2>5. CASE bailOnViolation /\ Violated(trace, f, e) # {}
    <3>1. outcome' = "thrown" /\ method' = Absent
      BY <1>4, <2>5 DEF InnerStep, Ends
    <3>2. Broken(trace) # {}
      <4>1. PICK r : r \in Violated(trace, f, e)
        BY <2>5
      <4>2. <<at, r>> \in Broken(trace)
        BY <1>2, <2>2, <4>1 DEF Broken
      <4> QED
        BY <4>2
    <3> QED
      BY <1>1, <3>1, <3>2 DEF ParseInv, VerdictIsRight
  <2>6. CASE ~(bailOnViolation /\ Violated(trace, f, e) # {})
    <3>1. /\ at' = at + 1 /\ currentEntity' = e /\ outcome' = outcome
      BY <1>4, <2>6 DEF InnerStep
    <3>2. bailOnViolation' => ruleViolations' = {}
      BY <1>1, <2>3, <2>6 DEF Underway
    <3>3. \A k \in (at + 1)..at : k \notin Parsed(trace)
      BY <1>2
    <3>4. Underway'
      BY <1>1, <1>2, <2>2, <2>4, <3>1, <3>2, <3>3 DEF Underway
    <3> QED
      BY <1>1, <3>1, <3>4 DEF ParseInv, VerdictIsRight, Underway
  <2> QED
    BY <2>5, <2>6
<1> QED
  BY <1>3, <1>4

LEMMA SkipFrameKeeps ==
  ASSUME ParseInv, SkipFrame
  PROVE  ParseInv'
<1>1. /\ trace \in Trace /\ Underway /\ at' = at + 1
      /\ UNCHANGED <<bailOnViolation, method, trace, currentEntity, ruleViolations, outcome>>
  BY DEF ParseInv, SkipFrame
<1>2. at \notin Parsed(trace) /\ at \in 1..Len(trace.frames) /\ Len(trace.frames) \in Nat
  BY <1>1, TraceType DEF SkipFrame, Underway, Parsed
<1>3. ruleViolations' = FoundBefore(trace, at + 1)
  BY <1>1, <1>2, NextSkipped DEF Underway
<1>4. PICK j \in 0..(at - 1) : /\ j = 0 \/ j \in Parsed(trace)
                               /\ \A k \in (j + 1)..(at - 1) : k \notin Parsed(trace)
                               /\ currentEntity = OwnEntity(trace)[j]
  BY <1>1 DEF Underway
<1>5. j \in 0..(at' - 1) /\ \A k \in (j + 1)..(at' - 1) : k \notin Parsed(trace)
  BY <1>1, <1>2, <1>4
<1>6. Underway'
  BY <1>1, <1>2, <1>3, <1>4, <1>5 DEF Underway
<1> QED
  BY <1>1, <1>6 DEF ParseInv, VerdictIsRight

LEMMA ReturnKeeps ==
  ASSUME ParseInv, Return
  PROVE  ParseInv'
<1>1. /\ trace \in Trace /\ Underway /\ trace' = trace /\ ruleViolations' = ruleViolations
      /\ method' = Absent /\ outcome' = "returned"
  BY DEF ParseInv, Return, Ends
<1>2. at = Len(trace.frames) + 1
  BY <1>1, TraceType DEF Return, Underway
<1>3. ruleViolations = Broken(trace)
  BY <1>1, <1>2, AllFound DEF Underway
<1>4. bailOnViolation' \in BOOLEAN /\ (bailOnViolation' => bailOnViolation)
  BY DEF Return
<1> QED
  BY <1>1, <1>3, <1>4 DEF ParseInv, VerdictIsRight, Underway

LEMMA ParseInvHolds == ASSUME NoReentry PROVE ParserSpec => []ParseInv
<1>1. ParserInit => ParseInv
  BY DEF ParserInit, ParseInv, VerdictIsRight
<1>2. ParseInv /\ [ParserNext]_parserVars => ParseInv'
  <2> SUFFICES ASSUME ParseInv, [ParserNext]_parserVars PROVE ParseInv'
    OBVIOUS
  <2>1. ASSUME NEW t \in Trace, RequireCompliance(t) PROVE ParseInv'
    BY <2>1, CallStarts DEF RequireCompliance
  <2>2. ASSUME NEW t \in Trace, ParseResults(t) PROVE ParseInv'
    BY <2>2, CallStarts DEF ParseResults, ParseInv
  <2>3. CASE InnerStep
    BY <2>3, InnerStepKeeps
  <2>4. CASE SkipFrame
    BY <2>4, SkipFrameKeeps
  <2>5. CASE Return
    BY <2>5, ReturnKeeps
  <2>6. CASE UNCHANGED parserVars
    BY <2>6 DEF parserVars, ParseInv, Underway, VerdictIsRight
  <2> QED
    BY <2>1, <2>2, <2>3, <2>4, <2>5, <2>6 DEF ParserNext
<1> QED
  BY <1>1, <1>2, PTL DEF ParserSpec

\* Although one variable holds the current entity and recursion does not restore
\* it, a call that returns has found exactly the violations of the tree, and one
\* that bails does so only for one of them (ERC7562Parser.ts:63-99, 250-281).
THEOREM TheVerdictIsRight == ASSUME NoReentry PROVE ParserSpec => []VerdictIsRight
<1>1. ParseInv => VerdictIsRight
  BY DEF ParseInv
<1> QED
  BY <1>1, ParseInvHolds, PTL

-----------------------------------------------------------------------------
(* What an accepted operation does.                                         *)

LEMMA AcceptedBreaksNothing ==
  ASSUME ParseInv, Accepted, NEW i \in Parsed(trace)
  PROVE  LET f == trace.frames[i]
             e == OwnEntity(trace)[i]
         IN  ~checkOp031(trace, f, e) /\ ~checkStorage(trace, f, e)
<1> DEFINE f == trace.frames[i]
           e == OwnEntity(trace)[i]
<1>1. Broken(trace) = {}
  BY DEF ParseInv, VerdictIsRight, Accepted
<1>2. Violated(trace, f, e) = {}
  <2> SUFFICES ASSUME NEW r \in Violated(trace, f, e) PROVE FALSE
    OBVIOUS
  <2>1. <<i, r>> \in Broken(trace)
    BY DEF Broken
  <2> QED
    BY <1>1, <2>1
<1> QED
  BY <1>2, FrameViolates

\* An entity is found at an address, and a call goes to an address.
LEMMA FactoryIsThere ==
  ASSUME NEW t \in Trace, NEW i \in Parsed(t), OwnEntity(t)[i].name = "factory"
  PROVE  t.factory # Absent
<1> DEFINE own == OwnEntity(t)
           B == {m \in 0..Len(t.frames) : own[m].name = "factory"}
<1>1. Len(t.frames) \in Nat /\ i \in B
  BY TraceType DEF Parsed
<1>2. PICK m \in B : \A n \in B : ~(n < m)
  <2>1. B \in SUBSET Nat
    BY <1>1
  <2> HIDE DEF B
  <2> QED
    BY <1>1, <2>1, SmallestNumber
<1>3. own[0] = None
  BY TraceType, OwnEntityStep
<1>4. m \in 1..Len(t.frames)
  BY <1>1, <1>2, <1>3 DEF None
<1> DEFINE f == t.frames[m]
           es == Entities(t, f)
           k == entityNumber(t, f)
<1>5. f.parent \in 0..(m - 1) /\ f.to # Absent
  BY <1>4, TraceType DEF CallTree
<1>6. own[m] = entityAfter(t, f, own[f.parent])
  BY <1>4, TraceType, OwnEntityStep
<1>7. own[m] # own[f.parent]
  BY <1>1, <1>2, <1>4, <1>5
<1>8. k # 0 /\ own[m] = es[k]
  BY <1>6, <1>7 DEF entityAfter
<1>9. k \in 1..6 /\ es[k].address = f.to
  <2> DEFINE I == {n \in 1..Len(es) : es[n].address = f.to}
  <2>1. Len(es) = 6 /\ I \in SUBSET Nat
    BY DEF Entities
  <2>2. I # {} /\ k = Min(I)
    BY <1>8 DEF entityNumber, SelectInSeq
  <2>3. Min(I) \in I
    <3> HIDE DEF I
    <3>1. PICK n \in I : \A l \in I : ~(l < n)
      BY <2>1, <2>2, SmallestNumber
    <3>2. \A l \in I : n <= l
      BY <2>1, <3>1
    <3> QED
      BY <3>2 DEF Min
  <2> QED
    BY <2>1, <2>2, <2>3
<1>10. es[k].name = "factory"
  BY <1>2, <1>8
<1>11. k = 2
  BY <1>9, <1>10 DEF Entities
<1>12. es[2].address = IF f.from = SenderCreator THEN t.factory ELSE Absent
  BY DEF Entities
<1> QED
  BY <1>5, <1>9, <1>11, <1>12

\* Nothing an accepted operation's unstaked entities do, in whatever contract their
\* calls end up, depends on storage other than that of the account and what is
\* associated with it (ERC7562Parser.ts:616-685); of delegated code this says
\* nothing, as its storage is its caller's.
THEOREM UnstakedStayAtTheSender == ASSUME NoReentry PROVE ParserSpec => []UnstakedTouchSenderOnly
<1>1. ParseInv => UnstakedTouchSenderOnly
  <2> SUFFICES ASSUME ParseInv, Accepted, NEW i \in EntityFrames(trace)
               PROVE  LET f == trace.frames[i]
                      IN  \/ isEntityStaked(trace, OwnEntity(trace)[i].name)
                          \/ f.to \in {EntryPoint, NonceManager, trace.sender}
                          \/ \A slot \in f.reads \union f.writes :
                               associatedWith(trace, slot, trace.sender)
    BY DEF UnstakedTouchSenderOnly
  <2>1. ~checkStorage(trace, trace.frames[i], OwnEntity(trace)[i])
    BY AcceptedBreaksNothing DEF EntityFrames
  <2> QED
    BY <2>1 DEF checkStorage, allowedSlot
<1> QED
  BY <1>1, ParseInvHolds, PTL

\* CREATE2 is used only to deploy the sender and in the factory's phase, unless a
\* staked factory is there; without a factory nothing is created
\* (ERC7562Parser.ts:350).
THEOREM OnlyTheSenderIsDeployed == ASSUME NoReentry PROVE ParserSpec => []OnlySenderDeployed
<1>1. ParseInv => OnlySenderDeployed
  <2> SUFFICES ASSUME ParseInv, Accepted, ~isEntityStaked(trace, "factory"),
                      NEW i \in EntityFrames(trace)
               PROVE  LET f == trace.frames[i]
                      IN  /\ f.type = "CREATE2" => /\ f.to = trace.sender
                                                   /\ OwnEntity(trace)[i].name = "factory"
                          /\ f.type = "CREATE" => trace.factory # Absent
    BY DEF OnlySenderDeployed
  <2>1. i \in Parsed(trace) /\ trace \in Trace
    BY DEF EntityFrames, ParseInv
  <2>2. ~checkOp031(trace, trace.frames[i], OwnEntity(trace)[i])
    BY <2>1, AcceptedBreaksNothing
  <2>3. OwnEntity(trace)[i].name = "factory" => trace.factory # Absent
    BY <2>1, FactoryIsThere
  <2> QED
    BY <2>2, <2>3 DEF checkOp031
<1> QED
  BY <1>1, ParseInvHolds, PTL
=============================================================================
