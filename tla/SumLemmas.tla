------------------------------ MODULE SumLemmas ------------------------------
(* What MapThenSumSet computes over a finite set, whichever element it takes *)
(* next: lemmas for the proofs about gas, prefunds and deposits.            *)
(* Induction over the subsets of a finite set, and over the numbers, is by  *)
(* a smallest counterexample (SmallestSet, SmallestNumber).                 *)
EXTENDS FiniteSetsExt, FiniteSetTheorems, WellFoundedInduction, TLAPS

LEMMA SmallestSet ==
  ASSUME NEW S, IsFiniteSet(S), NEW B \in SUBSET SUBSET S, B # {}
  PROVE  \E T \in B : \A U \in B : ~(U \subseteq T /\ U # T)
<1>1. IsWellFoundedOn(StrictSubsetOrdering(S), FiniteSubsetsOf(S))
  BY FS_StrictSubsetOrderingWellFounded
<1>2. B \subseteq FiniteSubsetsOf(S)
  BY FS_Subset DEF FiniteSubsetsOf
<1>3. \E T \in B : \A U \in B : <<U, T>> \notin StrictSubsetOrdering(S)
  BY <1>1, <1>2, WFMin
<1> QED
  BY <1>3, <1>2 DEF StrictSubsetOrdering, FiniteSubsetsOf

\* The same over the numbers.
LEMMA SmallestNumber ==
  ASSUME NEW B \in SUBSET Nat, B # {}
  PROVE  \E n \in B : \A m \in B : ~(m < n)
<1>1. \E n \in B : \A m \in B : <<m, n>> \notin OpToRel(<, Nat)
  BY NatLessThanWellFounded, WFMin, Zenon
<1> QED
  BY <1>1 DEF OpToRel

-----------------------------------------------------------------------------
(* The partial sums that the fold defines by recursion over subsets.        *)

Taken(s) == CHOOSE x \in s : TRUE

SumsUp(w, S, h) ==
  h = [s \in SUBSET S |-> IF s = {} THEN 0 ELSE w[Taken(s)] + h[s \ {Taken(s)}]]

Total(w, S) == (CHOOSE h : SumsUp(w, S, h))[S]

LEMMA TakenIn ==
  ASSUME NEW s, s # {}
  PROVE  Taken(s) \in s
BY DEF Taken

LEMMA SumsUpStep ==
  ASSUME NEW w, NEW S, NEW h, SumsUp(w, S, h), NEW s \in SUBSET S
  PROVE  h[s] = IF s = {} THEN 0 ELSE w[Taken(s)] + h[s \ {Taken(s)}]
BY DEF SumsUp

\* Two tables of partial sums agree where both are defined.
LEMMA SumsUpAgree ==
  ASSUME NEW w, NEW S, NEW T, NEW g, NEW h, IsFiniteSet(S), T \subseteq S,
         SumsUp(w, S, g), SumsUp(w, T, h)
  PROVE  g[T] = h[T]
<1> DEFINE B == {s \in SUBSET T : g[s] # h[s]}
<1>1. SUFFICES ASSUME B # {} PROVE FALSE
  OBVIOUS
<1>2. IsFiniteSet(T)
  BY FS_Subset
<1>3. PICK s \in B : \A u \in B : ~(u \subseteq s /\ u # s)
  <2>1. B \in SUBSET SUBSET T
    OBVIOUS
  <2> HIDE DEF B
  <2> QED
    BY <1>1, <1>2, <2>1, SmallestSet
<1>4. s \in SUBSET T /\ s \in SUBSET S /\ g[s] # h[s]
  OBVIOUS
<1>5. s # {}
  BY <1>4, SumsUpStep
<1>6. g[s \ {Taken(s)}] = h[s \ {Taken(s)}]
  BY <1>3, <1>5, TakenIn
<1> HIDE DEF B
<1>7. g[s] = IF s = {} THEN 0 ELSE w[Taken(s)] + g[s \ {Taken(s)}]
  BY <1>4, SumsUpStep
<1>8. h[s] = IF s = {} THEN 0 ELSE w[Taken(s)] + h[s \ {Taken(s)}]
  BY <1>4, SumsUpStep
<1> QED
  BY <1>4, <1>5, <1>6, <1>7, <1>8

\* There is such a table for every finite set.
LEMMA SumsUpExists ==
  ASSUME NEW w, NEW S, IsFiniteSet(S)
  PROVE  \E h : SumsUp(w, S, h)
<1> DEFINE B == {s \in SUBSET S : ~ \E h : SumsUp(w, s, h)}
<1>1. SUFFICES ASSUME B # {} PROVE FALSE
  OBVIOUS
<1>2. PICK t \in B : \A u \in B : ~(u \subseteq t /\ u # t)
  <2>1. B \in SUBSET SUBSET S
    OBVIOUS
  <2> HIDE DEF B
  <2> QED
    BY <1>1, <2>1, SmallestSet
<1> DEFINE H(s) == CHOOSE h : SumsUp(w, s, h)
           below(s) == IF s = {} THEN 0
                       ELSE w[Taken(s)] + H(s \ {Taken(s)})[s \ {Taken(s)}]
           g == [s \in SUBSET t |-> below(s)]
<1>3. \A s \in SUBSET t : s # t => SumsUp(w, s, H(s))
  BY <1>2
<1>4. \A s \in SUBSET t : s # t => g[s] = H(s)[s]
  <2> SUFFICES ASSUME NEW s \in SUBSET t, s # t PROVE g[s] = H(s)[s]
    OBVIOUS
  <2>1. SumsUp(w, s, H(s))
    BY <1>3
  <2>2. CASE s = {}
    BY <2>1, <2>2, SumsUpStep
  <2>3. CASE s # {}
    <3> DEFINE r == s \ {Taken(s)}
    <3>1. r \in SUBSET t /\ r # t /\ r \subseteq s
      BY <2>3, TakenIn
    <3>2. SumsUp(w, r, H(r))
      BY <1>3, <3>1
    <3>3. IsFiniteSet(s)
      BY FS_Subset
    <3>4. H(s)[r] = H(r)[r]
      BY <2>1, <3>1, <3>2, <3>3, SumsUpAgree
    <3>5. H(s)[s] = w[Taken(s)] + H(s)[r]
      BY <2>1, <2>3, SumsUpStep
    <3> QED
      BY <2>3, <3>4, <3>5
  <2> QED
    BY <2>2, <2>3
<1>5. SumsUp(w, t, g)
  <2>1. ASSUME NEW s \in SUBSET t
        PROVE  below(s) = IF s = {} THEN 0 ELSE w[Taken(s)] + g[s \ {Taken(s)}]
    <3>1. CASE s = {}
      BY <3>1
    <3>2. CASE s # {}
      <4>1. s \ {Taken(s)} \in SUBSET t /\ s \ {Taken(s)} # t
        BY <3>2, TakenIn
      <4> DEFINE r == s \ {Taken(s)}
      <4>2. g[r] = H(r)[r]
        BY <1>4, <4>1
      <4> HIDE DEF g
      <4> QED
        BY <3>2, <4>2
    <3> QED
      BY <3>1, <3>2
  <2>2. g = [s \in SUBSET t |-> below(s)]
    OBVIOUS
  <2> HIDE DEF g, below
  <2> QED
    BY <2>1, <2>2 DEF SumsUp
<1> QED
  BY <1>2, <1>5

LEMMA TotalStep ==
  ASSUME NEW w, NEW S, IsFiniteSet(S)
  PROVE  Total(w, S) = IF S = {} THEN 0 ELSE w[Taken(S)] + Total(w, S \ {Taken(S)})
<1> DEFINE H(s) == CHOOSE h : SumsUp(w, s, h)
           r == S \ {Taken(S)}
<1>1. SumsUp(w, S, H(S))
  BY SumsUpExists
<1>2. IsFiniteSet(r) /\ r \subseteq S
  BY FS_Subset
<1>3. SumsUp(w, r, H(r))
  BY <1>2, SumsUpExists
<1>4. H(S)[r] = H(r)[r]
  BY <1>1, <1>2, <1>3, SumsUpAgree
<1>5. H(S)[S] = IF S = {} THEN 0 ELSE w[Taken(S)] + H(S)[r]
  BY <1>1, SumsUpStep
<1> QED
  BY <1>4, <1>5 DEF Total

LEMMA TotalEmpty ==
  ASSUME NEW w
  PROVE  Total(w, {}) = 0
BY TotalStep, FS_EmptySet

LEMMA TotalType ==
  ASSUME NEW w, NEW S, IsFiniteSet(S), \A x \in S : w[x] \in Nat
  PROVE  Total(w, S) \in Nat
<1> DEFINE B == {s \in SUBSET S : Total(w, s) \notin Nat}
<1>1. SUFFICES ASSUME B # {} PROVE FALSE
  OBVIOUS
<1>2. PICK t \in B : \A u \in B : ~(u \subseteq t /\ u # t)
  <2>1. B \in SUBSET SUBSET S
    OBVIOUS
  <2> HIDE DEF B
  <2> QED
    BY <1>1, <2>1, SmallestSet
<1> DEFINE r == t \ {Taken(t)}
<1>3. t \in SUBSET S /\ Total(w, t) \notin Nat /\ IsFiniteSet(t)
  BY FS_Subset
<1>4. Total(w, t) = IF t = {} THEN 0 ELSE w[Taken(t)] + Total(w, r)
  BY <1>3, TotalStep
<1>5. t # {} /\ Taken(t) \in t
  BY <1>3, <1>4, TakenIn
<1>6. Total(w, r) \in Nat
  BY <1>2, <1>3, <1>5
<1> QED
  BY <1>3, <1>4, <1>5, <1>6

\* Any element may be taken first.
LEMMA TotalRemove ==
  ASSUME NEW w, NEW S, IsFiniteSet(S), \A x \in S : w[x] \in Nat, NEW y \in S
  PROVE  Total(w, S) = w[y] + Total(w, S \ {y})
<1> DEFINE B == {s \in SUBSET S : \E x \in s : Total(w, s) # w[x] + Total(w, s \ {x})}
<1>1. SUFFICES ASSUME B # {} PROVE FALSE
  OBVIOUS
<1>2. PICK t \in B : \A u \in B : ~(u \subseteq t /\ u # t)
  <2>1. B \in SUBSET SUBSET S
    OBVIOUS
  <2> HIDE DEF B
  <2> QED
    BY <1>1, <2>1, SmallestSet
<1>3. PICK x \in t : Total(w, t) # w[x] + Total(w, t \ {x})
  OBVIOUS
<1> DEFINE z == Taken(t)
<1>4. t \in SUBSET S /\ IsFiniteSet(t) /\ z \in t
  BY FS_Subset, TakenIn
<1>5. Total(w, t) = w[z] + Total(w, t \ {z})
  BY <1>4, TotalStep
<1>6. x # z
  BY <1>3, <1>5
<1>7. t \ {z} \in SUBSET S /\ t \ {z} # t /\ t \ {x} \in SUBSET S /\ t \ {x} # t
  BY <1>4
<1>8. Total(w, t \ {z}) = w[x] + Total(w, (t \ {z}) \ {x})
  <2>1. x \in t \ {z} /\ t \ {z} \notin B
    <3>1. t \ {z} \subseteq t
      OBVIOUS
    <3> HIDE DEF B
    <3> QED
      BY <1>2, <1>3, <1>6, <1>7, <3>1
  <2> QED
    BY <1>7, <2>1
<1>9. Total(w, t \ {x}) = w[z] + Total(w, (t \ {x}) \ {z})
  BY <1>2, <1>4, <1>6, <1>7
<1>10. (t \ {z}) \ {x} = (t \ {x}) \ {z}
  OBVIOUS
<1>11. Total(w, (t \ {z}) \ {x}) \in Nat
  BY <1>4, FS_Subset, TotalType
<1>12. w[x] \in Nat /\ w[z] \in Nat
  BY <1>4
<1>13. Total(w, t) = w[z] + (w[x] + Total(w, (t \ {z}) \ {x}))
  BY <1>5, <1>8
<1>14. Total(w, t \ {x}) = w[z] + Total(w, (t \ {z}) \ {x})
  BY <1>9, <1>10
<1> HIDE DEF B, z
<1> QED
  BY <1>3, <1>11, <1>12, <1>13, <1>14

LEMMA TotalAdd ==
  ASSUME NEW w, NEW S, IsFiniteSet(S), NEW y, y \notin S,
         \A x \in S \union {y} : w[x] \in Nat
  PROVE  Total(w, S \union {y}) = w[y] + Total(w, S)
<1>1. IsFiniteSet(S \union {y})
  BY FS_AddElement
<1>2. (S \union {y}) \ {y} = S
  OBVIOUS
<1> QED
  BY <1>1, <1>2, TotalRemove

LEMMA TotalSubset ==
  ASSUME NEW w, NEW S, IsFiniteSet(S), \A x \in S : w[x] \in Nat, NEW T \in SUBSET S
  PROVE  Total(w, T) <= Total(w, S)
<1> DEFINE B == {s \in SUBSET S : T \subseteq s /\ ~(Total(w, T) <= Total(w, s))}
<1>1. SUFFICES ASSUME B # {} PROVE FALSE
  OBVIOUS
<1>2. PICK t \in B : \A u \in B : ~(u \subseteq t /\ u # t)
  <2>1. B \in SUBSET SUBSET S
    OBVIOUS
  <2> HIDE DEF B
  <2> QED
    BY <1>1, <2>1, SmallestSet
<1>3. t \in SUBSET S /\ T \subseteq t /\ ~(Total(w, T) <= Total(w, t))
  OBVIOUS
<1>4. Total(w, t) \in Nat /\ Total(w, T) \in Nat /\ IsFiniteSet(t)
  BY <1>3, FS_Subset, TotalType
<1>5. t # T
  BY <1>3, <1>4
<1>6. PICK x \in t : x \notin T
  BY <1>3, <1>5
<1>7. Total(w, t) = w[x] + Total(w, t \ {x})
  BY <1>3, <1>4, TotalRemove
<1>8. Total(w, T) <= Total(w, t \ {x})
  BY <1>2, <1>3, <1>6
<1>9. Total(w, t \ {x}) \in Nat
  BY <1>3, FS_Subset, TotalType
<1>10. w[x] \in Nat
  BY <1>3
<1> QED
  BY <1>3, <1>4, <1>7, <1>8, <1>9, <1>10
=============================================================================
